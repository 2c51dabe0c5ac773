------------------------------- MODULE Ecma48 -------------------------------
(***************************************************************************)
(* A terminal's parser, as far as the boundaries of control sequences go:  *)
(* what the outer terminal and the vt100 crate do with a byte stream.      *)
(*                                                                         *)
(* Bytes are taken in classes: "text" is any final byte without a role of  *)
(* its own, "param" and "inter" are the ranges 0x30-0x3f and 0x20-0x2f,    *)
(* "P" stands for the introducers P X ^ _ of control strings, "90" for     *)
(* their C1 forms 90 98 9e 9f, "lead" for the first byte of a UTF-8        *)
(* character, and "cont" for a continuation byte that is no C1 control;    *)
(* CAN stands for SUB too.                                                 *)
(***************************************************************************)

C1 == {"9B", "9C", "9D", "90"}
Bytes == {"text", "param", "inter", "ESC", "[", "]", "P", "\\", "BEL", "CAN", "lead", "cont"} \cup C1

\* Bytes may be inserted in these without splitting a control sequence.
Between == {"ground", "wide"}

\* A control string, also inside a character of it.
Osc == {"osc", "wideOsc"}
Strings == Osc \cup {"string", "wideString"}

TerminalStates == Between \cup Strings \cup {"escape", "closing", "csi"}

\* What follows ESC.
AfterEscape(byte) ==
    CASE byte = "["     -> "csi"
      [] byte = "]"     -> "osc"
      [] byte = "P"     -> "string"
      [] byte = "inter" -> "escape"
      [] OTHER          -> "ground"

\* The C1 controls of a terminal that does not decode UTF-8.
EightBitControl(byte) ==
    CASE byte = "9B" -> "csi"
      [] byte = "9D" -> "osc"
      [] byte = "90" -> "string"
      [] byte = "9C" -> "ground"

\* ESC in a control string closes it and waits for the rest of ST.
Terminal(eightBit, state, byte) ==
    CASE byte = "CAN" -> "ground"
      [] byte = "ESC" -> IF state \in Strings THEN "closing" ELSE "escape"
      [] byte \in C1 /\ eightBit -> EightBitControl(byte)
      [] OTHER ->
            CASE state \in {"escape", "closing"} -> AfterEscape(byte)
              [] state = "ground" -> IF byte = "lead" THEN "wide" ELSE "ground"
              [] state = "wide" -> "ground"
              [] state = "csi" ->
                    IF byte \in {"text", "[", "]", "P", "\\"} THEN "ground" ELSE "csi"
              [] state = "osc" ->
                    IF byte = "BEL" THEN "ground" ELSE IF byte = "lead" THEN "wideOsc" ELSE "osc"
              [] state = "wideOsc" -> "osc"
              [] state = "string" -> IF byte = "lead" THEN "wideString" ELSE "string"
              [] state = "wideString" -> "string"

\* A title is set when an OSC string ends, however it ends.
EndsOsc(state, next) == state \in Osc /\ next \notin Osc
=============================================================================
