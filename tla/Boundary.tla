------------------------------ MODULE Boundary ------------------------------
(***************************************************************************)
(* The boundary tracker of src/screen.rs and the filter Screen::process()  *)
(* puts between the child's bytes and the vt100 parser.  The tracker tells *)
(* whether the stream is between control sequences; the filter keeps a     *)
(* control string that is too long, or cancelled, from reaching the screen *)
(* model: the parser is reset by a CAN of the filter's own, and what its   *)
(* callbacks did since the string began is rolled back.                    *)
(*                                                                         *)
(* One action handles one byte of a chunk.  The callbacks are represented  *)
(* by the title, of which it matters whether it came from a whole string   *)
(* (one of two texts, or none yet) or from a part of one.                  *)
(***************************************************************************)
EXTENDS Integers, Sequences, Ecma48, Titles

CONSTANTS MaxString     \* MAX_CONTROL_STRING_BYTES

ASSUME BoundaryAssumption == MaxString \in Nat

VARIABLES
    tracker,        \* BoundaryTracker.state
    parser,         \* where the vt100 parser stands
    title,          \* Callbacks.title
    checkpoint      \* Screen.control_checkpoint: the title, or NoTitle

boundaryVars == <<tracker, parser, title, checkpoint>>

NoTitle == -1
Partial == 2        \* a title taken from a string that did not end properly
Whole == {0, 1, NoText}

Sequence(seq) == [seq |-> seq, osc |-> FALSE, escape |-> FALSE, bytes |-> 0, discarded |-> FALSE]
String(osc) == [Sequence("string") EXCEPT !.osc = osc]

TrackerStates ==
    {Sequence(s) : s \in {"ground", "escape", "csi"}}
    \cup [seq : {"string"}, osc : BOOLEAN, escape : BOOLEAN,
          bytes : 0..(MaxString + 1), discarded : BOOLEAN]

-----------------------------------------------------------------------------
(* BoundaryTracker::byte() *)

FromGround(byte) ==
    CASE byte = "ESC"           -> Sequence("escape")
      [] byte = "9B"            -> Sequence("csi")
      [] byte \in {"90", "9D"}  -> String(byte = "9D")
      [] OTHER                  -> Sequence("ground")

MutFromEscape(byte) ==
    CASE byte = "["             -> Sequence("csi")
      [] byte \in {"]", "P"}    -> String(byte = "]")
      [] OTHER                  -> Sequence("ground")

FromEscape(byte) ==
    CASE byte = "["             -> Sequence("csi")
      [] byte \in {"]", "P"}    -> String(byte = "]")
      [] byte = "inter"         -> Sequence("escape")
      [] OTHER                  -> Sequence("ground")

FromCsi(byte) ==
    CASE byte \in {"CAN", "text", "[", "]", "P", "\\"} -> Sequence("ground")
      [] byte = "ESC" -> Sequence("escape")
      [] OTHER        -> Sequence("csi")

MutEndsNotByCan(t, byte) ==
    \/ byte = "9C"
    \/ t.osc /\ byte = "BEL"
    \/ t.escape /\ byte = "\\"

MutEndsNotByC1(t, byte) ==
    \/ byte = "CAN"
    \/ t.osc /\ byte = "BEL"
    \/ t.escape /\ byte = "\\"

EndsString(t, byte) ==
    \/ byte \in {"CAN", "9C"}
    \/ t.osc /\ byte = "BEL"
    \/ t.escape /\ byte = "\\"

\* The count stops where it can no longer be told from a larger one.
FromString(t, byte) ==
    IF EndsString(t, byte) THEN Sequence("ground")
    ELSE [t EXCEPT !.escape = (byte = "ESC"),
                   !.bytes = IF @ > MaxString THEN @ ELSE @ + 1,
                   !.discarded = @ \/ t.bytes >= MaxString]

Track(t, byte) ==
    CASE t.seq = "ground" -> FromGround(byte)
      [] t.seq = "escape" -> FromEscape(byte)
      [] t.seq = "csi"    -> FromCsi(byte)
      [] t.seq = "string" -> FromString(t, byte)

Ground == tracker.seq = "ground"        \* ground()

-----------------------------------------------------------------------------
(* BoundaryTracker::parser_byte() and Screen::process() *)

InString(t) == t.seq = "string"

Enters(next) == ~ InString(tracker) /\ InString(next)
Exits(next) == InString(tracker) /\ ~ InString(next)
InjectsReset(next) == ~ tracker.discarded /\ next.discarded

MutFilter(byte, next) ==
    IF tracker.discarded THEN <<>>
    ELSE CASE Enters(next) /\ byte = "9D" -> <<"ESC", "]">>
           [] Enters(next) /\ byte = "90" -> <<"ESC", "P">>
           [] Exits(next) /\ byte = "9C"  -> <<"ESC", "\\">>
           [] OTHER                       -> <<byte>>

\* The bytes the parser is given for `byte`: none while a string is being
\* discarded, CAN for the first byte over the limit, and the seven-bit form of
\* a C1 control that enters or leaves a string.
Filter(byte, next) ==
    IF tracker.discarded THEN <<>>
    ELSE IF InjectsReset(next) THEN <<"CAN">>
    ELSE CASE Enters(next) /\ byte = "9D" -> <<"ESC", "]">>
           [] Enters(next) /\ byte = "90" -> <<"ESC", "P">>
           [] Exits(next) /\ byte = "9C"  -> <<"ESC", "\\">>
           [] OTHER                       -> <<byte>>

\* The parser after one byte or two of them.
Parse(state, bytes) ==
    CASE Len(bytes) = 0 -> state
      [] Len(bytes) = 1 -> Terminal(FALSE, state, bytes[1])
      [] Len(bytes) = 2 -> Terminal(FALSE, Terminal(FALSE, state, bytes[1]), bytes[2])

\* The titles the parser's callback may set.  A string closed by ESC or BEL is
\* whole, but not a cancelled one, nor one that is cut off inside a character.
TitlesAfter(bytes) ==
    IF bytes = <<>> \/ ~ EndsOsc(parser, Terminal(FALSE, parser, bytes[1])) THEN {title}
    ELSE IF bytes[1] = "CAN" \/ parser = "wideOsc" THEN {Partial}
    ELSE {0, 1}

MutRollsBackExits(byte, next) == InjectsReset(next) \/ Exits(next)

\* The string is over the limit, or cancelled.
RollsBack(byte, next) == InjectsReset(next) \/ (Exits(next) /\ byte = "CAN")

Process(byte) ==
    LET next == Track(tracker, byte)
        fed == Filter(byte, next)
    IN  /\ tracker' = next
        /\ parser' = Parse(parser, fed)
        /\ title' \in IF RollsBack(byte, next) /\ checkpoint # NoTitle THEN {checkpoint}
                      ELSE TitlesAfter(fed)
        /\ checkpoint' = IF RollsBack(byte, next) \/ Exits(next) THEN NoTitle
                         ELSE IF Enters(next) THEN title
                         ELSE checkpoint

\* clear_detection_evidence(); a string that is under way keeps its checkpoint.
ClearTitle == title' = NoText /\ UNCHANGED <<tracker, parser, checkpoint>>

BoundaryInit ==
    /\ tracker = Sequence("ground")
    /\ parser = "ground"
    /\ title = NoText
    /\ checkpoint = NoTitle

BoundaryTypeOK ==
    /\ tracker \in TrackerStates
    /\ parser \in TerminalStates
    /\ title \in Whole \cup {Partial}
    /\ checkpoint \in Whole \cup {Partial, NoTitle}
=============================================================================
