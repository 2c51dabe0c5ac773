---------------------------- MODULE OutputProofs ----------------------------
(***************************************************************************)
(* Proofs about the output path, for strings and queues of any size and    *)
(* terminals of both kinds: the boundary tracker, the terminal and the     *)
(* vt100 parser stay in step, so that reports go between sequences and no  *)
(* title is taken from a part of a string.                                 *)
(*                                                                         *)
(* Where a theorem assumes Plain, the child does not write ESC twice, nor  *)
(* characters whose bytes are C1 controls: with those the tracker loses    *)
(* the stream.                                                             *)
(***************************************************************************)
EXTENDS Output, SequenceTheorems, FiniteSetTheorems, TLAPS

Plain == ~ RepeatedEsc /\ Continuations = {"cont"}

Trackers == [seq : {"ground", "escape", "csi", "string"}, osc : BOOLEAN, escape : BOOLEAN,
             bytes : Nat, discarded : BOOLEAN]

\* Where the tracker and the parser stand when the terminal stands in `state`.
\* The parser knows no eight-bit CSI, and nothing of a string it was not given.
Together(state) ==
    CASE state = "ground" -> tracker.seq = "ground" /\ parser = "ground"
      [] state = "wide"   -> tracker.seq = "ground" /\ parser = "wide"
      [] state = "escape" -> tracker.seq = "escape" /\ parser = "escape"
      [] state = "csi"    -> tracker.seq = "csi" /\ parser \in {"csi", "ground"}
      [] state \in Strings \cup {"closing"} ->
            /\ tracker.seq = "string"
            /\ state \in Osc => tracker.osc
            /\ state \in {"string", "wideString"} => ~ tracker.osc
            /\ tracker.escape <=> state = "closing"
            /\ parser = IF tracker.discarded THEN "ground" ELSE state

StreamInv ==
    /\ tracker \in Trackers
    /\ tracker.seq # "string" => ~ tracker.discarded
    /\ terminal \in TerminalStates
    /\ eightBit \in BOOLEAN
    /\ Together(terminal)

-----------------------------------------------------------------------------
(* One byte of the child *)

LEMMA InitInStep == Init => StreamInv
  BY OutputAssumption
  DEF Init, BoundaryInit, StreamInv, Trackers, Sequence, Together, TerminalStates, Between, Strings,
      Osc

\* What the parser makes of the bytes it is given.
LEMMA Parsed ==
    ASSUME NEW state, NEW b
    PROVE  /\ Parse(state, <<>>) = state
           /\ Parse(state, <<b>>) = Terminal(FALSE, state, b)
  BY DEF Parse

\* Outside strings the parser is given the byte, or the seven-bit form of the
\* C1 control that opens a string.
LEMMA ParsedOutside ==
    ASSUME tracker.seq # "string", ~ tracker.discarded,
           NEW byte, NEW next, ~ next.discarded
    PROVE  Parse(parser, Filter(byte, next)) =
             IF next.seq = "string" /\ byte \in {"9D", "90"}
             THEN Terminal(FALSE, Terminal(FALSE, parser, "ESC"), IF byte = "9D" THEN "]" ELSE "P")
             ELSE Terminal(FALSE, parser, byte)
  <1>1. CASE next.seq = "string" /\ byte = "9D"
    <2>1. Filter(byte, next) = <<"ESC", "]">>
      BY <1>1 DEF Filter, InjectsReset, Enters, Exits, InString
    <2>2. Parse(parser, <<"ESC", "]">>) = Terminal(FALSE, Terminal(FALSE, parser, "ESC"), "]")
      BY DEF Parse
    <2> QED
      BY <1>1, <2>1, <2>2
  <1>2. CASE next.seq = "string" /\ byte = "90"
    <2>1. Filter(byte, next) = <<"ESC", "P">>
      BY <1>2 DEF Filter, InjectsReset, Enters, Exits, InString
    <2>2. Parse(parser, <<"ESC", "P">>) = Terminal(FALSE, Terminal(FALSE, parser, "ESC"), "P")
      BY DEF Parse
    <2> QED
      BY <1>2, <2>1, <2>2
  <1>3. CASE ~ (next.seq = "string" /\ byte \in {"9D", "90"})
    <2>1. Filter(byte, next) = <<byte>>
      BY <1>3 DEF Filter, InjectsReset, Enters, Exits, InString
    <2> QED
      BY <1>3, <2>1, Parsed
  <1> QED
    BY <1>1, <1>2, <1>3

LEMMA Sequences ==
    ASSUME NEW seq \in {"ground", "escape", "csi"}, NEW osc \in BOOLEAN
    PROVE  /\ Sequence(seq) \in Trackers
           /\ Sequence(seq).seq = seq /\ ~ Sequence(seq).discarded
           /\ String(osc) \in Trackers
           /\ String(osc).seq = "string" /\ String(osc).osc = osc
           /\ ~ String(osc).discarded /\ ~ String(osc).escape
  BY DEF Sequence, String, Trackers

\* The states that are entered outside strings.
LEMMA EnteredState ==
    ASSUME StreamInv, tracker.seq # "string", eightBit' = eightBit,
           NEW byte,
           terminal' = Terminal(eightBit, terminal, byte), Process(byte),
           \/ /\ terminal' \in Between
              /\ Track(tracker, byte) = Sequence("ground")
              /\ Terminal(FALSE, parser, byte) = terminal'
           \/ /\ terminal' = "escape"
              /\ Track(tracker, byte) = Sequence("escape")
              /\ Terminal(FALSE, parser, byte) = "escape"
           \/ /\ terminal' = "csi"
              /\ Track(tracker, byte) = Sequence("csi")
              /\ Terminal(FALSE, parser, byte) \in {"csi", "ground"}
           \/ /\ terminal' = "osc"
              /\ Track(tracker, byte) = String(TRUE)
              /\ \/ byte = "9D"
                 \/ byte \notin {"9D", "90"} /\ Terminal(FALSE, parser, byte) = "osc"
           \/ /\ terminal' = "string"
              /\ Track(tracker, byte) = String(FALSE)
              /\ \/ byte = "90"
                 \/ byte \notin {"9D", "90"} /\ Terminal(FALSE, parser, byte) = "string"
    PROVE  StreamInv'
  <1> DEFINE next == Track(tracker, byte)
  <1>1. tracker' = next /\ parser' = Parse(parser, Filter(byte, next))
    BY DEF Process
  <1>2. ~ tracker.discarded /\ ~ next.discarded /\ next \in Trackers
    BY Sequences DEF StreamInv
  <1>3. parser' = IF next.seq = "string" /\ byte \in {"9D", "90"}
                  THEN Terminal(FALSE, Terminal(FALSE, parser, "ESC"), IF byte = "9D" THEN "]" ELSE "P")
                  ELSE Terminal(FALSE, parser, byte)
    BY <1>1, <1>2, ParsedOutside
  <1>4. Terminal(FALSE, parser, "ESC") \in {"escape", "closing"}
    BY DEF Terminal
  <1>5. /\ Terminal(FALSE, Terminal(FALSE, parser, "ESC"), "]") = "osc"
        /\ Terminal(FALSE, Terminal(FALSE, parser, "ESC"), "P") = "string"
    BY <1>4 DEF Terminal, AfterEscape, C1
  <1> QED
    BY <1>1, <1>2, <1>3, <1>5, Sequences
    DEF StreamInv, Together, TerminalStates, Between, Strings, Osc

\* Inside a string the parser is given the byte, ST for its C1 form, a CAN if
\* the string is over the limit now, and nothing if it was before.
LEMMA ParsedInside ==
    ASSUME tracker.seq = "string", tracker.discarded \in BOOLEAN,
           NEW byte, NEW next
    PROVE  Parse(parser, Filter(byte, next)) =
             IF tracker.discarded THEN parser
             ELSE IF next.discarded THEN Terminal(FALSE, parser, "CAN")
             ELSE IF next.seq # "string" /\ byte = "9C"
             THEN Terminal(FALSE, Terminal(FALSE, parser, "ESC"), "\\")
             ELSE Terminal(FALSE, parser, byte)
  <1>1. CASE tracker.discarded
    <2>1. Filter(byte, next) = <<>>
      BY <1>1 DEF Filter
    <2> QED
      BY <1>1, <2>1, Parsed
  <1>2. CASE ~ tracker.discarded /\ next.discarded
    <2>1. Filter(byte, next) = <<"CAN">>
      BY <1>2 DEF Filter, InjectsReset
    <2> QED
      BY <1>2, <2>1, Parsed
  <1>3. CASE ~ tracker.discarded /\ ~ next.discarded /\ next.seq # "string" /\ byte = "9C"
    <2>1. Filter(byte, next) = <<"ESC", "\\">>
      BY <1>3 DEF Filter, InjectsReset, Enters, Exits, InString
    <2>2. Parse(parser, <<"ESC", "\\">>) = Terminal(FALSE, Terminal(FALSE, parser, "ESC"), "\\")
      BY DEF Parse
    <2> QED
      BY <1>3, <2>1, <2>2
  <1>4. CASE ~ tracker.discarded /\ ~ next.discarded /\ ~ (next.seq # "string" /\ byte = "9C")
    <2>1. Filter(byte, next) = <<byte>>
      BY <1>4 DEF Filter, InjectsReset, Enters, Exits, InString
    <2> QED
      BY <1>4, <2>1, Parsed
  <1> QED
    BY <1>1, <1>2, <1>3, <1>4

\* A string ends for the tracker where it ends for the terminal, and not
\* before.
LEMMA StringKeepsStep ==
    ASSUME Plain, StreamInv, NEW byte \in Legal(terminal),
           terminal \in Strings \cup {"closing"},
           terminal' = Terminal(eightBit, terminal, byte), eightBit' = eightBit,
           Process(byte)
    PROVE  StreamInv'
  <1> DEFINE next == Track(tracker, byte)
  <1>1. /\ tracker' = next /\ next = FromString(tracker, byte)
        /\ tracker \in Trackers /\ tracker.seq = "string"
        /\ parser = IF tracker.discarded THEN "ground" ELSE terminal
    BY DEF Process, StreamInv, Together, Track, Strings, Osc
  <1>2. parser' = IF tracker.discarded THEN parser
                  ELSE IF next.discarded THEN Terminal(FALSE, parser, "CAN")
                  ELSE IF next.seq # "string" /\ byte = "9C"
                  THEN Terminal(FALSE, Terminal(FALSE, parser, "ESC"), "\\")
                  ELSE Terminal(FALSE, parser, byte)
    BY <1>1, ParsedInside DEF Process, Trackers
  <1>3. /\ Terminal(FALSE, parser, "CAN") = "ground"
        /\ Terminal(FALSE, Terminal(FALSE, parser, "ESC"), "\\") = "ground"
    <2>1. Terminal(FALSE, parser, "ESC") \in {"escape", "closing"}
      BY DEF Terminal
    <2> QED
      BY <2>1 DEF Terminal, AfterEscape, C1
  <1>4. CASE EndsString(tracker, byte)
    <2>1. next = Sequence("ground") /\ next \in Trackers /\ next.seq = "ground" /\ ~ next.discarded
      BY <1>1, <1>4, Sequences DEF FromString
    <2>2. terminal' = "ground"
      BY <1>4
      DEF EndsString, StreamInv, Together, Legal, Plain, Terminal, AfterEscape, EightBitControl, C1,
          Strings, Osc
    <2>3. parser' = "ground"
      BY <1>1, <1>2, <1>3, <1>4, <2>1
      DEF EndsString, StreamInv, Together, Legal, Plain, Terminal, AfterEscape, C1, Strings, Osc
    <2> QED
      BY <1>1, <2>1, <2>2, <2>3 DEF StreamInv, Together, TerminalStates, Between, Strings, Osc
  <1>5. CASE ~ EndsString(tracker, byte)
    <2>1. /\ next \in Trackers /\ next.seq = "string" /\ next.osc = tracker.osc
          /\ next.escape <=> byte = "ESC"
          /\ tracker.discarded => next.discarded
      <3>1. next = [tracker EXCEPT !.escape = (byte = "ESC"),
                                   !.bytes = IF @ > MaxString THEN @ ELSE @ + 1,
                                   !.discarded = @ \/ tracker.bytes >= MaxString]
        BY <1>1, <1>5 DEF FromString
      <3>2. /\ (IF tracker.bytes > MaxString THEN tracker.bytes ELSE tracker.bytes + 1) \in Nat
            /\ (tracker.discarded \/ tracker.bytes >= MaxString) \in BOOLEAN
            /\ (byte = "ESC") \in BOOLEAN
        BY <1>1, BoundaryAssumption DEF Trackers
      <3> QED
        BY <1>1, <3>1, <3>2 DEF Trackers
    <2>2. /\ byte = "ESC" <=> terminal' = "closing"
          /\ terminal' \in Strings \cup {"closing"}
          /\ terminal' \in Osc => tracker.osc
          /\ terminal' \in {"string", "wideString"} => ~ tracker.osc
      BY <1>5 DEF EndsString, StreamInv, Together, Legal, Plain, Terminal, C1, Strings, Osc
    <2>3. ~ tracker.discarded => Terminal(FALSE, parser, byte) = terminal'
      BY <1>1, <1>5 DEF EndsString, StreamInv, Together, Legal, Plain, Terminal, C1, Strings, Osc
    <2>4. parser' = IF next.discarded THEN "ground" ELSE terminal'
      BY <1>1, <1>2, <1>3, <2>1, <2>3
    <2> QED
      BY <1>1, <2>1, <2>2, <2>4 DEF StreamInv, Together, TerminalStates, Between, Strings, Osc
  <1> QED
    BY <1>4, <1>5

LEMMA ByteKeepsStep ==
    ASSUME Plain, StreamInv, NEW byte \in Legal(terminal),
           terminal' = Terminal(eightBit, terminal, byte), eightBit' = eightBit,
           Process(byte)
    PROVE  StreamInv'
  <1> DEFINE next == Track(tracker, byte)
  <1>0. MaxString \in Nat
    BY BoundaryAssumption
  <1>1. tracker' = next /\ parser' = Parse(parser, Filter(byte, next))
    BY DEF Process
  <1>2. CASE terminal = "ground"
    <2>1. /\ tracker.seq = "ground" /\ parser = "ground"
          /\ next = FromGround(byte)
      BY <1>2 DEF StreamInv, Together, Track, Strings, Osc
    <2>2. byte \in {"text", "param", "ESC", "BEL", "CAN"} \cup IF eightBit THEN C1 ELSE {"lead"}
      BY <1>2 DEF Legal
    <2> QED
      BY <1>2, <2>1, <2>2, EnteredState
      DEF FromGround, Terminal, EightBitControl, C1, Between, Strings, Osc
  <1>3. CASE terminal = "wide"
    <2>1. /\ tracker.seq = "ground" /\ parser = "wide" /\ byte = "cont"
          /\ next = FromGround(byte)
      BY <1>3 DEF StreamInv, Together, Track, Legal, Plain, Strings, Osc
    <2> QED
      BY <1>3, <2>1, EnteredState DEF FromGround, Terminal, C1, Between
  <1>4. CASE terminal = "escape"
    <2>1. /\ tracker.seq = "escape" /\ parser = "escape"
          /\ byte \in {"[", "]", "P", "inter", "param", "text"}
          /\ next = FromEscape(byte)
      BY <1>4 DEF StreamInv, Together, Track, Legal, Plain, Strings, Osc
    <2> QED
      BY <1>4, <2>1, EnteredState DEF FromEscape, Terminal, AfterEscape, C1, Between
  <1>5. CASE terminal = "csi"
    <2>1. /\ tracker.seq = "csi" /\ parser \in {"csi", "ground"}
          /\ byte \in {"param", "inter", "text", "[", "ESC", "CAN"}
          /\ next = FromCsi(byte)
      BY <1>5 DEF StreamInv, Together, Track, Legal, Plain, Strings, Osc
    <2> QED
      BY <1>5, <2>1, EnteredState DEF FromCsi, Terminal, C1, Between, Strings, Osc
  <1>6. CASE terminal \in Strings \cup {"closing"}
    <2>1. tracker.seq = "string" /\ next = FromString(tracker, byte)
      BY <1>6 DEF StreamInv, Together, Track, Strings, Osc
    <2> QED
      BY <1>6, <2>1, StringKeepsStep
  <1> QED
    BY <1>2, <1>3, <1>4, <1>5, <1>6 DEF StreamInv, TerminalStates, Between

\* Only the child's bytes move the tracker, the parser and the terminal.
LEMMA ByteStep ==
    ASSUME ChildByte
    PROVE  \E byte \in Legal(terminal) :
              /\ terminal' = Terminal(eightBit, terminal, byte) /\ eightBit' = eightBit
              /\ Process(byte)
  BY DEF ChildByte

LEMMA OtherSteps ==
    ASSUME [Next]_vars, ~ ChildByte
    PROVE  /\ UNCHANGED <<tracker, parser, checkpoint, terminal, eightBit>>
           /\ title' = title \/ (title' = NoText /\ pc = "report")
  BY DEF Next, FollowTitle, MakeReport, MakeNoReport, Discover, ClearTitle, Drain, vars, boundaryVars, terminalVars

LEMMA StreamStep == Plain /\ StreamInv /\ [Next]_vars => StreamInv'
  <1> SUFFICES ASSUME Plain, StreamInv, [Next]_vars PROVE StreamInv'
    OBVIOUS
  <1>1. CASE ChildByte
    BY <1>1, ByteStep, ByteKeepsStep
  <1>2. CASE ~ ChildByte
    <2>1. UNCHANGED <<tracker, parser, terminal, eightBit>>
      BY <1>2, OtherSteps
    <2> QED
      BY <2>1 DEF StreamInv, Together
  <1> QED
    BY <1>1, <1>2

-----------------------------------------------------------------------------
(* Titles *)

\* A checkpoint is there exactly while the parser is in a string.  Until the
\* string is closed the title is the one of the checkpoint, or cleared.
TitleInv ==
    /\ title \in Whole
    /\ checkpoint \in Whole \cup {NoTitle}
    /\ checkpoint # NoTitle <=> tracker.seq = "string" /\ ~ tracker.discarded
    /\ checkpoint # NoTitle /\ terminal # "closing" => title \in {checkpoint, NoText}

\* How a title may change in a step.
Kept ==
    title' # title =>
        \/ terminal = "osc" /\ ~ tracker.discarded /\ title' \in Whole
        \/ title' = NoText /\ pc = "report"
        \/ title = NoText /\ title' = checkpoint

LEMMA TitleNumbers == NoTitle \notin Whole /\ Partial \notin Whole /\ NoText \in Whole
  BY DEF NoTitle, Partial, Whole, NoText

\* Outside strings titles stay, and a string that begins takes the checkpoint.
LEMMA TitleOutside ==
    ASSUME StreamInv, TitleInv, tracker.seq # "string", NEW byte,
           StreamInv', ~ tracker'.discarded, Process(byte)
    PROVE  TitleInv' /\ Kept
  <1> DEFINE next == Track(tracker, byte)
  <1>1. tracker' = next /\ checkpoint = NoTitle /\ ~ tracker.discarded
    BY DEF Process, TitleInv, StreamInv
  <1>2. ~ InjectsReset(next) /\ ~ Exits(next) /\ (Enters(next) <=> next.seq = "string")
    BY <1>1 DEF InjectsReset, Exits, Enters, InString
  <1>3. ~ RollsBack(byte, next)
    BY <1>2 DEF RollsBack
  <1>4. parser \notin Osc
    BY DEF StreamInv, Together, TerminalStates, Between, Strings, Osc
  <1>5. title' = title
    BY <1>1, <1>3, <1>4 DEF Process, TitlesAfter, EndsOsc
  <1>6. checkpoint' = IF next.seq = "string" THEN title ELSE checkpoint
    BY <1>2, <1>3 DEF Process
  <1> QED
    BY <1>1, <1>5, <1>6, TitleNumbers DEF TitleInv, Kept

\* In a string that is discarded nothing reaches the parser.
LEMMA TitleInDiscarded ==
    ASSUME StreamInv, TitleInv, tracker.seq = "string", tracker.discarded, NEW byte,
           Process(byte), tracker'.seq # "string" \/ tracker'.discarded
    PROVE  TitleInv' /\ Kept
  <1> DEFINE next == Track(tracker, byte)
  <1>1. tracker' = next /\ checkpoint = NoTitle
    BY DEF Process, TitleInv
  <1>2. ~ Enters(next) /\ Filter(byte, next) = <<>>
    BY DEF Enters, InString, Filter
  <1>3. title' = title /\ checkpoint' = NoTitle
    BY <1>1, <1>2 DEF Process, TitlesAfter
  <1> QED
    BY <1>1, <1>3 DEF TitleInv, Kept

\* In any other string the parser sets the title at its end, and a string that
\* is cancelled or gets too long brings the checkpoint back.
LEMMA TitleInString ==
    ASSUME Plain, StreamInv, TitleInv, tracker.seq = "string", ~ tracker.discarded,
           NEW byte \in Legal(terminal),
           terminal' = Terminal(eightBit, terminal, byte), Process(byte)
    PROVE  TitleInv' /\ Kept
  <1> DEFINE next == Track(tracker, byte)
  <1>1. /\ tracker' = next /\ next = FromString(tracker, byte)
        /\ tracker \in Trackers /\ parser = terminal
        /\ terminal \in Strings \cup {"closing"}
        /\ tracker.escape <=> terminal = "closing"
    BY DEF Process, StreamInv, Together, Track, TerminalStates, Between, Strings, Osc
  <1>2. checkpoint \in Whole /\ checkpoint # NoTitle
    BY DEF TitleInv
  <1>3. /\ Enters(next) = FALSE
        /\ Exits(next) <=> next.seq # "string"
        /\ InjectsReset(next) <=> next.discarded
    BY DEF Enters, Exits, InString, InjectsReset
  <1>4. CASE RollsBack(byte, next)
    <2>1. title' = checkpoint /\ checkpoint' = NoTitle
      BY <1>2, <1>4 DEF Process
    <2>2. next.seq # "string" \/ next.discarded
      BY <1>3, <1>4 DEF RollsBack
    <2>3. terminal # "closing"
      <3>1. SUFFICES ASSUME terminal = "closing" PROVE FALSE
        OBVIOUS
      <3>2. byte = "\\" /\ EndsString(tracker, byte)
        BY <1>1, <3>1 DEF Legal, EndsString
      <3>3. ~ next.discarded
        BY <1>1, <3>2, Sequences DEF FromString
      <3> QED
        BY <1>3, <1>4, <3>2, <3>3 DEF RollsBack
    <2> QED
      BY <1>1, <1>2, <2>1, <2>2, <2>3, TitleNumbers DEF TitleInv, Kept
  <1>5. CASE ~ RollsBack(byte, next)
    <2>1. ~ next.discarded /\ (next.seq # "string" => byte # "CAN")
      BY <1>3, <1>5 DEF RollsBack
    <2>2. /\ Filter(byte, next) # <<>>
          /\ Filter(byte, next)[1] = IF next.seq # "string" /\ byte = "9C" THEN "ESC" ELSE byte
      <3>1. CASE next.seq # "string" /\ byte = "9C"
        <4>1. Filter(byte, next) = <<"ESC", "\\">>
          BY <1>3, <2>1, <3>1 DEF Filter
        <4> QED
          BY <3>1, <4>1
      <3>2. CASE ~ (next.seq # "string" /\ byte = "9C")
        <4>1. Filter(byte, next) = <<byte>>
          BY <1>3, <2>1, <3>2 DEF Filter
        <4> QED
          BY <3>2, <4>1
      <3> QED
        BY <3>1, <3>2
    <2>3. byte # "CAN"
      <3>1. byte = "CAN" => next = Sequence("ground")
        BY <1>1 DEF FromString, EndsString
      <3> QED
        BY <2>1, <3>1, Sequences
    <2>4. Filter(byte, next)[1] # "CAN"
      BY <2>2, <2>3
    <2>5. /\ title' = title \/ (terminal = "osc" /\ title' \in {0, 1})
          /\ ~ EndsOsc(parser, Terminal(FALSE, parser, Filter(byte, next)[1])) => title' = title
      <3>1. CASE terminal = "wideOsc"
        <4>1. byte = "cont"
          BY <3>1 DEF Legal, Plain
        <4>2. ~ EndsOsc(parser, Terminal(FALSE, parser, byte))
          BY <1>1, <3>1, <4>1 DEF EndsOsc, Terminal, C1, Osc
        <4> QED
          BY <1>1, <1>5, <2>2, <4>1, <4>2 DEF Process, TitlesAfter
      <3>2. CASE terminal # "wideOsc"
        BY <1>1, <1>5, <2>2, <2>4, <3>2 DEF Process, TitlesAfter, EndsOsc, Osc
      <3> QED
        BY <3>1, <3>2
    <2>6. checkpoint' = IF next.seq # "string" THEN NoTitle ELSE checkpoint
      BY <1>3, <1>5 DEF Process
    <2>7. ASSUME next.seq = "string", terminal' # "closing"
          PROVE  title' = title /\ terminal # "closing"
      <3>1. ~ EndsString(tracker, byte)
        BY <1>1, <2>7, Sequences DEF FromString
      <3>2. byte # "ESC" /\ terminal \in Strings /\ (terminal \in Osc => byte # "BEL")
        <4>1. terminal = "closing" => byte = "\\" /\ tracker.escape
          BY <1>1 DEF Legal
        <4>2. terminal \in Strings
          BY <1>1, <3>1, <4>1 DEF EndsString
        <4>3. byte = "ESC" => terminal' = "closing"
          <5>1. Terminal(eightBit, terminal, "ESC") = "closing"
            BY <4>2 DEF Terminal, C1
          <5> QED
            BY <5>1
        <4>4. terminal \in Osc => tracker.osc
          BY <4>2 DEF StreamInv, Together, Strings, Osc
        <4> QED
          BY <2>7, <3>1, <4>2, <4>3, <4>4 DEF EndsString
      <3>3. byte # "9C"
        BY <3>1 DEF EndsString
      <3>4. Terminal(FALSE, parser, byte) \in Osc <=> parser \in Osc
        BY <1>1, <2>3, <3>2 DEF Terminal, Legal, Plain, C1, Strings, Osc
      <3> QED
        BY <1>1, <2>2, <2>5, <2>7, <3>2, <3>3, <3>4 DEF EndsOsc, Strings, Osc
    <2>8. title' \in Whole
      BY <2>5 DEF TitleInv, Whole
    <2> QED
      BY <1>1, <1>2, <2>1, <2>5, <2>6, <2>7, <2>8 DEF TitleInv, Kept
  <1> QED
    BY <1>4, <1>5

LEMMA TitleStep ==
    Plain /\ StreamInv /\ TitleInv /\ [Next]_vars => TitleInv' /\ Kept
  <1> SUFFICES ASSUME Plain, StreamInv, TitleInv, [Next]_vars PROVE TitleInv' /\ Kept
    OBVIOUS
  <1>1. CASE ChildByte
    <2>1. PICK byte \in Legal(terminal) :
              /\ terminal' = Terminal(eightBit, terminal, byte) /\ eightBit' = eightBit
              /\ Process(byte)
      BY <1>1, ByteStep
    <2>2. StreamInv' /\ tracker' = Track(tracker, byte)
      BY <2>1, ByteKeepsStep DEF Process
    <2>3. CASE tracker.seq # "string"
      <3>1. ~ tracker'.discarded
        BY <2>2, <2>3, Sequences
        DEF Track, FromGround, FromEscape, FromCsi, StreamInv, Trackers
      <3> QED
        BY <2>1, <2>2, <2>3, <3>1, TitleOutside
    <2>4. CASE tracker.seq = "string" /\ tracker.discarded
      <3>1. tracker'.seq # "string" \/ tracker'.discarded
        BY <2>2, <2>4, Sequences DEF Track, FromString, StreamInv, Trackers
      <3> QED
        BY <2>1, <2>4, <3>1, TitleInDiscarded
    <2>5. CASE tracker.seq = "string" /\ ~ tracker.discarded
      BY <2>1, <2>5, TitleInString
    <2> QED
      BY <2>3, <2>4, <2>5
  <1>2. CASE ~ ChildByte
    <2>1. /\ UNCHANGED <<tracker, checkpoint, terminal>>
          /\ title' = title \/ (title' = NoText /\ pc = "report")
      BY <1>2, OtherSteps
    <2> QED
      BY <2>1, TitleNumbers DEF TitleInv, Kept
  <1> QED
    BY <1>1, <1>2

-----------------------------------------------------------------------------
(* Injection *)

\* What the queue holds.
QueueInv ==
    /\ queued \in Seq([title : BOOLEAN, number : Nat, size : Nat, text : Int])
    /\ made \in Nat

LEMMA QueuesGrow ==
    ASSUME NEW S, NEW q \in Seq(S), NEW item \in S
    PROVE  /\ QueueInjection(q, item) \in Seq(S)
           /\ q # <<>> => QueueInjection(q, item) # <<>>
  <1>1. Append(q, item) \in Seq(S)
    OBVIOUS
  <1>2. Append(q, item) # <<>>
    <2>1. Len(Append(q, item)) = Len(q) + 1 /\ Len(q) \in Nat /\ Len(<<>>) = 0
      OBVIOUS
    <2> QED
      BY <2>1
  <1> QED
    BY <1>1, <1>2 DEF QueueInjection

\* A report is queued as queue_injection() does it, or not at all.
LEMMA ReportQueued ==
    ASSUME MakeReport
    PROVE  \E size \in Sizes :
              LET report == [title |-> FALSE, number |-> made', size |-> size, text |-> NoText]
              IN  \E queue \in {QueueInjection(queued, report), queued} :
                     QueueTitle(queue, TitleOf(made'))
  <1>1. PICK size \in Sizes :
           LET report == [title |-> FALSE, number |-> made', size |-> size, text |-> NoText]
               reported == ~ noOsc /\ HasRoom(queued, size)
           IN  QueueTitle(IF reported THEN Append(queued, report) ELSE queued, TitleOf(made'))
    BY DEF MakeReport
  <1> DEFINE report == [title |-> FALSE, number |-> made', size |-> size, text |-> NoText]
             reported == ~ noOsc /\ HasRoom(queued, size)
             queue == IF reported THEN Append(queued, report) ELSE queued
  <1>2. QueueTitle(queue, TitleOf(made'))
    BY <1>1
  <1>3. report.size = size
    OBVIOUS
  <1>4. queue \in {QueueInjection(queued, report), queued}
    BY <1>3 DEF QueueInjection
  <1> HIDE DEF queue
  <1>5. \E some \in {QueueInjection(queued, report), queued} : QueueTitle(some, TitleOf(made'))
    BY <1>2, <1>4
  <1> QED
    BY <1>5

\* A title is put in the queue after the items that are there.
LEMMA TitlesQueue ==
    ASSUME NEW q \in Seq([title : BOOLEAN, number : Nat, size : Nat, text : Int]),
           NEW text \in Int, NEW number \in Nat, QueueTitle(q, Framed(text, number))
    PROVE  /\ queued' \in Seq([title : BOOLEAN, number : Nat, size : Nat, text : Int])
           /\ q # <<>> => queued' # <<>>
  <1> DEFINE Item == [title : BOOLEAN, number : Nat, size : Nat, text : Int]
             frames == Framed(text, number)
  <1>1. CASE mode = "never"
    <2>1. frames = <<>>
      BY <1>1 DEF Framed
    <2> QED
      BY <2>1 DEF QueueTitle
  <1>2. CASE mode # "never"
    <2>1. frames # <<>> /\ Head(frames) \in Item
      <3>1. PICK item \in Item : frames = <<item>>
        <4> DEFINE item == [title |-> TRUE, number |-> number, size |-> 1,
                            text |-> IF mode = "prefix" THEN text ELSE AgentName]
        <4>1. frames = <<item>>
          BY <1>2 DEF Framed
        <4>2. item \in Item
          <5>1. 1 \in Nat /\ (IF mode = "prefix" THEN text ELSE AgentName) \in Int
            BY DEF AgentName
          <5> QED
            BY <5>1
        <4> HIDE DEF item, Item, frames
        <4> QED
          BY <4>1, <4>2
      <3>2. Head(<<item>>) = item /\ <<item>> # <<>>
        OBVIOUS
      <3> QED
        BY <3>1, <3>2
    <2>2. queued' = QueueInjection(q, Head(frames))
      BY <2>1 DEF QueueTitle
    <2> HIDE DEF frames, Item
    <2>3. q \in Seq(Item)
      BY DEF Item
    <2>4. queued' \in Seq(Item) /\ (q # <<>> => queued' # <<>>)
      BY <2>1, <2>2, <2>3, QueuesGrow
    <2> QED
      BY <2>4 DEF Item
  <1> QED
    BY <1>1, <1>2

\* Only a drain empties the queue, and it does so between sequences.
LEMMA SafeStep ==
    ASSUME StreamInv, TitleInv, QueueInv, [Next]_vars
    PROVE  QueueInv' /\ (queued # <<>> /\ queued' = <<>> => terminal \in Between)
  <1> DEFINE Item == [title : BOOLEAN, number : Nat, size : Nat, text : Int]
  <1>1. title \in Int
    BY DEF TitleInv, Whole, NoText
  <1>2. CASE FollowTitle
    <2>1. CASE TitleChanged
      BY <1>1, <1>2, <2>1, TitlesQueue DEF FollowTitle, QueueInv
    <2>2. CASE ~ TitleChanged
      BY <1>2, <2>2 DEF FollowTitle, QueueInv
    <2> QED
      BY <2>1, <2>2
  <1>3. CASE MakeReport
    <2>0. PICK size \in Sizes :
             LET report == [title |-> FALSE, number |-> made', size |-> size, text |-> NoText]
             IN  \E queue \in {QueueInjection(queued, report), queued} :
                    QueueTitle(queue, TitleOf(made'))
      BY <1>3, ReportQueued
    <2> DEFINE report == [title |-> FALSE, number |-> made', size |-> size, text |-> NoText]
    <2>1. PICK q \in {QueueInjection(queued, report), queued} : QueueTitle(q, TitleOf(made'))
      BY <2>0
    <2>2. made' \in Nat
      BY <1>3 DEF MakeReport, QueueInv
    <2>3. report \in Item
      BY <2>2, OutputAssumption DEF NoText
    <2>4. QueueTitle(q, Framed(title, made'))
      BY <2>1 DEF TitleOf
    <2> HIDE DEF report
    <2>5. q \in Seq(Item) /\ (queued # <<>> => q # <<>>)
      <3>1. queued \in Seq(Item)
        BY DEF QueueInv
      <3> HIDE DEF Item
      <3>2. /\ QueueInjection(queued, report) \in Seq(Item)
            /\ queued # <<>> => QueueInjection(queued, report) # <<>>
        BY <2>3, <3>1, QueuesGrow
      <3> QED
        BY <2>1, <3>1, <3>2
    <2>6. queued' \in Seq(Item) /\ (q # <<>> => queued' # <<>>)
      BY <1>1, <2>2, <2>4, <2>5, TitlesQueue
    <2> QED
      BY <2>2, <2>5, <2>6 DEF QueueInv
  <1>4. CASE Drain
    <2>1. Ground => terminal \in Between
      BY DEF Ground, StreamInv, Together, TerminalStates, Between, Strings, Osc
    <2>2. made' = made /\ (queued' = queued \/ (Ground /\ queued' = <<>>))
      BY <1>4 DEF Drain
    <2>3. <<>> \in Seq(Item)
      OBVIOUS
    <2> QED
      BY <2>1, <2>2, <2>3 DEF QueueInv
  <1>5. CASE ChildByte \/ MakeNoReport \/ Discover \/ UNCHANGED vars
    BY <1>5 DEF ChildByte, MakeNoReport, Discover, vars, loopVars, QueueInv
  <1> QED
    BY <1>2, <1>3, <1>4, <1>5 DEF Next

-----------------------------------------------------------------------------

OutputInv == Plain /\ StreamInv /\ TitleInv /\ QueueInv

LEMMA OutputInvariant == Plain /\ Spec => []OutputInv
  <1>1. Plain /\ Init => OutputInv
    <2>1. Init => StreamInv
      BY InitInStep
    <2>2. Init => TitleInv
      BY TitleNumbers DEF Init, BoundaryInit, TitleInv, Sequence
    <2>3. Init => QueueInv
      BY DEF Init, QueueInv
    <2> QED
      BY <2>1, <2>2, <2>3 DEF OutputInv
  <1>2. OutputInv /\ [Next]_vars => OutputInv'
    <2>1. Plain => Plain'
      BY DEF Plain
    <2> QED
      BY <2>1, StreamStep, TitleStep, SafeStep DEF OutputInv
  <1> QED
    BY <1>1, <1>2, PTL DEF Spec

\* The tracker keeps no report back while the terminal is between sequences,
\* for a child without the two kinds of bytes that mislead it
\* (BoundaryTracker::byte()).
THEOREM TrackerStaysInStep == Plain /\ Spec => []TrackerFollows
  <1>1. OutputInv => TrackerFollows
    BY DEF OutputInv, StreamInv, Together, TrackerFollows, Ground, Between, Strings, Osc
  <1> QED
    BY <1>1, OutputInvariant, PTL

\* The parser is in a string exactly while the tracker is in one that is not
\* discarded, whatever the limit is (BoundaryTracker::parser_byte()).
THEOREM ParserStaysInStep == Plain /\ Spec => []ParserFollows
  <1>1. OutputInv => ParserFollows
    BY DEF OutputInv, StreamInv, Together, ParserFollows, InString, TerminalStates, Between,
           Strings, Osc
  <1> QED
    BY <1>1, OutputInvariant, PTL

\* Reports and titles are written between sequences only, however long the
\* queue and its items are (the drain in run()).
THEOREM InjectionsAreSafe == Plain /\ Spec => InjectionIsSafe
  <1>1. OutputInv /\ [Next]_vars =>
            [queued # <<>> /\ queued' = <<>> => terminal \in Between]_vars
    BY SafeStep DEF OutputInv
  <1> QED
    BY <1>1, OutputInvariant, PTL DEF Spec, InjectionIsSafe

\* A title changes only by a string that came to its end, or by a discovery
\* (Screen::process(), clear_detection_evidence()).
THEOREM TitlesAreKept == Plain /\ Spec => TitleIsKept
  <1>1. OutputInv /\ [Next]_vars =>
            [title' # title =>
               \/ terminal = "osc" /\ ~ tracker.discarded /\ title' \in Whole
               \/ title' = NoText /\ pc = "report"
               \/ title = NoText /\ title' = checkpoint]_vars
    BY TitleStep DEF OutputInv, Kept
  <1> QED
    BY <1>1, OutputInvariant, PTL DEF Spec, TitleIsKept

-----------------------------------------------------------------------------
(* The title of the outer terminal, for any child *)

\* The title the terminal will show when the queue is drained.
Coming == LastOf(queued, TRUE, outer)

\* It belongs to the newest publication of which a report was made and to the
\* child's title as it was noted last, unless it had no room.
ComingShowsState ==
    Coming # Own /\ ~ stale =>
        /\ (Coming.number + 1)..made \subseteq silent
        /\ Coming.text \in {original, AgentName}

TitlesNoted ==
    /\ original = lastTitle \/ lastTitle = NoText
    /\ pc = "report" => title = lastTitle
    /\ mode = "never" => Coming = Own

QueueIsSequence == queued \in Seq({queued[n] : n \in DOMAIN queued})

ShownInv == made \in Nat /\ QueueIsSequence /\ TitlesNoted /\ ComingShowsState

LEMMA OfTheirElements ==
    ASSUME NEW S, NEW s \in Seq(S)
    PROVE  s \in Seq({s[n] : n \in DOMAIN s})
  <1> DEFINE E == {s[n] : n \in DOMAIN s}
  <1>1. PICK n \in Nat : s \in [1..n -> S]
    BY SeqDef
  <1>2. s \in [1..n -> E]
    BY <1>1
  <1> HIDE DEF E
  <1>3. s \in Seq(E)
    BY <1>2, SeqDef
  <1> QED
    BY <1>3 DEF E

\* The last item with the wanted flag, when one is appended.
LEMMA LastOfAppended ==
    ASSUME NEW S, NEW q \in Seq(S), NEW e, NEW none
    PROVE  /\ \E Z : Append(q, e) \in Seq(Z)
           /\ Append(q, e) # q
           /\ e.title = TRUE => LastOf(Append(q, e), TRUE, none) = e
           /\ e.title = FALSE => LastOf(Append(q, e), TRUE, none) = LastOf(q, TRUE, none)
  <1> DEFINE Z == S \cup {e}
             r == Append(q, e)
             n == Len(q) + 1
             Hits(s) == {i \in DOMAIN s : s[i].title = TRUE}
             LastHits(s) == {i \in Hits(s) : \A j \in Hits(s) : j <= i}
  <1>1. q \in Seq(Z) /\ e \in Z
    <2>1. PICK k \in Nat : q \in [1..k -> S]
      BY SeqDef
    <2>2. q \in [1..k -> Z]
      BY <2>1
    <2> QED
      BY <2>2, SeqDef
  <1> HIDE DEF Z
  <1>2. /\ r \in Seq(Z) /\ Len(r) = Len(q) + 1 /\ Len(q) \in Nat
        /\ DOMAIN r = 1..(Len(q) + 1) /\ DOMAIN q = 1..Len(q)
        /\ r[Len(q) + 1] = e
        /\ \A i \in 1..Len(q) : r[i] = q[i]
    BY <1>1
  <1> HIDE DEF r
  <1>3. /\ n \in DOMAIN r /\ r[n] = e /\ n \notin DOMAIN q
        /\ DOMAIN r = DOMAIN q \cup {n}
        /\ \A i \in DOMAIN q : r[i] = q[i] /\ i <= n /\ ~ (n <= i)
        /\ n <= n
    BY <1>2
  <1> HIDE DEF n
  <1>4. r # q
    BY <1>3
  <1>5. CASE e.title = TRUE
    <2>1. Hits(r) = Hits(q) \cup {n}
      BY <1>3, <1>5
    <2>2. LastHits(r) = {n}
      <3>1. n \in Hits(r) /\ \A j \in Hits(r) : j <= n
        BY <1>3, <2>1
      <3>2. ASSUME NEW i \in Hits(r), \A j \in Hits(r) : j <= i
            PROVE  i = n
        BY <1>3, <2>1, <3>1, <3>2
      <3> HIDE DEF Hits
      <3> QED
        BY <3>1, <3>2
    <2>3. (CHOOSE i \in {n} : TRUE) = n
      OBVIOUS
    <2>4. LastOf(r, TRUE, none) = e
      BY <1>3, <2>2, <2>3 DEF LastOf
    <2> QED
      BY <1>2, <1>4, <1>5, <2>4 DEF r
  <1>6. CASE e.title = FALSE
    <2>1. Hits(r) = Hits(q)
      BY <1>3, <1>6
    <2>2. LastHits(r) = LastHits(q)
      BY <2>1
    <2>3. CASE LastHits(q) = {}
      <3>1. LastOf(r, TRUE, none) = none /\ LastOf(q, TRUE, none) = none
        BY <2>2, <2>3 DEF LastOf
      <3> QED
        BY <1>2, <1>4, <1>6, <3>1 DEF r
    <2>4. CASE LastHits(q) # {}
      <3> DEFINE last == CHOOSE i \in LastHits(q) : TRUE
      <3>1. LastOf(r, TRUE, none) = r[last] /\ LastOf(q, TRUE, none) = q[last]
        BY <2>2, <2>4 DEF LastOf
      <3>2. last \in LastHits(q)
        BY <2>4
      <3>3. r[last] = q[last]
        BY <1>3, <3>2
      <3> QED
        BY <1>2, <1>4, <1>6, <3>1, <3>3 DEF r
    <2> QED
      BY <2>3, <2>4
  <1> QED
    BY <1>2, <1>4, <1>5, <1>6 DEF r

LEMMA LastOfNothing ==
    ASSUME NEW none
    PROVE  LastOf(<<>>, TRUE, none) = none
  <1>1. DOMAIN <<>> = {}
    OBVIOUS
  <1> QED
    BY <1>1 DEF LastOf

\* A title that is queued is the last one, or had no room; a report is no title.
LEMMA TitleIsLast ==
    ASSUME NEW S, NEW q \in Seq(S), NEW number,
           QueueTitle(q, Framed(title, number)), outer' = outer
    PROVE  /\ \E Z : queued' \in Seq(Z)
           /\ mode = "never" => queued' = q /\ stale' = stale
           /\ mode # "never" /\ ~ stale' =>
                 Coming'.number = number /\ Coming'.text \in {title, AgentName}
  <1>1. CASE mode = "never"
    <2>1. Framed(title, number) = <<>>
      BY <1>1 DEF Framed
    <2> QED
      BY <1>1, <2>1 DEF QueueTitle
  <1>2. CASE mode # "never"
    <2> DEFINE item == [title |-> TRUE, number |-> number, size |-> 1,
                        text |-> IF mode = "prefix" THEN title ELSE AgentName]
    <2>1. Framed(title, number) = <<item>>
      BY <1>2 DEF Framed
    <2>2. /\ item.title = TRUE /\ item.number = number
          /\ item.text \in {title, AgentName}
      OBVIOUS
    <2> HIDE DEF item
    <2>3. <<item>> # <<>> /\ Head(<<item>>) = item
      OBVIOUS
    <2>4. /\ queued' = QueueInjection(q, item)
          /\ stale' = (QueueInjection(q, item) = q)
      BY <2>1, <2>3 DEF QueueTitle
    <2>5. CASE HasRoom(q, item.size)
      <3>1. queued' = Append(q, item)
        BY <2>4, <2>5 DEF QueueInjection
      <3>2. /\ \E Z : queued' \in Seq(Z)
            /\ LastOf(queued', TRUE, outer) = item
        BY <2>2, <3>1, LastOfAppended
      <3> QED
        BY <1>2, <2>2, <3>2 DEF Coming
    <2>6. CASE ~ HasRoom(q, item.size)
      BY <1>2, <2>4, <2>6 DEF QueueInjection
    <2> QED
      BY <2>5, <2>6
  <1> QED
    BY <1>1, <1>2

LEMMA FollowTitleShown == ShownInv /\ FollowTitle => ShownInv'
  <1> SUFFICES ASSUME ShownInv, FollowTitle PROVE ShownInv'
    OBVIOUS
  <1>1. /\ title' = title /\ lastTitle' = title /\ made' = made /\ outer' = outer
        /\ mode' = mode /\ silent' = silent
    BY DEF FollowTitle, boundaryVars, titleVars, Observe
  <1>2. CASE TitleChanged
    <2>1. original' = title /\ QueueTitle(queued, Framed(title, made))
      BY <1>2 DEF FollowTitle, Observe
    <2>2. /\ \E Z : queued' \in Seq(Z)
          /\ mode = "never" => queued' = queued /\ stale' = stale
          /\ mode # "never" /\ ~ stale' =>
                Coming'.number = made /\ Coming'.text \in {title, AgentName}
      BY <1>1, <2>1, TitleIsLast DEF ShownInv, QueueIsSequence
    <2>3. QueueIsSequence'
      BY <2>2, OfTheirElements DEF QueueIsSequence
    <2>4. mode = "never" => Coming' = Own
      BY <1>1, <2>2 DEF ShownInv, TitlesNoted, Coming
    <2>5. TitlesNoted'
      BY <1>1, <2>1, <2>4 DEF TitlesNoted
    <2>6. (made + 1)..made = {}
      BY DEF ShownInv
    <2>7. ComingShowsState'
      BY <1>1, <2>1, <2>2, <2>4, <2>6 DEF ComingShowsState, Own
    <2> QED
      BY <1>1, <2>3, <2>5, <2>7 DEF ShownInv
  <1>3. CASE ~ TitleChanged
    <2>1. /\ UNCHANGED <<titleVars, queued, stale>> /\ title = lastTitle
      BY <1>3 DEF FollowTitle, TitleChanged
    <2> QED
      BY <1>1, <2>1
      DEF titleVars, ShownInv, QueueIsSequence, TitlesNoted, ComingShowsState, Coming, Own
  <1> QED
    BY <1>2, <1>3

LEMMA MakeReportShown == ShownInv /\ MakeReport => ShownInv'
  <1> SUFFICES ASSUME ShownInv, MakeReport PROVE ShownInv'
    OBVIOUS
  <1>1. /\ title' = title /\ lastTitle' = lastTitle /\ outer' = outer /\ mode' = mode
        /\ original' = title /\ pc = "report" /\ pc' = pc /\ made' = made + 1
    BY DEF MakeReport, boundaryVars, Observe
  <1>2. title = lastTitle
    BY <1>1 DEF ShownInv, TitlesNoted
  <1>3. PICK size \in Sizes :
           LET report == [title |-> FALSE, number |-> made', size |-> size, text |-> NoText]
           IN  \E queue \in {QueueInjection(queued, report), queued} :
                  QueueTitle(queue, Framed(title, made'))
    BY ReportQueued DEF TitleOf
  <1> DEFINE report == [title |-> FALSE, number |-> made', size |-> size, text |-> NoText]
  <1>4. report.title = FALSE /\ FALSE \in BOOLEAN
    OBVIOUS
  <1>5. PICK q \in {QueueInjection(queued, report), queued} : QueueTitle(q, Framed(title, made'))
    BY <1>3
  <1> HIDE DEF report
  <1>6. (\E Z : q \in Seq(Z)) /\ LastOf(q, TRUE, outer) = Coming
    <2>1. queued \in Seq({queued[n] : n \in DOMAIN queued})
      BY DEF ShownInv, QueueIsSequence
    <2>2. CASE q = Append(queued, report)
      <3> DEFINE S == {queued[n] : n \in DOMAIN queued}
      <3>1. queued \in Seq(S)
        BY <2>1
      <3> HIDE DEF S
      <3>2. /\ \E Z : Append(queued, report) \in Seq(Z)
            /\ LastOf(Append(queued, report), TRUE, outer) = LastOf(queued, TRUE, outer)
        BY <1>4, <3>1, LastOfAppended
      <3> QED
        BY <2>2, <3>2 DEF Coming
    <2>3. CASE q = queued
      BY <2>1, <2>3 DEF Coming
    <2> QED
      BY <1>5, <2>2, <2>3 DEF QueueInjection
  <1>7. /\ \E Z : queued' \in Seq(Z)
        /\ mode = "never" => queued' = q /\ stale' = stale
        /\ mode # "never" /\ ~ stale' =>
              Coming'.number = made' /\ Coming'.text \in {title, AgentName}
    BY <1>1, <1>5, <1>6, TitleIsLast
  <1>8. QueueIsSequence'
    BY <1>7, OfTheirElements DEF QueueIsSequence
  <1>9. mode = "never" => Coming' = Own
    BY <1>1, <1>6, <1>7 DEF ShownInv, TitlesNoted, Coming
  <1>10. TitlesNoted'
    BY <1>1, <1>2, <1>9 DEF TitlesNoted
  <1>11. made' \in Nat /\ (made' + 1)..made' = {}
    BY <1>1 DEF ShownInv
  <1>12. ComingShowsState'
    BY <1>1, <1>7, <1>9, <1>11 DEF ComingShowsState, Own
  <1> QED
    BY <1>8, <1>10, <1>11, <1>12 DEF ShownInv

\* A publication of which no report is made leaves the title as it is.
LEMMA MakeNoReportShown == ShownInv /\ MakeNoReport => ShownInv'
  <1> SUFFICES ASSUME ShownInv, MakeNoReport PROVE ShownInv'
    OBVIOUS
  <1>1. /\ UNCHANGED <<titleVars, queued, stale, lastTitle, pc, outer>> /\ title' = title
        /\ made' = made + 1 /\ silent' = silent \cup {made'}
    BY DEF MakeNoReport, boundaryVars
  <1>2. Coming' = Coming
    BY <1>1 DEF Coming
  <1>3. \A n : (n + 1)..made \subseteq silent => (n + 1)..made' \subseteq silent'
    BY <1>1 DEF ShownInv
  <1>4. ComingShowsState'
    BY <1>1, <1>2, <1>3 DEF titleVars, ShownInv, ComingShowsState, Own
  <1> QED
    BY <1>1, <1>2, <1>4 DEF titleVars, ShownInv, QueueIsSequence, TitlesNoted, Own

\* The child may set the title itself, which takes the wrapper's away.
LEMMA ChildByteShown == ShownInv /\ ChildByte => ShownInv'
  <1> SUFFICES ASSUME ShownInv, ChildByte PROVE ShownInv'
    OBVIOUS
  <1>1. /\ UNCHANGED <<titleVars, queued, made, silent, stale, lastTitle, pc>> /\ pc = "read"
        /\ outer' \in {outer, Own}
    BY DEF ChildByte
  <1>2. Coming' = Coming \/ Coming' = Own
    BY <1>1 DEF Coming, LastOf, Own
  <1> QED
    BY <1>1, <1>2
    DEF titleVars, ShownInv, QueueIsSequence, TitlesNoted, ComingShowsState, Own

\* A drain makes the title that was to come the terminal's.
LEMMA DrainShown == ShownInv /\ Drain => ShownInv'
  <1> SUFFICES ASSUME ShownInv, Drain PROVE ShownInv'
    OBVIOUS
  <1>1. /\ UNCHANGED <<titleVars, made, silent, stale, lastTitle>> /\ title' = title /\ pc' = "read"
    BY DEF Drain, boundaryVars
  <1>2. CASE Ground
    <2>1. queued' = <<>> /\ outer' = Coming
      BY <1>2 DEF Drain, Coming
    <2>2. Coming' = Coming
      BY <2>1, LastOfNothing DEF Coming
    <2>3. QueueIsSequence'
      <3>1. <<>> \in Seq({queued'[n] : n \in DOMAIN queued'})
        OBVIOUS
      <3> QED
        BY <2>1, <3>1 DEF QueueIsSequence
    <2> QED
      BY <1>1, <2>2, <2>3 DEF titleVars, ShownInv, TitlesNoted, ComingShowsState, Own
  <1>3. CASE ~ Ground
    <2>1. queued' = queued /\ outer' = outer
      BY <1>3 DEF Drain
    <2> QED
      BY <1>1, <2>1
      DEF titleVars, ShownInv, QueueIsSequence, TitlesNoted, ComingShowsState, Coming, Own
  <1> QED
    BY <1>2, <1>3

LEMMA ShownStep == ShownInv /\ [Next]_vars => ShownInv'
  <1> SUFFICES ASSUME ShownInv, [Next]_vars PROVE ShownInv'
    OBVIOUS
  <1>1. CASE Discover
    <2>1. /\ UNCHANGED <<titleVars, queued, made, silent, stale, pc, outer>>
          /\ title' = NoText /\ lastTitle' = NoText
      BY <1>1 DEF Discover, ClearTitle
    <2> QED
      BY <2>1
      DEF titleVars, ShownInv, QueueIsSequence, TitlesNoted, ComingShowsState, Coming, Own
  <1>2. CASE UNCHANGED vars
    BY <1>2
    DEF vars, boundaryVars, titleVars, loopVars, ShownInv, QueueIsSequence, TitlesNoted,
        ComingShowsState, Coming, Own
  <1> QED
    BY <1>1, <1>2, ChildByteShown, FollowTitleShown, MakeReportShown, MakeNoReportShown, DrainShown
    DEF Next

LEMMA InitShown == Init => ShownInv
  <1> SUFFICES ASSUME Init PROVE ShownInv
    OBVIOUS
  <1>1. queued = <<>> /\ outer = Own
    BY DEF Init
  <1>2. Coming = Own
    BY <1>1, LastOfNothing DEF Coming
  <1>3. QueueIsSequence
    <2>1. <<>> \in Seq({queued[n] : n \in DOMAIN queued})
      OBVIOUS
    <2> QED
      BY <1>1, <2>1 DEF QueueIsSequence
  <1>4. TitlesNoted /\ ComingShowsState
    BY <1>2 DEF Init, TitlesInit, TitlesNoted, ComingShowsState
  <1> QED
    BY <1>3, <1>4 DEF Init, ShownInv

\* Between iterations with a drained queue, a title of the wrapper's has the
\* newest state of which a report was made and the child's title of the last
\* iteration, in every mode and whatever the child writes (Titles::observe(),
\* queue_injection() and the drain in run()).
THEOREM TitlesShowTheState == Spec => []TitleShowsState
  <1>1. ShownInv => TitleShowsState
    <2> SUFFICES ASSUME ShownInv PROVE TitleShowsState
      OBVIOUS
    <2>1. queued = <<>> => Coming = outer
      BY LastOfNothing DEF Coming
    <2> QED
      BY <2>1 DEF ShownInv, TitlesNoted, ComingShowsState, TitleShowsState
  <1> QED
    BY <1>1, InitShown, ShownStep, PTL DEF Spec


-----------------------------------------------------------------------------
(* The types and the queue's two limits *)

\* A queue within its limits, of items no newer than the newest report; it has
\* finitely many bytes, without which their number would not say anything.
QueueFits(q, newest) ==
    /\ q \in Seq(Items)
    /\ Len(q) <= MaxQueued /\ BytesQueued(q) <= MaxQueuedBytes
    /\ IsFiniteSet(BytesOf(q))
    /\ \A n \in DOMAIN q : q[n].number <= newest

TypesInv == OutputTypeOK /\ QueueFits(queued, made)

LEMMA Limits ==
    /\ MaxQueued \in Nat /\ MaxQueuedBytes \in Nat /\ Reports \in Nat /\ MaxString \in Nat
    /\ \A size \in Sizes \cup {1} : size \in Nat
  <1>1. MaxQueued \in Nat /\ MaxQueuedBytes \in Nat /\ Reports \in Nat /\ MaxString \in Nat
    BY OutputAssumption, BoundaryAssumption
  <1>2. \A size \in Sizes : size \in Nat
    BY OutputAssumption
  <1> QED
    BY <1>1, <1>2

\* An item adds as many bytes as it has.
LEMMA BytesAppended ==
    ASSUME NEW S, NEW q \in Seq(S), NEW item, item.size \in Nat, IsFiniteSet(BytesOf(q))
    PROVE  /\ IsFiniteSet(BytesOf(Append(q, item)))
           /\ BytesQueued(Append(q, item)) = BytesQueued(q) + item.size
  <1> DEFINE r == Append(q, item)
             n == Len(q) + 1
             new == {n} \X (1..item.size)
  <1>1. /\ DOMAIN q = 1..Len(q) /\ DOMAIN r = 1..n /\ Len(q) \in Nat /\ r[n] = item
        /\ \A i \in 1..Len(q) : r[i] = q[i]
    OBVIOUS
  <1>2. DOMAIN r = DOMAIN q \cup {n} /\ n \notin DOMAIN q
    BY <1>1
  <1> HIDE DEF r, n
  <1>3. BytesOf(r) = BytesOf(q) \cup new
    <2> DEFINE Of(s, i) == {i} \X (1..s[i].size)
    <2>1. \A i \in DOMAIN q : Of(r, i) = Of(q, i)
      BY <1>1
    <2>2. Of(r, n) = new
      BY <1>1
    <2>3. BytesOf(r) = UNION {Of(r, i) : i \in DOMAIN r} /\ BytesOf(q) = UNION {Of(q, i) : i \in DOMAIN q}
      BY DEF BytesOf
    <2> HIDE DEF Of, new
    <2> QED
      BY <1>2, <2>1, <2>2, <2>3
  <1>4. BytesOf(q) \cap new = {}
    BY <1>2 DEF BytesOf
  <1>5. IsFiniteSet(new) /\ Cardinality(new) = item.size
    <2>1. IsFiniteSet({n}) /\ Cardinality({n}) = 1
      BY FS_Singleton
    <2>2. IsFiniteSet(1..item.size) /\ Cardinality(1..item.size) = item.size
      <3>1. 1 \in Int /\ item.size \in Int
        OBVIOUS
      <3>2. /\ IsFiniteSet(1..item.size)
            /\ Cardinality(1..item.size) = IF 1 > item.size THEN 0 ELSE item.size - 1 + 1
        BY <3>1, FS_Interval
      <3> QED
        BY <3>2
    <2>3. IsFiniteSet(new) /\ Cardinality(new) = Cardinality({n}) * Cardinality(1..item.size)
      BY <2>1, <2>2, FS_Product
    <2> QED
      BY <2>1, <2>2, <2>3
  <1> HIDE DEF new
  <1>6. /\ IsFiniteSet(BytesOf(r))
        /\ Cardinality(BytesOf(r)) = Cardinality(BytesOf(q)) + Cardinality(new) - Cardinality({})
    BY <1>3, <1>4, <1>5, FS_Union
  <1>7. Cardinality({}) = 0 /\ Cardinality(BytesOf(q)) \in Nat
    BY FS_EmptySet, FS_CardinalityType
  <1>8. Cardinality(BytesOf(r)) = Cardinality(BytesOf(q)) + item.size
    BY <1>5, <1>6, <1>7
  <1> QED
    BY <1>6, <1>8 DEF r, BytesQueued

LEMMA QueueStaysFit ==
    ASSUME NEW newest, NEW q, QueueFits(q, newest), NEW item \in Items, item.number <= newest
    PROVE  QueueFits(QueueInjection(q, item), newest)
  <1>1. CASE HasRoom(q, item.size)
    <2> DEFINE r == Append(q, item)
    <2>1. q \in Seq(Items)
      BY DEF QueueFits
    <2>2. item.size \in Nat
      <3>1. item.size \in Sizes \cup {1}
        BY DEF Items
      <3> QED
        BY <3>1, Limits
    <2>3. /\ r \in Seq(Items) /\ Len(r) = Len(q) + 1 /\ Len(q) \in Nat
          /\ DOMAIN r = 1..(Len(q) + 1) /\ DOMAIN q = 1..Len(q)
          /\ r[Len(q) + 1] = item /\ \A i \in 1..Len(q) : r[i] = q[i]
      BY <2>1
    <2>4. IsFiniteSet(BytesOf(r)) /\ BytesQueued(r) = BytesQueued(q) + item.size
      BY <2>1, <2>2, BytesAppended DEF QueueFits
    <2> HIDE DEF r
    <2>5. Len(r) <= MaxQueued /\ BytesQueued(r) <= MaxQueuedBytes
      <3>1. MaxQueued \in Nat
        BY Limits
      <3> QED
        BY <1>1, <2>3, <2>4, <3>1 DEF HasRoom
    <2>6. \A i \in DOMAIN r : r[i].number <= newest
      <3>1. ASSUME NEW i \in DOMAIN r
            PROVE  r[i] = item \/ (i \in DOMAIN q /\ r[i] = q[i])
        BY <2>3
      <3> QED
        BY <3>1 DEF QueueFits
    <2>7. QueueFits(r, newest)
      BY <2>3, <2>4, <2>5, <2>6 DEF QueueFits
    <2> QED
      BY <1>1, <2>7 DEF QueueInjection, r
  <1>2. CASE ~ HasRoom(q, item.size)
    BY <1>2 DEF QueueInjection
  <1> QED
    BY <1>1, <1>2

LEMMA TitledQueueFits ==
    ASSUME NEW q, NEW number \in 0..Reports, QueueFits(q, number),
           NEW text \in Whole \cup {Partial}, QueueTitle(q, Framed(text, number)), stale \in BOOLEAN
    PROVE  QueueFits(queued', number) /\ stale' \in BOOLEAN
  <1> DEFINE item == [title |-> TRUE, number |-> number, size |-> 1,
                      text |-> IF mode = "prefix" THEN text ELSE AgentName]
  <1>1. CASE mode = "never"
    <2>1. Framed(text, number) = <<>>
      BY <1>1 DEF Framed
    <2> QED
      BY <2>1 DEF QueueTitle
  <1>2. CASE mode # "never"
    <2>1. Framed(text, number) = <<item>>
      BY <1>2 DEF Framed
    <2>2. item.number = number /\ number <= number
      OBVIOUS
    <2>3. item \in Items
      BY DEF Items
    <2> HIDE DEF item
    <2>4. <<item>> # <<>> /\ Head(<<item>>) = item
      OBVIOUS
    <2>5. /\ queued' = QueueInjection(q, item)
          /\ stale' = (QueueInjection(q, item) = q)
      BY <2>1, <2>4 DEF QueueTitle
    <2>6. QueueFits(queued', number)
      BY <2>2, <2>3, <2>5, QueueStaysFit
    <2>7. stale' \in BOOLEAN
      BY <2>5
    <2> QED
      BY <2>6, <2>7
  <1> QED
    BY <1>1, <1>2

\* The last of the queue is one of its items, or what is given for none.
LEMMA LastIsQueued ==
    ASSUME NEW q, NEW titled, NEW none
    PROVE  LastOf(q, titled, none) = none \/ \E i \in DOMAIN q : LastOf(q, titled, none) = q[i]
  <1> DEFINE wanted == {i \in DOMAIN q : q[i].title = titled}
             last == {i \in wanted : \A j \in wanted : j <= i}
  <1>1. CASE last = {}
    BY <1>1 DEF LastOf
  <1>2. CASE last # {}
    <2>1. (CHOOSE i \in last : TRUE) \in last
      BY <1>2
    <2>2. LastOf(q, titled, none) = q[CHOOSE i \in last : TRUE]
      BY <1>2 DEF LastOf
    <2> HIDE DEF last
    <2>3. (CHOOSE i \in last : TRUE) \in DOMAIN q
      BY <2>1 DEF last
    <2> QED
      BY <2>2, <2>3
  <1> QED
    BY <1>1, <1>2

\* The tracker, the parser and the screen's title keep their types for any byte.
LEMMA TerminalTypes ==
    ASSUME NEW state \in TerminalStates, NEW byte, NEW wide \in BOOLEAN
    PROVE  Terminal(wide, state, byte) \in TerminalStates
  BY DEF TerminalStates, Between, Terminal, AfterEscape, EightBitControl, C1, Strings, Osc

LEMMA TrackTypes ==
    ASSUME NEW t \in TrackerStates, NEW byte
    PROVE  Track(t, byte) \in TrackerStates
  <1> DEFINE Stringing == [seq : {"string"}, osc : BOOLEAN, escape : BOOLEAN,
                         bytes : 0..(MaxString + 1), discarded : BOOLEAN]
  <1>1. /\ \A seq \in {"ground", "escape", "csi"} : Sequence(seq) \in TrackerStates
        /\ TrackerStates = {Sequence(s) : s \in {"ground", "escape", "csi"}} \cup Stringing
    BY DEF TrackerStates
  <1>2. \A osc \in BOOLEAN : String(osc) \in Stringing
    <2>1. 0 \in 0..(MaxString + 1)
      BY BoundaryAssumption
    <2>2. [seq |-> "string", osc |-> FALSE, escape |-> FALSE, bytes |-> 0, discarded |-> FALSE]
              \in Stringing
      BY <2>1
    <2>3. Sequence("string") \in Stringing
      BY <2>2 DEF Sequence
    <2>4. ASSUME NEW osc \in BOOLEAN, NEW s \in Stringing
          PROVE  [s EXCEPT !.osc = osc] \in Stringing
      OBVIOUS
    <2> HIDE DEF Stringing
    <2> QED
      BY <2>3, <2>4 DEF String
  <1>3. CASE t \in Stringing
    <2>1. CASE EndsString(t, byte)
      BY <1>1, <1>3, <2>1 DEF Track, FromString
    <2>2. CASE ~ EndsString(t, byte)
      <3>1. FromString(t, byte) = [seq |-> "string", osc |-> t.osc, escape |-> (byte = "ESC"),
                                   bytes |-> IF t.bytes > MaxString THEN t.bytes ELSE t.bytes + 1,
                                   discarded |-> (t.discarded \/ t.bytes >= MaxString)]
        BY <1>3, <2>2 DEF FromString
      <3>2. (IF t.bytes > MaxString THEN t.bytes ELSE t.bytes + 1) \in 0..(MaxString + 1)
        BY <1>3, BoundaryAssumption
      <3>3. t.osc \in BOOLEAN /\ (byte = "ESC") \in BOOLEAN
            /\ (t.discarded \/ t.bytes >= MaxString) \in BOOLEAN
        BY <1>3
      <3>4. FromString(t, byte) \in Stringing
        BY <3>1, <3>2, <3>3
      <3> QED
        BY <1>1, <1>3, <3>4 DEF Track
    <2> QED
      BY <2>1, <2>2
  <1>4. CASE t \in {Sequence(s) : s \in {"ground", "escape", "csi"}}
    <2>1. t.seq \in {"ground", "escape", "csi"}
      BY <1>4 DEF Sequence
    <2> HIDE DEF Stringing
    <2> QED
      BY <1>1, <1>2, <2>1 DEF Track, FromGround, FromEscape, FromCsi
  <1> QED
    BY <1>1, <1>3, <1>4

LEMMA ByteKeepsTypes ==
    ASSUME OutputTypeOK, NEW byte, Process(byte)
    PROVE  BoundaryTypeOK'
  <1> DEFINE next == Track(tracker, byte)
             fed == Filter(byte, next)
  <1>1. tracker' \in TrackerStates
    BY TrackTypes DEF OutputTypeOK, BoundaryTypeOK, Process
  <1>2. parser' = Parse(parser, fed)
    BY DEF Process
  <1>3. \/ fed = <<>>
        \/ \E b : fed = <<b>>
        \/ \E b, c : fed = <<b, c>>
    BY DEF Filter
  <1>4. /\ title' \in IF RollsBack(byte, next) /\ checkpoint # NoTitle THEN {checkpoint}
                      ELSE TitlesAfter(fed)
        /\ checkpoint' \in {NoTitle, title, checkpoint}
    BY DEF Process
  <1>5. TitlesAfter(fed) \subseteq {title, Partial, 0, 1}
    BY DEF TitlesAfter
  <1> HIDE DEF next, fed
  <1>6. parser' \in TerminalStates
    <2>1. parser \in TerminalStates
      BY DEF OutputTypeOK, BoundaryTypeOK
    <2>2. CASE fed = <<>>
      BY <1>2, <2>1, <2>2 DEF Parse
    <2>3. ASSUME NEW b, fed = <<b>>
          PROVE  parser' \in TerminalStates
      BY <1>2, <2>1, <2>3, TerminalTypes DEF Parse
    <2>4. ASSUME NEW b, NEW c, fed = <<b, c>>
          PROVE  parser' \in TerminalStates
      <3>1. parser' = Terminal(FALSE, Terminal(FALSE, parser, b), c)
        BY <1>2, <2>4 DEF Parse
      <3>2. Terminal(FALSE, parser, b) \in TerminalStates
        BY <2>1, TerminalTypes
      <3> QED
        BY <3>1, <3>2, TerminalTypes
    <2> QED
      BY <1>3, <2>2, <2>3, <2>4
  <1>7. title' \in Whole \cup {Partial} /\ checkpoint' \in Whole \cup {Partial, NoTitle}
    <2>1. title \in Whole \cup {Partial} /\ checkpoint \in Whole \cup {Partial, NoTitle}
      BY DEF OutputTypeOK, BoundaryTypeOK
    <2>2. {0, 1} \subseteq Whole
      BY DEF Whole
    <2> QED
      BY <1>4, <1>5, <2>1, <2>2
  <1> QED
    BY <1>1, <1>6, <1>7 DEF BoundaryTypeOK

LEMMA NothingFits ==
    ASSUME NEW newest
    PROVE  QueueFits(<<>>, newest)
  <1>1. BytesOf(<<>>) = {}
    BY DEF BytesOf
  <1>2. IsFiniteSet({}) /\ Cardinality({}) = 0 /\ Len(<<>>) = 0 /\ <<>> \in Seq(Items) /\ DOMAIN <<>> = {}
    BY FS_EmptySet
  <1>3. BytesQueued(<<>>) = 0 /\ IsFiniteSet(BytesOf(<<>>))
    BY <1>1, <1>2 DEF BytesQueued
  <1>4. 0 <= MaxQueued /\ 0 <= MaxQueuedBytes
    BY Limits
  <1> QED
    BY <1>2, <1>3, <1>4 DEF QueueFits

LEMMA TypesInit == Init => TypesInv
  <1> SUFFICES ASSUME Init PROVE TypesInv
    OBVIOUS
  <1>1. QueueFits(<<>>, 0)
    BY NothingFits
  <1>2. BoundaryTypeOK
    BY DEF Init, BoundaryInit, BoundaryTypeOK, TrackerStates, TerminalStates, Between, Strings, Osc,
           Whole
  <1>3. /\ queued = <<>> /\ made = 0 /\ shown = 0 /\ refused = {} /\ stale = FALSE
        /\ silent = {} /\ noOsc \in BOOLEAN
        /\ eightBit \in Terminals /\ terminal = "ground" /\ pc = "read" /\ outer = Own
    BY DEF Init
  <1>4. /\ made \in 0..Reports /\ shown \in 0..made /\ refused \subseteq 1..made
        /\ silent \subseteq 1..made /\ terminal \in TerminalStates
    BY <1>3, Limits DEF TerminalStates, Between
  <1>5. OutputTypeOK
    BY <1>1, <1>2, <1>3, <1>4 DEF OutputTypeOK, QueueFits
  <1> QED
    BY <1>1, <1>3, <1>5 DEF TypesInv

LEMMA ChildByteTypes == TypesInv /\ ChildByte => TypesInv'
  <1> SUFFICES ASSUME TypesInv, ChildByte PROVE TypesInv'
    OBVIOUS
  <1>1. PICK byte \in Legal(terminal) :
           /\ terminal' = Terminal(eightBit, terminal, byte)
           /\ outer' = IF EndsOsc(terminal, terminal') /\ byte # "CAN" THEN Own ELSE outer
           /\ Process(byte)
    BY DEF ChildByte
  <1>2. UNCHANGED <<eightBit, queued, made, silent, shown, noOsc, refused, stale, pc>>
    BY DEF ChildByte
  <1>3. OutputTypeOK
    BY DEF TypesInv
  <1>4. BoundaryTypeOK'
    BY <1>1, <1>3, ByteKeepsTypes
  <1>5. terminal' \in TerminalStates
    <2>1. eightBit \in BOOLEAN /\ terminal \in TerminalStates
      BY <1>3, OutputAssumption DEF OutputTypeOK
    <2> QED
      BY <1>1, <2>1, TerminalTypes
  <1>6. outer' \in Items \cup {Own}
    BY <1>1, <1>3 DEF OutputTypeOK
  <1> QED
    BY <1>2, <1>3, <1>4, <1>5, <1>6 DEF TypesInv, OutputTypeOK, QueueFits

LEMMA FollowTitleTypes == TypesInv /\ FollowTitle => TypesInv'
  <1> SUFFICES ASSUME TypesInv, FollowTitle PROVE TypesInv'
    OBVIOUS
  <1>1. /\ UNCHANGED <<tracker, parser, title, checkpoint, eightBit, terminal, made, silent, shown,
                       noOsc, refused, outer>>
        /\ pc' = "report"
    BY DEF FollowTitle, boundaryVars, terminalVars
  <1>2. /\ OutputTypeOK /\ QueueFits(queued, made) /\ made \in 0..Reports
        /\ title \in Whole \cup {Partial} /\ stale \in BOOLEAN
    BY DEF TypesInv, OutputTypeOK, BoundaryTypeOK
  <1>3. QueueFits(queued', made) /\ stale' \in BOOLEAN
    <2>1. CASE TitleChanged
      <3>1. QueueTitle(queued, Framed(title, made))
        BY <2>1 DEF FollowTitle
      <3> QED
        BY <1>2, <3>1, TitledQueueFits
    <2>2. CASE ~ TitleChanged
      BY <1>2, <2>2 DEF FollowTitle
    <2> QED
      BY <2>1, <2>2
  <1>4. BoundaryTypeOK'
    BY <1>1, <1>2 DEF OutputTypeOK, BoundaryTypeOK
  <1> QED
    BY <1>1, <1>2, <1>3, <1>4 DEF TypesInv, OutputTypeOK, QueueFits

LEMMA NewerFits ==
    ASSUME NEW q, QueueFits(q, made), OutputTypeOK
    PROVE  QueueFits(q, made + 1)
  <1>1. \A n \in DOMAIN q : q[n] \in Items
    BY DEF QueueFits
  <1>2. \A n \in DOMAIN q : q[n].number \in Int
    BY <1>1, Limits DEF Items
  <1>3. made \in Int
    BY DEF OutputTypeOK
  <1>4. \A n \in DOMAIN q : q[n].number <= made + 1
    BY <1>2, <1>3 DEF QueueFits
  <1> QED
    BY <1>4 DEF QueueFits

LEMMA MakeReportTypes == TypesInv /\ MakeReport => TypesInv'
  <1> SUFFICES ASSUME TypesInv, MakeReport PROVE TypesInv'
    OBVIOUS
  <1>1. /\ UNCHANGED <<tracker, parser, title, checkpoint, eightBit, terminal, silent, shown, noOsc,
                       pc, outer>>
        /\ made' = made + 1 /\ made < Reports /\ pc = "report"
    BY DEF MakeReport, boundaryVars, terminalVars
  <1>2. /\ OutputTypeOK /\ QueueFits(queued, made) /\ made \in 0..Reports /\ shown \in 0..made
        /\ title \in Whole \cup {Partial} /\ stale \in BOOLEAN
        /\ refused \subseteq 1..made /\ silent \subseteq 1..made
    BY DEF TypesInv, OutputTypeOK, BoundaryTypeOK
  <1>0. PICK size \in Sizes :
           LET report == [title |-> FALSE, number |-> made', size |-> size, text |-> NoText]
           IN  \E queue \in {QueueInjection(queued, report), queued} :
                  QueueTitle(queue, TitleOf(made'))
    BY ReportQueued
  <1>4. made' \in 0..Reports /\ shown' \in 0..made'
    BY <1>1, <1>2, Limits
  <1> DEFINE report == [title |-> FALSE, number |-> made', size |-> size, text |-> NoText]
  <1>3. PICK q \in {QueueInjection(queued, report), queued} : QueueTitle(q, TitleOf(made'))
    BY <1>0
  <1>5. report \in Items /\ report.number = made'
    BY <1>4 DEF Items, Whole
  <1>6. QueueTitle(q, Framed(title, made'))
    BY <1>3 DEF TitleOf
  <1> HIDE DEF report
  <1>7. QueueFits(q, made')
    <2>1. QueueFits(queued, made')
      BY <1>1, <1>2, NewerFits
    <2>2. report.number <= made'
      BY <1>4, <1>5
    <2> QED
      BY <1>3, <1>5, <2>1, <2>2, QueueStaysFit
  <1>8. QueueFits(queued', made') /\ stale' \in BOOLEAN
    BY <1>2, <1>4, <1>6, <1>7, TitledQueueFits
  <1>9. refused' \subseteq 1..made' /\ silent' \subseteq 1..made'
    <2>1. refused' \subseteq refused \cup {made'}
      BY DEF MakeReport
    <2>2. made' \in 1..made' /\ 1..made \subseteq 1..made'
      BY <1>1, <1>2
    <2> QED
      BY <1>1, <1>2, <2>1, <2>2
  <1>10. BoundaryTypeOK'
    BY <1>1, <1>2 DEF OutputTypeOK, BoundaryTypeOK
  <1> QED
    BY <1>1, <1>2, <1>4, <1>8, <1>9, <1>10 DEF TypesInv, OutputTypeOK, QueueFits

LEMMA MakeNoReportTypes == TypesInv /\ MakeNoReport => TypesInv'
  <1> SUFFICES ASSUME TypesInv, MakeNoReport PROVE TypesInv'
    OBVIOUS
  <1>1. /\ UNCHANGED <<tracker, parser, title, checkpoint, eightBit, terminal, queued, shown, noOsc,
                       refused, stale, pc, outer>>
        /\ made' = made + 1 /\ made < Reports /\ silent' = silent \cup {made'}
    BY DEF MakeNoReport, boundaryVars, terminalVars
  <1>2. /\ OutputTypeOK /\ QueueFits(queued, made) /\ made \in 0..Reports /\ shown \in 0..made
        /\ refused \subseteq 1..made /\ silent \subseteq 1..made
    BY DEF TypesInv, OutputTypeOK
  <1>3. made' \in 0..Reports /\ shown' \in 0..made'
    BY <1>1, <1>2, Limits
  <1>4. refused' \subseteq 1..made' /\ silent' \subseteq 1..made'
    <2>1. made' \in 1..made' /\ 1..made \subseteq 1..made'
      BY <1>1, <1>2
    <2> QED
      BY <1>1, <1>2, <2>1
  <1>5. QueueFits(queued', made')
    BY <1>1, <1>2, NewerFits
  <1>6. BoundaryTypeOK'
    BY <1>1, <1>2 DEF OutputTypeOK, BoundaryTypeOK
  <1> QED
    BY <1>1, <1>2, <1>3, <1>4, <1>5, <1>6 DEF TypesInv, OutputTypeOK, QueueFits

LEMMA DrainTypes == TypesInv /\ Drain => TypesInv'
  <1> SUFFICES ASSUME TypesInv, Drain PROVE TypesInv'
    OBVIOUS
  <1>1. /\ UNCHANGED <<tracker, parser, title, checkpoint, eightBit, terminal, made, silent, noOsc,
                       refused, stale>>
        /\ pc' = "read"
    BY DEF Drain, boundaryVars, terminalVars
  <1>2. /\ OutputTypeOK /\ QueueFits(queued, made) /\ made \in 0..Reports /\ shown \in 0..made
        /\ outer \in Items \cup {Own} /\ queued \in Seq(Items)
    BY DEF TypesInv, OutputTypeOK
  <1>3. BoundaryTypeOK'
    BY <1>1, <1>2 DEF OutputTypeOK, BoundaryTypeOK
  <1>4. /\ QueueFits(queued', made)
        /\ shown' \in 0..made
        /\ outer' \in Items \cup {Own}
    <2>1. CASE Ground
      <3>1. /\ shown' = LastOf(queued, FALSE, [number |-> shown]).number
            /\ outer' = LastOf(queued, TRUE, outer)
            /\ queued' = <<>>
        BY <2>1 DEF Drain
      <3>2. \A n \in DOMAIN queued : queued[n] \in Items /\ queued[n].number \in 0..made
        <4>1. ASSUME NEW n \in DOMAIN queued
              PROVE  queued[n] \in Items
          BY <1>2
        <4>2. ASSUME NEW n \in DOMAIN queued
              PROVE  queued[n].number \in 0..made
          <5>1. queued[n].number \in 0..Reports
            BY <4>1 DEF Items
          <5>2. queued[n].number <= made
            BY <1>2 DEF QueueFits
          <5> QED
            BY <1>2, <5>1, <5>2, Limits
        <4> QED
          BY <4>1, <4>2
      <3>3. shown' \in 0..made
        <4> DEFINE old == [number |-> shown]
        <4>1. old.number \in 0..made
          BY <1>2
        <4> HIDE DEF old
        <4>2. \/ LastOf(queued, FALSE, old) = old
              \/ \E n \in DOMAIN queued : LastOf(queued, FALSE, old) = queued[n]
          BY LastIsQueued
        <4>3. shown' = LastOf(queued, FALSE, old).number
          BY <3>1 DEF old
        <4> QED
          BY <3>2, <4>1, <4>2, <4>3
      <3>4. outer' \in Items \cup {Own}
        <4>1. \/ LastOf(queued, TRUE, outer) = outer
              \/ \E n \in DOMAIN queued : LastOf(queued, TRUE, outer) = queued[n]
          BY LastIsQueued
        <4> QED
          BY <1>2, <3>1, <3>2, <4>1
      <3>5. QueueFits(<<>>, made)
        BY NothingFits
      <3> QED
        BY <3>1, <3>3, <3>4, <3>5
    <2>2. CASE ~ Ground
      BY <1>2, <2>2 DEF Drain
    <2> QED
      BY <2>1, <2>2
  <1> QED
    BY <1>1, <1>2, <1>3, <1>4 DEF TypesInv, OutputTypeOK, QueueFits

LEMMA DiscoverTypes == TypesInv /\ Discover => TypesInv'
  <1> SUFFICES ASSUME TypesInv, Discover PROVE TypesInv'
    OBVIOUS
  <1>1. /\ UNCHANGED <<tracker, parser, checkpoint, eightBit, terminal, queued, made, silent, shown,
                       noOsc, refused, stale, pc, outer>>
        /\ title' = NoText
    BY DEF Discover, ClearTitle, terminalVars
  <1>2. OutputTypeOK /\ QueueFits(queued, made)
    BY DEF TypesInv
  <1>3. BoundaryTypeOK'
    BY <1>1, <1>2 DEF OutputTypeOK, BoundaryTypeOK, Whole
  <1> QED
    BY <1>1, <1>2, <1>3 DEF TypesInv, OutputTypeOK, QueueFits

\* Everything keeps its type, and the queue never exceeds the number of
\* injections or of bytes that queue_injection() allows, whatever their sizes.
THEOREM QueueKeepsItsLimits == Spec => []OutputTypeOK
  <1>1. TypesInv /\ [Next]_vars => TypesInv'
    <2>1. TypesInv /\ UNCHANGED vars => TypesInv'
      BY DEF TypesInv, OutputTypeOK, BoundaryTypeOK, QueueFits, vars, boundaryVars, terminalVars,
             loopVars
    <2> QED
      BY <2>1, ChildByteTypes, FollowTitleTypes, MakeReportTypes, MakeNoReportTypes, DiscoverTypes,
         DrainTypes
      DEF Next
  <1>2. TypesInv => OutputTypeOK
    BY DEF TypesInv
  <1> QED
    BY <1>1, <1>2, TypesInit, PTL DEF Spec
=============================================================================
