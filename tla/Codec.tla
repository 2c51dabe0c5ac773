------------------------------- MODULE Codec -------------------------------
(***************************************************************************)
(* The OSC 7877 report of src/osc.rs: format() writes one, parse() reads   *)
(* one.  The wire is a sequence of tokens: a separator, a name or a word   *)
(* that is looked at as a whole, or one character of an agent's id, a      *)
(* number or a message.  A message is the sequence of its bytes.           *)
(*                                                                         *)
(* A report is formatted, and then edited on its way: fields are moved,    *)
(* added and dropped, and the frame is replaced.                           *)
(***************************************************************************)
EXTENDS Integers, FiniteSets, SequencesExt

CONSTANTS
    Nothing,        \* Option::None
    Error,          \* osc::Error
    Tokens,         \* what the wire is made of
    Code,           \* the characters in use, each with the value of its byte
    Agents,         \* agent ids, each a sequence of characters
    Messages,       \* messages, each a sequence of bytes
    Spare,          \* fields that are added, each a sequence of tokens
    Frames,         \* the frames that are put around a payload
    MaxReport,      \* MAX_REPORT_BYTES, counted in tokens
    MaxAgent,       \* MAX_AGENT_BYTES
    MaxMessage,     \* MAX_MESSAGE_BYTES
    MaxSeq,         \* the largest sequence number
    Numbers,        \* the sequence numbers that are formatted
    Edited,         \* bound: the reports that are edited
    MaxEdits        \* bound: so many times

VARIABLES
    sent,           \* the report that was formatted
    wire,           \* what the reader is given
    frame,          \* the frame it is in
    edits,
    kind            \* what the last edit was

vars == <<sent, wire, frame, edits, kind>>

-----------------------------------------------------------------------------
(* Reports *)

Bytes == 0..255
States == {"working", "blocked", "idle", "none"}
Flags == {"idle", "blocker", "working"}

\* Report::new()
NewReport(state, agent, seq, visible, exited, message) ==
    IF (state = "none") # (agent = Nothing) THEN Error
    ELSE IF message # Nothing /\ Len(message) > MaxMessage THEN Error
    ELSE [state |-> state, agent |-> agent, seq |-> seq, visible |-> visible,
          exited |-> exited, message |-> message]

Alphanumeric(byte) == byte \in 48..57 \/ byte \in 65..90 \/ byte \in 97..122

\* AgentId::new(): letters, digits, `-`, `.` and `_`.
AgentIdOf(value) ==
    IF /\ Len(value) \in 1..MaxAgent
       /\ \A i \in DOMAIN value :
             /\ value[i] \in DOMAIN Code
             /\ Alphanumeric(Code[value[i]]) \/ Code[value[i]] \in {45, 46, 95}
    THEN value ELSE Error

-----------------------------------------------------------------------------
(* format() *)

\* The character of a byte that is written as it is, or of the escape itself.
Character == [byte \in {Code[c] : c \in DOMAIN Code} |->
                CHOOSE c \in DOMAIN Code : Code[c] = byte]

HexDigit(nibble) == Character[IF nibble < 10 THEN 48 + nibble ELSE 55 + nibble]

Decimal(n) ==
    LET digits[k \in 0..n] ==
            IF k < 10 THEN <<HexDigit(k)>> ELSE Append(digits[k \div 10], HexDigit(k % 10))
    IN  digits[n]

\* All but letters, digits, `-`, `.`, `_`, `~` and the space are escaped.
IsLiteral(byte) == Alphanumeric(byte) \/ byte \in {32, 45, 46, 95, 126}

MutEncoded(byte) ==
    IF IsLiteral(byte) \/ byte = 37 THEN <<Character[byte]>>
    ELSE <<"%", HexDigit(byte \div 16), HexDigit(byte % 16)>>

Encoded(byte) ==
    IF IsLiteral(byte) THEN <<Character[byte]>>
    ELSE <<"%", HexDigit(byte \div 16), HexDigit(byte % 16)>>

\* percent_encode()
PercentEncode(message) == FlattenSeq([i \in DOMAIN message |-> Encoded(message[i])])

Joined(pieces, separator) ==
    FlattenSeq([i \in DOMAIN pieces |->
                   IF i = 1 THEN pieces[i] ELSE <<separator>> \o pieces[i]])

Only(name, visible) == IF name \in visible THEN <<<<name>>>> ELSE <<>>
FlagNames(visible) == Only("idle", visible) \o Only("blocker", visible) \o Only("working", visible)

Field(name, value) == <<name, "=">> \o value
Option(name, value) == IF value = Nothing THEN <<>> ELSE <<Field(name, value)>>

\* The code and the fields in the order in which they are written.
FieldsFor(report) ==
    <<<<"7877">>, Field("v", <<"1">>), Field("state", <<report.state>>)>>
    \o Option("agent", report.agent)
    \o <<Field("seq", Decimal(report.seq)),
         Field("visible", Joined(FlagNames(report.visible), ",")),
         Field("exited", <<IF report.exited THEN "1" ELSE "0">>)>>
    \o Option("message", IF report.message = Nothing THEN Nothing
                         ELSE PercentEncode(report.message))

Assembled(ends, fields) == ends.open \o Joined(fields, ";") \o ends.close

StFrame == [open |-> <<"ESC", "]">>, close |-> <<"ESC", "\\">>]
BelFrame == [open |-> <<"ESC", "]">>, close |-> <<"BEL">>]
Bare == [open |-> <<>>, close |-> <<>>]
Proper == {StFrame, BelFrame, Bare}

Format(report) == Assembled(StFrame, FieldsFor(report))

-----------------------------------------------------------------------------
(* parse() *)

WithToken(pieces, token, separator) ==
    IF token = separator THEN Append(pieces, <<>>)
    ELSE [pieces EXCEPT ![Len(pieces)] = Append(@, token)]

\* split()
Pieces(seq, separator) ==
    LET upto[i \in 0..Len(seq)] ==
            IF i = 0 THEN <<<<>>>> ELSE WithToken(upto[i - 1], seq[i], separator)
    IN  upto[Len(seq)]

HasTerminator(payload) ==
    \E i \in DOMAIN payload :
        \/ payload[i] = "BEL"
        \/ i < Len(payload) /\ payload[i] = "ESC" /\ payload[i + 1] = "\\"

\* strip_frame(): a payload that is not opened must not be closed either.
StripFrame(input) ==
    LET rest == SubSeq(input, 3, Len(input))
    IN  IF IsPrefix(<<"ESC", "]">>, input)
        THEN IF IsSuffix(<<"ESC", "\\">>, rest) THEN SubSeq(rest, 1, Len(rest) - 2)
             ELSE IF IsSuffix(<<"BEL">>, rest) THEN SubSeq(rest, 1, Len(rest) - 1)
             ELSE Error
        ELSE IF HasTerminator(input) THEN Error ELSE input

\* parse_flags()
FlagsIn(value) ==
    LET names == Pieces(value, ",")
    IN  IF value = <<>> THEN {}
        ELSE IF /\ \A i \in DOMAIN names : \E flag \in Flags : names[i] = <<flag>>
                /\ \A i, j \in DOMAIN names : names[i] = names[j] => i = j
        THEN {flag \in Flags : \E i \in DOMAIN names : names[i] = <<flag>>} ELSE Error

Number(value) ==
    LET upto[i \in 0..Len(value)] ==
            IF i = 0 THEN 0 ELSE 10 * upto[i - 1] + Code[value[i]] - 48
    IN  upto[Len(value)]

SeqIn(value) ==
    IF /\ value # <<>>
       /\ \A i \in DOMAIN value : value[i] \in DOMAIN Code /\ Code[value[i]] \in 48..57
       /\ Number(value) <= MaxSeq
    THEN Number(value) ELSE Error

\* hex()
HexValue == [c \in {d \in DOMAIN Code : Code[d] \in 48..57 \cup 65..70 \cup 97..102} |->
                IF Code[c] <= 57 THEN Code[c] - 48
                ELSE IF Code[c] >= 97 THEN Code[c] - 87 ELSE Code[c] - 55]

\* A character of UTF-8: its size and its second byte go with the first one, so
\* that none is too long, a surrogate or beyond the last code point.
IsCharacter(bytes) ==
    /\ Len(bytes) = CASE bytes[1] \in 0..127   -> 1
                      [] bytes[1] \in 194..223 -> 2
                      [] bytes[1] \in 224..239 -> 3
                      [] bytes[1] \in 240..244 -> 4
                      [] OTHER                 -> 0
    /\ \A i \in 2..Len(bytes) : bytes[i] \in 128..191
    /\ bytes[1] = 224 => bytes[2] >= 160
    /\ bytes[1] = 237 => bytes[2] <= 159
    /\ bytes[1] = 240 => bytes[2] >= 144
    /\ bytes[1] = 244 => bytes[2] <= 143

\* String::from_utf8(): whole characters.
IsUtf8(bytes) ==
    LET from[i \in 1..Len(bytes) + 1] ==
            \/ i > Len(bytes)
            \/ \E next \in (i + 1)..(Len(bytes) + 1) :
                  IsCharacter(SubSeq(bytes, i, next - 1)) /\ from[next]
    IN  from[1]

Prepended(byte, bytes) == IF bytes = Error THEN Error ELSE <<byte>> \o bytes

\* The digits of an escape in either case; all else, escaped or not, is taken
\* as it is.
Unescaped(value) ==
    LET from[i \in 1..Len(value) + 3] ==
            IF i > Len(value) THEN <<>>
            ELSE IF value[i] # "%" THEN Prepended(Code[value[i]], from[i + 1])
            ELSE IF i + 2 <= Len(value) /\ {value[i + 1], value[i + 2]} \subseteq DOMAIN HexValue
            THEN Prepended(16 * HexValue[value[i + 1]] + HexValue[value[i + 2]], from[i + 3])
            ELSE Error
    IN  from[1]

\* percent_decode()
MessageIn(value) ==
    LET bytes == Unescaped(value)
    IN  IF bytes = Error THEN Error
        ELSE IF Len(bytes) > MaxMessage \/ ~ IsUtf8(bytes) THEN Error ELSE bytes

OneOf(value, words) == IF Len(value) = 1 /\ value[1] \in words THEN value[1] ELSE Error

Names == {"v", "state", "agent", "seq", "visible", "exited", "message"}

ValueOf(name, value) ==
    CASE name = "v"       -> OneOf(value, {"1"})
      [] name = "state"   -> OneOf(value, States)
      [] name = "agent"   -> AgentIdOf(value)
      [] name = "seq"     -> SeqIn(value)
      [] name = "visible" -> FlagsIn(value)
      [] name = "exited"  -> OneOf(value, {"0", "1"})
      [] name = "message" -> MessageIn(value)

IsField(field) == "=" \in ToSet(field)
Split(field) == CHOOSE i \in DOMAIN field : field[i] = "=" /\ \A j \in 1..i - 1 : field[j] # "="
NameOf(field) == SubSeq(field, 1, Split(field) - 1)
ValueIn(field) == SubSeq(field, Split(field) + 1, Len(field))
Gives(field, name) == IsField(field) /\ NameOf(field) = <<name>>
IsKnown(field) == \E name \in Names : Gives(field, name)

MutTakeField(seen, field) ==
    IF seen = Error \/ ~ IsField(field) THEN Error
    ELSE IF ~ IsKnown(field) THEN seen
    ELSE LET name == NameOf(field)[1]
             value == ValueOf(name, ValueIn(field))
         IN  IF value = Error THEN Error ELSE [seen EXCEPT ![name] = value]

\* One turn of the loop over the fields.
TakeField(seen, field) ==
    IF seen = Error \/ ~ IsField(field) THEN Error
    ELSE IF ~ IsKnown(field) THEN seen
    ELSE LET name == NameOf(field)[1]
             value == ValueOf(name, ValueIn(field))
         IN  IF seen[name] # Nothing \/ value = Error THEN Error
             ELSE [seen EXCEPT ![name] = value]

Taken(fields) ==
    LET after[i \in 0..Len(fields)] ==
            IF i = 0 THEN [name \in Names |-> Nothing] ELSE TakeField(after[i - 1], fields[i])
    IN  after[Len(fields)]

ReportOf(seen) ==
    IF seen = Error THEN Error
    ELSE IF Nothing \in {seen["v"], seen["state"], seen["seq"]} THEN Error
    ELSE NewReport(seen["state"], seen["agent"], seen["seq"],
                   IF seen["visible"] = Nothing THEN {} ELSE seen["visible"],
                   seen["exited"] = "1", seen["message"])

Parse(input) ==
    LET payload == StripFrame(input)
        pieces == Pieces(payload, ";")
    IN  IF Len(input) > MaxReport \/ payload = Error THEN Error
        ELSE IF pieces[1] # <<"7877">> THEN Error ELSE ReportOf(Taken(Tail(pieces)))

-----------------------------------------------------------------------------
(* What is assumed of the constants *)

\* The words of a report are tokens.
ASSUME TokenAssumption ==
    Names \cup States \cup Flags \cup {"7877", "=", ",", "0", "1", "]", "\\"} \subseteq Tokens

\* A byte that is written as it is has a character; so have the characters
\* that mean something on the wire.
ASSUME CodeAssumption ==
    /\ Code \in [DOMAIN Code -> Bytes] /\ DOMAIN Code \subseteq Tokens
    /\ \A byte \in Bytes : IsLiteral(byte) => \E c \in DOMAIN Code : Code[c] = byte
    /\ {"%", ";", "BEL", "ESC"} \subseteq DOMAIN Code
    /\ Code["%"] = 37 /\ Code[";"] = 59 /\ Code["BEL"] = 7 /\ Code["ESC"] = 27

\* None and the error are no values.
Plain == Tokens \cup Nat \cup Seq(Tokens) \cup Seq(Nat)
Values == Plain \cup SUBSET Flags
ASSUME NoValueAssumption ==
    /\ Nothing \notin Plain /\ Error \notin Plain /\ Error # Nothing
    /\ \A flags \in SUBSET Flags : flags # Nothing /\ flags # Error
    /\ Error \notin [Names -> Values \cup {Nothing}]
    /\ Error \notin [state : States, agent : Values \cup {Nothing}, seq : Nat,
                     visible : SUBSET Flags, exited : BOOLEAN, message : Values \cup {Nothing}]

\* A report of the longest fields fits: its words and separators are 34 tokens,
\* and each byte of the message takes three at most.
ASSUME LimitAssumption ==
    /\ {MaxReport, MaxAgent, MaxMessage, MaxSeq, MaxEdits} \subseteq Nat
    /\ 34 + MaxAgent + Len(Decimal(MaxSeq)) + 3 * MaxMessage <= MaxReport

\* AgentId, String and the number's type hold nothing else.
ASSUME ReportAssumption ==
    /\ Numbers \subseteq 0..MaxSeq
    /\ \A agent \in Agents : agent \in Seq(Tokens) /\ AgentIdOf(agent) = agent
    /\ \A message \in Messages : message \in Seq(Bytes) /\ IsUtf8(message)

IsClosed(field) == IsSuffix(<<"ESC", "\\">>, field) \/ IsSuffix(<<"BEL">>, field)

\* What is added is one field, which does not close the frame; an unknown one
\* has no terminator at all, and a message consists of characters.
ASSUME WireAssumption ==
    /\ Frames \subseteq [open : {<<>>, <<"ESC", "]">>},
                         close : {<<>>, <<"ESC", "\\">>, <<"BEL">>}]
    /\ \A field \in Spare :
          /\ field \in Seq(Tokens) /\ ";" \notin ToSet(field) /\ ~ IsClosed(field)
          /\ IsField(field) /\ ~ IsKnown(field) => ~ HasTerminator(field)
          /\ Gives(field, "message") => ValueIn(field) \in Seq(DOMAIN Code)

-----------------------------------------------------------------------------
(* What happens to a report on its way *)

FieldsOf(input, ends) ==
    Pieces(SubSeq(input, Len(ends.open) + 1, Len(input) - Len(ends.close)), ";")

Edit(ends, fields) ==
    /\ sent \in Edited /\ edits < MaxEdits
    /\ edits' = edits + 1
    /\ wire' = Assembled(ends, fields)
    /\ frame' = ends
    /\ UNCHANGED sent

\* The code in front stays where it is.
Add ==
    LET fields == FieldsOf(wire, frame)
    IN  \E field \in Spare, place \in 2..Len(fields) + 1 :
            /\ Edit(frame, InsertAt(fields, place, field))
            /\ kind' = IF IsField(field) /\ ~ IsKnown(field) THEN "extend" ELSE "add"

Drop ==
    LET fields == FieldsOf(wire, frame)
    IN  \E place \in 2..Len(fields) : Edit(frame, RemoveAt(fields, place)) /\ kind' = "drop"

Move ==
    LET fields == FieldsOf(wire, frame)
    IN  \E from \in 2..Len(fields), to \in 2..Len(fields) :
            /\ from # to
            /\ Edit(frame, InsertAt(RemoveAt(fields, from), to, fields[from]))
            /\ kind' = "move"

Reframe ==
    \E ends \in Frames \ {frame} : Edit(ends, FieldsOf(wire, frame)) /\ kind' = "reframe"

-----------------------------------------------------------------------------

\* What a caller may give to Report::new().
Reports ==
    {r \in [state : States, agent : Agents \cup {Nothing}, seq : Numbers,
            visible : SUBSET Flags, exited : BOOLEAN,
            message : Messages \cup {Nothing}] :
        NewReport(r.state, r.agent, r.seq, r.visible, r.exited, r.message) # Error}

Init ==
    /\ sent \in Reports
    /\ wire = Format(sent)
    /\ frame = StFrame
    /\ edits = 0
    /\ kind = "none"

Next == Add \/ Drop \/ Move \/ Reframe

Spec == Init /\ [][Next]_vars

-----------------------------------------------------------------------------
(* What the codec guarantees *)

\* What format() writes, parse() reads back, whatever bytes the message has;
\* and whatever parse() accepts can be formatted and is the same again.
RoundTrip ==
    /\ edits = 0 => Parse(wire) = sent
    /\ Parse(wire) # Error => Parse(Format(Parse(wire))) = Parse(wire)

Given(input, ends, name) ==
    LET fields == FieldsOf(input, ends)
    IN  Cardinality({i \in DOMAIN fields : Gives(fields[i], name)})

\* OBSERVATION-CONTRACT.md: a report is read the same whatever the order of its
\* fields, with unknown fields added within the limit, and in either frame or
\* none (parse()); one with a field missing or given twice is not read at all.
ParseIsStrict ==
    [][LET before == Parse(wire)
           after == Parse(wire')
           fit == Len(wire) <= MaxReport /\ Len(wire') <= MaxReport
           payload == Joined(FieldsOf(wire, frame), ";")
       IN  /\ kind' = "move" => after = before
           /\ kind' = "extend" /\ fit => after = before
           /\ kind' = "reframe" /\ fit /\ {frame, frame'} \subseteq Proper /\ ~ HasTerminator(payload)
                => after = before
           /\ after # Error =>
                 /\ frame' \in Proper /\ Len(wire') <= MaxReport
                 /\ \A name \in Names : Given(wire', frame', name) <= 1
                 /\ \A name \in {"v", "state", "seq"} : Given(wire', frame', name) = 1]_vars
=============================================================================
