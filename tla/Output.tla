------------------------------- MODULE Output -------------------------------
(***************************************************************************)
(* What reaches the outer terminal: the main loop of src/pty.rs writes the *)
(* child's bytes first and parses them after, queues its own reports and   *)
(* titles, and writes those at the end of an iteration if the boundary     *)
(* tracker is between sequences.  A chunk may end after any byte.          *)
(***************************************************************************)
EXTENDS Boundary, FiniteSets

CONSTANTS
    Terminals,          \* do outer terminals know C1 controls, or else UTF-8?
    Continuations,      \* the continuation bytes of the characters in use
    RepeatedEsc,        \* the child may write ESC again before a sequence
    MaxQueued,          \* MAX_QUEUED_INJECTIONS
    MaxQueuedBytes,     \* MAX_QUEUED_INJECTION_BYTES
    Sizes,              \* the sizes of the wrapper's reports
    Reports             \* bound: so many publications are made

ASSUME OutputAssumption ==
    /\ Terminals \subseteq BOOLEAN /\ RepeatedEsc \in BOOLEAN
    /\ Continuations \subseteq C1 \cup {"cont"}
    /\ {MaxQueued, MaxQueuedBytes, Reports} \subseteq Nat
    /\ Sizes \subseteq Nat \ {0}

VARIABLES
    eightBit,       \* the outer terminal knows C1 controls, and not UTF-8
    terminal,       \* where the outer terminal stands in the child's stream
    queued,         \* the reports that wait for a boundary
    made,           \* the number of the machine's publications so far
    silent,         \* the publications of which no report is made
    shown,          \* the last report the terminal was given
    noOsc,          \* --no-osc was given: titles are queued, reports are not
    refused,        \* the reports that were not queued, for that or for lack of room
    stale,          \* it had no room for the newest title
    lastTitle,      \* last_title
    pc,             \* the next step of the iteration
    outer           \* the title of the outer terminal: Own, or the wrapper's

loopVars == <<queued, made, silent, shown, noOsc, refused, stale, lastTitle, pc, outer>>
terminalVars == <<eightBit, terminal>>
vars == <<boundaryVars, titleVars, terminalVars, loopVars>>

\* The title is the child's, as the child wrote it, or none yet.
Own == [title |-> FALSE, number |-> 0, size |-> 0, text |-> NoText]

-----------------------------------------------------------------------------
(* The child *)

\* The bytes a child may write where the terminal stands: whole UTF-8
\* characters, or eight-bit controls, between sequences and in control strings,
\* and sequences that are finished or cancelled before another one begins.
Legal(state) ==
    CASE state = "ground"   -> {"text", "param", "ESC", "BEL", "CAN"}
                               \cup IF eightBit THEN C1 ELSE {"lead"}
      [] state \in {"wide", "wideOsc", "wideString"} -> Continuations
      [] state = "escape"   -> {"[", "]", "P", "inter", "param", "text"}
                               \cup IF RepeatedEsc THEN {"ESC"} ELSE {}
      [] state = "closing"  -> {"\\"}
      [] state = "csi"      -> {"param", "inter", "text", "[", "ESC", "CAN"}
      [] state \in {"osc", "string"} ->
            {"text", "param", "]", "BEL", "ESC", "CAN"}
            \cup IF eightBit THEN {"9C"} ELSE {"lead"}

-----------------------------------------------------------------------------
(* The queue of injections *)

\* A byte of the queue is a place in one of its items.
BytesOf(q) == UNION {{i} \X (1..q[i].size) : i \in DOMAIN q}
BytesQueued(q) == Cardinality(BytesOf(q))

MutHasRoom(q, size) ==
    /\ Len(q) <= MaxQueued
    /\ BytesQueued(q) + size <= MaxQueuedBytes

HasRoom(q, size) ==
    /\ Len(q) < MaxQueued
    /\ BytesQueued(q) + size <= MaxQueuedBytes

\* queue_injection() refuses what does not fit.
QueueInjection(q, item) == IF HasRoom(q, item.size) THEN Append(q, item) ELSE q

\* A title that follows the items already queued.
QueueTitle(q, frames) ==
    LET queue == IF frames = <<>> THEN q ELSE QueueInjection(q, Head(frames))
    IN  /\ queued' = queue
        /\ stale' = IF frames = <<>> THEN stale ELSE queue = q

-----------------------------------------------------------------------------
(* The main loop *)

\* write_all() and flush() precede process().  The terminal shows the titles of
\* the child as they come.
ChildByte ==
    /\ pc = "read"
    /\ \E byte \in Legal(terminal) :
          /\ terminal' = Terminal(eightBit, terminal, byte)
          /\ outer' = IF EndsOsc(terminal, terminal') /\ byte # "CAN" THEN Own ELSE outer
          /\ Process(byte)
    /\ UNCHANGED <<titleVars, eightBit, queued, made, silent, shown, noOsc, refused, stale,
                   lastTitle, pc>>

\* The same title once more is no change.
TitleChanged == title # lastTitle

\* The chunk ends.  If the child has changed its title, the terminal is given
\* one with the state's glyph.
FollowTitle ==
    /\ pc = "read"
    /\ pc' = "report"
    /\ IF TitleChanged
       THEN Observe(title) /\ QueueTitle(queued, Framed(title, made))
       ELSE UNCHANGED <<titleVars, queued, stale>>
    /\ lastTitle' = title
    /\ UNCHANGED <<boundaryVars, terminalVars, made, silent, shown, noOsc, refused, outer>>

MutTitleOf(number) == <<>>

\* The title that goes with a publication.
TitleOf(number) == Framed(title, number)

\* The machine published and a report is made of it; the title comes after it.
MakeReport ==
    /\ pc = "report"
    /\ made < Reports
    /\ made' = made + 1
    /\ \E size \in Sizes :
          LET report == [title |-> FALSE, number |-> made', size |-> size, text |-> NoText]
              reported == ~ noOsc /\ HasRoom(queued, size)
          IN  /\ QueueTitle(IF reported THEN Append(queued, report) ELSE queued, TitleOf(made'))
              /\ refused' = IF reported THEN refused ELSE refused \cup {made'}
    /\ Observe(title)
    /\ UNCHANGED <<boundaryVars, terminalVars, silent, shown, noOsc, lastTitle, pc, outer>>

\* The machine published the loss of the agent, of which Report::new() makes no
\* report: nothing is queued, not even a title without the glyph.
MakeNoReport ==
    /\ pc = "report"
    /\ made < Reports
    /\ made' = made + 1
    /\ silent' = silent \cup {made'}
    /\ UNCHANGED <<boundaryVars, titleVars, terminalVars, queued, shown, noOsc, refused, stale,
                   lastTitle, pc, outer>>

\* The discovery of an agent makes the old title no evidence for it.
Discover ==
    /\ pc = "report"
    /\ ClearTitle
    /\ lastTitle' = NoText
    /\ UNCHANGED <<titleVars, terminalVars, queued, made, silent, shown, noOsc, refused, stale, pc,
                   outer>>

\* The last title of the queue or, if not titled, its last report.
LastOf(q, titled, none) ==
    LET wanted == {i \in DOMAIN q : q[i].title = titled}
        last == {i \in wanted : \A j \in wanted : j <= i}
    IN  IF last = {} THEN none ELSE q[CHOOSE i \in last : TRUE]

\* The end of an iteration drains the queue if the tracker is between sequences.
Drain ==
    /\ pc = "report"
    /\ pc' = "read"
    /\ IF Ground
       THEN /\ shown' = LastOf(queued, FALSE, [number |-> shown]).number
            /\ outer' = LastOf(queued, TRUE, outer)
            /\ queued' = <<>>
       ELSE UNCHANGED <<shown, outer, queued>>
    /\ UNCHANGED <<boundaryVars, titleVars, terminalVars, made, silent, noOsc, refused, stale,
                   lastTitle>>

-----------------------------------------------------------------------------

Init ==
    /\ BoundaryInit
    /\ eightBit \in Terminals
    /\ terminal = "ground"
    /\ queued = <<>>
    /\ made = 0
    /\ silent = {}
    /\ shown = 0
    /\ noOsc \in BOOLEAN
    /\ refused = {}
    /\ stale = FALSE
    /\ lastTitle = NoText
    /\ pc = "read"
    /\ outer = Own
    /\ TitlesInit

Next == ChildByte \/ FollowTitle \/ MakeReport \/ MakeNoReport \/ Discover \/ Drain

\* Iterations never stop: the receive times out when the child is silent.
Spec == Init /\ [][Next]_vars /\ WF_vars(FollowTitle) /\ WF_vars(Drain)

-----------------------------------------------------------------------------

Items == [title : BOOLEAN, number : 0..Reports, size : Sizes \cup {1},
          text : Whole \cup {Partial, AgentName}]

OutputTypeOK ==
    /\ BoundaryTypeOK
    /\ eightBit \in Terminals
    /\ terminal \in TerminalStates
    /\ queued \in Seq(Items)
    /\ Len(queued) <= MaxQueued /\ BytesQueued(queued) <= MaxQueuedBytes
    /\ made \in 0..Reports /\ shown \in 0..made
    /\ refused \subseteq 1..made /\ silent \subseteq 1..made
    /\ stale \in BOOLEAN /\ noOsc \in BOOLEAN
    /\ pc \in {"read", "report"}
    /\ outer \in Items \cup {Own}

\* Nothing is written inside a sequence: when the wrapper writes its reports and
\* titles, the outer terminal is between sequences too (BoundaryTracker::byte()).
InjectionIsSafe ==
    [][queued # <<>> /\ queued' = <<>> => terminal \in Between]_vars

\* The tracker does not keep reports back when it need not: it is between
\* sequences whenever the terminal is.
TrackerFollows == terminal \in Between => Ground

\* The vt100 parser is inside a string exactly while the tracker is inside one
\* that it does not discard, so the screen model recovers from an overlong one.
ParserFollows ==
    parser \in Strings \cup {"closing"} <=> InString(tracker) /\ ~ tracker.discarded

\* A title outlives the overlong and the cancelled strings after it, and no
\* part of one is taken for a title (Screen::process()): it changes only by a
\* string the terminal, too, has seen to its end, or by a discovery, after
\* which a cancelled string that had begun before it brings the old one back.
TitleIsKept ==
    [][title' # title =>
          \/ terminal = "osc" /\ ~ tracker.discarded /\ title' \in Whole
          \/ title' = NoText /\ pc = "report"
          \/ title = NoText /\ title' = checkpoint]_vars

\* DESIGN.md: the title is `<glyph> <original title>`, emitted again on a change
\* of the state "even when the child did not" set it.  A drained queue leaves
\* the wrapper's title with the child's newest title, of which only a discovery
\* makes it lose sight, and with the newest state that was reported; unless the
\* title was refused, or the child has set its title since to what it was, or
\* beyond the limit.  The loss of the agent is not reported: until the child
\* changes its title, the outer one keeps the glyph of the agent that has gone,
\* which is not what DESIGN.md says ("nothing for none").
TitleShowsState ==
    pc = "read" =>
        /\ original = lastTitle \/ lastTitle = NoText
        /\ queued = <<>> /\ outer # Own /\ ~ stale =>
              /\ (outer.number + 1)..made \subseteq silent
              /\ outer.text \in {original, AgentName}

\* Every report is written in the end, or was not queued for lack of room or by
\* the user's choice, once the child leaves the terminal between sequences.
ReportsArrive ==
    <>[](terminal \in Between) => []<>((shown + 1)..made \subseteq refused \cup silent)
=============================================================================
