------------------------------ MODULE Observer ------------------------------
(***************************************************************************)
(* zor observe (src/observe.rs): a process that watches a pane owned by a  *)
(* multiplexer.  Each sample asks the control socket for the list of panes *)
(* and for the pane's text, probes the foreground job, and feeds the loss  *)
(* tracker and the hysteresis machine; the reports go to stdout, one line  *)
(* each.  The screen is built anew for every sample.                       *)
(*                                                                         *)
(* Requests fail in many ways (no server, wrong peer, timeouts, oversized  *)
(* or malformed replies), all with the same effect, so that any request    *)
(* may fail here; the consumer may close stdout at any time.               *)
(***************************************************************************)
EXTENDS Integers, Sequences

CONSTANTS
    Agents, NoAgent, NoHold, FlagSets,
    Confirmation, HoldCap, Grace, Heartbeat, Confirmations, SeqMax,
    Processes, NoProcess, MissLimit,
    Startup         \* how long a failing list request is retried, in units of time

ASSUME ObserverAssumption == Startup \in Nat

VARIABLES
    current, agent, visible, seq, hold, grace, beat, out,   \* the machine
    tracked, misses, announced, outcome,                    \* the loss tracker
    active,         \* active_agent
    forced,         \* --agent was given
    startup,        \* time left in which a failing list request is retried
    pane,           \* what the list has for the given id
    job,            \* the pane's foreground job, as in Detector
    lines,          \* the events of this sample that are not written yet
    told,           \* the last line the consumer got
    pc,             \* the next call of the sample
    ended           \* how run() returned; "no" while it runs

M == INSTANCE Machine
T == INSTANCE LossTracker

observer == <<active, forced, startup, pane, job, lines, told, pc, ended>>
vars == <<M!vars, T!trackerVars, observer>>

Jobs == [found : Processes, shell : {FALSE}]
        \cup {[found |-> NoProcess, shell |-> s] : s \in BOOLEAN}

NoJob == [found |-> NoProcess, shell |-> FALSE]

\* The given id may stand for another process, or for none.
Panes == {"there", "replaced", "gone"}

Told == [state : M!States, agent : Agents \cup {NoAgent}, seq : 0..SeqMax]

\* Report::new()
ValidReport(event) == (event.state = "none") <=> (event.agent = NoAgent)

Quiet == M!NoCall /\ T!NoUpdate

Return(how) ==
    /\ ended' = how
    /\ lines' = <<>>
    /\ UNCHANGED <<active, forced, startup, pane, job, told, pc>>

Proceed(to) ==
    /\ pc' = to
    /\ UNCHANGED <<active, forced, startup, pane, job, lines, told, ended>>

-----------------------------------------------------------------------------
(* One sample *)

\* The pane is looked up by its id, and its pid must be the one given.
List ==
    /\ ended = "no" /\ pc = "list"
    /\ IF pane = "there" THEN Proceed("capture") ELSE Return("gone")
    /\ Quiet

MutListFails ==
    /\ ended = "no" /\ pc = "list"
    /\ Proceed("sleep")
    /\ Quiet

\* The observer may start before its parent accepts connections: only at the
\* start is a failure retried, after a pause.
ListFails ==
    /\ ended = "no" /\ pc = "list"
    /\ IF startup > 0 THEN Proceed("sleep") ELSE Return("failed")
    /\ Quiet

\* The text is asked for by the id alone: if the pane was replaced since it was
\* listed, it is the text of another one.
Capture ==
    /\ ended = "no" /\ pc = "capture"
    /\ pane # "gone"
    /\ Proceed("judge")
    /\ Quiet

\* Also when the pane has gone since it was listed.
CaptureFails ==
    /\ ended = "no" /\ pc = "capture"
    /\ Return("failed")
    /\ Quiet

Track == IF forced THEN T!NoUpdate ELSE T!Update(job.found, job.shell)

ActiveAfter ==
    CASE outcome' = "found"  -> tracked'.agent
      [] outcome' = "exited" -> tracked.agent
      [] outcome' = "lost"   -> NoAgent
      [] OTHER               -> active

\* What the agent's rules can say; a forced agent may have none.
VerdictsFor(a) ==
    (IF a = NoAgent THEN {} ELSE M!Verdicts)
    \cup (IF a = NoAgent \/ forced THEN {M!NoVerdict} ELSE {})

Judge ==
    /\ ended = "no" /\ pc = "judge"
    /\ Track
    /\ active' = ActiveAfter
    /\ \E verdict \in VerdictsFor(active') :
          M!Observe([verdict |-> verdict, agent |-> active', exited |-> outcome' = "exited"])
    /\ lines' = out'
    /\ pc' = "tick"
    /\ UNCHANGED <<forced, startup, pane, job, told, ended>>

\* observe() and tick() are called before any report is written.
Tick ==
    /\ ended = "no" /\ pc = "tick"
    /\ M!Tick
    /\ lines' = lines \o out'
    /\ pc' = "write"
    /\ T!NoUpdate
    /\ UNCHANGED <<active, forced, startup, pane, job, told, ended>>

MutReported == {"changed"}

\* The kinds of events that become reports; the others are skipped.
Reported == {"changed", "heartbeat"}

\* Each report is written and flushed before the next one is made.
Write ==
    /\ ended = "no" /\ pc = "write" /\ lines # <<>>
    /\ LET event == Head(lines)
       IN  /\ event.kind \in Reported => ValidReport(event)
           /\ told' = IF event.kind \in Reported
                      THEN [state |-> event.state, agent |-> event.agent, seq |-> event.seq]
                      ELSE told
    /\ lines' = Tail(lines)
    /\ UNCHANGED <<active, forced, startup, pane, job, pc, ended>>
    /\ Quiet

MutInvalid ==
    /\ ended = "no" /\ pc = "write" /\ lines # <<>>
    /\ Head(lines).kind \in Reported /\ ~ ValidReport(Head(lines))
    /\ lines' = Tail(lines)
    /\ UNCHANGED <<active, forced, startup, pane, job, told, pc, ended>>
    /\ Quiet

\* An invalid report is an error of the whole observer.
Invalid ==
    /\ ended = "no" /\ pc = "write" /\ lines # <<>>
    /\ Head(lines).kind \in Reported /\ ~ ValidReport(Head(lines))
    /\ Return("invalid")
    /\ Quiet

WriteFails ==
    /\ ended = "no" /\ pc = "write" /\ lines # <<>>
    /\ Head(lines).kind \in Reported /\ ValidReport(Head(lines))
    /\ Return("closed")
    /\ Quiet

AllWritten ==
    /\ ended = "no" /\ pc = "write" /\ lines = <<>>
    /\ Proceed("sleep")
    /\ Quiet

Wake ==
    /\ ended = "no" /\ pc = "sleep"
    /\ Proceed("list")
    /\ Quiet

-----------------------------------------------------------------------------
(* The environment *)

\* Time passes during the pause.
Elapse ==
    /\ ended = "no" /\ pc = "sleep"
    /\ M!Elapse
    /\ T!NoUpdate
    /\ startup' = M!Later(startup)
    /\ UNCHANGED <<active, forced, pane, job, lines, told, pc, ended>>

\* The pane is closed, at once or after another process took its id; the old
\* process has a foreground job as long as it lives on.
PaneEnds ==
    /\ pane' \in CASE pane = "there"    -> {"replaced", "gone"}
                   [] pane = "replaced" -> {"gone"}
                   [] pane = "gone"     -> {}
    /\ job' \in {job, NoJob}
    /\ Quiet
    /\ UNCHANGED <<active, forced, startup, lines, told, pc, ended>>

JobChanges ==
    /\ ended = "no" /\ pc = "sleep"
    /\ job' \in Jobs \ {job}
    /\ Quiet
    /\ UNCHANGED <<active, forced, startup, pane, lines, told, pc, ended>>

-----------------------------------------------------------------------------

Init ==
    /\ M!Init
    /\ T!TrackerInit
    /\ active \in Agents \cup {NoAgent}
    /\ forced = (active # NoAgent)
    /\ startup = Startup
    /\ pane \in Panes
    /\ job = [found |-> NoProcess, shell |-> TRUE]
    /\ lines = <<>>
    /\ told = [state |-> "none", agent |-> NoAgent, seq |-> 0]
    /\ pc = "list"
    /\ ended = "no"

Sample ==
    \/ List \/ ListFails \/ Capture \/ CaptureFails \/ Judge \/ Tick
    \/ Write \/ Invalid \/ WriteFails \/ AllWritten \/ Wake

Next == Sample \/ Elapse \/ PaneEnds \/ JobChanges

\* The requests have deadlines and the pause is short, so samples go on, and
\* time with them.
Spec == Init /\ [][Next]_vars /\ WF_vars(Sample) /\ SF_vars(Elapse)

-----------------------------------------------------------------------------
(* What the observer guarantees *)

\* Between samples, also after one that failed, the consumer has been told the
\* state of the machine, and the machine, the tracker and the observer agree on
\* the agent, though each keeps its own (run()); only an agent that is forced
\* is not the machine's before the first sample is judged.
ObserverInStep ==
    pc \in {"list", "capture"} /\ ended = "no" =>
        /\ told.state = current /\ told.seq = seq
        /\ agent = active \/ (forced /\ agent = NoAgent /\ seq = 0)
        /\ tracked # NoProcess => tracked.agent = active

\* The consumer learns which agent it hears of even if another agent takes
\* over in the same state, which publishes nothing: a heartbeat tells it.
ConsumerLearnsAgent ==
    current # "none" /\ told.agent # agent ~> told.agent = agent \/ ended # "no"

\* OBSERVATION-CONTRACT.md: removal or replacement of the pane ends the
\* observation, however the requests fail from then on.
PaneEndsObserver == pane # "there" ~> ended # "no"
=============================================================================
