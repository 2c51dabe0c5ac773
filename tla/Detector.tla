------------------------------ MODULE Detector ------------------------------
(***************************************************************************)
(* The detection path of the wrapper's main loop (src/pty.rs): the         *)
(* chunks that change the screen, the rechecks of a pending hold, the      *)
(* probes of the foreground job and the timer all feed one hysteresis      *)
(* machine, and the machine's events become in-band reports.               *)
(*                                                                         *)
(* Each iteration of the loop makes these calls in a fixed order, here one *)
(* action per call.  What the rules would say about the screen is          *)
(* `evidence`, which only output of the child changes; what the prober     *)
(* would find in the foreground is `job`, which changes at any time.       *)
(* Whether a probe is due and is a full one is the scheduler's decision    *)
(* and is left open; fairness only asks that full probes go on.            *)
(***************************************************************************)
EXTENDS Integers, Sequences

CONSTANTS
    Agents, NoAgent, NoHold, FlagSets,
    Confirmation, HoldCap, Grace, Heartbeat, Confirmations, SeqMax,
    Ruled,          \* the agents that have a rule set
    Processes,      \* records with the agent and the pid of a process
    NoProcess, MissLimit

VARIABLES
    current, agent, visible, seq, hold, grace, beat, out,   \* the machine
    tracked, misses, announced, outcome,                    \* the loss tracker
    active,         \* active_agent: whose rules are applied to the screen
    forced,         \* --agent was given: there is no probing
    noOsc,          \* --no-osc was given: there are no in-band reports
    evidence,       \* the verdict of the active agent's rules on the screen
    job,            \* the foreground job: an agent's process, the shell, or neither
    heard,          \* had_chunk: this iteration read output of the child
    pc,             \* the next call of the iteration
    told,           \* the state and agent of the last in-band report
    refused         \* the queue had no room for the newest report

M == INSTANCE Machine
T == INSTANCE LossTracker

options == <<forced, noOsc>>
reports == <<told, refused>>
loop == <<active, options, evidence, job, heard, pc, reports>>
vars == <<M!vars, T!trackerVars, loop>>

Jobs == [found : Processes, shell : {FALSE}]
        \cup {[found |-> NoProcess, shell |-> s] : s \in BOOLEAN}

\* A process is recognised by the name of its agent, which a rule set gives.
AgentOf(p) == p.agent

ASSUME DetectorAssumption ==
    /\ NoAgent \notin Agents
    /\ {} \in FlagSets
    /\ NoProcess \notin Processes
    /\ Ruled \subseteq Agents
    /\ \A p \in Processes : AgentOf(p) \in Ruled

-----------------------------------------------------------------------------
(* In-band reports *)

Events == {out[n] : n \in DOMAIN out}
Published == {e \in Events : e.kind = "changed"}

\* Report::new() rejects a state other than none without an agent, and none with one.
ValidReport(state, a) == (state = "none") <=> (a = NoAgent)

\* queue_events() has a report for every publication that makes a valid one
\* and none for the others.  A call publishes at most once.
Reported == {e \in Published : ValidReport(e.state, e.agent)}

\* The report is queued unless the option forbids it; queue_injection() throws
\* away what does not fit into the queue, whose space is the output path's.
Report ==
    IF Reported' = {} \/ noOsc THEN UNCHANGED reports
    ELSE \E e \in Reported' :
            \/ told' = [state |-> e.state, agent |-> e.agent] /\ refused' = FALSE
            \/ told' = told /\ refused' = TRUE

-----------------------------------------------------------------------------
(* One iteration of the loop *)

Observe(verdict, a, exited) ==
    M!Observe([verdict |-> verdict, agent |-> a, exited |-> exited])

\* The verdict on a screen; without an agent, or without a rule set for the one
\* that --agent names, there are no rules to apply.
Judge(screen) == IF active \in Ruled THEN screen ELSE M!NoVerdict

\* The child wrote something that changed the screen, so the rules are applied.
ReceiveChange ==
    /\ pc = "receive"
    /\ evidence' \in M!Verdicts
    /\ Observe(Judge(evidence'), active, FALSE)
    /\ heard' = TRUE
    /\ pc' = "recheck"
    /\ Report
    /\ T!NoUpdate
    /\ UNCHANGED <<active, options, job>>

\* The child wrote something that left the screen as it was (heard), or
\* the loop woke up for a signal or for the receive timeout (not heard).
ReceiveNothingNew ==
    /\ pc = "receive"
    /\ heard' \in BOOLEAN
    /\ pc' = "recheck"
    /\ M!NoCall
    /\ T!NoUpdate
    /\ UNCHANGED <<active, options, evidence, job, reports>>

RecheckDue == ~ heard /\ M!HoldPending /\ M!DeadlinePassed

Recheck ==
    /\ pc = "recheck"
    /\ RecheckDue
    /\ Observe(Judge(evidence), active, FALSE)
    /\ pc' = "probe"
    /\ Report
    /\ T!NoUpdate
    /\ UNCHANGED <<active, options, evidence, job, heard>>

SkipRecheck ==
    /\ pc = "recheck"
    /\ ~ RecheckDue
    /\ pc' = "probe"
    /\ M!NoCall
    /\ T!NoUpdate
    /\ UNCHANGED <<active, options, evidence, job, heard, reports>>

\* What a full probe does with the tracker's outcome.  A discovery clears the
\* title and the progress and applies the new agent's rules at once.
ActOn ==
    CASE outcome' = "found" ->
            /\ active' = AgentOf(tracked')
            /\ evidence' \in M!Verdicts
            /\ Observe(evidence', active', FALSE)
            /\ Report
      [] outcome' = "exited" ->
            /\ active' = AgentOf(tracked)
            /\ UNCHANGED evidence
            /\ Observe(M!NoVerdict, active', TRUE)
            /\ Report
      [] outcome' = "lost" ->
            /\ active' = NoAgent
            /\ UNCHANGED evidence
            /\ Observe(M!NoVerdict, NoAgent, FALSE)
            /\ Report
      [] OTHER ->
            /\ M!NoCall
            /\ UNCHANGED <<active, evidence, reports>>

FullProbe ==
    /\ pc = "probe"
    /\ ~ forced
    /\ T!Update(job.found, job.shell)
    /\ ActOn
    /\ pc' = "tick"
    /\ UNCHANGED <<options, job, heard>>

\* No probe is due, or it reads the foreground group only.
NoFullProbe ==
    /\ pc = "probe"
    /\ pc' = "tick"
    /\ M!NoCall
    /\ T!NoUpdate
    /\ UNCHANGED <<active, options, evidence, job, heard, reports>>

Tick ==
    /\ pc = "tick"
    /\ M!Tick
    /\ pc' = "receive"
    /\ Report
    /\ T!NoUpdate
    /\ UNCHANGED <<active, options, evidence, job, heard>>

-----------------------------------------------------------------------------
(* The environment *)

\* Time passes while the loop waits.
Elapse ==
    /\ pc = "receive"
    /\ M!Elapse
    /\ T!NoUpdate
    /\ UNCHANGED loop

\* Programs start, end, and move between the foreground and the background.
JobChanges ==
    /\ pc = "receive"
    /\ job' \in Jobs \ {job}
    /\ M!NoCall
    /\ T!NoUpdate
    /\ UNCHANGED <<active, options, evidence, heard, pc, reports>>

-----------------------------------------------------------------------------

\* The agent is unknown, forced by --agent, or taken from the command's name in
\* the rule sets.
Init ==
    /\ M!Init
    /\ T!TrackerInit
    /\ forced \in BOOLEAN
    /\ active \in (IF forced THEN Agents ELSE Ruled \cup {NoAgent})
    /\ noOsc \in BOOLEAN
    /\ evidence = [state |-> "idle", visible |-> {}]
    /\ job = [found |-> NoProcess, shell |-> TRUE]
    /\ heard = FALSE
    /\ pc = "receive"
    /\ told = [state |-> "none", agent |-> NoAgent]
    /\ refused = FALSE

Receive == ReceiveChange \/ ReceiveNothingNew

Next ==
    \/ Receive
    \/ Recheck
    \/ SkipRecheck
    \/ FullProbe
    \/ NoFullProbe
    \/ Tick
    \/ Elapse
    \/ JobChanges

\* The loop never stops, since its receive times out; time passes in it again
\* and again; and while an agent is known the scheduler asks for a full probe
\* at least every five seconds.
Fairness ==
    /\ WF_vars(Receive) /\ WF_vars(Recheck) /\ WF_vars(SkipRecheck)
    /\ WF_vars(FullProbe \/ NoFullProbe) /\ WF_vars(Tick)
    /\ SF_vars(Elapse)
    /\ SF_vars(active # NoAgent /\ FullProbe)

Spec == Init /\ [][Next]_vars /\ Fairness

-----------------------------------------------------------------------------
(* What the detection path guarantees *)

\* The loop, the machine and the tracker agree on the agent whenever the
\* tracker has one: no verdict of one agent's rules is filed under another.
\* When the loop has none, nor has the machine, and nothing of what was
\* published or pending before the agent was lost is left.
OneAgent ==
    /\ tracked # NoProcess => active = AgentOf(tracked) /\ agent = active
    /\ active = NoAgent => agent = NoAgent /\ current = "none" /\ ~ M!HoldPending

\* The in-band consumer has heard the published state, whatever the agents did
\* before, unless that state is none, whose report is never made, the queue had
\* no room for the newest report, or the user wants no reports.
ConsumerInStep == current # "none" /\ ~ noOsc /\ ~ refused => told.state = current

\* A pending transition is settled by the loop's own calls: it is rechecked or
\* runs into the cap even if the child never writes again.
HoldResolves == M!HoldPending ~> ~ M!HoldPending

\* An agent that leaves the foreground for good is given up, whether the shell,
\* other programs or both in turn take its place.
GoneIsLost ==
    tracked # NoProcess ~> (job.found # NoProcess \/ current = "none")

-----------------------------------------------------------------------------
(* What the documents say and the code does not do *)

\* DESIGN.md: when the agent is gone "the next probe clears the agent, emitting
\* `none`".  The publication still names the lost agent, which no valid report
\* for none does, so no report is queued although there is room for one.
LossReachesConsumer ==
    [][outcome' = "lost" /\ ~ noOsc /\ ~ refused' => told'.state = "none"]_vars
=============================================================================
