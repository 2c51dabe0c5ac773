--------------------------- MODULE DetectorProofs ---------------------------
(***************************************************************************)
(* Proofs about the detection path of the main loop, for any agents and    *)
(* processes, any parameters of the machine and of the tracker, and any    *)
(* verdicts: the loop, the machine, the tracker and the in-band consumer   *)
(* stay in step.                                                           *)
(***************************************************************************)
EXTENDS Detector, TLAPS

Known == Agents \cup {NoAgent}

\* The tracker's process, if it has one, is of the agent of loop and machine.
TrackerFollows == tracked # NoProcess => active = AgentOf(tracked) /\ agent = active

\* The machine has the loop's agent or, before its first verdict, none.
MachineFollows == agent = active \/ agent = NoAgent

\* A machine without an agent has published nothing but none.
QuietWithoutAgent == agent = NoAgent => current = "none" /\ hold = NoHold

LoopInv ==
    /\ active \in Known
    /\ tracked \in Processes \cup {NoProcess}
    /\ job.found \in Processes \cup {NoProcess}
    /\ evidence \in M!Verdicts
    /\ MachineFollows
    /\ QuietWithoutAgent
    /\ TrackerFollows
    /\ ConsumerInStep

-----------------------------------------------------------------------------
(* What a call of the machine reports *)

LEMMA AppendedToOne ==
    ASSUME NEW e, NEW f
    PROVE  /\ DOMAIN Append(<<e>>, f) = {1, 2}
           /\ Append(<<e>>, f)[1] = e
           /\ Append(<<e>>, f)[2] = f
  <1>1. <<e>> \in Seq({e, f}) /\ f \in {e, f}
    OBVIOUS
  <1> QED
    BY <1>1

\* Events that are no publications leave the consumer as it was.
LEMMA NothingReported ==
    ASSUME Report, \A n \in DOMAIN out' : out'[n].kind # "changed"
    PROVE  UNCHANGED reports
  <1>1. Reported' = {}
    BY DEF Reported, Published, Events
  <1> QED
    BY <1>1 DEF Report

\* A publication of a state for an agent is a valid report, and the only one.
LEMMA PublicationReported ==
    ASSUME Report,
           NEW state, state # "none", NEW a, a # NoAgent, NEW flags, NEW exited,
           NEW e, e.kind # "changed", NEW before \in {<<>>, <<e>>},
           M!Publish(state, flags, exited, a, before)
    PROVE  current' = state /\ (told'.state = state \/ noOsc \/ refused')
  <1> DEFINE event == M!Changed(state, flags, exited, a)
  <1>1. out' = Append(before, event)
    BY DEF M!Publish
  <1>2. event.kind = "changed" /\ event.state = state /\ event.agent = a
    BY DEF M!Changed
  <1>3. Published' = {event}
    <2>1. CASE before = <<>>
      <3>1. out' = <<event>>
        BY <1>1, <2>1
      <3> QED
        BY <3>1, <1>2 DEF Published, Events
    <2>2. CASE before = <<e>>
      <3>1. DOMAIN out' = {1, 2} /\ out'[1] = e /\ out'[2] = event
        BY <1>1, <2>2, AppendedToOne
      <3>2. Events' = {e, event}
        BY <3>1 DEF Events
      <3> QED
        BY <3>2, <1>2 DEF Published
    <2> QED
      BY <2>1, <2>2
  <1>4. Reported' = {event}
    BY <1>2, <1>3 DEF Reported, ValidReport
  <1>5. noOsc \/ refused' \/ told' = [state |-> event.state, agent |-> event.agent]
    BY <1>4 DEF Report
  <1> QED
    BY <1>2, <1>5 DEF M!Publish

-----------------------------------------------------------------------------
(* What a call of the machine does to the agent and the state *)

\* After any call the machine has the agent that the call names; without one it
\* has no state and no hold; and what it publishes for an agent is reported.
LEMMA CallsAreReported ==
    ASSUME QuietWithoutAgent, ConsumerInStep, Report, UNCHANGED options,
           NEW verdict \in M!Verdicts \cup {M!NoVerdict}, NEW a \in Known,
           NEW exited \in BOOLEAN,
           a = NoAgent => verdict = M!NoVerdict /\ ~ exited,
           Observe(verdict, a, exited)
    PROVE  agent' = a /\ QuietWithoutAgent' /\ ConsumerInStep'
  <1> DEFINE found == M!Found(a)
  <1>1. M!Announce(a) \in {<<>>, <<found>>} /\ found.kind # "changed"
    BY DEF M!Announce, M!Found
  <1>2. \A n \in DOMAIN M!Announce(a) : M!Announce(a)[n].kind # "changed"
    BY <1>1
  <1>3. a = NoAgent => M!HoldFor(a) = NoHold
    BY DEF M!HoldFor, M!Replaces, QuietWithoutAgent
  <1>4. ASSUME a # NoAgent, NEW state, state # "none", NEW flags,
               M!Publish(state, flags, exited, a, M!Announce(a)) \/
               M!Publish(state, flags, FALSE, a, M!Announce(a))
        PROVE  ConsumerInStep'
    BY <1>1, <1>4, PublicationReported DEF ConsumerInStep, options
  <1>5. ASSUME M!Keep(M!Announce(a))
        PROVE  ConsumerInStep' /\ current' = current
    <2>1. UNCHANGED reports
      BY <1>2, <1>5, NothingReported DEF M!Keep
    <2> QED
      BY <1>5, <2>1 DEF M!Keep, ConsumerInStep, options, reports
  <1>6. CASE a = NoAgent /\ agent # NoAgent
    BY <1>6 DEF Observe, M!Observe, M!LoseAgent, M!Publish, QuietWithoutAgent, ConsumerInStep
  <1>7. CASE exited
    <2>1. a # NoAgent /\ M!AgentExited(a)
      BY <1>7 DEF Observe, M!Observe
    <2> QED
      BY <1>4, <1>7, <2>1 DEF M!AgentExited, M!Adopt, QuietWithoutAgent
  <1>8. CASE ~ (a = NoAgent /\ agent # NoAgent) /\ ~ exited
    <2>1. \/ M!IgnoreVerdict(verdict, a)
          \/ M!OpenHold(verdict, a)
          \/ M!ConfirmHold(verdict, a)
          \/ M!TakeVerdict(verdict, a)
      BY <1>8 DEF Observe, M!Observe
    <2>2. agent' = a
      BY <2>1 DEF M!IgnoreVerdict, M!OpenHold, M!ConfirmHold, M!TakeVerdict, M!Adopt
    <2>3. CASE a = NoAgent
      <3>1. M!Ignored(verdict, a)
        BY <2>3 DEF M!Ignored, M!NoVerdict
      <3>2. M!IgnoreVerdict(verdict, a)
        BY <2>1, <3>1 DEF M!OpenHold, M!ConfirmHold, M!TakeVerdict, M!IsHeld
      <3> QED
        BY <1>5, <1>8, <2>2, <2>3, <3>2 DEF M!IgnoreVerdict, QuietWithoutAgent
    <2>4. CASE a # NoAgent
      <3>1. CASE M!IgnoreVerdict(verdict, a)
        BY <1>5, <2>2, <2>4, <3>1 DEF M!IgnoreVerdict, QuietWithoutAgent
      <3>2. CASE M!OpenHold(verdict, a)
        BY <1>5, <2>2, <2>4, <3>2 DEF M!OpenHold, QuietWithoutAgent
      <3>3. CASE M!ConfirmHold(verdict, a)
        BY <1>4, <1>5, <2>2, <2>4, <3>3 DEF M!ConfirmHold, QuietWithoutAgent
      <3>4. CASE M!TakeVerdict(verdict, a)
        <4>1. verdict.state # "none"
          BY <3>4 DEF M!TakeVerdict, M!Ignored, M!Verdicts, M!NoVerdict
        <4> QED
          BY <1>4, <1>5, <2>2, <2>4, <3>4, <4>1 DEF M!TakeVerdict, QuietWithoutAgent
      <3> QED
        BY <2>1, <3>1, <3>2, <3>3, <3>4
    <2> QED
      BY <2>3, <2>4
  <1> QED
    BY <1>6, <1>7, <1>8

\* The timer publishes only for an agent.
LEMMA TicksAreReported ==
    ASSUME QuietWithoutAgent, ConsumerInStep, Report, UNCHANGED options, M!Tick
    PROVE  agent' = agent /\ QuietWithoutAgent' /\ ConsumerInStep'
  <1>1. CASE M!ForceIdle
    <2>1. agent # NoAgent /\ M!Publish("idle", {}, FALSE, agent, <<>>)
      BY <1>1 DEF M!ForceIdle, M!CapReached, QuietWithoutAgent
    <2>2. M!Lost.kind # "changed" /\ <<>> \in {<<>>, <<M!Lost>>}
      BY DEF M!Lost
    <2>3. current' = "idle" /\ (told'.state = "idle" \/ noOsc \/ refused')
      BY <2>1, <2>2, PublicationReported
    <2> QED
      BY <1>1, <2>1, <2>3 DEF M!ForceIdle, QuietWithoutAgent, ConsumerInStep, options
  <1>2. CASE M!EmitHeartbeat
    <2>1. out' = <<M!Repeat>> /\ M!Repeat.kind # "changed"
      BY <1>2 DEF M!EmitHeartbeat, M!Repeat
    <2>2. UNCHANGED reports
      BY <2>1, NothingReported
    <2> QED
      BY <1>2, <2>2 DEF M!EmitHeartbeat, QuietWithoutAgent, ConsumerInStep, options, reports
  <1>3. CASE M!NothingDue
    <2>1. UNCHANGED reports
      BY <1>3, NothingReported DEF M!NothingDue
    <2> QED
      BY <1>3, <2>1 DEF M!NothingDue, QuietWithoutAgent, ConsumerInStep, options, reports
  <1> QED
    BY <1>1, <1>2, <1>3 DEF M!Tick

-----------------------------------------------------------------------------
(* The steps of the loop *)

LEMMA InitEstablishes == Init => LoopInv
  <1> SUFFICES ASSUME Init PROVE LoopInv
    OBVIOUS
  <1>1. evidence \in M!Verdicts
    BY DetectorAssumption DEF Init, M!Verdicts
  <1>2. job.found \in Processes \cup {NoProcess}
    BY DEF Init
  <1> QED
    BY <1>1, <1>2, DetectorAssumption
    DEF Init, M!Init, T!TrackerInit, LoopInv, Known, MachineFollows, QuietWithoutAgent,
        TrackerFollows, ConsumerInStep

LEMMA JobsHaveProcesses ==
    ASSUME NEW j \in Jobs
    PROVE  j.found \in Processes \cup {NoProcess}
  <1>1. CASE j \in [found : Processes, shell : {FALSE}]
    BY <1>1
  <1>2. CASE j \in {[found |-> NoProcess, shell |-> s] : s \in BOOLEAN}
    BY <1>2
  <1> QED
    BY <1>1, <1>2 DEF Jobs

\* A call that changes neither the agent nor the tracker.
LEMMA CallKeepsAgent ==
    ASSUME LoopInv, Report, NEW screen \in M!Verdicts,
           Observe(Judge(screen), active, FALSE),
           T!NoUpdate, evidence' \in M!Verdicts, UNCHANGED <<active, options, job>>
    PROVE  LoopInv'
  <1>1. /\ Judge(screen) \in M!Verdicts \cup {M!NoVerdict}
        /\ active = NoAgent => Judge(screen) = M!NoVerdict
    BY DetectorAssumption DEF Judge
  <1>2. agent' = active /\ QuietWithoutAgent' /\ ConsumerInStep'
    BY <1>1, CallsAreReported DEF LoopInv
  <1> QED
    BY <1>2 DEF LoopInv, T!NoUpdate, MachineFollows, TrackerFollows

\* A step that makes no call.
LEMMA NoCallKeeps ==
    ASSUME LoopInv, T!NoUpdate, UNCHANGED <<agent, current, hold>>,
           UNCHANGED <<active, options, evidence, reports>>, job' = job \/ job' \in Jobs
    PROVE  LoopInv'
  BY JobsHaveProcesses DEF LoopInv, T!NoUpdate, MachineFollows, QuietWithoutAgent, TrackerFollows, ConsumerInStep,
      options, reports

\* What the tracker returns for a job, and what it tracks then.
LEMMA ProbeOutcomes ==
    ASSUME LoopInv, T!Update(job.found, job.shell)
    PROVE  \/ outcome' = "found" /\ tracked' \in Processes
           \/ outcome' = "exited" /\ tracked \in Processes /\ tracked' = tracked
           \/ outcome' = "lost" /\ tracked' = NoProcess
           \/ outcome' = "none" /\ tracked' = tracked
  BY DEF LoopInv, T!Update, T!Seen, T!NothingTracked, T!ShellIsBack,
      T!ShellIsStillThere, T!Miss, T!LastMiss, T!Forget, T!Gone

LEMMA FullProbeKeeps == LoopInv /\ FullProbe => LoopInv'
  <1> SUFFICES ASSUME LoopInv, FullProbe PROVE LoopInv'
    OBVIOUS
  <1>1. T!Update(job.found, job.shell) /\ ActOn /\ UNCHANGED <<options, job>>
    BY DEF FullProbe
  <1>2. CASE outcome' = "found"
    <2>1. /\ active' = AgentOf(tracked') /\ evidence' \in M!Verdicts
          /\ Observe(evidence', active', FALSE) /\ Report
      BY <1>1, <1>2 DEF ActOn
    <2>2. tracked' \in Processes /\ active' \in Agents
      BY <1>1, <1>2, <2>1, ProbeOutcomes, DetectorAssumption
    <2>3. active' \in Known /\ active' # NoAgent
      BY <2>2, DetectorAssumption DEF Known
    <2>4. agent' = active' /\ QuietWithoutAgent' /\ ConsumerInStep'
      BY <1>1, <2>1, <2>3, CallsAreReported DEF LoopInv
    <2> QED
      BY <1>1, <2>1, <2>2, <2>3, <2>4 DEF LoopInv, MachineFollows, TrackerFollows
  <1>3. CASE outcome' = "exited"
    <2>1. /\ active' = AgentOf(tracked) /\ evidence' = evidence
          /\ Observe(M!NoVerdict, active', TRUE) /\ Report
      BY <1>1, <1>3 DEF ActOn
    <2>2. tracked' = tracked /\ tracked \in Processes /\ active' \in Agents
      BY <1>1, <1>3, <2>1, ProbeOutcomes, DetectorAssumption
    <2>3. active' \in Known /\ active' # NoAgent
      BY <2>2, DetectorAssumption DEF Known
    <2>4. agent' = active' /\ QuietWithoutAgent' /\ ConsumerInStep'
      BY <1>1, <2>1, <2>3, CallsAreReported DEF LoopInv
    <2> QED
      BY <1>1, <2>1, <2>2, <2>3, <2>4 DEF LoopInv, MachineFollows, TrackerFollows
  <1>4. CASE outcome' = "lost"
    <2>1. /\ active' = NoAgent /\ evidence' = evidence
          /\ Observe(M!NoVerdict, NoAgent, FALSE) /\ Report
      BY <1>1, <1>4 DEF ActOn
    <2>2. tracked' = NoProcess
      BY <1>1, <1>4, ProbeOutcomes
    <2>3. NoAgent \in Known
      BY DEF Known
    <2>4. agent' = NoAgent /\ QuietWithoutAgent' /\ ConsumerInStep'
      BY <1>1, <2>1, <2>3, CallsAreReported DEF LoopInv
    <2> QED
      BY <1>1, <2>1, <2>2, <2>3, <2>4 DEF LoopInv, MachineFollows, TrackerFollows
  <1>5. CASE outcome' = "none"
    <2>1. M!NoCall /\ UNCHANGED <<active, evidence, reports>> /\ tracked' = tracked
      BY <1>1, <1>5, ProbeOutcomes DEF ActOn
    <2> QED
      BY <1>1, <2>1
      DEF LoopInv, M!NoCall, MachineFollows, QuietWithoutAgent, TrackerFollows, ConsumerInStep,
          options, reports
  <1> QED
    BY <1>1, <1>2, <1>3, <1>4, <1>5, ProbeOutcomes

LEMMA StepKeeps == LoopInv /\ [Next]_vars => LoopInv'
  <1> SUFFICES ASSUME LoopInv, [Next]_vars PROVE LoopInv'
    OBVIOUS
  <1>1. CASE ReceiveChange
    BY <1>1, CallKeepsAgent DEF ReceiveChange
  <1>2. CASE ReceiveNothingNew
    BY <1>2, NoCallKeeps DEF ReceiveNothingNew, M!NoCall
  <1>3. CASE Recheck
    <2>1. evidence \in M!Verdicts
      BY DEF LoopInv
    <2> QED
      BY <1>3, <2>1, CallKeepsAgent DEF Recheck
  <1>4. CASE SkipRecheck
    BY <1>4, NoCallKeeps DEF SkipRecheck, M!NoCall
  <1>5. CASE FullProbe
    BY <1>5, FullProbeKeeps
  <1>6. CASE NoFullProbe
    BY <1>6, NoCallKeeps DEF NoFullProbe, M!NoCall
  <1>7. CASE Tick
    <2>1. M!Tick /\ Report /\ T!NoUpdate /\ UNCHANGED <<active, options, evidence, job>>
      BY <1>7 DEF Tick
    <2>2. agent' = agent /\ QuietWithoutAgent' /\ ConsumerInStep'
      BY <2>1, TicksAreReported DEF LoopInv
    <2> QED
      BY <2>1, <2>2 DEF LoopInv, T!NoUpdate, MachineFollows, TrackerFollows
  <1>8. CASE Elapse
    <2>1. /\ M!Elapse /\ T!NoUpdate /\ UNCHANGED <<active, options, evidence, job, reports>>
          /\ hold = NoHold => hold' = NoHold
      BY <1>8 DEF Elapse, M!Elapse, loop
    <2> QED
      BY <2>1
      DEF LoopInv, M!Elapse, T!NoUpdate, MachineFollows, QuietWithoutAgent, TrackerFollows,
          ConsumerInStep, options, reports
  <1>9. CASE JobChanges
    BY <1>9, NoCallKeeps DEF JobChanges, M!NoCall
  <1>10. CASE UNCHANGED vars
    BY <1>10
    DEF vars, M!vars, T!trackerVars, loop, LoopInv, MachineFollows, QuietWithoutAgent,
        TrackerFollows, ConsumerInStep, options, reports
  <1> QED
    BY <1>1, <1>2, <1>3, <1>4, <1>5, <1>6, <1>7, <1>8, <1>9, <1>10 DEF Next, Receive

LEMMA LoopInvariant == Spec => []LoopInv
  BY InitEstablishes, StepKeeps, PTL DEF Spec

-----------------------------------------------------------------------------
(* What the detection path guarantees *)

\* The rules that are applied, the machine and the loss tracker have the same
\* agent at every point of an iteration (the calls in run()), and without one
\* nothing is published and no transition is pending.
THEOREM AgentsAgree == Spec => []OneAgent
  <1>1. LoopInv => OneAgent
    BY DEF LoopInv, TrackerFollows, MachineFollows, QuietWithoutAgent, OneAgent, M!HoldPending
  <1> QED
    BY <1>1, LoopInvariant, PTL

\* Every published state but none has reached the queue of in-band reports, if
\* there are reports and the queue had room (queue_events(), queue_injection()).
THEOREM ConsumerStaysInStep == Spec => []ConsumerInStep
  <1>1. LoopInv => ConsumerInStep
    BY DEF LoopInv
  <1> QED
    BY <1>1, LoopInvariant, PTL
=============================================================================
