---------------------------- MODULE TimingProofs ----------------------------
(***************************************************************************)
(* Proofs about the two specifications that judge a component from outside *)
(* by the time that passes.                                                *)
(*                                                                         *)
(* The hysteresis machine, for every choice of its constants: any agents,  *)
(* any flags, any lengths of the confirmation, hold cap, grace and         *)
(* heartbeat, any number of confirmations.                                 *)
(*                                                                         *)
(* The prober, for any number of misses, any cadences of the scheduler,    *)
(* any foreground groups and processes: an agent is not given up before    *)
(* the time its misses take, and its exit is not announced for ever.       *)
(***************************************************************************)
EXTENDS Hysteresis, Probing, TLAPS

-----------------------------------------------------------------------------
(* The hysteresis machine *)


HInv == TypeOK /\ HistoryOK /\ HoldIsJustified /\ HoldCountsVerdicts

\* Publishing keeps the published part of the state in its types.
LEMMA PublishTypes ==
    ASSUME TypeOK,
           NEW s \in States, NEW f \in FlagSets, NEW x, NEW a, NEW before,
           Publish(s, f, x, a, before)
    PROVE  /\ current' = s
           /\ visible' = f
           /\ seq' \in 0..SeqMax /\ seq' # 0
           /\ beat' \in 0..Heartbeat /\ beat' # NotArmed
  BY MachineAssumption DEF TypeOK, Publish, NextSeq, NotArmed

\* The fields of an input are what the callers can pass.
LEMMA InputFields ==
    ASSUME NEW i \in Inputs
    PROVE  /\ i.agent \in Agents \cup {NoAgent}
           /\ i.verdict = NoVerdict \/ i.verdict \in Verdicts
           /\ i.agent = NoAgent => i.verdict = NoVerdict /\ ~ i.exited
  BY MachineAssumption DEF Inputs

LEMMA InitEstablishes == HInit => HInv
  BY MachineAssumption
  DEF HInit, Init, HInv, TypeOK, HistoryOK, HoldIsJustified, HoldCountsVerdicts,
      HoldPending, States, NotArmed

\* Every step leaves the variables in their types.
LEMMA ObserveTypes ==
    ASSUME TypeOK, NEW i \in Inputs, Observe(i)
    PROVE  TypeOK'
  <1>1. /\ i.agent \in Agents \cup {NoAgent}
        /\ i.verdict = NoVerdict \/ i.verdict \in Verdicts
    BY InputFields
  <1>2. ASSUME NEW a \in Agents \cup {NoAgent}, Adopt(a)
        PROVE  agent' \in Agents \cup {NoAgent} /\ grace' \in 0..Grace
    BY <1>2, MachineAssumption DEF TypeOK, Adopt, GraceFor
  <1>3. ASSUME NEW a PROVE HoldFor(a) \in Holds \cup {NoHold}
    BY DEF TypeOK, HoldFor
  <1>4. {"none", "idle"} \subseteq States /\ {} \in FlagSets
    BY MachineAssumption DEF States
  <1>5. CASE LoseAgent
    <2>1. Publish("none", {}, FALSE, agent, <<Lost>>)
      BY <1>5 DEF LoseAgent
    <2> QED
      BY <1>4, <1>5, <2>1, PublishTypes DEF LoseAgent, TypeOK
  <1>6. CASE AgentExited(i.agent)
    <2>1. Publish("idle", {}, TRUE, i.agent, Announce(i.agent))
      BY <1>6 DEF AgentExited
    <2> QED
      BY <1>1, <1>2, <1>3, <1>4, <1>6, <2>1, PublishTypes DEF AgentExited, TypeOK
  <1>7. CASE IgnoreVerdict(i.verdict, i.agent)
    BY <1>1, <1>2, <1>7 DEF IgnoreVerdict, Keep, TypeOK
  <1>8. CASE OpenHold(i.verdict, i.agent)
    <2>1. [age |-> 0, next |-> Confirmation, confirmations |-> 1] \in Holds
      BY MachineAssumption DEF Holds
    <2> QED
      BY <1>1, <1>2, <1>8, <2>1 DEF OpenHold, Keep, TypeOK
  <1>9. CASE ConfirmHold(i.verdict, i.agent)
    <2>1. hold \in Holds /\ i.verdict.state = "idle"
      BY <1>9, <1>3 DEF ConfirmHold, HoldFor, IsHeld, TypeOK
    <2>2. i.verdict.visible \in FlagSets
      BY <1>1, <2>1 DEF NoVerdict, Verdicts
    <2>3. CASE hold.confirmations + 1 > Confirmations
      <3>1. Publish("idle", i.verdict.visible, FALSE, i.agent, Announce(i.agent))
        BY <1>9, <2>3 DEF ConfirmHold
      <3> QED
        BY <1>1, <1>2, <1>4, <1>9, <2>2, <2>3, <3>1, PublishTypes
        DEF ConfirmHold, TypeOK
    <2>4. CASE ~ (hold.confirmations + 1 > Confirmations)
      <3>1. hold.confirmations + 1 \in 1..Confirmations /\ Confirmation \in 0..Confirmation
        BY <2>1, <2>4, MachineAssumption DEF Holds
      <3>2. [hold EXCEPT !.confirmations = @ + 1, !.next = Confirmation] \in Holds
        BY <2>1, <3>1 DEF Holds
      <3> QED
        BY <1>1, <1>2, <1>9, <2>4, <3>2 DEF ConfirmHold, Keep, TypeOK
    <2> QED
      BY <2>3, <2>4
  <1>10. CASE TakeVerdict(i.verdict, i.agent)
    <2>1. i.verdict.state \in States /\ i.verdict.visible \in FlagSets
      BY <1>1, <1>10 DEF TakeVerdict, Ignored, Verdicts, NoVerdict, States
    <2>2. CASE Differs(i.verdict)
      <3>1. Publish(i.verdict.state, i.verdict.visible, FALSE, i.agent, Announce(i.agent))
        BY <1>10, <2>2 DEF TakeVerdict
      <3> QED
        BY <1>1, <1>2, <1>10, <2>1, <3>1, PublishTypes DEF TakeVerdict, TypeOK
    <2>3. CASE ~ Differs(i.verdict)
      BY <1>1, <1>2, <1>10, <2>3 DEF TakeVerdict, Keep, TypeOK
    <2> QED
      BY <2>2, <2>3
  <1> QED
    BY <1>5, <1>6, <1>7, <1>8, <1>9, <1>10 DEF Observe

LEMMA TickTypes == TypeOK /\ Tick => TypeOK'
  <1> SUFFICES ASSUME TypeOK, Tick PROVE TypeOK'
    OBVIOUS
  <1>1. CASE ForceIdle
    <2>1. Publish("idle", {}, FALSE, agent, <<>>) /\ "idle" \in States /\ {} \in FlagSets
      BY <1>1, MachineAssumption DEF ForceIdle, States
    <2> QED
      BY <1>1, <2>1, PublishTypes DEF ForceIdle, TypeOK
  <1>2. CASE EmitHeartbeat
    BY <1>2, MachineAssumption DEF EmitHeartbeat, BeatDue, NotArmed, TypeOK
  <1>3. CASE NothingDue
    BY <1>3 DEF NothingDue, TypeOK
  <1> QED
    BY <1>1, <1>2, <1>3 DEF Tick

LEMMA ElapseTypes == TypeOK /\ Elapse => TypeOK'
  <1> SUFFICES ASSUME TypeOK, Elapse PROVE TypeOK'
    OBVIOUS
  <1>1. hold' \in Holds \cup {NoHold}
    <2>1. CASE hold = NoHold
      BY <2>1 DEF Elapse
    <2>2. CASE hold # NoHold
      <3>1. hold \in Holds
        BY <2>2 DEF TypeOK
      <3>2. /\ (IF hold.age < HoldCap THEN hold.age + 1 ELSE hold.age) \in 0..HoldCap
            /\ Later(hold.next) \in 0..Confirmation
        BY <3>1, MachineAssumption DEF Holds, Later
      <3> QED
        BY <2>2, <3>1, <3>2 DEF Elapse, Holds
    <2> QED
      BY <2>1, <2>2
  <1>2. grace' \in 0..Grace /\ beat' \in {NotArmed} \cup 0..Heartbeat
    BY MachineAssumption DEF Elapse, Later, TypeOK, NotArmed
  <1>3. beat' = NotArmed <=> beat = NotArmed
    BY MachineAssumption DEF Elapse, Later, TypeOK, NotArmed
  <1> QED
    BY <1>1, <1>2, <1>3 DEF Elapse, TypeOK

-----------------------------------------------------------------------------
(* What one step publishes *)

\* The messages that observe() collects before it publishes are not publications.
LEMMA PublishedBy ==
    ASSUME NEW s, NEW f, NEW x, NEW a, NEW before,
           before = <<>> \/ before = <<Lost>> \/ (\E b : before = <<Found(b)>>),
           Publish(s, f, x, a, before)
    PROVE  Published' = {Changed(s, f, x, a)}
  <1> DEFINE c == Changed(s, f, x, a)
  <1>1. out' = Append(before, c) /\ c.kind = "changed"
    BY DEF Publish, Changed
  <1>2. CASE before = <<>>
    BY <1>1, <1>2 DEF Published, Sent
  <1>3. ASSUME NEW b, before = <<b>>, b.kind # "changed"
        PROVE  Published' = {c}
    <2>1. DOMAIN out' = {1, 2} /\ out'[1] = b /\ out'[2] = c
      BY <1>1, <1>3
    <2> QED
      BY <1>1, <1>3, <2>1 DEF Published, Sent
  <1>4. Lost.kind # "changed" /\ \A b : Found(b).kind # "changed"
    BY DEF Lost, Found
  <1> QED
    BY <1>2, <1>3, <1>4

\* Nor are they heartbeats.
LEMMA NoHeartbeatAppended ==
    ASSUME NEW s, NEW f, NEW x, NEW a, NEW before,
           before = <<>> \/ before = <<Lost>> \/ (\E b : before = <<Found(b)>>),
           out' = Append(before, Changed(s, f, x, a))
    PROVE  Heartbeats' = {}
  <1> DEFINE c == Changed(s, f, x, a)
  <1>1. c.kind = "changed"
    BY DEF Changed
  <1>2. CASE before = <<>>
    BY <1>1, <1>2 DEF Heartbeats, Sent
  <1>3. ASSUME NEW b, before = <<b>>, b.kind # "heartbeat"
        PROVE  Heartbeats' = {}
    <2>1. DOMAIN out' = {1, 2} /\ out'[1] = b /\ out'[2] = c
      BY <1>3
    <2> QED
      BY <1>1, <1>3, <2>1 DEF Heartbeats, Sent
  <1>4. Lost.kind # "heartbeat" /\ \A b : Found(b).kind # "heartbeat"
    BY DEF Lost, Found
  <1> QED
    BY <1>2, <1>3, <1>4

LEMMA AnnounceForm ==
    ASSUME NEW a
    PROVE  Announce(a) = <<>> \/ (\E b : Announce(a) = <<Found(b)>>)
  BY DEF Announce

LEMMA KeepPublishesNothing ==
    ASSUME NEW a, Keep(Announce(a))
    PROVE  Published' = {} /\ current' = current /\ visible' = visible
  <1>1. CASE Announce(a) = <<>>
    BY <1>1 DEF Keep, Published, Sent
  <1>2. ASSUME NEW b, Announce(a) = <<Found(b)>>
        PROVE  Published' = {}
    <2>1. DOMAIN out' = {1} /\ out'[1] = Found(b) /\ Found(b).kind = "found"
      BY <1>2 DEF Keep, Found
    <2> QED
      BY <2>1 DEF Published, Sent
  <1> QED
    BY <1>1, <1>2, AnnounceForm DEF Keep

-----------------------------------------------------------------------------
(* Every step preserves the invariant and obeys the action properties *)

StepOK(e) == HeldStep(e) /\ GraceStep(e) /\ RepetitionStep(e)

Obeys ==
    /\ HistoryOK'
    /\ HoldIsJustified'
    /\ HoldCountsVerdicts'
    /\ \A e \in Published' : StepOK(e)

LEMMA HistoryTypes ==
    ASSUME HInv, NEW i \in Inputs, Remember(i)
    PROVE  HistoryOK'
  BY MachineAssumption DEF HInv, HistoryOK, Remember, Hear, UpTo

\* However a call changes the agent, what is left of the grace and the time the
\* agent has been known make up the whole grace.
LEMMA GraceAccounted ==
    ASSUME HInv, NEW i \in Inputs, Remember(i), i.agent # NoAgent
    PROVE  /\ known' + GraceFor(i.agent) >= Grace
           /\ GraceFor(i.agent) \in 0..Grace
           /\ GraceFor(i.agent) = 0 => known' >= Grace
  BY MachineAssumption
  DEF HInv, TypeOK, HistoryOK, HoldCountsVerdicts, Remember, GraceFor, Replaces

LEMMA LoseAgentObeys ==
    ASSUME HInv, NEW i \in Inputs, Remember(i), LoseAgent, HistoryOK'
    PROVE  Obeys
  <1>1. Published' = {Changed("none", {}, FALSE, agent)}
    BY PublishedBy DEF LoseAgent
  <1>2. agent' = NoAgent /\ hold' = NoHold
    BY DEF LoseAgent
  <1>3. HoldIsJustified' /\ HoldCountsVerdicts'
    BY <1>2 DEF HoldIsJustified, HoldCountsVerdicts, HoldPending
  <1>4. \A e \in Published' : StepOK(e)
    BY <1>1, <1>2 DEF Changed, StepOK, HeldStep, GraceStep, RepetitionStep
  <1> QED
    BY <1>3, <1>4 DEF Obeys

LEMMA AgentExitedObeys ==
    ASSUME HInv, NEW i \in Inputs, Remember(i), AgentExited(i.agent),
           i.agent # NoAgent, HistoryOK'
    PROVE  Obeys
  <1> DEFINE a == i.agent
  <1>1. Published' = {Changed("idle", {}, TRUE, a)}
    BY PublishedBy, AnnounceForm DEF AgentExited
  <1>2. \A e \in Published' : StepOK(e)
    BY <1>1 DEF Changed, StepOK, HeldStep, GraceStep, RepetitionStep
  <1>3. /\ agent' = a /\ grace' = GraceFor(a) /\ hold' = HoldFor(a)
        /\ current' = "idle" /\ visible' = {}
    BY DEF AgentExited, Adopt, Publish
  <1>4. hold' # NoHold => hold' = hold /\ a = agent /\ grace' = grace
    BY <1>3 DEF HoldFor, GraceFor, Replaces
  <1>5. HoldIsJustified'
    BY <1>3, <1>4 DEF HInv, HoldIsJustified, HoldPending
  <1>6. HoldCountsVerdicts'
    BY <1>3, GraceAccounted DEF HoldCountsVerdicts
  <1> QED
    BY <1>2, <1>5, <1>6 DEF Obeys

LEMMA IgnoreVerdictObeys ==
    ASSUME HInv, NEW i \in Inputs, Remember(i), IgnoreVerdict(i.verdict, i.agent), HistoryOK'
    PROVE  Obeys
  <1>1. Published' = {}
    BY KeepPublishesNothing DEF IgnoreVerdict
  <1>2. /\ agent' = i.agent /\ grace' = GraceFor(i.agent) /\ hold' = NoHold
    BY DEF IgnoreVerdict, Adopt
  <1>3. HoldIsJustified' /\ HoldCountsVerdicts'
    BY <1>2, GraceAccounted DEF HoldIsJustified, HoldCountsVerdicts, HoldPending
  <1> QED
    BY <1>1, <1>3 DEF Obeys

\* A verdict that is not ignored finds the grace over if it says idle.
LEMMA PlainIdleCounted ==
    ASSUME HInv, NEW i \in Inputs, Remember(i), IsHeld(i.verdict, i.agent),
           ~ i.exited, i.agent # NoAgent
    PROVE  /\ GraceFor(i.agent) = 0
           /\ known' >= Grace
           /\ Replaces(i.agent) => streak' = 1
           /\ ~ Replaces(i.agent) => streak' = UpTo(streak + 1, Confirmations + 1)
           /\ streak' >= 1
           /\ idleFor' = IF streak' <= 1 THEN 0 ELSE idleFor
  <1>1. GraceFor(i.agent) = 0
    BY GraceAccounted, MachineAssumption DEF IsHeld, Ignored
  <1>2. known' >= Grace
    BY <1>1, GraceAccounted
  <1>3. PlainIdle(i)
    BY <1>2 DEF PlainIdle, IsHeld
  <1>4. streak \in Nat /\ Confirmations \in Nat
    BY MachineAssumption DEF HInv, HistoryOK
  <1>5. streak' = IF i.agent # agent THEN 1 ELSE UpTo(streak + 1, Confirmations + 1)
    BY <1>3 DEF Remember
  <1>6. streak' >= 1
    BY <1>4, <1>5 DEF UpTo
  <1>7. idleFor' = IF streak' <= 1 THEN 0 ELSE idleFor
    BY DEF Remember
  <1> QED
    BY <1>1, <1>2, <1>5, <1>6, <1>7 DEF Replaces

LEMMA OpenHoldObeys ==
    ASSUME HInv, NEW i \in Inputs, Remember(i), OpenHold(i.verdict, i.agent),
           ~ i.exited, i.agent # NoAgent, HistoryOK'
    PROVE  Obeys
  <1>1. Published' = {} /\ current' = "working"
    BY KeepPublishesNothing DEF OpenHold, IsHeld
  <1>2. /\ agent' = i.agent /\ grace' = 0 /\ known' >= Grace
        /\ hold' = [age |-> 0, next |-> Confirmation, confirmations |-> 1]
    BY PlainIdleCounted DEF OpenHold, Adopt
  <1>3. streak' >= 1 /\ idleFor' >= 0
    BY PlainIdleCounted, MachineAssumption DEF OpenHold, HistoryOK
  <1>4. HoldIsJustified'
    BY <1>1, <1>2 DEF HoldIsJustified
  <1>5. known' \in Nat /\ known' >= Grace /\ Grace \in Nat /\ 0 = grace'
    BY <1>2, MachineAssumption DEF HistoryOK
  <1>6. hold'.confirmations = 1 /\ hold'.age = 0
    BY <1>2
  <1>7. HoldCountsVerdicts'
    BY <1>3, <1>5, <1>6 DEF HoldCountsVerdicts
  <1> QED
    BY <1>1, <1>4, <1>7 DEF Obeys

LEMMA ConfirmHoldObeys ==
    ASSUME HInv, NEW i \in Inputs, Remember(i), ConfirmHold(i.verdict, i.agent),
           ~ i.exited, i.agent # NoAgent, HistoryOK'
    PROVE  Obeys
  <1>1. /\ hold \in Holds /\ hold # NoHold /\ ~ Replaces(i.agent) /\ current = "working"
        /\ agent' = i.agent
    BY DEF ConfirmHold, HoldFor, IsHeld, HInv, TypeOK, Adopt
  <1>2. /\ hold.confirmations \in 1..Confirmations /\ hold.age \in 0..HoldCap
        /\ hold.confirmations <= streak /\ hold.age <= idleFor
        /\ streak \in Nat /\ idleFor \in Nat /\ Confirmations \in Nat \ {0}
    BY <1>1, MachineAssumption DEF Holds, HInv, HistoryOK, HoldCountsVerdicts, HoldPending
  <1>3. /\ grace' = 0 /\ known' >= Grace
        /\ streak' = UpTo(streak + 1, Confirmations + 1)
        /\ idleFor' = IF streak' <= 1 THEN 0 ELSE idleFor
    BY <1>1, PlainIdleCounted DEF ConfirmHold, Adopt
  <1>4. /\ streak' \in Nat /\ streak' >= hold.confirmations + 1
        /\ idleFor' = idleFor
    BY <1>2, <1>3 DEF UpTo
  <1>7. known' \in Nat /\ known' + grace' >= Grace
    <2>1. known' \in Nat /\ known' >= Grace /\ Grace \in Nat
      BY <1>3, MachineAssumption DEF HistoryOK
    <2>2. 0 = grace'
      BY <1>3
    <2> QED
      BY <2>1, <2>2
  <1>5. CASE hold.confirmations + 1 > Confirmations
    <2>1. /\ Published' = {Changed("idle", i.verdict.visible, FALSE, i.agent)}
          /\ hold' = NoHold
      BY <1>5, PublishedBy, AnnounceForm DEF ConfirmHold
    <2>2. streak' > Confirmations
      BY <1>2, <1>4, <1>5
    <2>3. \A e \in Published' : StepOK(e)
      BY <1>1, <1>3, <2>1, <2>2 DEF StepOK, HeldStep, GraceStep, RepetitionStep, Changed
    <2>4. HoldIsJustified' /\ HoldCountsVerdicts'
      BY <1>7, <2>1 DEF HoldIsJustified, HoldCountsVerdicts, HoldPending
    <2> QED
      BY <2>3, <2>4 DEF Obeys
  <1>6. CASE ~ (hold.confirmations + 1 > Confirmations)
    <2>1. /\ Published' = {} /\ current' = "working"
          /\ hold' = [hold EXCEPT !.confirmations = @ + 1, !.next = Confirmation]
      BY <1>1, <1>6, KeepPublishesNothing DEF ConfirmHold
    <2>2. hold'.confirmations = hold.confirmations + 1 /\ hold'.age = hold.age
      BY <1>1, <2>1 DEF Holds
    <2>3. HoldIsJustified'
      BY <1>1, <1>3, <2>1 DEF HoldIsJustified
    <2>4. HoldCountsVerdicts'
      BY <1>2, <1>4, <1>7, <2>2 DEF HoldCountsVerdicts
    <2> QED
      BY <2>1, <2>3, <2>4 DEF Obeys
  <1> QED
    BY <1>5, <1>6

LEMMA TakeVerdictObeys ==
    ASSUME HInv, NEW i \in Inputs, Remember(i), TakeVerdict(i.verdict, i.agent),
           ~ i.exited, i.agent # NoAgent, HistoryOK'
    PROVE  Obeys
  <1>1. /\ agent' = i.agent /\ grace' = GraceFor(i.agent) /\ hold' = NoHold
        /\ ~ Ignored(i.verdict, i.agent) /\ ~ IsHeld(i.verdict, i.agent)
    BY DEF TakeVerdict, Adopt
  <1>2. HoldIsJustified' /\ HoldCountsVerdicts'
    BY <1>1, GraceAccounted DEF HoldIsJustified, HoldCountsVerdicts, HoldPending
  <1>3. CASE Differs(i.verdict)
    <2> DEFINE e == Changed(i.verdict.state, i.verdict.visible, FALSE, i.agent)
    <2>1. Published' = {e}
      BY <1>3, PublishedBy, AnnounceForm DEF TakeVerdict
    <2>2. HeldStep(e) /\ RepetitionStep(e)
      BY <1>1, <1>3 DEF HeldStep, RepetitionStep, Changed, IsHeld, Differs
    <2>3. e.state = "idle" => GraceFor(i.agent) = 0
      BY <1>1, GraceAccounted, MachineAssumption DEF Ignored, Changed
    <2>4. GraceStep(e)
      BY <2>3, GraceAccounted DEF GraceStep
    <2> QED
      BY <1>2, <2>1, <2>2, <2>4 DEF Obeys, StepOK
  <1>4. CASE ~ Differs(i.verdict)
    BY <1>2, <1>4, KeepPublishesNothing DEF TakeVerdict, Obeys
  <1> QED
    BY <1>3, <1>4

LEMMA ObserveObeys ==
    ASSUME HInv, NEW i \in Inputs, Observe(i), Remember(i)
    PROVE  Obeys
  <1>1. HistoryOK'
    BY HistoryTypes
  <1>2. CASE i.agent = NoAgent /\ agent # NoAgent
    BY <1>1, <1>2, LoseAgentObeys DEF Observe
  <1>3. CASE i.agent = NoAgent /\ agent = NoAgent
    <2>1. i.verdict.state = "absent" /\ ~ i.exited
      BY <1>3, InputFields DEF NoVerdict
    <2>2. IgnoreVerdict(i.verdict, i.agent)
      BY <1>3, <2>1
      DEF Observe, OpenHold, ConfirmHold, TakeVerdict, IsHeld, Ignored
    <2> QED
      BY <1>1, <2>2, IgnoreVerdictObeys
  <1>4. CASE i.agent # NoAgent
    BY <1>1, <1>4, AgentExitedObeys, IgnoreVerdictObeys, OpenHoldObeys,
       ConfirmHoldObeys, TakeVerdictObeys
    DEF Observe
  <1> QED
    BY <1>2, <1>3, <1>4

LEMMA TickObeys ==
    ASSUME HInv, HTick
    PROVE  Obeys
  <1>1. HistoryOK' /\ streak' = streak /\ idleFor' = idleFor /\ known' = known
    BY MachineAssumption DEF HInv, HTick, Hear, HistoryOK
  <1>2. CASE ForceIdle
    <2>1. /\ Published' = {Changed("idle", {}, FALSE, agent)}
          /\ hold' = NoHold /\ agent' = agent /\ grace' = grace
      BY <1>2, PublishedBy DEF ForceIdle
    <2>2. hold \in Holds /\ hold # NoHold /\ hold.age >= HoldCap
      BY <1>2 DEF ForceIdle, CapReached, HInv, TypeOK
    <2>3. /\ HoldCap \in Nat /\ hold.age \in Nat /\ hold.confirmations \in Nat \ {0}
          /\ streak \in Nat /\ idleFor \in Nat /\ known \in Nat /\ Grace \in Nat
      BY <2>2, MachineAssumption DEF Holds, HInv, HistoryOK
    <2>4. /\ agent # NoAgent /\ 0 = grace /\ known + grace >= Grace
          /\ current = "working" \/ (current = "idle" /\ visible = {})
      BY <2>2 DEF HInv, HoldIsJustified, HoldCountsVerdicts, HoldPending
    <2>5. known' >= Grace
      BY <1>1, <2>3, <2>4
    <2>6. current = "working" => streak' > 0 /\ idleFor' >= HoldCap
      BY <1>1, <2>2, <2>3 DEF HInv, HoldCountsVerdicts, HoldPending
    <2>7. \A e \in Published' : StepOK(e)
      BY <2>1, <2>2, <2>4, <2>5, <2>6
      DEF StepOK, HeldStep, GraceStep, RepetitionStep, Changed, HoldPending
    <2>8. HoldIsJustified' /\ HoldCountsVerdicts'
      BY <1>1, <2>1, <2>4 DEF HoldIsJustified, HoldCountsVerdicts, HoldPending
    <2> QED
      BY <1>1, <2>7, <2>8 DEF Obeys
  <1>3. CASE EmitHeartbeat
    <2>1. DOMAIN out' = {1} /\ out'[1].kind = "heartbeat"
      BY <1>3 DEF EmitHeartbeat, Repeat
    <2>2. Published' = {}
      BY <2>1 DEF Published, Sent
    <2> QED
      BY <1>1, <1>3, <2>2
      DEF EmitHeartbeat, Obeys, HInv, HoldIsJustified, HoldCountsVerdicts, HoldPending
  <1>4. CASE NothingDue
    <2>1. Published' = {}
      BY <1>4 DEF NothingDue, Published, Sent
    <2> QED
      BY <1>1, <1>4, <2>1
      DEF NothingDue, Obeys, HInv, HoldIsJustified, HoldCountsVerdicts, HoldPending
  <1> QED
    BY <1>2, <1>3, <1>4 DEF HTick, Tick

LEMMA ElapseObeys ==
    ASSUME HInv, HElapse
    PROVE  Obeys
  <1>1. Published' = {} /\ current' = current /\ agent' = agent /\ visible' = visible
    BY DEF HElapse, Elapse, Published, Sent
  <1>2. HistoryOK' /\ streak' = streak
    BY MachineAssumption DEF HElapse, Age, UpTo, HInv, HistoryOK
  <1>3. /\ known' = UpTo(known + 1, Grace) /\ idleFor' = UpTo(idleFor + 1, HoldCap)
        /\ grace' = Later(grace)
    BY DEF HElapse, Elapse, Age
  <1>4. /\ known \in Nat /\ idleFor \in Nat /\ idleFor <= HoldCap /\ grace \in Nat
        /\ Grace \in Nat /\ HoldCap \in Nat
    BY MachineAssumption DEF HInv, TypeOK, HistoryOK
  <1>5. agent # NoAgent => known' + grace' >= Grace
    <2>1. known + grace >= Grace => UpTo(known + 1, Grace) + Later(grace) >= Grace
      BY <1>4 DEF UpTo, Later
    <2> QED
      BY <1>3, <2>1 DEF HInv, HoldCountsVerdicts
  <1>6. CASE hold = NoHold
    BY <1>1, <1>2, <1>5, <1>6
    DEF HElapse, Elapse, Obeys, HoldIsJustified, HoldCountsVerdicts, HoldPending
  <1>7. CASE hold # NoHold
    <2>1. hold \in Holds
      BY <1>7 DEF HInv, TypeOK
    <2>2. /\ hold'.confirmations = hold.confirmations
          /\ hold'.age = IF hold.age < HoldCap THEN hold.age + 1 ELSE hold.age
      BY <1>7, <2>1 DEF HElapse, Elapse, Holds
    <2>3. /\ agent # NoAgent /\ 0 = grace
          /\ current = "working" \/ (current = "idle" /\ visible = {})
      BY <1>7 DEF HInv, HoldIsJustified, HoldPending
    <2>4. grace' = 0
      BY <1>3, <2>3 DEF Later
    <2>5. HoldIsJustified'
      BY <1>1, <2>3, <2>4 DEF HoldIsJustified
    <2>6. hold.age \in 0..HoldCap
      BY <2>1 DEF Holds
    <2>7. current = "working" =>
             hold'.confirmations <= streak' /\ hold'.age <= idleFor'
      BY <1>2, <1>3, <1>4, <1>7, <2>2, <2>6 DEF UpTo, HInv, HoldCountsVerdicts, HoldPending
    <2>8. HoldCountsVerdicts'
      BY <1>1, <1>5, <2>7 DEF HoldCountsVerdicts
    <2> QED
      BY <1>1, <1>2, <2>5, <2>8 DEF Obeys
  <1> QED
    BY <1>6, <1>7

LEMMA StutterObeys ==
    ASSUME HInv, UNCHANGED hvars
    PROVE  HInv'
  BY DEF HInv, hvars, vars, history, TypeOK, HistoryOK, HoldIsJustified,
         HoldCountsVerdicts, HoldPending

\* The step from which every theorem below follows.
LEMMA StepObeys ==
    ASSUME HInv, HNext
    PROVE  HInv' /\ \A e \in Published' : StepOK(e)
  <1>1. CASE HObserve
    <2>1. PICK i \in Inputs : Observe(i) /\ Remember(i)
      BY <1>1 DEF HObserve
    <2>2. TypeOK'
      BY <2>1, ObserveTypes DEF HInv
    <2> QED
      BY <2>1, <2>2, ObserveObeys DEF HInv, Obeys
  <1>2. CASE HTick
    BY <1>2, TickObeys, TickTypes DEF HInv, HTick, Obeys
  <1>3. CASE HElapse
    BY <1>3, ElapseObeys, ElapseTypes DEF HInv, HElapse, Obeys
  <1> QED
    BY <1>1, <1>2, <1>3 DEF HNext

-----------------------------------------------------------------------------
(* The theorems *)

\* The inductive invariant holds in every reachable state.
LEMMA Invariance == HSpec => []HInv
  <1>1. HInv /\ [HNext]_hvars => HInv'
    BY StepObeys, StutterObeys
  <1> QED
    BY <1>1, InitEstablishes, PTL DEF HSpec

\* Every variable of the machine keeps its type.
THEOREM TypeCorrect == HSpec => []TypeOK
  <1>1. HInv => TypeOK
    BY DEF HInv
  <1> QED
    BY <1>1, Invariance, PTL

\* A hold is open only for an agent past its grace, over a working state or
\* after an exit.
THEOREM HoldJustified == HSpec => []HoldIsJustified
  <1>1. HInv => HoldIsJustified
    BY DEF HInv
  <1> QED
    BY <1>1, Invariance, PTL

\* A working agent is announced idle only after enough idle verdicts in a row
\* or after the hold cap, for every configuration of the two.
THEOREM PlainIdleHeld == HSpec => PlainIdleIsHeld
  <1>1. HInv /\ [HNext]_hvars => [\A e \in Published' : HeldStep(e)]_hvars
    BY StepObeys DEF StepOK
  <1> QED
    BY <1>1, Invariance, PTL DEF HSpec, PlainIdleIsHeld

\* No idle is announced before the startup grace is over, whatever its length.
THEOREM GraceSilences == HSpec => GraceSilencesIdle
  <1>1. HInv /\ [HNext]_hvars => [\A e \in Published' : GraceStep(e)]_hvars
    BY StepObeys DEF StepOK
  <1> QED
    BY <1>1, Invariance, PTL DEF HSpec, GraceSilencesIdle

\* A publication that says nothing new is an exit, a loss, or the hold an exit
\* left open.
THEOREM RepetitionsExplained == HSpec => NoIdlePublication
  <1>1. HInv /\ [HNext]_hvars => [\A e \in Published' : RepetitionStep(e)]_hvars
    BY StepObeys DEF StepOK
  <1> QED
    BY <1>1, Invariance, PTL DEF HSpec, NoIdlePublication

\* What is left of the heartbeat's period and the time that nothing has been
\* sent make up the whole period.
PeriodCounted == beat # NotArmed => quiet + beat >= Heartbeat

LEMMA PeriodStep ==
    ASSUME HInv, PeriodCounted, HNext
    PROVE  PeriodCounted' /\ (Heartbeats' # {} => quiet = Heartbeat)
  <1>1. /\ beat \in {NotArmed} \cup 0..Heartbeat /\ quiet \in 0..Heartbeat
        /\ Heartbeat \in Nat /\ NotArmed = -1
    BY MachineAssumption DEF HInv, TypeOK, HistoryOK, NotArmed
  <1>2. CASE HElapse
    BY <1>1, <1>2
    DEF HElapse, Elapse, Age, Later, UpTo, PeriodCounted, Heartbeats, Sent
  <1>3. CASE HTick /\ EmitHeartbeat
    <2>1. DOMAIN out' = {1} /\ out'[1].kind = "heartbeat" /\ beat = 0 /\ beat' = Heartbeat
      BY <1>3 DEF EmitHeartbeat, Repeat, BeatDue
    <2>2. out'[1] \in Heartbeats'
      BY <2>1 DEF Heartbeats, Sent
    <2>3. quiet' = 0
      BY <1>3, <2>2 DEF HTick, Hear
    <2> QED
      BY <1>1, <2>1, <2>3 DEF PeriodCounted
  <1>4. ASSUME Hear, Heartbeats' = {}, beat' = beat \/ (beat' = Heartbeat /\ Published' # {}),
               Published' = {} \/ beat' = Heartbeat
        PROVE  PeriodCounted' /\ (Heartbeats' # {} => quiet = Heartbeat)
    BY <1>1, <1>4 DEF Hear, PeriodCounted
  <1>5. CASE HTick /\ ~ EmitHeartbeat
    <2>1. CASE ForceIdle
      <3>1. Published' # {} /\ beat' = Heartbeat
        BY <2>1, PublishedBy DEF ForceIdle, Publish
      <3>2. Heartbeats' = {}
        BY <2>1 DEF ForceIdle, Publish, Changed, Heartbeats, Sent
      <3> QED
        BY <1>4, <1>5, <3>1, <3>2 DEF HTick
    <2>2. CASE NothingDue
      BY <1>4, <1>5, <2>2 DEF HTick, NothingDue, Published, Heartbeats, Sent
    <2> QED
      BY <1>5, <2>1, <2>2 DEF HTick, Tick
  <1>6. CASE HObserve
    <2>1. PICK i \in Inputs : Observe(i) /\ Remember(i)
      BY <1>6 DEF HObserve
    <2>2. ASSUME NEW s, NEW f, NEW x, NEW a, NEW before,
                 before = <<>> \/ before = <<Lost>> \/ (\E b : before = <<Found(b)>>),
                 Publish(s, f, x, a, before)
          PROVE  Published' # {} /\ Heartbeats' = {} /\ beat' = Heartbeat
      <3>1. Published' # {} /\ beat' = Heartbeat
        BY <2>2, PublishedBy DEF Publish
      <3>2. Heartbeats' = {}
        BY <2>2, NoHeartbeatAppended DEF Publish
      <3> QED
        BY <3>1, <3>2
    <2>3. ASSUME NEW a, Keep(Announce(a))
          PROVE  Published' = {} /\ Heartbeats' = {} /\ beat' = beat
      <3>1. CASE Announce(a) = <<>>
        BY <2>3, <3>1, KeepPublishesNothing DEF Keep, Heartbeats, Sent
      <3>2. ASSUME NEW b, Announce(a) = <<Found(b)>>
            PROVE  Heartbeats' = {}
        <4>1. DOMAIN out' = {1} /\ out'[1] = Found(b) /\ Found(b).kind = "found"
          BY <2>3, <3>2 DEF Keep, Found
        <4> QED
          BY <4>1 DEF Heartbeats, Sent
      <3> QED
        BY <2>3, <3>1, <3>2, KeepPublishesNothing, AnnounceForm DEF Keep
    <2>4. Hear
      BY <2>1 DEF Remember
    <2>5. /\ Heartbeats' = {}
          /\ \/ Published' # {} /\ beat' = Heartbeat
             \/ Published' = {} /\ beat' = beat
      BY <2>1, <2>2, <2>3, AnnounceForm
      DEF Observe, LoseAgent, AgentExited, IgnoreVerdict, OpenHold, ConfirmHold, TakeVerdict
    <2> QED
      BY <1>4, <2>4, <2>5
  <1> QED
    BY <1>2, <1>3, <1>5, <1>6 DEF HNext

\* A heartbeat waits for its whole period after every message, whatever its
\* length.
THEOREM HeartbeatsPaced == HSpec => HeartbeatsArePaced
  <1>1. HInit => PeriodCounted
    BY DEF HInit, Init, PeriodCounted
  <1>2. HInv /\ PeriodCounted /\ [HNext]_hvars
        => PeriodCounted' /\ [Heartbeats' # {} => quiet = Heartbeat]_hvars
    BY PeriodStep DEF PeriodCounted, hvars, vars, history
  <1> QED
    BY <1>1, <1>2, Invariance, PTL DEF HSpec, HeartbeatsArePaced

-----------------------------------------------------------------------------
(* Refinement of the numbered feed *)

\* What a publication and a silent call look like in the feed.
LEMMA PublishAnnounces ==
    ASSUME TypeOK, NEW s \in States, NEW f \in FlagSets, NEW x, NEW a, NEW before,
           before = <<>> \/ before = <<Lost>> \/ (\E b : before = <<Found(b)>>),
           Publish(s, f, x, a, before)
    PROVE  F!Announce
  <1> DEFINE c == Changed(s, f, x, a)
  <1>1. out' = Append(before, c) /\ c.kind = "changed"
        /\ Message(c) = [number |-> NextSeq, state |-> s, flags |-> f, replaces |-> {current}]
    BY DEF Publish, Changed, Message
  <1>2. Messages' = {Message(c)}
    <2>1. CASE before = <<>>
      BY <1>1, <2>1 DEF Messages, Message, Published, Heartbeats, Sent
    <2>2. ASSUME NEW b, before = <<b>>, b.kind \notin {"changed", "heartbeat"}
          PROVE  Messages' = {Message(c)}
      <3>1. DOMAIN out' = {1, 2} /\ out'[1] = b /\ out'[2] = c
        BY <1>1, <2>2
      <3> QED
        BY <1>1, <2>2, <3>1 DEF Messages, Message, Published, Heartbeats, Sent
    <2>3. /\ Lost.kind \notin {"changed", "heartbeat"}
          /\ \A b : Found(b).kind \notin {"changed", "heartbeat"}
      BY DEF Lost, Found
    <2> QED
      BY <2>1, <2>2, <2>3
  <1>3. NextSeq = F!Following
    BY MachineAssumption DEF NextSeq, F!Following, TypeOK
  <1> QED
    BY <1>1, <1>2, <1>3 DEF F!Announce, Publish

LEMMA KeepIsSilent ==
    ASSUME NEW a, Keep(Announce(a))
    PROVE  F!Silence
  <1>1. Messages' = {}
    <2>1. CASE Announce(a) = <<>>
      BY <2>1 DEF Keep, Messages, Published, Heartbeats, Sent
    <2>2. ASSUME NEW b, Announce(a) = <<Found(b)>>
          PROVE  Messages' = {}
      <3>1. DOMAIN out' = {1} /\ out'[1] = Found(b) /\ Found(b).kind = "found"
        BY <2>2 DEF Keep, Found
      <3> QED
        BY <3>1 DEF Messages, Published, Heartbeats, Sent
    <2> QED
      BY <2>1, <2>2, AnnounceForm
  <1> QED
    BY <1>1 DEF F!Silence, Keep

LEMMA ObserveRefines ==
    ASSUME HInv, NEW i \in Inputs, Observe(i)
    PROVE  F!Next
  <1>1. {"none", "idle"} \subseteq States /\ {} \in FlagSets /\ TypeOK
    BY MachineAssumption DEF States, HInv
  <1>2. CASE LoseAgent
    BY <1>1, <1>2, PublishAnnounces DEF LoseAgent, F!Next
  <1>3. CASE AgentExited(i.agent)
    BY <1>1, <1>3, PublishAnnounces, AnnounceForm DEF AgentExited, F!Next
  <1>4. CASE IgnoreVerdict(i.verdict, i.agent) \/ OpenHold(i.verdict, i.agent)
    BY <1>4, KeepIsSilent DEF IgnoreVerdict, OpenHold, F!Next
  <1>5. ASSUME ~ Ignored(i.verdict, i.agent)
        PROVE  i.verdict.state \in States /\ i.verdict.visible \in FlagSets
    BY <1>5, InputFields DEF Ignored, NoVerdict, Verdicts, States
  <1>6. CASE ConfirmHold(i.verdict, i.agent)
    <2>1. ~ Ignored(i.verdict, i.agent)
      BY <1>6 DEF ConfirmHold, IsHeld
    <2> QED
      BY <1>1, <1>5, <1>6, <2>1, PublishAnnounces, AnnounceForm, KeepIsSilent
      DEF ConfirmHold, F!Next
  <1>7. CASE TakeVerdict(i.verdict, i.agent)
    <2>1. ~ Ignored(i.verdict, i.agent)
      BY <1>7 DEF TakeVerdict
    <2> QED
      BY <1>1, <1>5, <1>7, <2>1, PublishAnnounces, AnnounceForm, KeepIsSilent
      DEF TakeVerdict, F!Next
  <1> QED
    BY <1>2, <1>3, <1>4, <1>6, <1>7 DEF Observe

LEMMA TickRefines ==
    ASSUME HInv, Tick
    PROVE  F!Next
  <1>1. CASE ForceIdle
    BY <1>1, PublishAnnounces, MachineAssumption DEF ForceIdle, HInv, States, F!Next
  <1>2. CASE EmitHeartbeat
    <2>1. DOMAIN out' = {1} /\ out'[1] = Repeat /\ Repeat.kind = "heartbeat"
          /\ Message(Repeat) =
                [number |-> seq, state |-> current, flags |-> visible, replaces |-> {}]
      BY <1>2 DEF EmitHeartbeat, Repeat, Message
    <2>2. Messages' = {Message(Repeat)}
      BY <2>1 DEF Messages, Message, Published, Heartbeats, Sent
    <2>3. seq > 0
      BY <1>2 DEF EmitHeartbeat, BeatDue, NotArmed, HInv, TypeOK
    <2> QED
      BY <1>2, <2>1, <2>2, <2>3 DEF EmitHeartbeat, F!Resend, F!Next
  <1>3. CASE NothingDue
    BY <1>3 DEF NothingDue, Messages, Published, Heartbeats, Sent, F!Silence, F!Next
  <1> QED
    BY <1>1, <1>2, <1>3 DEF Tick

\* The machine implements the safety part of the numbered feed, for every
\* configuration.
THEOREM RefinesFeed == HSpec => F!Safety
  <1>1. HInit => F!Init
    BY DEF HInit, Init, F!Init, Messages, Published, Heartbeats, Sent
  <1>2. HInv /\ [HNext]_hvars => [F!Next]_(F!feed)
    <2> SUFFICES ASSUME HInv, [HNext]_hvars
                 PROVE  [F!Next]_(F!feed)
      OBVIOUS
    <2>1. CASE UNCHANGED hvars
      BY <2>1 DEF hvars, vars, Messages, Published, Heartbeats, Sent, F!feed
    <2>2. CASE HNext
      <3>1. HElapse => F!Next
        BY DEF HElapse, Elapse, Messages, Published, Heartbeats, Sent, F!Silence, F!Next
      <3>2. HObserve \/ HTick => F!Next
        BY ObserveRefines, TickRefines DEF HObserve, HTick
      <3> QED
        BY <2>2, <3>1, <3>2 DEF HNext
    <2> QED
      BY <2>1, <2>2
  <1> QED
    BY <1>1, <1>2, Invariance, PTL DEF HSpec, F!Safety

-----------------------------------------------------------------------------
(* The prober *)


\* The probes in vain that the tracker remembers.
Traces == misses + (IF announced THEN 1 ELSE 0)

\* The time that so many probes take at the fastest cadence.
Spent(n) == n * HoldCadence

ProbingTypeOK ==
    /\ misses \in 0..(MissLimit - 1)
    /\ announced \in BOOLEAN
    /\ next \in Nat
    /\ absent \in {Unset} \cup 0..Patience
    /\ exits \in Nat

\* Without an agent there is nothing to remember, and what is remembered of an
\* agent belongs to an absence.
TracesOfAbsence ==
    /\ tracked = NoProcess => misses = 0 /\ ~ announced
    /\ absent = Unset => misses = 0 /\ ~ announced

\* Each probe in vain was followed by a pause; the last one may be running.
PausesCounted ==
    tracked # NoProcess /\ absent # Unset =>
        absent = Patience \/ absent + next >= Spent(Traces)

\* Every announcement of the exit but the last has cost a miss.
ExitsPaidFor == exits <= Traces

ProbingInv == ProbingTypeOK /\ TracesOfAbsence /\ PausesCounted /\ ExitsPaidFor

-----------------------------------------------------------------------------
(* Times *)

LEMMA Parameters ==
    /\ MissLimit \in Nat /\ MissLimit > 1
    /\ HoldCadence \in Nat /\ HoldCadence > 0
    /\ {IdentifiedCadence, FastCadence, SlowCadence, IdleCadence} \subseteq Nat
    /\ HoldCadence <= IdentifiedCadence
  <1>1. MissLimit \in Nat /\ MissLimit > 1 /\ HoldCadence <= IdentifiedCadence
    BY TrackerAssumption, PatienceAssumption
  <1>2. /\ HoldCadence \in Nat \ {0}
        /\ {IdentifiedCadence, FastCadence, SlowCadence, IdleCadence} \subseteq Nat
    BY ProberAssumption
  <1> QED
    BY <1>1, <1>2

LEMMA SpentGrows ==
    \A n \in Nat : Spent(n) \in Nat /\ Spent(n + 1) = Spent(n) + HoldCadence
  BY Parameters DEF Spent

LEMMA SpentOnce == Spent(0) = 0 /\ Spent(1) = HoldCadence
  BY Parameters DEF Spent

\* More probes take more time.
LEMMA SpentIsMonotonic ==
    ASSUME NEW m \in Nat, NEW n \in Nat, m <= n
    PROVE  Spent(m) <= Spent(n)
  <1>1. n - m \in Nat /\ n = m + (n - m)
    OBVIOUS
  <1> DEFINE d == n - m
  <1> HIDE DEF d
  <1>2. d \in Nat /\ n = m + d
    BY <1>1 DEF d
  <1>3. n * HoldCadence = m * HoldCadence + d * HoldCadence
    BY <1>2, Parameters
  <1>4. m * HoldCadence \in Nat /\ d * HoldCadence \in Nat
    BY <1>2, Parameters
  <1> QED
    BY <1>3, <1>4 DEF Spent

LEMMA PatienceIsSpent ==
    /\ Patience \in Nat
    /\ Patience = Spent(MissLimit - 1)
    /\ HoldCadence <= Patience
  <1>1. Patience = Spent(MissLimit - 1)
    BY DEF Patience, Spent
  <1>2. MissLimit - 1 \in Nat /\ 1 <= MissLimit - 1
    BY Parameters
  <1>3. Spent(1) <= Spent(MissLimit - 1)
    BY <1>2, SpentIsMonotonic
  <1> QED
    BY <1>1, <1>2, <1>3, SpentGrows, SpentOnce

\* The pause after a probe is one of the scheduler's, and while an agent is known
\* at least the one that a pending hold asks for.
LEMMA Pauses ==
    ASSUME NEW opened, NEW holding \in BOOLEAN
    PROVE  /\ Cadence(opened, holding) \in Nat
           /\ tracked # NoProcess => Cadence(opened, holding) >= HoldCadence
  <1>1. CASE holding
    <2>1. Cadence(opened, holding) = HoldCadence
      BY <1>1 DEF Cadence
    <2> QED
      BY <2>1, Parameters
  <1>2. CASE ~ holding /\ Identified
    <2>1. Cadence(opened, holding) = IdentifiedCadence
      BY <1>2 DEF Cadence
    <2> QED
      BY <2>1, Parameters
  <1>3. CASE ~ holding /\ ~ Identified
    <2>1. Cadence(opened, holding) \in {FastCadence, SlowCadence, IdleCadence}
      BY <1>3 DEF Cadence
    <2> QED
      BY <1>3, <2>1, Parameters DEF Identified
  <1> QED
    BY <1>1, <1>2, <1>3

\* An absence and the pause that is left, after one unit of time; and after the
\* next probe, with pause q.
LEMMA TimePasses ==
    \A a, p, q, t \in Nat : a + p >= t /\ p <= q + 1 => (a + 1) + q >= t
  OBVIOUS

LEMMA PauseFollows ==
    \A a, q, t, u, h \in Nat : a >= t /\ q >= h /\ u <= t + h => a + q >= u
  OBVIOUS

-----------------------------------------------------------------------------
(* One probe *)

\* What a probe makes of what was remembered, and of an agent.
Forgets == /\ tracked' = NoProcess => tracked = NoProcess
           /\ misses' = 0 /\ announced' = FALSE /\ outcome' \in {"none", "found"}
Announces == /\ tracked # NoProcess /\ tracked' = tracked /\ misses' = misses
             /\ ~ announced /\ announced' = TRUE /\ outcome' = "exited"
Misses == /\ tracked # NoProcess /\ tracked' = tracked /\ misses + 1 < MissLimit
          /\ misses' = misses + 1 /\ announced' = FALSE /\ outcome' = "none"
Loses == /\ tracked # NoProcess /\ tracked' = NoProcess /\ misses' = 0
         /\ announced' = FALSE /\ outcome' = "lost"
         /\ IF Listed.shell THEN announced ELSE misses + 1 >= MissLimit

LEMMA ProbeOutcomes ==
    ASSUME TracesOfAbsence, Update(Listed.found, Listed.shell)
    PROVE  Forgets \/ Announces \/ Misses \/ Loses
  <1>1. CASE Seen(Listed.found)
    BY <1>1 DEF Seen, Forgets
  <1>2. CASE NothingTracked(Listed.found)
    BY <1>2 DEF NothingTracked, TracesOfAbsence, Forgets
  <1>3. CASE ShellIsBack(Listed.found, Listed.shell)
    BY <1>3 DEF ShellIsBack, Gone, Announces
  <1>4. CASE ShellIsStillThere(Listed.found, Listed.shell)
    BY <1>4 DEF ShellIsStillThere, Gone, Forget, Loses
  <1>5. CASE Miss(Listed.found, Listed.shell)
    BY <1>5 DEF Miss, Gone, Misses
  <1>6. CASE LastMiss(Listed.found, Listed.shell)
    BY <1>6 DEF LastMiss, Gone, Forget, Loses
  <1> QED
    BY <1>1, <1>2, <1>3, <1>4, <1>5, <1>6 DEF Update

\* After a probe that forgets, the absence is over.
LEMMA ForgetsKeeps ==
    ASSUME ProbingInv, Forgets, RememberProbe, next' \in Nat
    PROVE  ProbingInv'
  <1>1. misses \in 0..(MissLimit - 1) /\ misses' = 0 /\ announced' = FALSE
    BY DEF Forgets, ProbingInv, ProbingTypeOK
  <1>2. ~ LookedInVain
    <2>1. ~ (misses' > misses)
      BY <1>1, Parameters
    <2>2. outcome' # "exited"
      BY DEF Forgets
    <2> QED
      BY <2>1, <2>2 DEF Forgets, LookedInVain
  <1>3. absent' = Unset /\ exits' = 0
    BY <1>1, <1>2 DEF Forgets, RememberProbe
  <1>4. ProbingTypeOK'
    <2>1. 0 \in 0..(MissLimit - 1) /\ 0 \in Nat
      BY Parameters
    <2> QED
      BY <1>1, <1>3, <2>1 DEF ProbingTypeOK
  <1>5. TracesOfAbsence' /\ PausesCounted'
    BY <1>1, <1>3 DEF TracesOfAbsence, PausesCounted
  <1>6. ExitsPaidFor'
    BY <1>1, <1>3 DEF ExitsPaidFor, Traces
  <1> QED
    BY <1>4, <1>5, <1>6 DEF ProbingInv

\* A probe that lists nothing changes nothing that is remembered.
LEMMA NoUpdateKeeps ==
    ASSUME ProbingInv, NoUpdate, RememberProbe, next' \in Nat,
           tracked # NoProcess => next = 0
    PROVE  ProbingInv'
  <1>1. /\ tracked' = tracked /\ misses' = misses /\ announced' = announced
        /\ outcome' = "none"
    BY DEF NoUpdate
  <1>2. ~ LookedInVain
    <2>1. ~ (misses' > misses)
      BY <1>1, Parameters DEF ProbingInv, ProbingTypeOK
    <2> QED
      BY <1>1, <2>1 DEF LookedInVain
  <1>3. CASE misses' = 0 /\ ~ announced'
    <2>1. Forgets
      BY <1>1, <1>3 DEF Forgets, ProbingInv, ProbingTypeOK
    <2> QED
      BY <2>1, ForgetsKeeps
  <1>4. CASE ~ (misses' = 0 /\ ~ announced')
    <2>1. absent' = absent
      BY <1>2, <1>4 DEF RememberProbe
    <2>2. tracked # NoProcess
      BY <1>1, <1>4 DEF ProbingInv, TracesOfAbsence
    <2>3. exits' = exits
      BY <1>1, <1>4, <2>2 DEF RememberProbe
    <2>4. Traces' = Traces
      BY <1>1 DEF Traces
    <2>5. ProbingTypeOK'
      BY <1>1, <2>1, <2>3 DEF ProbingInv, ProbingTypeOK
    <2>6. TracesOfAbsence'
      BY <1>1, <2>1 DEF ProbingInv, TracesOfAbsence
    <2>7. PausesCounted'
      <3> SUFFICES ASSUME absent # Unset, absent # Patience
                   PROVE  absent + next' >= Spent(Traces)
        BY <1>1, <2>1, <2>4 DEF PausesCounted, Spent
      <3>1. absent + next >= Spent(Traces) /\ next = 0
        BY <2>2 DEF ProbingInv, PausesCounted
      <3>2. absent \in Nat
        BY PatienceIsSpent DEF ProbingInv, ProbingTypeOK
      <3>3. Traces \in Nat
        BY Parameters DEF ProbingInv, ProbingTypeOK, Traces
      <3>4. Spent(Traces) \in Nat
        BY <3>3, SpentGrows
      <3> QED
        BY <3>1, <3>2, <3>4
    <2>8. ExitsPaidFor'
      BY <2>3, <2>4 DEF ProbingInv, ExitsPaidFor
    <2> QED
      BY <2>5, <2>6, <2>7, <2>8 DEF ProbingInv
  <1> QED
    BY <1>3, <1>4

\* A probe in vain that does not lose the agent: the pause before it has passed,
\* and another one follows.
LEMMA VainProbeKeeps ==
    ASSUME ProbingInv, Announces \/ Misses, RememberProbe,
           next = 0, next' \in Nat, next' >= HoldCadence
    PROVE  ProbingInv'
  <1>1. /\ misses \in 0..(MissLimit - 1) /\ announced \in BOOLEAN
        /\ absent \in {Unset} \cup 0..Patience /\ exits \in Nat
    BY DEF ProbingInv, ProbingTypeOK
  <1>2. /\ tracked # NoProcess /\ tracked' = tracked
        /\ misses' \in 0..(MissLimit - 1) /\ announced' \in BOOLEAN
        /\ ~ (misses' = 0 /\ ~ announced')
    <2>1. CASE Announces
      BY <1>1, <2>1 DEF Announces
    <2>2. CASE Misses
      <3>1. misses + 1 \in 1..(MissLimit - 1)
        BY <1>1, <2>2, Parameters DEF Misses
      <3> QED
        <4>1. misses + 1 # 0 /\ misses + 1 \in 0..(MissLimit - 1)
          BY <3>1
        <4> QED
          BY <2>2, <4>1 DEF Misses
    <2> QED
      BY <2>1, <2>2
  <1>3. LookedInVain
    <2>1. CASE Announces
      BY <2>1 DEF Announces, LookedInVain
    <2>2. CASE Misses
      <3>1. misses' > misses
        BY <1>1, <2>2, Parameters DEF Misses
      <3> QED
        BY <1>2, <3>1 DEF LookedInVain
    <2> QED
      BY <2>1, <2>2
  <1>4. absent' = IF absent = Unset THEN 0 ELSE absent
    BY <1>3 DEF RememberProbe
  <1>5. 0 \in 0..Patience /\ Unset \notin 0..Patience
    BY PatienceIsSpent DEF Unset
  <1>6. absent' \in 0..Patience /\ absent' # Unset
    BY <1>1, <1>4, <1>5
  <1>7. Traces \in Nat /\ Traces' \in Nat /\ Traces' <= Traces + 1
    <2>1. misses \in Nat
      BY <1>1, Parameters
    <2>2. CASE Announces
      BY <2>1, <2>2 DEF Traces, Announces
    <2>3. CASE Misses
      BY <1>1, <2>1, <2>3 DEF Traces, Misses
    <2> QED
      BY <2>2, <2>3
  <1>8. exits' \in Nat /\ exits' <= Traces'
    <2>1. CASE Announces
      <3>1. exits' = exits + 1
        BY <2>1 DEF Announces, RememberProbe
      <3>2. exits <= misses /\ Traces' = misses + 1
        BY <1>1, <2>1 DEF Announces, ProbingInv, ExitsPaidFor, Traces
      <3> QED
        BY <1>1, <3>1, <3>2, Parameters
    <2>2. CASE Misses
      <3>1. exits' = exits
        BY <1>2, <2>2 DEF Misses, RememberProbe
      <3>2. Traces' = misses + 1 /\ Traces <= misses + 1
        BY <1>1, <2>2, Parameters DEF Misses, Traces
      <3>3. exits <= Traces
        BY DEF ProbingInv, ExitsPaidFor
      <3> QED
        BY <1>1, <1>7, <3>1, <3>2, <3>3, Parameters
    <2> QED
      BY <2>1, <2>2
  <1>9. absent' = Patience \/ absent' + next' >= Spent(Traces')
    <2>1. Spent(Traces) \in Nat /\ Spent(Traces') \in Nat
      BY <1>7, SpentGrows
    <2>2. Spent(Traces') <= Spent(Traces) + HoldCadence
      <3>1. Traces + 1 \in Nat
        BY <1>7
      <3> QED
        BY <1>7, <3>1, SpentGrows, SpentIsMonotonic
    <2>3. absent' = Patience \/ absent' >= Spent(Traces)
      <3>1. CASE absent = Unset
        <4>1. Traces = 0
          BY <3>1 DEF ProbingInv, TracesOfAbsence, Traces
        <4> QED
          BY <1>4, <3>1, <4>1, SpentOnce
      <3>2. CASE absent # Unset
        <4>1. absent = Patience \/ absent + next >= Spent(Traces)
          BY <1>2, <3>2 DEF ProbingInv, PausesCounted
        <4>2. absent \in 0..Patience /\ absent' = absent
          BY <1>1, <1>4, <3>2
        <4>3. absent + next = absent
          BY <4>2, PatienceIsSpent
        <4> QED
          BY <4>1, <4>2, <4>3
      <3> QED
        BY <3>1, <3>2
    <2>4. CASE absent' >= Spent(Traces)
      <3>1. absent' \in Nat
        BY <1>6, PatienceIsSpent
      <3> QED
        BY <2>1, <2>2, <2>4, <3>1, Parameters, PauseFollows
    <2> QED
      BY <2>3, <2>4
  <1>10. ProbingTypeOK'
    BY <1>2, <1>6, <1>8 DEF ProbingTypeOK
  <1>11. TracesOfAbsence'
    BY <1>2, <1>6 DEF TracesOfAbsence
  <1>12. PausesCounted'
    BY <1>9 DEF PausesCounted, Spent, Patience
  <1> QED
    BY <1>8, <1>10, <1>11, <1>12 DEF ProbingInv, ExitsPaidFor

LEMMA LossKeeps ==
    ASSUME ProbingInv, Loses, RememberProbe, next' \in Nat
    PROVE  ProbingInv'
  <1>1. LookedInVain
    BY DEF Loses, LookedInVain
  <1>2. /\ tracked' = NoProcess /\ misses' = 0 /\ announced' = FALSE
        /\ exits' = 0 /\ absent' \in {0, absent}
    BY <1>1 DEF Loses, RememberProbe
  <1>3. 0 \in 0..Patience /\ 0 \in 0..(MissLimit - 1) /\ 0 \in Nat
    BY Parameters, PatienceIsSpent
  <1>4. ProbingTypeOK'
    BY <1>2, <1>3 DEF ProbingInv, ProbingTypeOK
  <1>5. TracesOfAbsence' /\ PausesCounted'
    BY <1>2 DEF TracesOfAbsence, PausesCounted
  <1>6. ExitsPaidFor'
    BY <1>2 DEF ExitsPaidFor, Traces
  <1> QED
    BY <1>4, <1>5, <1>6 DEF ProbingInv

LEMMA ProbeKeeps ==
    ASSUME ProbingInv, NEW opened, NEW holding \in BOOLEAN,
           Probe(opened, holding), RememberProbe, tracked # NoProcess => next = 0
    PROVE  ProbingInv'
  <1>1. PICK window : next' = Cadence(window, holding)
    BY DEF Probe
  <1>2. next' \in Nat /\ (tracked # NoProcess => next' >= HoldCadence)
    BY <1>1, Pauses
  <1>3. NoUpdate \/ Update(Listed.found, Listed.shell)
    BY DEF Probe
  <1>4. CASE NoUpdate
    BY <1>2, <1>4, NoUpdateKeeps
  <1>5. CASE Update(Listed.found, Listed.shell)
    <2>1. Forgets \/ Announces \/ Misses \/ Loses
      BY <1>5, ProbeOutcomes DEF ProbingInv
    <2>2. CASE Announces \/ Misses
      <3>1. tracked # NoProcess
        BY <2>2 DEF Announces, Misses
      <3> QED
        BY <1>2, <2>2, <3>1, VainProbeKeeps
    <2> QED
      BY <1>2, <2>1, <2>2, ForgetsKeeps, LossKeeps
  <1> QED
    BY <1>3, <1>4, <1>5

-----------------------------------------------------------------------------
(* The steps *)

LEMMA InitEstablishesProbing == PInit => ProbingInv
  <1> SUFFICES ASSUME PInit PROVE ProbingInv
    OBVIOUS
  <1>1. 0 \in 0..(MissLimit - 1) /\ 0 \in Nat
    BY Parameters
  <1>2. ProbingTypeOK
    BY <1>1 DEF PInit, ProberInit, TrackerInit, ProbingTypeOK
  <1>3. TracesOfAbsence /\ PausesCounted
    BY DEF PInit, ProberInit, TrackerInit, TracesOfAbsence, PausesCounted
  <1>4. ExitsPaidFor
    BY DEF PInit, ProberInit, TrackerInit, ExitsPaidFor, Traces
  <1> QED
    BY <1>2, <1>3, <1>4 DEF ProbingInv

\* What passes of a pause is added to the absence.
LEMMA ElapseKeeps ==
    ASSUME ProbingInv, LetTimePass, RememberTime
    PROVE  ProbingInv'
  <1>1. /\ tracked' = tracked /\ misses' = misses /\ announced' = announced
        /\ exits' = exits
        /\ next' = IF next > 0 THEN next - 1 ELSE 0
        /\ absent' = Older(absent, Patience)
    BY DEF LetTimePass, NoUpdate, RememberTime
  <1>2. /\ next \in Nat /\ absent \in {Unset} \cup 0..Patience
        /\ misses \in 0..(MissLimit - 1) /\ announced \in BOOLEAN
    BY DEF ProbingInv, ProbingTypeOK
  <1>3. next' \in Nat /\ next <= next' + 1
    BY <1>1, <1>2
  <1>4. CASE absent = Unset \/ absent = Patience
    <2>1. absent' = absent
      BY <1>1, <1>4 DEF Older
    <2> QED
      BY <1>1, <1>3, <1>4, <2>1
      DEF ProbingInv, ProbingTypeOK, TracesOfAbsence, PausesCounted, ExitsPaidFor,
          Traces, Patience
  <1>5. CASE ~ (absent = Unset \/ absent = Patience)
    <2>1. absent' = absent + 1
      BY <1>1, <1>5 DEF Older
    <2>2. absent \in 0..Patience /\ absent # Patience
      BY <1>2, <1>5
    <2>3. absent' \in 0..Patience /\ absent' # Unset
      BY <2>1, <2>2, PatienceIsSpent DEF Unset
    <2>4. Traces' = Traces /\ Spent(Traces)' = Spent(Traces)
      BY <1>1 DEF Traces, Spent
    <2>5. tracked # NoProcess => absent' + next' >= Spent(Traces)
      <3> SUFFICES ASSUME tracked # NoProcess PROVE absent' + next' >= Spent(Traces)
        OBVIOUS
      <3>1. absent + next >= Spent(Traces)
        BY <1>5 DEF ProbingInv, PausesCounted
      <3>2. Traces \in Nat
        BY <1>2, Parameters DEF Traces
      <3>3. Spent(Traces) \in Nat
        BY <3>2, SpentGrows
      <3>4. absent \in Nat
        BY <2>2, PatienceIsSpent
      <3>5. (absent + 1) + next' >= Spent(Traces)
        BY <1>2, <1>3, <3>1, <3>3, <3>4, TimePasses
      <3> QED
        BY <2>1, <3>5
    <2>6. ProbingTypeOK'
      BY <1>1, <1>3, <2>3 DEF ProbingInv, ProbingTypeOK
    <2>7. TracesOfAbsence'
      BY <1>1, <2>3 DEF ProbingInv, TracesOfAbsence
    <2>8. PausesCounted'
      BY <1>1, <2>4, <2>5 DEF PausesCounted
    <2>9. ExitsPaidFor'
      BY <1>1, <2>4 DEF ProbingInv, ExitsPaidFor
    <2> QED
      BY <2>6, <2>7, <2>8, <2>9 DEF ProbingInv
  <1> QED
    BY <1>4, <1>5

LEMMA ProbingStep == ProbingInv /\ [PNext]_probingVars => ProbingInv'
  <1> SUFFICES ASSUME ProbingInv, [PNext]_probingVars PROVE ProbingInv'
    OBVIOUS
  <1>1. Holding \subseteq BOOLEAN
    BY DEF Holding
  <1>2. CASE Output /\ RememberProbe
    <2>1. PICK holding \in Holding : ScreenChanged(holding)
      BY <1>2 DEF Output
    <2>2. tracked = NoProcess /\ Probe(0, holding)
      BY <2>1 DEF ScreenChanged, Identified
    <2> QED
      BY <1>1, <1>2, <2>2, ProbeKeeps
  <1>3. CASE Wake /\ RememberProbe
    <2>1. PICK holding \in Holding : TimeToProbe(holding)
      BY <1>3 DEF Wake
    <2>2. next = 0 /\ Probe(acquisition, holding)
      BY <2>1 DEF TimeToProbe
    <2> QED
      BY <1>1, <1>3, <2>2, ProbeKeeps
  <1>4. CASE LetTimePass /\ RememberTime
    BY <1>4, ElapseKeeps
  <1>5. CASE (ForegroundChanges /\ UNCHANGED <<absent, exits>>) \/ UNCHANGED probingVars
    <2>1. UNCHANGED <<tracked, misses, announced, next, absent, exits>>
      BY <1>5
      DEF ForegroundChanges, NoUpdate, schedulerVars, probingVars, proberVars, trackerVars
    <2> QED
      BY <2>1
      DEF ProbingInv, ProbingTypeOK, TracesOfAbsence, PausesCounted, ExitsPaidFor,
          Traces, Patience, Spent
  <1> QED
    BY <1>2, <1>3, <1>4, <1>5 DEF PNext

LEMMA ProbingInvariance == PSpec => []ProbingInv
  BY InitEstablishesProbing, ProbingStep, PTL DEF PSpec

\* An exit is announced at most once more than the tracker counts misses, however
\* long the shell and other programs take turns (LossTracker::update()).
THEOREM ExitsStayBounded == PSpec => []ExitsBounded
  <1>1. ProbingInv => ExitsBounded
    <2> SUFFICES ASSUME ProbingInv PROVE ExitsBounded
      OBVIOUS
    <2>1. /\ misses \in 0..(MissLimit - 1) /\ announced \in BOOLEAN /\ exits \in Nat
          /\ exits <= Traces
      BY DEF ProbingInv, ProbingTypeOK, ExitsPaidFor
    <2>2. Traces \in Nat /\ Traces <= MissLimit
      BY <2>1, Parameters DEF Traces
    <2> QED
      BY <2>1, <2>2, Parameters DEF ExitsBounded
  <1> QED
    BY <1>1, ProbingInvariance, PTL

\* The probe that loses the agent comes after a pause for every probe in vain
\* before it.
LEMMA LossIsLate ==
    ASSUME ProbingInv, NEW opened, NEW holding \in BOOLEAN,
           Probe(opened, holding), RememberProbe, tracked # NoProcess => next = 0,
           outcome' = "lost"
    PROVE  absent' >= IF Listed.shell THEN HoldCadence ELSE Patience
  <1>1. Loses
    <2>1. NoUpdate \/ Update(Listed.found, Listed.shell)
      BY DEF Probe
    <2>2. Forgets \/ Announces \/ Misses \/ Loses
      BY <2>1, ProbeOutcomes DEF ProbingInv, NoUpdate
    <2> QED
      BY <2>2 DEF Forgets, Announces, Misses
  <1>2. /\ tracked # NoProcess /\ next = 0
        /\ IF Listed.shell THEN announced ELSE misses + 1 >= MissLimit
    BY <1>1 DEF Loses
  <1>3. misses \in 0..(MissLimit - 1) /\ announced \in BOOLEAN
    BY DEF ProbingInv, ProbingTypeOK
  <1>4. absent # Unset
    <2>1. CASE Listed.shell
      BY <1>2, <2>1 DEF ProbingInv, TracesOfAbsence
    <2>2. CASE ~ Listed.shell
      <3>1. misses > 0
        BY <1>2, <1>3, <2>2, Parameters
      <3> QED
        BY <3>1 DEF ProbingInv, TracesOfAbsence
    <2> QED
      BY <2>1, <2>2
  <1>5. absent' = absent
    <2>1. LookedInVain
      BY <1>1 DEF Loses, LookedInVain
    <2> QED
      BY <1>4, <2>1 DEF RememberProbe
  <1>6. absent \in Nat
    BY <1>4, PatienceIsSpent DEF ProbingInv, ProbingTypeOK
  <1>7. absent = Patience \/ absent >= Spent(Traces)
    <2>1. absent = Patience \/ absent + next >= Spent(Traces)
      BY <1>2, <1>4 DEF ProbingInv, PausesCounted
    <2>2. absent + next = absent
      BY <1>2, <1>6
    <2> QED
      BY <2>1, <2>2
  <1>8. Traces \in Nat /\ Spent(Traces) \in Nat
    <2>1. Traces \in Nat
      BY <1>3, Parameters DEF Traces
    <2> QED
      BY <2>1, SpentGrows
  <1>9. CASE Listed.shell
    <2>1. Traces >= 1
      BY <1>2, <1>3, <1>9, Parameters DEF Traces
    <2>2. Spent(Traces) >= HoldCadence
      BY <1>8, <2>1, SpentIsMonotonic, SpentOnce, Parameters
    <2>3. absent >= HoldCadence
      BY <1>6, <1>7, <1>8, <2>2, PatienceIsSpent, Parameters
    <2> QED
      BY <1>5, <1>9, <2>3
  <1>10. CASE ~ Listed.shell
    <2>1. MissLimit - 1 \in Nat /\ MissLimit - 1 <= Traces
      BY <1>2, <1>3, <1>10, Parameters DEF Traces
    <2>2. Patience <= Spent(Traces)
      BY <1>8, <2>1, SpentIsMonotonic, PatienceIsSpent
    <2>3. absent >= Patience
      BY <1>6, <1>7, <1>8, <2>2, PatienceIsSpent
    <2> QED
      BY <1>5, <1>10, <2>3
  <1> QED
    BY <1>9, <1>10

\* A program in the agent's place does not make the wrapper lose the agent before
\* all the misses are over, and the shell not before the probe after the one that
\* announced the exit (LossTracker::update() and Scheduler::completed()).
THEOREM LossIsPatient == PSpec => LossTakesTime
  <1> DEFINE Late == outcome' = "lost" =>
                        absent' >= IF Listed.shell THEN HoldCadence ELSE Patience
  <1>1. ProbingInv /\ [PNext]_probingVars => [Late]_probingVars
    <2> SUFFICES ASSUME ProbingInv, PNext, outcome' = "lost"
                 PROVE  absent' >= IF Listed.shell THEN HoldCadence ELSE Patience
      OBVIOUS
    <2>1. Holding \subseteq BOOLEAN
      BY DEF Holding
    <2>2. CASE Output /\ RememberProbe
      <3>1. PICK holding \in Holding : ScreenChanged(holding)
        BY <2>2 DEF Output
      <3>2. tracked = NoProcess /\ Probe(0, holding)
        BY <3>1 DEF ScreenChanged, Identified
      <3> QED
        BY <2>1, <2>2, <3>2, LossIsLate
    <2>3. CASE Wake /\ RememberProbe
      <3>1. PICK holding \in Holding : TimeToProbe(holding)
        BY <2>3 DEF Wake
      <3>2. next = 0 /\ Probe(acquisition, holding)
        BY <3>1 DEF TimeToProbe
      <3> QED
        BY <2>1, <2>3, <3>2, LossIsLate
    <2>4. CASE LetTimePass \/ ForegroundChanges
      BY <2>4 DEF LetTimePass, ForegroundChanges, NoUpdate
    <2> QED
      BY <2>2, <2>3, <2>4 DEF PNext
  <1> QED
    BY <1>1, ProbingInvariance, PTL DEF PSpec, LossTakesTime
=============================================================================
