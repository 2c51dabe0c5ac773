------------------------------ MODULE Machine ------------------------------
(***************************************************************************)
(* The hysteresis machine of src/state.rs: it turns the noisy verdicts     *)
(* of the rule engine into published agent states.  Its two operations are *)
(* observe(), called with a verdict, the agent the prober last identified  *)
(* and an exit marker, and tick(), called by the wrapper's loop on every   *)
(* iteration.                                                              *)
(*                                                                         *)
(* The code compares instants only with instants it stored itself, so time *)
(* is relative here: a stored deadline is the time left until it, a stored *)
(* start is the time since it, both stopping where the code can no longer  *)
(* tell values apart.  Elapse lets one unit of time pass between calls.    *)
(*                                                                         *)
(* An operator whose name starts with Mut is a slip that the definition    *)
(* after it avoids; the properties are tried against each of them.         *)
(***************************************************************************)
EXTENDS Integers, Sequences

CONSTANTS
    Agents,         \* the agent identifiers
    NoAgent,        \* Option::None for an agent
    NoHold,         \* Option::None for a hold
    FlagSets,       \* the combinations of visible_* flags that rules carry
    Confirmation,   \* Config.confirmation, in units of time
    HoldCap,        \* Config.hold_cap
    Grace,          \* Config.startup_grace
    Heartbeat,      \* Config.heartbeat
    Confirmations,  \* Config.confirmations
    SeqMax          \* u64::MAX, where the sequence number saturates

Flags == {"idle", "blocker", "working"}
States == {"none", "working", "blocked", "idle"}
Verdicts == [state : {"working", "blocked", "idle", "skip"}, visible : FlagSets]
NoVerdict == [state |-> "absent", visible |-> {}]     \* Option::None for a verdict
Holds == [age : 0..HoldCap, next : 0..Confirmation, confirmations : 1..Confirmations]

ASSUME MachineAssumption ==
    /\ Confirmation \in Nat /\ HoldCap \in Nat /\ Grace \in Nat /\ Heartbeat \in Nat
    /\ Confirmations \in Nat \ {0}
    /\ SeqMax \in Nat \ {0}
    /\ {} \in FlagSets /\ FlagSets \subseteq SUBSET Flags
    /\ NoAgent \notin Agents
    /\ NoHold \notin Holds

VARIABLES
    current,    \* the last published state
    agent,      \* the agent the machine works for
    visible,    \* the flags of the last publication
    seq,        \* the sequence number of the last publication
    hold,       \* the pending working -> idle transition
    grace,      \* time left of the startup grace; 0 when none is running
    beat,       \* time left until the next heartbeat; NotArmed before the first publication
    out         \* the events the last call returned

vars == <<current, agent, visible, seq, hold, grace, beat, out>>

NotArmed == -1

-----------------------------------------------------------------------------
(* Events *)

Found(a) == [kind |-> "found", agent |-> a]
Lost == [kind |-> "lost"]
MutRepeat == [kind |-> "heartbeat", state |-> current, agent |-> agent,
              seq |-> seq + 1, visible |-> visible]

Repeat == [kind |-> "heartbeat", state |-> current, agent |-> agent,
           seq |-> seq, visible |-> visible]

MutNextSeq == seq + 1

\* seq.saturating_add(1)
NextSeq == IF seq < SeqMax THEN seq + 1 ELSE seq

Changed(state, flags, exited, a) ==
    [kind |-> "changed", state |-> state, previous |-> current, agent |-> a,
     seq |-> NextSeq, visible |-> flags, exited |-> exited]

MutPublish(state, flags, exited, a, before) ==
    /\ current' = state
    /\ visible' = flags
    /\ seq' = NextSeq
    /\ beat' = IF beat = NotArmed THEN Heartbeat ELSE beat
    /\ out' = Append(before, Changed(state, flags, exited, a))

\* publish(): the event carries the machine's agent at the time of the call,
\* which is `a`; `before` are the events already collected by the caller.
Publish(state, flags, exited, a, before) ==
    /\ current' = state
    /\ visible' = flags
    /\ seq' = NextSeq
    /\ beat' = Heartbeat
    /\ out' = Append(before, Changed(state, flags, exited, a))

Keep(before) ==
    /\ UNCHANGED <<current, visible, seq, beat>>
    /\ out' = before

-----------------------------------------------------------------------------
(* observe() *)

MutKeepHold ==
    /\ agent # NoAgent
    /\ agent' = NoAgent
    /\ UNCHANGED <<hold, grace>>
    /\ Publish("none", {}, FALSE, agent, <<Lost>>)

\* The agent is gone.  The publication precedes the assignment of self.agent,
\* so its event still names the agent that was lost.
LoseAgent ==
    /\ agent # NoAgent
    /\ agent' = NoAgent
    /\ hold' = NoHold
    /\ UNCHANGED grace
    /\ Publish("none", {}, FALSE, agent, <<Lost>>)

\* What the first lines of observe() leave for the rest of it, when the call
\* names agent `a`: a change of agent drops the hold and starts the grace.
Replaces(a) == a # agent
HoldFor(a) == IF Replaces(a) THEN NoHold ELSE hold
MutGraceFor(a) == IF agent = NoAgent /\ a # NoAgent THEN Grace ELSE grace

GraceFor(a) == IF Replaces(a) /\ a # NoAgent THEN Grace ELSE grace
Announce(a) == IF Replaces(a) /\ a # NoAgent THEN <<Found(a)>> ELSE <<>>

Adopt(a) ==
    /\ agent' = a
    /\ grace' = GraceFor(a)

AgentExited(a) ==
    /\ Adopt(a)
    /\ hold' = HoldFor(a)
    /\ Publish("idle", {}, TRUE, a, Announce(a))

\* No verdict, Skip, and an idle inside the startup grace cancel the hold and
\* leave the state alone.
Ignored(verdict, a) ==
    \/ verdict.state \in {"absent", "skip"}
    \/ verdict.state = "idle" /\ GraceFor(a) > 0

IgnoreVerdict(verdict, a) ==
    /\ Ignored(verdict, a)
    /\ Adopt(a)
    /\ hold' = NoHold
    /\ Keep(Announce(a))

\* A working agent whose screen turns idle without saying so is held.
IsHeld(verdict, a) ==
    /\ ~ Ignored(verdict, a)
    /\ current = "working"
    /\ verdict.state = "idle"
    /\ "idle" \notin verdict.visible

OpenHold(verdict, a) ==
    /\ IsHeld(verdict, a)
    /\ HoldFor(a) = NoHold
    /\ Adopt(a)
    /\ hold' = IF a = NoAgent THEN NoHold
               ELSE [age |-> 0, next |-> Confirmation, confirmations |-> 1]
    /\ Keep(Announce(a))

MutConfirmHold(verdict, a) ==
    /\ IsHeld(verdict, a)
    /\ HoldFor(a) # NoHold
    /\ Adopt(a)
    /\ IF hold.confirmations + 1 >= Confirmations
       THEN /\ hold' = NoHold
            /\ Publish("idle", verdict.visible, FALSE, a, Announce(a))
       ELSE /\ hold' = [hold EXCEPT !.confirmations = @ + 1, !.next = Confirmation]
            /\ Keep(Announce(a))

ConfirmHold(verdict, a) ==
    /\ IsHeld(verdict, a)
    /\ HoldFor(a) # NoHold
    /\ Adopt(a)
    /\ IF hold.confirmations + 1 > Confirmations
       THEN /\ hold' = NoHold
            /\ Publish("idle", verdict.visible, FALSE, a, Announce(a))
       ELSE /\ hold' = [hold EXCEPT !.confirmations = @ + 1, !.next = Confirmation]
            /\ Keep(Announce(a))

MutDiffers(verdict) == verdict.state # current \/ verdict.visible # {}

Differs(verdict) == verdict.state # current \/ verdict.visible # visible

MutTakeVerdict(verdict, a) ==
    /\ ~ Ignored(verdict, a)
    /\ ~ IsHeld(verdict, a)
    /\ Adopt(a)
    /\ hold' = NoHold
    /\ IF Differs(verdict)
       THEN Publish(verdict.state, verdict.visible, FALSE, agent, Announce(a))
       ELSE Keep(Announce(a))

TakeVerdict(verdict, a) ==
    /\ ~ Ignored(verdict, a)
    /\ ~ IsHeld(verdict, a)
    /\ Adopt(a)
    /\ hold' = NoHold
    /\ IF Differs(verdict)
       THEN Publish(verdict.state, verdict.visible, FALSE, a, Announce(a))
       ELSE Keep(Announce(a))

\* What the callers pass: a verdict comes from the agent's rule set and an exit
\* marker names the agent that exited, so both need an agent.
Inputs == [verdict : Verdicts \cup {NoVerdict}, agent : Agents, exited : BOOLEAN]
          \cup {[verdict |-> NoVerdict, agent |-> NoAgent, exited |-> FALSE]}

Observe(i) ==
    IF i.agent = NoAgent /\ agent # NoAgent THEN LoseAgent
    ELSE IF i.exited THEN AgentExited(i.agent)
    ELSE \/ IgnoreVerdict(i.verdict, i.agent)
         \/ OpenHold(i.verdict, i.agent)
         \/ ConfirmHold(i.verdict, i.agent)
         \/ TakeVerdict(i.verdict, i.agent)

-----------------------------------------------------------------------------
(* tick() *)

MutCapReached == hold # NoHold /\ hold.confirmations > 1 /\ hold.age >= HoldCap

CapReached == hold # NoHold /\ hold.age >= HoldCap
BeatDue == beat = 0

ForceIdle ==
    /\ CapReached
    /\ hold' = NoHold
    /\ Publish("idle", {}, FALSE, agent, <<>>)
    /\ UNCHANGED <<agent, grace>>

EmitHeartbeat ==
    /\ ~ CapReached
    /\ BeatDue
    /\ beat' = Heartbeat
    /\ out' = <<Repeat>>
    /\ UNCHANGED <<current, agent, visible, seq, hold, grace>>

NothingDue ==
    /\ ~ CapReached
    /\ ~ BeatDue
    /\ out' = <<>>
    /\ UNCHANGED <<current, agent, visible, seq, hold, grace, beat>>

Tick == ForceIdle \/ EmitHeartbeat \/ NothingDue

\* A step of the caller that makes no call: the last call's events are consumed.
NoCall ==
    /\ out' = <<>>
    /\ UNCHANGED <<current, agent, visible, seq, hold, grace, beat>>

-----------------------------------------------------------------------------
(* Queries the callers use *)

\* hold_pending()
HoldPending == hold # NoHold

\* next_deadline() has passed
DeadlinePassed ==
    \/ HoldPending /\ (hold.next = 0 \/ CapReached)
    \/ BeatDue

-----------------------------------------------------------------------------
(* Time *)

Later(left) == IF left > 0 THEN left - 1 ELSE left

Elapse ==
    /\ hold' = IF hold = NoHold THEN NoHold
               ELSE [hold EXCEPT !.age = IF @ < HoldCap THEN @ + 1 ELSE @,
                                 !.next = Later(@)]
    /\ grace' = Later(grace)
    /\ beat' = Later(beat)
    /\ out' = <<>>
    /\ UNCHANGED <<current, agent, visible, seq>>

-----------------------------------------------------------------------------

Init ==
    /\ current = "none"
    /\ agent = NoAgent
    /\ visible = {}
    /\ seq = 0
    /\ hold = NoHold
    /\ grace = 0
    /\ beat = NotArmed
    /\ out = <<>>

Next ==
    \/ \E i \in Inputs : Observe(i)
    \/ Tick
    \/ Elapse

\* The wrapper's loop calls tick() on every iteration and never stops waiting
\* for longer than its receive timeout, so calls of tick() and time both go on.
Fairness == WF_vars(Tick) /\ WF_vars(Elapse)

Spec == Init /\ [][Next]_vars /\ Fairness

-----------------------------------------------------------------------------

\* Every variable stays in the range the code's types and its saturating
\* arithmetic give it; and whatever was published has a number: without one
\* there is no state but none, no flag, and no heartbeat to repeat them.
TypeOK ==
    /\ current \in States
    /\ agent \in Agents \cup {NoAgent}
    /\ visible \in FlagSets
    /\ seq \in 0..SeqMax
    /\ hold \in Holds \cup {NoHold}
    /\ grace \in 0..Grace
    /\ beat \in {NotArmed} \cup 0..Heartbeat
    /\ seq = 0 => current = "none" /\ visible = {}
    /\ seq = 0 <=> beat = NotArmed
=============================================================================
