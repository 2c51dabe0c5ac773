----------------------------- MODULE Hysteresis -----------------------------
(***************************************************************************)
(* What the hysteresis machine must do with the verdicts it is given.  The *)
(* history variables are computed from the inputs of the calls and the     *)
(* passing of time alone, never from the machine's own hold, grace or      *)
(* deadlines, so the properties judge the machine from outside.            *)
(***************************************************************************)
EXTENDS Machine

VARIABLES
    streak,     \* consecutive plain idle verdicts for the agent, startup grace excluded
    idleFor,    \* time since the first of them
    known,      \* time since the machine was given an agent other than the one before
    quiet       \* time since it last sent a publication or a heartbeat

history == <<streak, idleFor, known, quiet>>
hvars == <<vars, history>>

UpTo(n, bound) == IF n < bound THEN n ELSE bound

\* The messages of the last call: its publications and its heartbeats.
Sent(kind) == {e \in {out[n] : n \in DOMAIN out} : e.kind = kind}
Published == Sent("changed")
Heartbeats == Sent("heartbeat")

Hear == quiet' = IF Published' \cup Heartbeats' = {} THEN quiet ELSE 0

\* Does this call say that the agent's screen looks idle and nothing more?
PlainIdle(i) ==
    /\ i.verdict.state = "idle"
    /\ "idle" \notin i.verdict.visible
    /\ ~ i.exited
    /\ known' >= Grace

Remember(i) ==
    /\ known' = IF i.agent # agent THEN 0 ELSE known
    /\ streak' = IF ~ PlainIdle(i) THEN 0
                 ELSE IF i.agent # agent THEN 1
                 ELSE UpTo(streak + 1, Confirmations + 1)
    /\ idleFor' = IF streak' <= 1 THEN 0 ELSE idleFor
    /\ Hear

Age ==
    /\ known' = UpTo(known + 1, Grace)
    /\ idleFor' = UpTo(idleFor + 1, HoldCap)
    /\ quiet' = UpTo(quiet + 1, Heartbeat)
    /\ UNCHANGED streak

HInit ==
    /\ Init
    /\ streak = 0
    /\ idleFor = 0
    /\ known = 0
    /\ quiet = 0

HObserve == \E i \in Inputs : Observe(i) /\ Remember(i)
HTick == Tick /\ Hear /\ UNCHANGED <<streak, idleFor, known>>
HElapse == Elapse /\ Age

HNext == HObserve \/ HTick \/ HElapse

HSpec == HInit /\ [][HNext]_hvars /\ WF_hvars(HTick) /\ WF_hvars(HElapse)

-----------------------------------------------------------------------------

HistoryOK ==
    /\ streak \in 0..(Confirmations + 1)
    /\ idleFor \in 0..HoldCap
    /\ known \in 0..Grace
    /\ quiet \in 0..Heartbeat

\* How the machine's hold and grace relate to what it was told: the grace runs
\* out no earlier than the agent has been known for that long, and a hold over
\* a working state has counted no verdict and no time that did not pass.
HoldCountsVerdicts ==
    /\ agent # NoAgent => known + grace >= Grace
    /\ HoldPending /\ current = "working" =>
          hold.confirmations <= streak /\ hold.age <= idleFor

HeldStep(e) ==
    e.previous = "working" /\ e.state = "idle" /\ ~ e.exited /\ "idle" \notin e.visible
    => streak' > Confirmations \/ (streak' > 0 /\ idleFor' >= HoldCap)

\* A working agent is announced idle, without an exit and without the screen
\* saying so, only after the screen has looked idle in a row for more than
\* `confirmations` verdicts or for the whole hold cap (observe(), tick()).
PlainIdleIsHeld == [][\A e \in Published' : HeldStep(e)]_hvars

GraceStep(e) == e.state = "idle" /\ ~ e.exited => known' >= Grace

\* No agent is announced idle before the startup grace of its identifier is
\* over, except when it exits: neither a verdict nor a hold kept from before
\* can do it.  The grace, like `known`, starts where the code starts it, with an
\* identifier other than the one before (`if agent != self.agent`): an agent
\* that is relaunched under another pid while the machine still has it gets no
\* new grace and may be announced idle at once, by a verdict or by the cap of a
\* hold over its predecessor, although DESIGN.md says that the grace "restarts".
GraceSilencesIdle == [][\A e \in Published' : GraceStep(e)]_hvars

\* An open hold belongs to an agent that is past its grace, and delays a
\* working state or is what an exit left behind.
HoldIsJustified ==
    HoldPending =>
        /\ agent # NoAgent
        /\ grace = 0
        /\ current = "working" \/ (current = "idle" /\ visible = {})

RepetitionStep(e) ==
    e.state = e.previous /\ e.visible = visible =>
       e.exited \/ agent' = NoAgent \/ (HoldPending /\ current = "idle" /\ visible = {})

\* A publication that repeats the state and flags of the one before it marks
\* an exit or the loss of the agent, or comes from the hold an exit left open:
\* a consumer is not told the same thing twice for any other reason.
NoIdlePublication == [][\A e \in Published' : RepetitionStep(e)]_hvars

\* A heartbeat follows the message before it by the whole period: every
\* publication and every heartbeat starts the period anew, so that a consumer
\* hears repetitions only of a state that has lasted.
HeartbeatsArePaced == [][Heartbeats' # {} => quiet = Heartbeat]_hvars

\* A working agent that begins to look idle and does not stop looking idle is
\* announced idle in the end, whatever the order of calls and time.
IdleSettles ==
    (current = "working" /\ streak > 0) ~> (current # "working" \/ streak = 0)

-----------------------------------------------------------------------------

\* The machine's events as a consumer of the feed sees them.
Message(e) ==
    [number |-> e.seq, state |-> e.state, flags |-> e.visible,
     replaces |-> IF e.kind = "changed" THEN {e.previous} ELSE {}]

Messages == {Message(e) : e \in Published \cup Heartbeats}

F == INSTANCE Feed WITH
        Flagsets <- FlagSets, Top <- SeqMax,
        state <- current, flags <- visible, number <- seq, latest <- Messages

\* The machine implements the numbered feed.
ImplementsFeed == F!Spec
=============================================================================
