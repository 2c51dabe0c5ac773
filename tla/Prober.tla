------------------------------- MODULE Prober -------------------------------
(***************************************************************************)
(* When the wrapper looks for an agent, and what it concludes: the probe   *)
(* scheduler of src/platform/probe.rs driving the loss tracker, as the     *)
(* wrapper's main loop calls them.  An iteration of the loop may have read *)
(* output that changed the screen; if a probe is due then, it reads the    *)
(* foreground group, and if the scheduler asks for a full probe it lists   *)
(* the group's processes and updates the tracker.                          *)
(*                                                                         *)
(* Time is relative, as in the hysteresis machine: `next` is the time left *)
(* until the next probe is due, the other instants are the time since      *)
(* them, Unset when the code has None.                                     *)
(***************************************************************************)
EXTENDS LossTracker

CONSTANTS
    Groups, NoGroup,            \* process groups that can be in the foreground
    HoldCadence,                \* time to the next probe: while a hold is pending
    IdentifiedCadence,          \*   while an agent is known
    FastCadence,                \*   in the first part of the acquisition window
    SlowCadence,                \*   in the rest of it
    IdleCadence,                \*   otherwise
    FastPhase, Window,          \* the first part and the whole of the window
    FullEvery,                  \* a known agent is probed fully this often
    NoGroupLimit                \* a foreground group may be missing for this long

ASSUME ProberAssumption ==
    /\ NoGroup \notin Groups
    /\ {HoldCadence, IdentifiedCadence, FastCadence, SlowCadence, IdleCadence}
          \subseteq Nat \ {0}
    /\ {FastPhase, Window, FullEvery, NoGroupLimit} \subseteq Nat \ {0}

VARIABLES
    next,           \* Scheduler.next
    lastFull,       \* Scheduler.last_full
    acquisition,    \* Scheduler.acquisition
    noGroup,        \* Scheduler.no_pgid_since
    lastGroup,      \* last_pgid: the group the last probe read
    assumed,        \* the active agent is the one the command's name gave
    foreground,     \* the group that is in the foreground
    listing         \* what listing its processes finds: an agent's process, the shell

schedulerVars == <<next, lastFull, acquisition, noGroup>>
wrapperVars == <<lastGroup, assumed>>
environment == <<foreground, listing>>
proberVars == <<trackerVars, schedulerVars, wrapperVars, environment>>

Unset == -1
MaxOf(S) == CHOOSE m \in S : \A n \in S : n <= m
Slowest == MaxOf({HoldCadence, IdentifiedCadence, FastCadence, SlowCadence, IdleCadence})

\* active_agent.is_some(): the tracker has an agent, or the wrapper has gone on
\* with the one that the command's name gave at the start.
Identified == tracked # NoProcess \/ assumed

Listings == [found : Processes, shell : {FALSE}]
            \cup {[found |-> NoProcess, shell |-> s] : s \in BOOLEAN}
Nothing == [found |-> NoProcess, shell |-> FALSE]

-----------------------------------------------------------------------------
(* The scheduler *)

InWindow(opened) == opened # Unset /\ opened < Window

\* completed(): the state of the acquisition window, whether the probe is a
\* full one, and the time to the next one.
WindowAfter(opened, changed) ==
    IF changed /\ ~ Identified THEN 0
    ELSE IF InWindow(opened) THEN opened ELSE Unset

MutFullNotInWindow(opened, changed) ==
    \/ changed
    \/ lastFull = Unset
    \/ Identified /\ lastFull >= FullEvery

MutFullNotPeriodic(opened, changed) ==
    \/ changed
    \/ lastFull = Unset
    \/ InWindow(opened)

IsFull(opened, changed) ==
    \/ changed
    \/ lastFull = Unset
    \/ Identified /\ lastFull >= FullEvery
    \/ InWindow(opened)

Cadence(opened, holding) ==
    CASE holding             -> HoldCadence
      [] ~ holding /\ Identified -> IdentifiedCadence
      [] ~ holding /\ ~ Identified /\ opened # Unset ->
            IF opened < FastPhase THEN FastCadence ELSE SlowCadence
      [] OTHER -> IdleCadence

\* pgid_presence(): for how long there has been no foreground group.
NoGroupAfter ==
    IF foreground # NoGroup THEN Unset
    ELSE IF noGroup = Unset THEN 0 ELSE noGroup

GroupMissingTooLong == NoGroupAfter >= NoGroupLimit

\* What the probe lists: nothing without a group.
Listed == IF foreground = NoGroup THEN Nothing ELSE listing

\* One probe, with the acquisition window `opened` so long ago and a hold
\* pending or not.
Probe(opened, holding) ==
    LET changed == foreground # lastGroup
        window == WindowAfter(opened, changed)
        full == IsFull(window, changed)
    IN  /\ noGroup' = NoGroupAfter
        /\ lastGroup' = foreground
        /\ acquisition' = window
        /\ lastFull' = IF full THEN 0 ELSE lastFull
        /\ next' = Cadence(window, holding)
        /\ IF full \/ GroupMissingTooLong
           THEN Update(Listed.found, Listed.shell)
           ELSE NoUpdate
        /\ assumed' = (assumed /\ outcome' = "none")

-----------------------------------------------------------------------------
(* The loop *)

\* screen_changed_without_agent() opens the window and makes a probe due in the
\* same iteration.
ScreenChanged(holding) ==
    /\ ~ Identified
    /\ Probe(0, holding)
    /\ UNCHANGED environment

\* An iteration without such a change, when a probe is due.
TimeToProbe(holding) ==
    /\ next = 0
    /\ Probe(acquisition, holding)
    /\ UNCHANGED environment

\* A hold is pending only while there is an agent.
Holding == IF Identified THEN BOOLEAN ELSE {FALSE}

Output == \E holding \in Holding : ScreenChanged(holding)
Wake == \E holding \in Holding : TimeToProbe(holding)

Older(since, limit) == IF since = Unset \/ since = limit THEN since ELSE since + 1

\* Time passes between iterations.  A blocked stdout can keep a probe waiting,
\* so time does not stop when one is due.
LetTimePass ==
    /\ next' = IF next > 0 THEN next - 1 ELSE 0
    /\ lastFull' = Older(lastFull, FullEvery)
    /\ acquisition' = Older(acquisition, Window)
    /\ noGroup' = Older(noGroup, NoGroupLimit)
    /\ NoUpdate
    /\ UNCHANGED <<wrapperVars, environment>>

-----------------------------------------------------------------------------
(* The environment *)

\* Another group comes to the foreground, with its own processes, or the group
\* is lost from sight; or a process of the group execs another program.
ForegroundChanges ==
    /\ foreground' \in Groups \cup {NoGroup}
    /\ listing' \in Listings
    /\ environment' # environment
    /\ NoUpdate
    /\ UNCHANGED <<schedulerVars, wrapperVars>>

ProberInit ==
    /\ TrackerInit
    /\ next = 0
    /\ lastFull = Unset
    /\ acquisition = Unset
    /\ noGroup = Unset
    /\ lastGroup = NoGroup
    /\ assumed \in BOOLEAN
    /\ foreground \in Groups
    /\ listing = [found |-> NoProcess, shell |-> TRUE]

ProberNext == Output \/ Wake \/ LetTimePass \/ ForegroundChanges

\* The loop wakes up every 50 ms, and time passes.
ProberFairness == WF_proberVars(Wake) /\ WF_proberVars(LetTimePass)

ProberSpec == ProberInit /\ [][ProberNext]_proberVars /\ ProberFairness
=============================================================================
