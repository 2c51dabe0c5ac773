---------------------------- MODULE LossTracker ----------------------------
(***************************************************************************)
(* The loss tracker of src/platform/probe.rs: it turns the results of      *)
(* full probes of the foreground job into the discovery, the exit and the  *)
(* loss of an agent.  A probe brings the process that was identified as an *)
(* agent, if any, and whether the pane's shell is in the foreground job.   *)
(***************************************************************************)
EXTENDS Integers

CONSTANTS
    Processes,      \* the processes that can be identified, with their agents
    NoProcess,      \* Option::None for a process
    MissLimit       \* the misses after which an agent is lost

ASSUME TrackerAssumption ==
    /\ NoProcess \notin Processes
    /\ MissLimit \in Nat \ {0}

VARIABLES
    tracked,        \* LossTracker.current
    misses,         \* full probes without agent and shell, since it was last seen
    announced,      \* exit_announced: the last probe found the shell
    outcome         \* what the last update returned

trackerVars == <<tracked, misses, announced, outcome>>

Outcomes == {"none", "found", "exited", "lost"}

TrackerInit ==
    /\ tracked = NoProcess
    /\ misses = 0
    /\ announced = FALSE
    /\ outcome = "none"

\* An agent is in the foreground: a new process of the same agent is a
\* discovery too.
Seen(found) ==
    /\ found # NoProcess
    /\ tracked' = found
    /\ misses' = 0
    /\ announced' = FALSE
    /\ outcome' = IF tracked = found THEN "none" ELSE "found"

NothingTracked(found) ==
    /\ found = NoProcess
    /\ tracked = NoProcess
    /\ outcome' = "none"
    /\ UNCHANGED <<tracked, misses, announced>>

Gone(found) == found = NoProcess /\ tracked # NoProcess

MutForget ==
    /\ misses' = 0
    /\ announced' = FALSE
    /\ outcome' = "lost"
    /\ UNCHANGED tracked

Forget ==
    /\ tracked' = NoProcess
    /\ misses' = 0
    /\ announced' = FALSE
    /\ outcome' = "lost"

MutShellIsBack(found, shell) ==
    /\ Gone(found)
    /\ shell
    /\ ~ announced
    /\ announced' = TRUE
    /\ outcome' = "exited"
    /\ misses' = 0
    /\ UNCHANGED tracked

\* The shell is back: the first probe to see it announces the exit, the next
\* one loses the agent.  The misses are kept.
ShellIsBack(found, shell) ==
    /\ Gone(found)
    /\ shell
    /\ ~ announced
    /\ announced' = TRUE
    /\ outcome' = "exited"
    /\ UNCHANGED <<tracked, misses>>

ShellIsStillThere(found, shell) ==
    /\ Gone(found)
    /\ shell
    /\ announced
    /\ Forget

MutMissUncounted(found, shell) ==
    /\ Gone(found)
    /\ ~ shell
    /\ misses + 1 < MissLimit
    /\ announced' = FALSE
    /\ outcome' = "none"
    /\ UNCHANGED <<tracked, misses>>

\* Something else is in the foreground.
Miss(found, shell) ==
    /\ Gone(found)
    /\ ~ shell
    /\ misses + 1 < MissLimit
    /\ misses' = misses + 1
    /\ announced' = FALSE
    /\ outcome' = "none"
    /\ UNCHANGED tracked

MutLastMiss(found, shell) ==
    /\ Gone(found)
    /\ ~ shell
    /\ misses + 2 >= MissLimit
    /\ Forget

LastMiss(found, shell) ==
    /\ Gone(found)
    /\ ~ shell
    /\ misses + 1 >= MissLimit
    /\ Forget

Update(found, shell) ==
    \/ Seen(found)
    \/ NothingTracked(found)
    \/ ShellIsBack(found, shell)
    \/ ShellIsStillThere(found, shell)
    \/ Miss(found, shell)
    \/ LastMiss(found, shell)

\* A step of the caller without an update.
NoUpdate ==
    /\ outcome' = "none"
    /\ UNCHANGED <<tracked, misses, announced>>
=============================================================================
