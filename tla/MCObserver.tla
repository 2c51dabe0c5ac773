----------------------------- MODULE MCObserver -----------------------------
(* Small instances of the observer for TLC. *)
EXTENDS Observer

CONSTANTS a1, a2

MCAgents == {a1, a2}
MCProcesses == {[agent |-> a1, pid |-> 1], [agent |-> a2, pid |-> 2]}

\* Rules without visible_* flags: the machine's own run covers the flags.
MCFlagSets == {{}}
=============================================================================
