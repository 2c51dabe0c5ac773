----------------------------- MODULE MCDetector -----------------------------
(* Small instances of the detection path for TLC. *)
EXTENDS Detector

CONSTANTS a1, a2, a3

\* One agent that is started twice, and another one.
MCProcesses == {[agent |-> a1, pid |-> 1], [agent |-> a1, pid |-> 2], [agent |-> a2, pid |-> 1]}
MCAgents == {a1, a2, a3}

\* No rule set describes the third, which only --agent can name.
MCRuled == {a1, a2}

\* Rules without visible_* flags: the machine's own run covers the flags.
MCFlagSets == {{}}
=============================================================================
