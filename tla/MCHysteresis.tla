---------------------------- MODULE MCHysteresis ----------------------------
(* A small instance of the hysteresis machine for TLC. *)
EXTENDS Hysteresis

\* No flag, the flag that bypasses the hold, and one that does not.
MCFlagSets == {{}, {"idle"}, {"blocker"}}
=============================================================================
