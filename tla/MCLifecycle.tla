---------------------------- MODULE MCLifecycle ----------------------------
(* Small instances of the wrapper's threads for TLC. *)
EXTENDS Lifecycle
=============================================================================
