---------------------------- MODULE MCEventSink ----------------------------
(* A small instance of the event sink for TLC: records of three bytes, so    *)
(* that a write can take the first part, the last part, or both.             *)
EXTENDS EventSink
=============================================================================
