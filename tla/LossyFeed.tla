----------------------------- MODULE LossyFeed -----------------------------
(***************************************************************************)
(* What the event channel promises a consumer: "Events may be lost; they   *)
(* are observations, not an authoritative audit log" (OBSERVATION-         *)
(* CONTRACT.md), but what arrives is one whole record after another, never *)
(* one older than the record before it, and once the consumer keeps        *)
(* reading it learns the latest one.                                       *)
(***************************************************************************)
EXTENDS Integers

CONSTANTS None          \* the consumer has received nothing

VARIABLES
    newest,     \* the number of the newest record offered; 0 before the first
    received,   \* the number of the last record the consumer received
    healthy     \* the consumer is connected and reading

feed == <<newest, received, healthy>>

Init ==
    /\ newest = 0
    /\ received = None
    /\ healthy \in BOOLEAN

Offer ==
    /\ newest' = newest + 1
    /\ UNCHANGED <<received, healthy>>

\* Any record that is not older than the last one may arrive; the same one may
\* arrive again.
Deliver ==
    /\ received' \in 1..newest
    /\ received # None => received' >= received
    /\ UNCHANGED <<newest, healthy>>

\* The consumer's health changes, or it starts anew and knows nothing.
Change ==
    /\ healthy' \in BOOLEAN
    /\ received' \in {received, None}
    /\ UNCHANGED newest

Next == Offer \/ Deliver \/ Change

CatchesUp == <>[](healthy /\ newest > 0) => <>[](received = newest)

Safety == Init /\ [][Next]_feed
Spec == Safety /\ CatchesUp
=============================================================================
