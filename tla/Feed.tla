-------------------------------- MODULE Feed --------------------------------
(***************************************************************************)
(* What the hysteresis machine promises the consumers of its events: a     *)
(* numbered feed.  Each publication carries the number after the last      *)
(* one's and names the state it replaces; a repetition carries the number, *)
(* state and flags of the last publication; nothing is repeated before the *)
(* first publication, and after it the feed never falls silent for good.   *)
(***************************************************************************)
EXTENDS Integers

CONSTANTS States, Flagsets, Top     \* Top is the number the feed saturates at

VARIABLES
    state,      \* the last published state
    flags,      \* and its flags
    number,     \* and its number
    latest      \* the messages the last step sent: none or one

feed == <<state, flags, number, latest>>

Following == IF number < Top THEN number + 1 ELSE Top

Init ==
    /\ state = "none"
    /\ flags = {}
    /\ number = 0
    /\ latest = {}

Announce ==
    /\ state' \in States
    /\ flags' \in Flagsets
    /\ number' = Following
    /\ latest' = {[number |-> Following, state |-> state',
                    flags |-> flags', replaces |-> {state}]}

Resend ==
    /\ number > 0
    /\ UNCHANGED <<state, flags, number>>
    /\ latest' = {[number |-> number, state |-> state,
                    flags |-> flags, replaces |-> {}]}

Silence ==
    /\ UNCHANGED <<state, flags, number>>
    /\ latest' = {}

Next == Announce \/ Resend \/ Silence

\* A feed that has started always speaks again.
NeverSilentForGood == (number > 0) ~> (latest # {})

Safety == Init /\ [][Next]_feed
Spec == Safety /\ NeverSilentForGood
=============================================================================
