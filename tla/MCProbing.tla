----------------------------- MODULE MCProbing -----------------------------
(* A small instance of the prober for TLC: its cadences and windows keep the *)
(* order of the code's, 100 < 300 < 500 ms < 2 s, and 1.5 < 5 < 8 < 30 s.    *)
EXTENDS Probing
=============================================================================
