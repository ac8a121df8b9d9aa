---------------------------- MODULE MCSearchApi ----------------------------
(* An instance of SearchApi for TLC: both requests have one key, whose       *)
(* rate is one per window; r1 does not wait, r2 does.                        *)
EXTENDS SearchApi

CONSTANTS r1, r2, key

MCKeyOf == [r \in Requests |-> key]
MCRate == [k \in Keys |-> 1]
=============================================================================
