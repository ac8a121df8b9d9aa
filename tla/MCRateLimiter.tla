--------------------------- MODULE MCRateLimiter ---------------------------
(* An instance of RateLimiter for TLC: five searches of a key that may pass    *)
(* twice a window, more than the bound allows, and one of a key of rate one. *)
EXTENDS RateLimiter

CONSTANTS q1, q2, q3, q4, q5, other, k1, k2

MCKeyOf == [r \in Requests |-> IF r = other THEN k2 ELSE k1]
MCRate == [k \in Keys |-> IF k = k1 THEN 2 ELSE 1]
=============================================================================
