--------------------------- MODULE MCObservations ---------------------------
(* An instance of Observations for TLC: jobs that store two products in      *)
(* opposite orders, one of which has changed its value; a third product only *)
(* ever comes incomplete.                                                    *)
EXTENDS Observations

CONSTANTS s1, s2, a, b, c, low, high

LOCAL Of(p, v) == [product |-> p, value |-> v, complete |-> p # c]

MCListings == { <<Of(a, low), Of(b, low)>>, <<Of(b, low), Of(c, low), Of(a, high)>> }
=============================================================================
