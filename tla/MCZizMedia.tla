----------------------------- MODULE MCZizMedia -----------------------------
(* Instances of ZizMedia for TLC: u1 and u2 serve the same bytes.            *)
EXTENDS ZizMedia

CONSTANTS u1, u2, u3, f1, f2, w1, w2

\* An export between two runs may have found one more.
MCExports == {{u1, u2}, {u1, u2, u3}}
MCTwo == {{u1, u3}}

MCFile == [u \in URLs |-> IF u = u3 THEN f2 ELSE f1]
=============================================================================
