---------------------------- MODULE MCClaimLease ----------------------------
(* An instance of ClaimLease with the default 20 s and 90 s in units of      *)
(* 10 s: without waiting for the database the lease covers three failed      *)
(* refreshes in a row, not four, and one statement may outlast the lease.    *)
EXTENDS ClaimLease
ASSUME MCAccepted == /\ ConfigAccepted
                     /\ 4 * Heartbeat <= StaleAfter /\ 5 * Heartbeat > StaleAfter
                     /\ MaxStalled > StaleAfter
=============================================================================
