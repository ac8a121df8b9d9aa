----------------------------- MODULE MCJobQueue -----------------------------
(* An instance of JobQueue for TLC: two jobs, and one WORKER_ID per process. *)
EXTENDS JobQueue

MCJobs == 1..2
MCUniqueID == [p \in Procs |-> p]
=============================================================================
