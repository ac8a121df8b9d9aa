---------------------------- MODULE JobLifecycle ----------------------------
(* What the job queue promises about one search job, without saying how: a *)
(* job is submitted once, is worked on by one slot at a time, may be given *)
(* back while it is being worked on, and is ended once, by the slot that   *)
(* started it last.                                                        *)
CONSTANTS Jobs,     \* job identifiers
          Slots,    \* the worker slots that may work on a job
          Null      \* "nobody"

VARIABLES status,     \* where each job is in its life
          owner,      \* the slot that started the job last, or Null
          finisher    \* the slot that ended the job, or Null

jobVars == <<status, owner, finisher>>

Terminal == {"complete", "failed"}

Init == /\ status = [j \in Jobs |-> "absent"]
        /\ owner = [j \in Jobs |-> Null]
        /\ finisher = [j \in Jobs |-> Null]

Submit(j) == /\ status[j] = "absent"
             /\ status' = [status EXCEPT ![j] = "queued"]
             /\ UNCHANGED <<owner, finisher>>

Start(j, s) == /\ status[j] = "queued"
               /\ status' = [status EXCEPT ![j] = "running"]
               /\ owner' = [owner EXCEPT ![j] = s]
               /\ UNCHANGED finisher

\* Several jobs may be given back at once.
GiveBack(given) ==
  /\ \A j \in given : status[j] = "running"
  /\ status' = [j \in Jobs |-> IF j \in given THEN "queued" ELSE status[j]]
  /\ owner' = [j \in Jobs |-> IF j \in given THEN Null ELSE owner[j]]
  /\ UNCHANGED finisher

End(j, outcome) ==
  /\ status[j] = "running"
  /\ status' = [status EXCEPT ![j] = outcome]
  /\ finisher' = [finisher EXCEPT ![j] = owner[j]]
  /\ UNCHANGED owner

Next == \/ \E j \in Jobs : Submit(j)
        \/ \E j \in Jobs, s \in Slots : Start(j, s)
        \/ \E given \in SUBSET Jobs : GiveBack(given)
        \/ \E j \in Jobs, outcome \in Terminal : End(j, outcome)

Spec == Init /\ [][Next]_jobVars
=============================================================================
