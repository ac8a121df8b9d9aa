----------------------------- MODULE ClaimLease -----------------------------
(* The lease on one claimed job in time: the heartbeat ticker of a live slot *)
(* renews claimed_at, the maintenance loop of some process requeues a job    *)
(* whose claimed_at is older than WORKER_STALE_AFTER.  JobQueue counts a     *)
(* requeue of an attended job as a fault; this module says how many failed   *)
(* refreshes, or how much waiting for the database, such a fault takes.      *)
(* RefreshJobClaim has no timeout: a statement may take any time.            *)
EXTENDS Naturals

CONSTANTS Heartbeat,   \* WORKER_HEARTBEAT_INTERVAL
          StaleAfter,  \* WORKER_STALE_AFTER
          MaxStalled,  \* bound: how much waiting for the database adds up
          MaxMissed    \* bound: refreshes in a row that may fail

ASSUME DurationsAssumption ==
  /\ Heartbeat \in Nat \ {0} /\ StaleAfter \in Nat
  /\ MaxStalled \in Nat /\ MaxMissed \in Nat

\* Load refuses a configuration without this.
ConfigAccepted == StaleAfter >= 3 * Heartbeat

VARIABLES claim,      \* "held", "requeued" behind the slot's back, or "lost"
          age,        \* time since claimed_at, 0 when it is NULL
          sinceTick,  \* time since the ticker fired (or was created)
          due,        \* a tick is in the ticker's channel
          refresh,    \* RefreshJobClaim: "no", "sent", "renewed" or "refused"
                      \* in the database with its answer still to come
          waited,     \* time since the refresh under way was sent
          missed,     \* refreshes that failed since the last good one
          stalled     \* history: the part of the time since the last value of
                      \* claimed_at in which a statement on the job was under way

vars == <<claim, age, sinceTick, due, refresh, waited, missed, stalled>>

TypeOK == /\ claim \in {"held", "requeued", "lost"}
          /\ age \in Nat
          /\ sinceTick \in 0..Heartbeat
          /\ due \in BOOLEAN
          /\ refresh \in {"no", "sent", "renewed", "refused"}
          /\ waited \in 0..MaxStalled
          /\ missed \in 0..MaxMissed
          /\ stalled \in 0..MaxStalled

\* ClaimJob writes its start as claimed_at; its answer arrives any time later,
\* and the ticker is created then.
Init == /\ claim = "held"
        /\ age \in 0..MaxStalled
        /\ stalled = age
        /\ sinceTick = 0 /\ due = FALSE
        /\ refresh = "no" /\ waited = 0 /\ missed = 0

\* Time passes, but not past a tick, and a tick in the channel of an idle
\* goroutine is taken at once.
Pass == /\ claim # "lost"
        /\ sinceTick < Heartbeat
        /\ refresh = "no" => due = FALSE
        /\ refresh # "no" => stalled < MaxStalled /\ waited < MaxStalled
        /\ sinceTick' = sinceTick + 1
        /\ age' = IF claim = "held" THEN age + 1 ELSE age
        /\ IF refresh = "no"
             THEN UNCHANGED <<waited, stalled>>
             ELSE waited' = waited + 1 /\ stalled' = stalled + 1
        /\ UNCHANGED <<claim, due, refresh, missed>>

\* The channel holds one tick; another one is dropped.
TickerFires == /\ claim # "lost"
               /\ sinceTick = Heartbeat
               /\ sinceTick' = 0
               /\ due' = TRUE
               /\ UNCHANGED <<claim, age, refresh, waited, missed, stalled>>

SendRefresh == /\ due = TRUE /\ refresh = "no"
               /\ due' = FALSE
               /\ refresh' = "sent"
               /\ waited' = 0
               /\ UNCHANGED <<claim, age, sinceTick, missed, stalled>>

\* SET claimed_at=now() ... WHERE status='running' AND worker_id=$2, where
\* now() is some moment since the statement was sent; or no such row.
RefreshExecutes ==
  /\ refresh = "sent"
  /\ \/ /\ claim = "held"
        /\ refresh' = "renewed"
        /\ age' \in 0..waited
        /\ stalled' = age'
     \/ /\ claim = "requeued"
        /\ refresh' = "refused"
        /\ UNCHANGED <<age, stalled>>
  /\ UNCHANGED <<claim, sinceTick, due, waited, missed>>

\* The slot learns that it has renewed the claim, or lost it: then it cancels
\* the job and stops the ticker.
RefreshAnswers == /\ \/ /\ refresh = "renewed"
                        /\ missed' = 0
                        /\ UNCHANGED <<claim, due>>
                     \/ /\ refresh = "refused"
                        /\ claim' = "lost"
                        /\ due' = FALSE
                        /\ UNCHANGED missed
                  /\ refresh' = "no"
                  /\ UNCHANGED <<age, sinceTick, waited, stalled>>

\* The database or the connection fails, before or after the statement has
\* been executed: the goroutine logs it and waits for the next tick.
RefreshErrs == /\ refresh # "no" /\ missed < MaxMissed
               /\ missed' = missed + 1
               /\ refresh' = "no"
               /\ UNCHANGED <<claim, age, sinceTick, due, waited, stalled>>

\* Mutant: requeued after two intervals, whatever WORKER_STALE_AFTER says.
RequeueAfterTwo == /\ claim = "held" /\ age > 2 * Heartbeat
                   /\ claim' = "requeued"
                   /\ age' = 0
                   /\ UNCHANGED <<sinceTick, due, refresh, waited, missed, stalled>>

\* WHERE status='running' AND claimed_at < now() - olderThan
RequeueStaleJobs == /\ claim = "held" /\ age > StaleAfter
                    /\ claim' = "requeued"
                    /\ age' = 0
                    /\ UNCHANGED <<sinceTick, due, refresh, waited, missed, stalled>>

\* The slot drops the lost job and claims another one.
ClaimJob == /\ claim = "lost"
            /\ claim' = "held"
            /\ age' \in 0..MaxStalled
            /\ stalled' = age'
            /\ sinceTick' = 0
            /\ missed' = 0
            /\ UNCHANGED <<due, refresh, waited>>

Next == \/ Pass \/ TickerFires \/ SendRefresh \/ RefreshExecutes
        \/ RefreshAnswers \/ RefreshErrs \/ RequeueStaleJobs \/ ClaimJob

Spec == Init /\ [][Next]_vars

-----------------------------------------------------------------------------
\* A job is taken away from a live slot only when the intervals of the
\* refreshes that failed in a row, one more interval, and the time statements
\* on the job have taken since it was last renewed exceed the lease, at
\* whatever moment a maintenance loop looks (main.go:145-177 against
\* store.go:341-352).  How long a statement takes is not bounded.
TakenOnlyAfterMisses ==
  claim = "requeued" => (missed + 1) * Heartbeat + stalled > StaleAfter

\* How old a claim gets: the argument behind TakenOnlyAfterMisses.
AgeBound ==
  /\ refresh = "sent" => waited <= stalled
  /\ claim = "lost" => refresh = "no" /\ due = FALSE
  /\ refresh = "refused" => claim = "requeued"
  /\ claim = "held" /\ refresh = "renewed" => age <= stalled
  /\ claim = "requeued" /\ refresh = "renewed" => stalled > StaleAfter
  /\ claim = "held" => age <= stalled + (missed + 1) * Heartbeat
  /\ claim = "held" /\ refresh = "no" /\ due = FALSE =>
       age <= stalled + missed * Heartbeat + sinceTick
=============================================================================
