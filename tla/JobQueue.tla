------------------------------ MODULE JobQueue ------------------------------
(* The distributed job queue: the scrape_jobs table, the worker processes   *)
(* whose slots claim, scrape and finish jobs, the heartbeat goroutine that  *)
(* renews each claim and the maintenance loop that requeues stale claims.   *)
(*                                                                          *)
(* A SQL statement is one step at the moment the database executes it.  A   *)
(* commit whose answer is lost is a step of its own.  Failures that the     *)
(* environment injects (crashes, database errors, missed heartbeats) are    *)
(* counted by `faults'.                                                     *)
EXTENDS Naturals

CONSTANTS Jobs,        \* job rows, named in created_at order
          Procs,       \* cmd/worker processes
          Concurrency, \* WORKER_CONCURRENCY
          WorkerID,    \* WORKER_ID of each process
          MaxAttempts, \* WORKER_MAX_ATTEMPTS
          MaxFaults,   \* bound on injected failures
          Null         \* SQL NULL, and "no job" in a slot

Slots == Procs \X (1..Concurrency)
ClaimID(s) == <<WorkerID[s[1]], s[2]>>
ClaimIDs == {ClaimID(s) : s \in Slots}

ASSUME JobsAssumption == Jobs \subseteq Nat
ASSUME AttemptsAssumption == MaxAttempts \in Nat \ {0}
ASSUME FaultsAssumption == MaxFaults \in Nat
ASSUME ConcurrencyAssumption == Concurrency \in Nat \ {0}
ASSUME NullAssumption == Null \notin Jobs /\ Null \notin Slots /\ Null \notin ClaimIDs

\* Every process was deployed with a WORKER_ID of its own.
UniqueWorkerIDs == \A p, q \in Procs : WorkerID[p] = WorkerID[q] => p = q

VARIABLES
  status,    \* scrape_jobs.status ("absent": no row yet)
  holder,    \* scrape_jobs.worker_id
  stale,     \* claimed_at is older than WORKER_STALE_AFTER
  error,     \* scrape_jobs.error: Null, "requeued" or "scrape"
  pc,        \* where the goroutine of each slot is in workerLoop
  work,      \* the job a slot holds in its local variable `job'
  attempt,   \* workerLoop's attempt counter
  lost,      \* claimLost was sent and jobCtx cancelled by the heartbeat
  live,      \* processes whose root context is not cancelled
  owner,     \* history: the slot whose claim is the latest one
  finisher,  \* history: the slot that wrote the final status
  faults     \* injected failures so far

rowVars == <<status, holder, stale, error>>
slotVars == <<pc, work, attempt, lost>>
history == <<owner, finisher>>
vars == <<rowVars, slotVars, live, history, faults>>

Terminal == {"complete", "failed"}
Working == {"scraping", "backoff", "verifying", "writing", "committed"}
PCs == Working \cup {"off", "idle", "failing"}

TypeOK ==
  /\ status \in [Jobs -> {"absent", "queued", "running"} \cup Terminal]
  /\ holder \in [Jobs -> ClaimIDs \cup {Null}]
  /\ stale \in [Jobs -> BOOLEAN]
  /\ error \in [Jobs -> {Null, "requeued", "scrape"}]
  /\ pc \in [Slots -> PCs]
  /\ work \in [Slots -> Jobs \cup {Null}]
  /\ attempt \in [Slots -> 0..MaxAttempts]
  /\ lost \in [Slots -> BOOLEAN]
  /\ live \in SUBSET Procs
  /\ owner \in [Jobs -> Slots \cup {Null}]
  /\ finisher \in [Jobs -> Slots \cup {Null}]
  /\ faults \in 0..MaxFaults

Init ==
  /\ status = [j \in Jobs |-> "absent"]
  /\ holder = [j \in Jobs |-> Null]
  /\ stale = [j \in Jobs |-> FALSE]
  /\ error = [j \in Jobs |-> Null]
  /\ pc = [s \in Slots |-> "idle"]
  /\ work = [s \in Slots |-> Null]
  /\ attempt = [s \in Slots |-> 0]
  /\ lost = [s \in Slots |-> FALSE]
  /\ live = Procs
  /\ owner = [j \in Jobs |-> Null]
  /\ finisher = [j \in Jobs |-> Null]
  /\ faults = 0

-----------------------------------------------------------------------------
(* Helpers *)

Alive(s) == s[1] \in live

\* Mutant: the status condition, but not the worker's.
OwnsRowAnyWorker(j, s) == status[j] = "running"

\* Mutant: the worker's condition, but not the status.
OwnsRowAnyStatus(j, s) == holder[j] = ClaimID(s)

\* WHERE id=$1 AND status='running' AND worker_id=$2
OwnsRow(j, s) == status[j] = "running" /\ holder[j] = ClaimID(s)

\* Mutant: SELECT without FOR UPDATE.
NoRowLock(j) == FALSE

\* The row lock that CompleteJob's SELECT ... FOR UPDATE holds until it ends.
Locked(j) == \E s \in Slots : pc[s] = "writing" /\ work[s] = j

\* The heartbeat goroutine of the slot's job is running.
Beating(s) == pc[s] \in Working /\ ~lost[s] /\ Alive(s)

\* jobCtx is cancelled, by the heartbeat or by the root context.
CtxDone(s) == lost[s] \/ ~Alive(s)

Fault == faults < MaxFaults /\ faults' = faults + 1

\* The slot forgets its job and returns to the top (or out) of workerLoop.
Leave(s, where) ==
  /\ pc' = [pc EXCEPT ![s] = where]
  /\ work' = [work EXCEPT ![s] = Null]
  /\ attempt' = [attempt EXCEPT ![s] = 0]
  /\ lost' = [lost EXCEPT ![s] = FALSE]

Goto(s, where) == /\ pc' = [pc EXCEPT ![s] = where]
                  /\ UNCHANGED <<work, attempt, lost>>

\* An error that is not ErrJobClaimLost: return when the process is shutting
\* down (the job stays running), go on to FailJob otherwise.
GiveUp(s) == IF Alive(s) THEN Goto(s, "failing") ELSE Leave(s, "off")

-----------------------------------------------------------------------------
(* The API server *)

CreateJob(j) ==
  /\ status[j] = "absent"
  /\ status' = [status EXCEPT ![j] = "queued"]
  /\ UNCHANGED <<holder, stale, error, slotVars, live, history, faults>>

-----------------------------------------------------------------------------
(* A slot of a worker: workerLoop *)

\* Mutant: claiming takes stale rows over without a requeue.
NextClaimable(j) == status[j] = "queued" \/ (status[j] = "running" /\ stale[j])

\* The oldest queued job; a job in CompleteJob's transaction is not queued.
NextQueued(j) == /\ status[j] = "queued"
                 /\ \A i \in Jobs : status[i] = "queued" => j <= i

WriteClaim(j, s) ==
  /\ NextQueued(j)
  /\ status' = [status EXCEPT ![j] = "running"]
  /\ holder' = [holder EXCEPT ![j] = ClaimID(s)]
  /\ stale' = [stale EXCEPT ![j] = FALSE]
  /\ error' = [error EXCEPT ![j] = Null]
  /\ owner' = [owner EXCEPT ![j] = s]
  /\ UNCHANGED finisher

ClaimJob(s) ==
  /\ pc[s] = "idle" /\ Alive(s)
  /\ \E j \in Jobs : /\ WriteClaim(j, s)
                     /\ work' = [work EXCEPT ![s] = j]
  /\ pc' = [pc EXCEPT ![s] = "scraping"]
  /\ attempt' = [attempt EXCEPT ![s] = 1]
  /\ UNCHANGED <<lost, live, faults>>

\* The claim commits, but its answer never arrives: the row is running and no
\* slot works on it.
ClaimAnswerLost(s) ==
  /\ pc[s] = "idle" /\ Alive(s)
  /\ \E j \in Jobs : WriteClaim(j, s)
  /\ Fault
  /\ UNCHANGED <<slotVars, live>>

\* ErrNoRows: sleep for the poll interval and try again.
PollEmpty(s) ==
  /\ pc[s] = "idle" /\ Alive(s)
  /\ \A j \in Jobs : status[j] # "queued"
  /\ UNCHANGED vars

LoopExit(s) ==
  /\ pc[s] = "idle" /\ ~Alive(s)
  /\ Leave(s, "off")
  /\ UNCHANGED <<rowVars, live, history, faults>>

\* client.Scrape returned, with or without listings, and the select after it
\* finds the heartbeat's message: the result is discarded.
ScrapeDiscarded(s) ==
  /\ pc[s] = "scraping" /\ lost[s]
  /\ Leave(s, "idle")
  /\ UNCHANGED <<rowVars, live, history, faults>>

ScrapeSucceeds(s) ==
  /\ pc[s] = "scraping" /\ ~lost[s]
  /\ Goto(s, "verifying")
  /\ UNCHANGED <<rowVars, live, history, faults>>

\* Mutants: one attempt too few, and one too many.
ScrapeFailsEarly(s) ==
  /\ pc[s] = "scraping" /\ ~lost[s]
  /\ IF Alive(s) /\ attempt[s] + 1 < MaxAttempts THEN Goto(s, "backoff") ELSE GiveUp(s)
  /\ UNCHANGED <<rowVars, live, history, faults>>

ScrapeFailsLate(s) ==
  /\ pc[s] = "scraping" /\ ~lost[s]
  /\ IF Alive(s) /\ attempt[s] <= MaxAttempts THEN Goto(s, "backoff") ELSE GiveUp(s)
  /\ UNCHANGED <<rowVars, live, history, faults>>

ScrapeFails(s) ==
  /\ pc[s] = "scraping" /\ ~lost[s]
  /\ IF Alive(s) /\ attempt[s] < MaxAttempts
       THEN Goto(s, "backoff")
       ELSE GiveUp(s)
  /\ UNCHANGED <<rowVars, live, history, faults>>

BackoffEnds(s) ==
  /\ pc[s] = "backoff"
  /\ pc' = [pc EXCEPT ![s] = "scraping"]
  /\ attempt' = [attempt EXCEPT ![s] = @ + 1]
  /\ UNCHANGED <<rowVars, work, lost, live, history, faults>>

\* CompleteJob's SELECT ... FOR UPDATE; a row locked by another is waited for.
LockClaim(s) ==
  /\ pc[s] = "verifying" /\ ~Locked(work[s])
  /\ IF OwnsRow(work[s], s) THEN Goto(s, "writing") ELSE Leave(s, "idle")
  /\ UNCHANGED <<rowVars, live, history, faults>>

\* CompleteJob's last UPDATE and its commit, on the locked row.
CommitResult(s) ==
  /\ pc[s] = "writing"
  /\ IF OwnsRow(work[s], s)
       THEN /\ status' = [status EXCEPT ![work[s]] = "complete"]
            /\ error' = [error EXCEPT ![work[s]] = Null]
            /\ finisher' = [finisher EXCEPT ![work[s]] = s]
            /\ Goto(s, "committed")
       ELSE /\ Leave(s, "idle")
            /\ UNCHANGED <<status, error, finisher>>
  /\ UNCHANGED <<holder, stale, owner, live, faults>>

\* A statement of CompleteJob fails and the transaction rolls back, because
\* jobCtx is done or because the database reports an error.
CompleteErrs(s) ==
  /\ pc[s] \in {"verifying", "writing"}
  /\ \/ CtxDone(s) /\ UNCHANGED faults
     \/ Fault
  /\ GiveUp(s)
  /\ UNCHANGED <<rowVars, live, history>>

CommitAnswered(s) ==
  /\ pc[s] = "committed"
  /\ Leave(s, "idle")
  /\ UNCHANGED <<rowVars, live, history, faults>>

\* The commit took effect but CompleteJob returns an error.
CommitAnswerLost(s) ==
  /\ pc[s] = "committed"
  /\ \/ CtxDone(s) /\ UNCHANGED faults
     \/ Fault
  /\ GiveUp(s)
  /\ UNCHANGED <<rowVars, live, history>>

\* Mutant: the failure is logged, but not stored.
FailJobLogsOnly(s) ==
  /\ pc[s] = "failing"
  /\ Leave(s, "idle")
  /\ UNCHANGED <<rowVars, live, history, faults>>

\* One UPDATE: it ends the job, or finds the claim gone and changes nothing.
FailJob(s) ==
  /\ pc[s] = "failing" /\ ~Locked(work[s])
  /\ IF OwnsRow(work[s], s)
       THEN /\ status' = [status EXCEPT ![work[s]] = "failed"]
            /\ error' = [error EXCEPT ![work[s]] = "scrape"]
            /\ finisher' = [finisher EXCEPT ![work[s]] = s]
       ELSE UNCHANGED <<status, error, finisher>>
  /\ Leave(s, "idle")
  /\ UNCHANGED <<holder, stale, owner, live, faults>>

\* FailJob's UPDATE never reaches the database; the error is only logged.
FailJobErrs(s) ==
  /\ pc[s] = "failing"
  /\ \/ ~Alive(s) /\ UNCHANGED faults
     \/ Fault
  /\ Leave(s, "idle")
  /\ UNCHANGED <<rowVars, live, history>>

-----------------------------------------------------------------------------
(* The heartbeat goroutine: maintainJobClaim *)

\* Mutant: a claim that is old already is not renewed any more.
RefreshFreshOnly(s) ==
  /\ Beating(s) /\ ~Locked(work[s])
  /\ IF OwnsRow(work[s], s) /\ ~stale[work[s]]
       THEN UNCHANGED <<stale, lost>>
       ELSE lost' = [lost EXCEPT ![s] = TRUE] /\ UNCHANGED stale
  /\ UNCHANGED <<status, holder, error, pc, work, attempt, live, history, faults>>

\* A tick renews the claim, or tells the slot that the claim is lost.
RefreshJobClaim(s) ==
  /\ Beating(s) /\ ~Locked(work[s])
  /\ IF OwnsRow(work[s], s)
       THEN stale' = [stale EXCEPT ![work[s]] = FALSE] /\ UNCHANGED lost
       ELSE lost' = [lost EXCEPT ![s] = TRUE] /\ UNCHANGED stale
  /\ UNCHANGED <<status, holder, error, pc, work, attempt, live, history, faults>>

-----------------------------------------------------------------------------
(* Time and maintenance *)

\* Some live slot is still busy with the latest claim of j.
Attended(j) == \E s \in Slots : /\ owner[j] = s /\ work[s] = j
                                /\ Alive(s)

\* claimed_at passes WORKER_STALE_AFTER.  While a live slot attends the job
\* this takes a fault: heartbeats that are missed for so long (ClaimLease).
GoStale(j) ==
  /\ status[j] = "running" /\ ~stale[j]
  /\ stale' = [stale EXCEPT ![j] = TRUE]
  /\ IF Attended(j) THEN Fault ELSE UNCHANGED faults
  /\ UNCHANGED <<status, holder, error, slotVars, live, history>>

\* What the maintenance UPDATE does to the rows its WHERE clause selects.
Requeue(due) ==
  /\ live # {} /\ due # {}
  /\ \A j \in due : ~Locked(j)
  /\ status' = [j \in Jobs |-> IF j \in due THEN "queued" ELSE status[j]]
  /\ holder' = [j \in Jobs |-> IF j \in due THEN Null ELSE holder[j]]
  /\ stale' = [j \in Jobs |-> IF j \in due THEN FALSE ELSE stale[j]]
  /\ error' = [j \in Jobs |-> IF j \in due THEN "requeued" ELSE error[j]]
  /\ owner' = [j \in Jobs |-> IF j \in due THEN Null ELSE owner[j]]
  /\ UNCHANGED <<slotVars, live, finisher, faults>>

\* One UPDATE over every stale row; it waits for the rows that are locked.
RequeueStaleJobs == Requeue({j \in Jobs : status[j] = "running" /\ stale[j]})

-----------------------------------------------------------------------------
(* Processes *)

\* SIGTERM or SIGINT cancels the root context; the slots wind down.
Shutdown(p) ==
  /\ p \in live /\ Fault
  /\ live' = live \ {p}
  /\ UNCHANGED <<rowVars, slotVars, history>>

\* The process dies; the database rolls back what it had open.
Crash(p) ==
  /\ p \in live /\ Fault
  /\ live' = live \ {p}
  /\ pc' = [s \in Slots |-> IF s[1] = p THEN "off" ELSE pc[s]]
  /\ work' = [s \in Slots |-> IF s[1] = p THEN Null ELSE work[s]]
  /\ attempt' = [s \in Slots |-> IF s[1] = p THEN 0 ELSE attempt[s]]
  /\ lost' = [s \in Slots |-> IF s[1] = p THEN FALSE ELSE lost[s]]
  /\ UNCHANGED <<rowVars, history>>

\* restart: unless-stopped, with the same WORKER_ID.
Restart(p) ==
  /\ p \notin live /\ \A s \in Slots : s[1] = p => pc[s] = "off"
  /\ live' = live \cup {p}
  /\ pc' = [s \in Slots |-> IF s[1] = p THEN "idle" ELSE pc[s]]
  /\ UNCHANGED <<rowVars, work, attempt, lost, history, faults>>

-----------------------------------------------------------------------------
WorkerStep(s) ==
  \/ ClaimJob(s) \/ ClaimAnswerLost(s) \/ PollEmpty(s) \/ LoopExit(s)
  \/ ScrapeDiscarded(s) \/ ScrapeSucceeds(s) \/ ScrapeFails(s) \/ BackoffEnds(s)
  \/ LockClaim(s) \/ CommitResult(s) \/ CompleteErrs(s)
  \/ CommitAnswered(s) \/ CommitAnswerLost(s)
  \/ FailJob(s) \/ FailJobErrs(s)

Next ==
  \/ \E j \in Jobs : CreateJob(j) \/ GoStale(j)
  \/ \E s \in Slots : WorkerStep(s) \/ RefreshJobClaim(s)
  \/ RequeueStaleJobs
  \/ \E p \in Procs : Shutdown(p) \/ Crash(p) \/ Restart(p)

Spec == Init /\ [][Next]_vars

\* A goroutine is scheduled, time passes, the maintenance ticker fires and the
\* container is restarted.  Calls return: that of the extraction worker's client
\* has a timeout; that SQL statements return is assumed of PostgreSQL and its
\* connections, since main.go gives ClaimJob, RefreshJobClaim, CompleteJob and
\* FailJob no deadline of their own.
Fairness ==
  /\ \A s \in Slots : WF_vars(WorkerStep(s))
  /\ \A j \in Jobs : WF_vars(GoStale(j))
  /\ WF_vars(RequeueStaleJobs)
  /\ \A p \in Procs : WF_vars(Restart(p))

LiveSpec == Spec /\ Fairness

-----------------------------------------------------------------------------
(* Properties *)

\* A job that ended was ended by the slot whose claim was the latest one: a
\* slot whose job was requeued meanwhile never commits its result or its
\* failure (the comment at store.go:241-243 and the guards of FailJob).
LatestClaimEnds ==
  \A j \in Jobs : status[j] \in Terminal => finisher[j] = owner[j]

\* While a slot is inside CompleteJob's transaction the row stays running and
\* claimed by it, whatever the heartbeat and the maintenance loop of any
\* process do; so the products it writes belong to the current claim, and
\* only one slot at a time is there.
TransactionKeepsClaim ==
  \A s \in Slots : pc[s] = "writing" =>
    /\ owner[work[s]] = s /\ OwnsRow(work[s], s)
    /\ \A t \in Slots \ {s} : pc[t] = "writing" => work[t] # work[s]

\* A slot is told that its claim is lost only when it is: a valid claim is
\* never abandoned because of a heartbeat's verdict.
LostIsTrue ==
  \A s \in Slots : lost[s] => ~(owner[work[s]] = s /\ status[work[s]] = "running")

\* Without an injected failure a slot gives a job up only after all its
\* attempts, or when the job is complete already: a heartbeat between the
\* commit and its answer finds no running row, cancels jobCtx and turns the
\* answer into an error, and FailJob must then find nothing to fail.
NoEarlyGiveUp ==
  \A s \in Slots : pc[s] = "failing" /\ faults = 0 =>
    attempt[s] = MaxAttempts \/ status[work[s]] = "complete"

\* A job that ended never changes again: not its status, its error text or
\* the worker that is reported for it.
TerminalIsFinal ==
  [][\A j \in Jobs : status[j] \in Terminal =>
       UNCHANGED <<status[j], error[j], holder[j], finisher[j]>>]_vars

\* The queue implements the life cycle of JobLifecycle.
Lifecycle == INSTANCE JobLifecycle
ImplementsLifecycle == Lifecycle!Spec

\* Every submitted job ends, whatever finitely many failures happen.
EveryJobEnds == \A j \in Jobs : status[j] = "queued" ~> status[j] \in Terminal
=============================================================================
