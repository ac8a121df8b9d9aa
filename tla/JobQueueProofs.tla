--------------------------- MODULE JobQueueProofs ---------------------------
(* Proofs about JobQueue, for every set of jobs, processes, every number of *)
(* slots, attempts and failures.                                            *)
EXTENDS JobQueue, TLAPS

-----------------------------------------------------------------------------
(* Typing: the rows and the slots are typed apart, because no operation but *)
(* a few writes to both.                                                    *)

Busy == Working \cup {"failing"}

RowTypes ==
  /\ status \in [Jobs -> {"absent", "queued", "running"} \cup Terminal]
  /\ holder \in [Jobs -> ClaimIDs \cup {Null}]
  /\ stale \in [Jobs -> BOOLEAN]
  /\ error \in [Jobs -> {Null, "requeued", "scrape"}]
  /\ owner \in [Jobs -> Slots \cup {Null}]
  /\ finisher \in [Jobs -> Slots \cup {Null}]

SlotTypes ==
  /\ pc \in [Slots -> PCs]
  /\ work \in [Slots -> Jobs \cup {Null}]
  /\ attempt \in [Slots -> 0..MaxAttempts]
  /\ lost \in [Slots -> BOOLEAN]

\* A busy slot has a job; only a busy slot has a heartbeat's verdict (claimLost
\* is made anew for every job); a slot backs off only before a last attempt.
SlotShape ==
  \A s \in Slots : /\ pc[s] \in Busy => work[s] \in Jobs
                   /\ lost[s] => pc[s] \in Busy
                   /\ pc[s] = "backoff" => attempt[s] < MaxAttempts

OtherTypes == live \in SUBSET Procs /\ faults \in 0..MaxFaults

Typing == RowTypes /\ SlotTypes /\ SlotShape /\ OtherTypes

\* What a slot does with its local variables when it leaves its job.
LEMMA LeaveTyping ==
  ASSUME SlotTypes, SlotShape, NEW s \in Slots, NEW where \in {"idle", "off"},
         Leave(s, where)
  PROVE  SlotTypes' /\ SlotShape'
<1> USE AttemptsAssumption DEF SlotTypes, SlotShape, Leave, Busy, Working, PCs
<1>1. pc' \in [Slots -> PCs] /\ work' \in [Slots -> Jobs \cup {Null}]
  OBVIOUS
<1>2. attempt' \in [Slots -> 0..MaxAttempts]
  OBVIOUS
<1>3. lost' \in [Slots -> BOOLEAN]
  BY Zenon
<1>4. SlotShape'
  <2> SUFFICES ASSUME NEW t \in Slots
               PROVE  /\ pc'[t] \in Busy => work'[t] \in Jobs
                      /\ lost'[t] => pc'[t] \in Busy
                      /\ pc'[t] = "backoff" => attempt'[t] < MaxAttempts
    BY DEF SlotShape
  <2>1. CASE t = s
    BY <2>1
  <2>2. CASE t # s
    BY <2>2
  <2> QED
    BY <2>1, <2>2
<1> QED
  BY <1>1, <1>2, <1>3, <1>4

\* What it does when it only moves on within its job.
LEMMA GotoTyping ==
  ASSUME SlotTypes, SlotShape, NEW s \in Slots, pc[s] \in Busy, NEW where \in Busy,
         where = "backoff" => attempt[s] < MaxAttempts,
         Goto(s, where)
  PROVE  SlotTypes' /\ SlotShape'
<1> USE DEF SlotTypes, SlotShape, Goto, Busy, Working, PCs
<1>1. SlotTypes'
  BY Zenon
<1>2. SlotShape'
  OBVIOUS
<1> QED
  BY <1>1, <1>2

LEMMA GiveUpTyping ==
  ASSUME SlotTypes, SlotShape, NEW s \in Slots, pc[s] \in Busy, GiveUp(s)
  PROVE  SlotTypes' /\ SlotShape'
BY LeaveTyping, GotoTyping DEF GiveUp, Busy, Working

\* A claim is written with a claim identifier and an owner of the right kind.
LEMMA WriteClaimTyping ==
  ASSUME RowTypes, NEW s \in Slots, NEW j \in Jobs, WriteClaim(j, s)
  PROVE  RowTypes'
<1>1. ClaimID(s) \in ClaimIDs
  BY DEF ClaimIDs
<1> QED
  BY <1>1 DEF RowTypes, WriteClaim, Terminal

\* Ending a job writes only its status, its error text and its finisher.
LEMMA EndTyping ==
  ASSUME RowTypes, NEW s \in Slots, NEW j, NEW outcome \in Terminal,
         NEW text \in {Null, "requeued", "scrape"},
         status' = [status EXCEPT ![j] = outcome],
         error' = [error EXCEPT ![j] = text],
         finisher' = [finisher EXCEPT ![j] = s],
         UNCHANGED <<holder, stale, owner>>
  PROVE  RowTypes'
BY DEF RowTypes

\* Every operation of a slot keeps the variables in their types and leaves a
\* slot with a job exactly when it is busy.
LEMMA WorkerStepTyping ==
  ASSUME Typing, NEW s \in Slots, WorkerStep(s)
  PROVE  Typing'
<1> USE DEF Typing, OtherTypes
<1>1. CASE ClaimJob(s)
  <2>1. PICK j \in Jobs : WriteClaim(j, s) /\ work' = [work EXCEPT ![s] = j]
    BY <1>1 DEF ClaimJob
  <2>2. RowTypes'
    BY <2>1, WriteClaimTyping
  <2>3. SlotTypes'
    BY <1>1, <2>1, AttemptsAssumption
    DEF ClaimJob, SlotTypes, PCs, Working
  <2>4. SlotShape'
    BY <1>1, <2>1 DEF ClaimJob, SlotTypes, SlotShape, Busy, Working
  <2> QED
    BY <1>1, <2>2, <2>3, <2>4 DEF ClaimJob
<1>2. CASE ClaimAnswerLost(s)
  <2>1. RowTypes'
    BY <1>2, WriteClaimTyping DEF ClaimAnswerLost
  <2> QED
    BY <1>2, <2>1, FaultsAssumption
    DEF ClaimAnswerLost, Fault, slotVars, SlotTypes, SlotShape
<1>3. CASE PollEmpty(s)
  BY <1>3 DEF PollEmpty, vars, rowVars, slotVars, history, RowTypes, SlotTypes, SlotShape
<1>4. CASE LoopExit(s) \/ ScrapeDiscarded(s) \/ CommitAnswered(s)
  <2>1. SlotTypes' /\ SlotShape'
    BY <1>4, LeaveTyping DEF LoopExit, ScrapeDiscarded, CommitAnswered
  <2> QED
    BY <1>4, <2>1
    DEF LoopExit, ScrapeDiscarded, CommitAnswered, RowTypes, rowVars, history
<1>5. CASE ScrapeSucceeds(s) \/ ScrapeFails(s)
  <2>1. SlotTypes' /\ SlotShape'
    BY <1>5, GotoTyping, GiveUpTyping
    DEF ScrapeSucceeds, ScrapeFails, Busy, Working
  <2> QED
    BY <1>5, <2>1 DEF ScrapeSucceeds, ScrapeFails, RowTypes, rowVars, history
<1>6. CASE BackoffEnds(s)
  <2>1. SlotTypes'
    BY <1>6, AttemptsAssumption
    DEF BackoffEnds, SlotTypes, SlotShape, PCs, Working
  <2>2. SlotShape'
    BY <1>6 DEF BackoffEnds, SlotTypes, SlotShape, Busy, Working
  <2> QED
    BY <1>6, <2>1, <2>2 DEF BackoffEnds, RowTypes, rowVars, history
<1>7. CASE LockClaim(s)
  <2>1. SlotTypes' /\ SlotShape'
    BY <1>7, LeaveTyping, GotoTyping DEF LockClaim, Busy, Working
  <2> QED
    BY <1>7, <2>1 DEF LockClaim, RowTypes, rowVars, history
<1>8. CASE CommitResult(s)
  <2>1. SlotTypes' /\ SlotShape'
    BY <1>8, LeaveTyping, GotoTyping DEF CommitResult, Busy, Working
  <2>2. RowTypes'
    BY <1>8, EndTyping DEF CommitResult, Terminal, RowTypes
  <2> QED
    BY <1>8, <2>1, <2>2 DEF CommitResult
<1>9. CASE CompleteErrs(s) \/ CommitAnswerLost(s)
  <2>1. SlotTypes' /\ SlotShape'
    BY <1>9, GiveUpTyping DEF CompleteErrs, CommitAnswerLost, Busy, Working
  <2>2. faults' \in 0..MaxFaults
    BY <1>9, FaultsAssumption DEF CompleteErrs, CommitAnswerLost, Fault
  <2> QED
    BY <1>9, <2>1, <2>2
    DEF CompleteErrs, CommitAnswerLost, RowTypes, rowVars, history
<1>10. CASE FailJob(s)
  <2>1. SlotTypes' /\ SlotShape'
    BY <1>10, LeaveTyping DEF FailJob
  <2>2. RowTypes'
    BY <1>10, EndTyping DEF FailJob, Terminal, RowTypes
  <2> QED
    BY <1>10, <2>1, <2>2 DEF FailJob
<1>11. CASE FailJobErrs(s)
  <2>1. SlotTypes' /\ SlotShape'
    BY <1>11, LeaveTyping DEF FailJobErrs
  <2> QED
    BY <1>11, <2>1, FaultsAssumption
    DEF FailJobErrs, Fault, RowTypes, rowVars, history
<1> QED
  BY <1>1, <1>2, <1>3, <1>4, <1>5, <1>6, <1>7, <1>8, <1>9, <1>10, <1>11
  DEF WorkerStep

\* So does every other step of the system.
LEMMA StepTyping == Typing /\ [Next]_vars => Typing'
<1> SUFFICES ASSUME Typing, [Next]_vars PROVE Typing'
  OBVIOUS
<1> USE FaultsAssumption DEF Typing, OtherTypes
<1>1. CASE \E j \in Jobs : CreateJob(j)
  BY <1>1 DEF CreateJob, slotVars, history, RowTypes, SlotTypes, SlotShape
<1>2. CASE \E j \in Jobs : GoStale(j)
  <2>1. RowTypes'
    BY <1>2, Zenon DEF GoStale, history, RowTypes
  <2>2. faults' \in 0..MaxFaults
    BY <1>2 DEF GoStale, Fault
  <2> QED
    BY <1>2, <2>1, <2>2 DEF GoStale, slotVars, SlotTypes, SlotShape
<1>3. CASE \E s \in Slots : WorkerStep(s)
  BY <1>3, WorkerStepTyping
<1>4. CASE \E s \in Slots : RefreshJobClaim(s)
  <2>1. RowTypes' /\ SlotTypes'
    BY <1>4, Zenon DEF RefreshJobClaim, history, RowTypes, SlotTypes
  <2>2. SlotShape'
    BY <1>4 DEF RefreshJobClaim, Beating, SlotTypes, SlotShape, Busy
  <2> QED
    BY <1>4, <2>1, <2>2 DEF RefreshJobClaim
<1>5. CASE RequeueStaleJobs
  <2>1. status' \in [Jobs -> {"absent", "queued", "running"} \cup Terminal]
    BY <1>5 DEF RequeueStaleJobs, Requeue, RowTypes
  <2>2. holder' \in [Jobs -> ClaimIDs \cup {Null}]
    BY <1>5 DEF RequeueStaleJobs, Requeue, RowTypes
  <2>3. stale' \in [Jobs -> BOOLEAN]
    BY <1>5, Zenon DEF RequeueStaleJobs, Requeue, RowTypes
  <2>4. /\ error' \in [Jobs -> {Null, "requeued", "scrape"}]
        /\ owner' \in [Jobs -> Slots \cup {Null}]
        /\ finisher' \in [Jobs -> Slots \cup {Null}]
    BY <1>5 DEF RequeueStaleJobs, Requeue, RowTypes
  <2>5. RowTypes'
    BY <2>1, <2>2, <2>3, <2>4 DEF RowTypes
  <2> QED
    BY <1>5, <2>5 DEF RequeueStaleJobs, Requeue, slotVars, SlotTypes, SlotShape
<1>6. CASE \E p \in Procs : Shutdown(p)
  BY <1>6 DEF Shutdown, Fault, rowVars, slotVars, history, RowTypes, SlotTypes, SlotShape
<1>7. CASE \E p \in Procs : Crash(p)
  <2>1. PICK p \in Procs : Crash(p)
    BY <1>7
  <2>2. /\ pc' \in [Slots -> PCs] /\ work' \in [Slots -> Jobs \cup {Null}]
        /\ attempt' \in [Slots -> 0..MaxAttempts]
    BY <2>1, AttemptsAssumption DEF Crash, SlotTypes, PCs
  <2>3. lost' \in [Slots -> BOOLEAN]
    BY <2>1, Zenon DEF Crash, SlotTypes
  <2>4. SlotShape'
    BY <2>1 DEF Crash, SlotTypes, SlotShape, Busy, Working
  <2>5. SlotTypes'
    BY <2>2, <2>3 DEF SlotTypes
  <2> QED
    BY <2>1, <2>4, <2>5 DEF Crash, Fault, rowVars, history, RowTypes
<1>8. CASE \E p \in Procs : Restart(p)
  <2>1. SlotTypes'
    BY <1>8 DEF Restart, SlotTypes, PCs
  <2>2. SlotShape'
    BY <1>8 DEF Restart, SlotTypes, SlotShape, Busy, Working
  <2> QED
    BY <1>8, <2>1, <2>2 DEF Restart, rowVars, history, RowTypes
<1>9. CASE UNCHANGED vars
  BY <1>9 DEF vars, rowVars, slotVars, history, RowTypes, SlotTypes, SlotShape
<1> QED
  BY <1>1, <1>2, <1>3, <1>4, <1>5, <1>6, <1>7, <1>8, <1>9 DEF Next

\* Typing holds throughout.
LEMMA TypingHolds == Spec => []Typing
<1>1. Init => Typing
  BY AttemptsAssumption, FaultsAssumption
  DEF Init, Typing, RowTypes, SlotTypes, SlotShape, OtherTypes, Busy, Working, PCs
<1> QED
  BY <1>1, StepTyping, PTL DEF Spec

\* Type correctness: every variable of the queue keeps its type.
THEOREM TypeCorrect == Spec => []TypeOK
<1>1. Typing => TypeOK
  BY DEF Typing, TypeOK, RowTypes, SlotTypes, OtherTypes
<1> QED
  BY <1>1, TypingHolds, PTL

-----------------------------------------------------------------------------
(* What a step may do to the rows *)

RowsKept == UNCHANGED <<status, holder, error, owner, finisher>>

\* A slot that owns the row ends its job and leaves the transaction.
EndRow(s) ==
  /\ pc[s] \in {"writing", "failing"} /\ OwnsRow(work[s], s)
  /\ \E outcome \in Terminal : status' = [status EXCEPT ![work[s]] = outcome]
  /\ \E text : error' = [error EXCEPT ![work[s]] = text]
  /\ finisher' = [finisher EXCEPT ![work[s]] = s]
  /\ UNCHANGED <<holder, owner>>
  /\ pc'[s] # "writing"

\* A step leaves the rows alone, or submits, claims, ends or requeues jobs.
LEMMA RowSteps ==
  ASSUME Typing, [Next]_vars
  PROVE  \/ RowsKept
         \/ \E j \in Jobs : CreateJob(j)
         \/ \E s \in Slots, j \in Jobs : pc[s] = "idle" /\ WriteClaim(j, s)
         \/ \E s \in Slots : EndRow(s)
         \/ RequeueStaleJobs
<1>1. ASSUME NEW s \in Slots, WorkerStep(s)
      PROVE  \/ RowsKept \/ EndRow(s)
             \/ \E j \in Jobs : pc[s] = "idle" /\ WriteClaim(j, s)
  <2>1. CASE ClaimJob(s) \/ ClaimAnswerLost(s)
    BY <2>1 DEF ClaimJob, ClaimAnswerLost
  <2>2. CASE CommitResult(s)
    BY <2>2 DEF CommitResult, RowsKept, EndRow, Goto, Terminal, Typing, SlotTypes
  <2>3. CASE FailJob(s)
    BY <2>3 DEF FailJob, RowsKept, EndRow, Leave, Terminal, Typing, SlotTypes
  <2>4. CASE PollEmpty(s)
    BY <2>4 DEF PollEmpty, RowsKept, vars, rowVars, history
  <2>5. CASE \/ LoopExit(s) \/ ScrapeDiscarded(s) \/ ScrapeSucceeds(s)
             \/ ScrapeFails(s) \/ BackoffEnds(s) \/ LockClaim(s)
             \/ CompleteErrs(s) \/ CommitAnswered(s) \/ CommitAnswerLost(s)
             \/ FailJobErrs(s)
    BY <2>5 DEF LoopExit, ScrapeDiscarded, ScrapeSucceeds, ScrapeFails,
                BackoffEnds, LockClaim, CompleteErrs, CommitAnswered,
                CommitAnswerLost, FailJobErrs, RowsKept, rowVars, history
  <2> QED
    BY <1>1, <2>1, <2>2, <2>3, <2>4, <2>5 DEF WorkerStep
<1>2. CASE \E s \in Slots : RefreshJobClaim(s)
  BY <1>2 DEF RefreshJobClaim, RowsKept, history
<1>3. CASE \E j \in Jobs : GoStale(j)
  BY <1>3 DEF GoStale, RowsKept, history
<1>4. CASE \E p \in Procs : Shutdown(p) \/ Crash(p) \/ Restart(p)
  BY <1>4 DEF Shutdown, Crash, Restart, RowsKept, rowVars, history
<1>5. CASE UNCHANGED vars
  BY <1>5 DEF vars, RowsKept, rowVars, history
<1> QED
  BY <1>1, <1>2, <1>3, <1>4, <1>5 DEF Next

-----------------------------------------------------------------------------
(* The latest claim *)

\* A running row carries the claim identifier of the slot that claimed it last.
ClaimHasOwner ==
  \A j \in Jobs : status[j] = "running" =>
    owner[j] \in Slots /\ holder[j] = ClaimID(owner[j])

\* With a WORKER_ID for every process, no two slots share a claim identifier.
LEMMA ClaimIDUnique ==
  ASSUME UniqueWorkerIDs, NEW s \in Slots, NEW t \in Slots, ClaimID(s) = ClaimID(t)
  PROVE  s = t
BY DEF UniqueWorkerIDs, Slots, ClaimID

\* So the WHERE clause of CompleteJob and FailJob finds the latest claim only.
LEMMA OwnsRowIsOwner ==
  ASSUME UniqueWorkerIDs, ClaimHasOwner,
         NEW s \in Slots, NEW j \in Jobs, OwnsRow(j, s)
  PROVE  owner[j] = s
BY ClaimIDUnique DEF ClaimHasOwner, OwnsRow

Claims == Typing /\ ClaimHasOwner /\ LatestClaimEnds

\* No step breaks the tie between a row, its latest claim and its finisher.
LEMMA ClaimsStep ==
  ASSUME UniqueWorkerIDs, Claims, [Next]_vars
  PROVE  Claims'
<1> USE DEF Claims, ClaimHasOwner, LatestClaimEnds, Terminal
<1>1. Typing'
  BY StepTyping
<1>2. CASE RowsKept
  BY <1>1, <1>2 DEF RowsKept
<1>3. CASE \E j \in Jobs : CreateJob(j)
  BY <1>1, <1>3 DEF CreateJob, history, Typing, RowTypes
<1>4. CASE \E s \in Slots, j \in Jobs : pc[s] = "idle" /\ WriteClaim(j, s)
  <2>1. PICK s \in Slots, j \in Jobs : WriteClaim(j, s)
    BY <1>4
  <2> QED
    BY <1>1, <2>1 DEF WriteClaim, NextQueued, Typing, RowTypes
<1>5. CASE \E s \in Slots : EndRow(s)
  <2>1. PICK s \in Slots : EndRow(s)
    BY <1>5
  <2>2. work[s] \in Jobs
    BY <2>1 DEF EndRow, Typing, SlotShape, Busy, Working
  <2>3. owner[work[s]] = s
    BY <2>1, <2>2, OwnsRowIsOwner DEF EndRow
  <2> QED
    BY <1>1, <2>1, <2>2, <2>3 DEF EndRow, Typing, RowTypes
<1>6. CASE RequeueStaleJobs
  BY <1>1, <1>6 DEF RequeueStaleJobs, Requeue, Typing, RowTypes
<1> QED
  BY <1>2, <1>3, <1>4, <1>5, <1>6, RowSteps

\* The invariant from the initial state on.
LEMMA ClaimsHold == UniqueWorkerIDs => (Spec => []Claims)
<1> SUFFICES ASSUME UniqueWorkerIDs PROVE Spec => []Claims
  OBVIOUS
<1>1. Init => ClaimHasOwner /\ LatestClaimEnds
  BY DEF Init, ClaimHasOwner, LatestClaimEnds, Terminal
<1>2. Init /\ Typing => Claims
  BY <1>1 DEF Claims
<1>3. Claims /\ [Next]_vars => Claims'
  BY ClaimsStep
<1> QED
  BY <1>2, <1>3, TypingHolds, PTL DEF Spec

\* Fencing: whatever crashes, delays and lost answers do, a job is ended only
\* by the slot that holds its latest claim, if no two processes share a
\* WORKER_ID.
THEOREM StaleWorkersFenced == UniqueWorkerIDs => (Spec => []LatestClaimEnds)
<1>1. Claims => LatestClaimEnds
  BY DEF Claims
<1> QED
  BY <1>1, ClaimsHold, PTL

\* What ended stays ended: no late answer, requeue or FailJob of any slot
\* touches a job that is complete or failed.  This needs no unique WORKER_ID.
THEOREM FinishedJobsFinal == Spec => TerminalIsFinal
<1> DEFINE Final == \A j \in Jobs : status[j] \in Terminal =>
                      UNCHANGED <<status[j], error[j], holder[j], finisher[j]>>
<1>1. ASSUME Typing, [Next]_vars PROVE Final
  <2> SUFFICES ASSUME NEW j \in Jobs, status[j] \in Terminal
               PROVE  UNCHANGED <<status[j], error[j], holder[j], finisher[j]>>
    OBVIOUS
  <2> USE <1>1 DEF Typing, RowTypes, Terminal
  <2>1. CASE RowsKept
    BY <2>1 DEF RowsKept
  <2>2. CASE \E i \in Jobs : CreateJob(i)
    BY <2>2 DEF CreateJob, history
  <2>3. CASE \E s \in Slots, i \in Jobs : pc[s] = "idle" /\ WriteClaim(i, s)
    BY <2>3 DEF WriteClaim, NextQueued
  <2>4. CASE \E s \in Slots : EndRow(s)
    BY <2>4 DEF EndRow, OwnsRow
  <2>5. CASE RequeueStaleJobs
    BY <2>5 DEF RequeueStaleJobs, Requeue
  <2> QED
    BY <1>1, <2>1, <2>2, <2>3, <2>4, <2>5, RowSteps
<1>2. Typing /\ [Next]_vars => [Final]_vars
  BY <1>1
<1> QED
  BY <1>2, TypingHolds, PTL DEF Spec, TerminalIsFinal

-----------------------------------------------------------------------------
(* The queue implements the life cycle of a job *)

LEMMA LifecycleInit == Init => Lifecycle!Init
BY DEF Init, Lifecycle!Init

\* Every step is a step of JobLifecycle or leaves its variables alone.
LEMMA LifecycleStep ==
  ASSUME UniqueWorkerIDs, Claims, [Next]_vars
  PROVE  [Lifecycle!Next]_(Lifecycle!jobVars)
<1> USE DEF Claims, Typing, RowTypes, Lifecycle!Next, Lifecycle!jobVars
<1>1. CASE RowsKept
  BY <1>1 DEF RowsKept
<1>2. CASE \E j \in Jobs : CreateJob(j)
  BY <1>2 DEF CreateJob, history, Lifecycle!Submit
<1>3. CASE \E s \in Slots, j \in Jobs : pc[s] = "idle" /\ WriteClaim(j, s)
  BY <1>3 DEF WriteClaim, NextQueued, Lifecycle!Start
<1>4. CASE \E s \in Slots : EndRow(s)
  <2>1. PICK s \in Slots : EndRow(s)
    BY <1>4
  <2>2. work[s] \in Jobs
    BY <2>1 DEF EndRow, SlotShape, Busy, Working
  <2>3. owner[work[s]] = s
    BY <2>1, <2>2, OwnsRowIsOwner DEF EndRow
  <2>4. PICK outcome \in Terminal : status' = [status EXCEPT ![work[s]] = outcome]
    BY <2>1 DEF EndRow
  <2>5. Lifecycle!End(work[s], outcome)
    BY <2>1, <2>2, <2>3, <2>4 DEF EndRow, OwnsRow, Lifecycle!End
  <2> QED
    BY <2>2, <2>5 DEF Terminal, Lifecycle!Terminal
<1>5. CASE RequeueStaleJobs
  <2> DEFINE due == {j \in Jobs : status[j] = "running" /\ stale[j]}
  <2>1. Lifecycle!GiveBack(due)
    BY <1>5 DEF RequeueStaleJobs, Requeue, Lifecycle!GiveBack
  <2> QED
    BY <2>1
<1> QED
  BY <1>1, <1>2, <1>3, <1>4, <1>5, RowSteps

\* Refinement: with unique WORKER_IDs the queue of workers, heartbeats and
\* crashes behaves like the plain life cycle of JobLifecycle.
THEOREM QueueImplementsLifecycle == UniqueWorkerIDs => (Spec => ImplementsLifecycle)
<1> SUFFICES ASSUME UniqueWorkerIDs PROVE Spec => ImplementsLifecycle
  OBVIOUS
<1>1. Claims /\ [Next]_vars => [Lifecycle!Next]_(Lifecycle!jobVars)
  BY LifecycleStep
<1> QED
  BY <1>1, LifecycleInit, ClaimsHold, PTL
  DEF Spec, ImplementsLifecycle, Lifecycle!Spec

-----------------------------------------------------------------------------
(* Slots against rows: the transaction and the heartbeat's verdict *)

\* A slot is inside the transaction after a step only if it was before, or
\* has just found its claim valid; it keeps its job meanwhile.
LEMMA WritingSteps ==
  ASSUME Typing, [Next]_vars, NEW s \in Slots, pc'[s] = "writing"
  PROVE  /\ work'[s] = work[s] /\ work[s] \in Jobs
         /\ \/ pc[s] = "writing"
            \/ RowsKept /\ OwnsRow(work[s], s) /\ ~Locked(work[s])
<1> USE DEF Typing, SlotTypes, SlotShape, Busy, Working
<1>1. ASSUME NEW t \in Slots, WorkerStep(t), t # s
      PROVE  pc[s] = "writing" /\ work'[s] = work[s] /\ work[s] \in Jobs
  BY <1>1 DEF WorkerStep, ClaimJob, ClaimAnswerLost, PollEmpty, LoopExit,
      ScrapeDiscarded, ScrapeSucceeds, ScrapeFails, BackoffEnds, LockClaim,
      CommitResult, CompleteErrs, CommitAnswered, CommitAnswerLost, FailJob,
      FailJobErrs, GiveUp, Goto, Leave, vars, slotVars
<1>2. CASE WorkerStep(s)
  <2>1. LockClaim(s)
    BY <1>2 DEF WorkerStep, ClaimJob, ClaimAnswerLost, PollEmpty, LoopExit,
      ScrapeDiscarded, ScrapeSucceeds, ScrapeFails, BackoffEnds,
      CommitResult, CompleteErrs, CommitAnswered, CommitAnswerLost, FailJob,
      FailJobErrs, GiveUp, Goto, Leave, vars, slotVars
  <2> QED
    BY <2>1 DEF LockClaim, Goto, Leave, RowsKept, rowVars, history
<1>3. CASE \/ \E j \in Jobs : CreateJob(j) \/ GoStale(j)
           \/ \E t \in Slots : RefreshJobClaim(t)
           \/ RequeueStaleJobs
           \/ \E p \in Procs : Shutdown(p) \/ Crash(p) \/ Restart(p)
           \/ UNCHANGED vars
  BY <1>3 DEF CreateJob, GoStale, RefreshJobClaim, RequeueStaleJobs, Requeue, Shutdown,
              Crash, Restart, vars, slotVars
<1> QED
  BY <1>1, <1>2, <1>3 DEF Next

Transactions == Claims /\ TransactionKeepsClaim

\* The row lock keeps requeues and other slots away from a transaction's row.
LEMMA TransactionsStep ==
  ASSUME UniqueWorkerIDs, Transactions, [Next]_vars
  PROVE  Transactions'
<1> USE DEF Transactions, Claims
<1>1. Claims'
  BY ClaimsStep
<1>2. ASSUME NEW s \in Slots, pc'[s] = "writing"
      PROVE  owner'[work'[s]] = s /\ OwnsRow(work[s], s)'
  <2> USE <1>2 DEF Typing, RowTypes
  <2>1. /\ work'[s] = work[s] /\ work[s] \in Jobs
        /\ OwnsRow(work[s], s) /\ owner[work[s]] = s
    BY WritingSteps, OwnsRowIsOwner DEF TransactionKeepsClaim
  <2>2. CASE RowsKept
    BY <2>1, <2>2 DEF RowsKept, OwnsRow, ClaimID
  <2>3. CASE ~RowsKept
    <3>1. pc[s] = "writing"
      BY <2>3, WritingSteps
    <3>2. CASE \E j \in Jobs : CreateJob(j)
      BY <2>1, <3>2 DEF CreateJob, history, OwnsRow, ClaimID
    <3>3. CASE \E t \in Slots, j \in Jobs : pc[t] = "idle" /\ WriteClaim(j, t)
      BY <2>1, <3>3 DEF WriteClaim, NextQueued, OwnsRow, ClaimID
    <3>4. CASE \E t \in Slots : EndRow(t)
      <4>1. PICK t \in Slots : EndRow(t)
        BY <3>4
      <4>2. t # s
        BY <4>1 DEF EndRow
      <4>3. work[t] # work[s]
        BY <2>1, <4>1, <4>2, OwnsRowIsOwner DEF EndRow
      <4> QED
        BY <2>1, <4>1, <4>3 DEF EndRow, OwnsRow, ClaimID
    <3>5. CASE RequeueStaleJobs
      BY <2>1, <3>1, <3>5 DEF RequeueStaleJobs, Requeue, Locked, OwnsRow, ClaimID
    <3> QED
      BY <2>3, <3>2, <3>3, <3>4, <3>5, RowSteps
  <2> QED
    BY <2>2, <2>3
<1>3. TransactionKeepsClaim'
  BY <1>2 DEF TransactionKeepsClaim
<1> QED
  BY <1>1, <1>3

\* CompleteJob writes products and observations only under a valid claim, and
\* one slot at a time per job.
THEOREM TransactionsGuarded == UniqueWorkerIDs => (Spec => []TransactionKeepsClaim)
<1> SUFFICES ASSUME UniqueWorkerIDs PROVE Spec => []TransactionKeepsClaim
  OBVIOUS
<1>1. Init => TransactionKeepsClaim
  BY DEF Init, TransactionKeepsClaim
<1>2. Claims /\ TransactionKeepsClaim /\ [Next]_vars => TransactionKeepsClaim'
  BY TransactionsStep DEF Transactions
<1> QED
  BY <1>1, <1>2, ClaimsHold, PTL DEF Spec

\* A verdict is kept with its job, or has just been found true.
LEMMA VerdictSteps ==
  ASSUME Typing, [Next]_vars, NEW s \in Slots, lost'[s]
  PROVE  /\ work'[s] = work[s] /\ work[s] \in Jobs /\ pc[s] \in Busy
         /\ lost[s] \/ (RowsKept /\ ~OwnsRow(work[s], s))
<1> USE DEF Typing, SlotTypes, SlotShape, Busy, Working
<1>1. CASE \E t \in Slots : WorkerStep(t)
  BY <1>1 DEF WorkerStep, ClaimJob, ClaimAnswerLost, PollEmpty, LoopExit,
      ScrapeDiscarded, ScrapeSucceeds, ScrapeFails, BackoffEnds, LockClaim,
      CommitResult, CompleteErrs, CommitAnswered, CommitAnswerLost, FailJob,
      FailJobErrs, GiveUp, Goto, Leave, vars, slotVars
<1>2. CASE \E t \in Slots : RefreshJobClaim(t)
  BY <1>2 DEF RefreshJobClaim, Beating, RowsKept, history
<1>3. CASE \/ \E j \in Jobs : CreateJob(j) \/ GoStale(j)
           \/ RequeueStaleJobs
           \/ \E p \in Procs : Shutdown(p) \/ Crash(p) \/ Restart(p)
           \/ UNCHANGED vars
  BY <1>3 DEF CreateJob, GoStale, RequeueStaleJobs, Requeue, Shutdown,
              Crash, Restart, vars, slotVars
<1> QED
  BY <1>1, <1>2, <1>3 DEF Next

\* The heartbeat never condemns a valid claim, and a verdict once given stays
\* true until the slot has acted on it.
LEMMA VerdictStaysTrue ==
  ASSUME UniqueWorkerIDs, Claims, LostIsTrue, [Next]_vars
  PROVE  LostIsTrue'
<1> SUFFICES ASSUME NEW s \in Slots, lost'[s]
             PROVE  ~(owner'[work'[s]] = s /\ status'[work'[s]] = "running")
  BY DEF LostIsTrue
<1> USE DEF Claims, Typing, RowTypes
<1>1. work'[s] = work[s] /\ work[s] \in Jobs /\ pc[s] \in Busy
  BY VerdictSteps
<1>2. ~(owner[work[s]] = s /\ status[work[s]] = "running")
  BY <1>1, VerdictSteps DEF LostIsTrue, ClaimHasOwner, OwnsRow
<1>3. CASE RowsKept
  BY <1>1, <1>2, <1>3 DEF RowsKept
<1>4. CASE \E j \in Jobs : CreateJob(j)
  BY <1>1, <1>2, <1>4 DEF CreateJob, history
<1>5. CASE \E t \in Slots, j \in Jobs : pc[t] = "idle" /\ WriteClaim(j, t)
  BY <1>1, <1>2, <1>5 DEF WriteClaim, Busy, Working
<1>6. CASE \E t \in Slots : EndRow(t)
  BY <1>1, <1>2, <1>6 DEF EndRow, Terminal
<1>7. CASE RequeueStaleJobs
  BY <1>1, <1>2, <1>7 DEF RequeueStaleJobs, Requeue
<1> QED
  BY <1>3, <1>4, <1>5, <1>6, <1>7, RowSteps

\* A slot is told that its claim is lost only when it is lost.
THEOREM VerdictsTrue == UniqueWorkerIDs => (Spec => []LostIsTrue)
<1> SUFFICES ASSUME UniqueWorkerIDs PROVE Spec => []LostIsTrue
  OBVIOUS
<1>1. Init => LostIsTrue
  BY DEF Init, LostIsTrue
<1>2. Claims /\ LostIsTrue /\ [Next]_vars => LostIsTrue'
  BY VerdictStaysTrue
<1> QED
  BY <1>1, <1>2, ClaimsHold, PTL DEF Spec

-----------------------------------------------------------------------------
(* Without failures *)

AtWork == {"scraping", "backoff", "verifying", "writing"}

Mine(s) == status[work[s]] = "running" /\ owner[work[s]] = s

\* A slot has the latest claim of the job that it works on, until it commits
\* it or has used up its attempts.
SlotCalm(s) ==
  /\ pc[s] \in AtWork => Mine(s) /\ ~lost[s]
  /\ pc[s] = "committed" => status[work[s]] = "complete"
  /\ pc[s] = "failing" => \/ attempt[s] = MaxAttempts /\ Mine(s)
                          \/ status[work[s]] = "complete"

\* A running job is fresh, and its owner is busy with it.
JobCalm(j) ==
  /\ ~stale[j]
  /\ status[j] = "running" =>
       owner[j] \in Slots /\ pc[owner[j]] \in Busy /\ work[owner[j]] = j

Calm == /\ live = Procs
        /\ \A s \in Slots : SlotCalm(s)
        /\ \A j \in Jobs : JobCalm(j)

\* A running row has the claim identifier of its owner, be it unique or not.
LEMMA ClaimHasOwnerStep ==
  ASSUME Typing, ClaimHasOwner, [Next]_vars
  PROVE  ClaimHasOwner'
<1> USE DEF ClaimHasOwner, Terminal
<1>1. CASE RowsKept
  BY <1>1 DEF RowsKept
<1>2. CASE \E j \in Jobs : CreateJob(j)
  BY <1>2 DEF CreateJob, history, Typing, RowTypes
<1>3. CASE \E s \in Slots, j \in Jobs : pc[s] = "idle" /\ WriteClaim(j, s)
  BY <1>3 DEF WriteClaim, NextQueued, Typing, RowTypes
<1>4. CASE \E s \in Slots : EndRow(s)
  BY <1>4 DEF EndRow, Typing, RowTypes
<1>5. CASE RequeueStaleJobs
  BY <1>5 DEF RequeueStaleJobs, Requeue, Typing, RowTypes
<1> QED
  BY <1>1, <1>2, <1>3, <1>4, <1>5, RowSteps

\* So a slot that has the latest claim is found by the WHERE clauses.
LEMMA MineIsOwned ==
  ASSUME ClaimHasOwner, NEW s \in Slots, work[s] \in Jobs, Mine(s)
  PROVE  OwnsRow(work[s], s)
BY DEF ClaimHasOwner, Mine, OwnsRow

\* No operation takes back a failure that was injected.
LEMMA FaultsGrow ==
  ASSUME Typing, [Next]_vars, faults' = 0
  PROVE  faults = 0 /\ ~Fault
<1>1. faults \in Nat /\ ~Fault
  BY FaultsAssumption DEF Typing, OtherTypes, Fault
<1>2. CASE UNCHANGED vars
  BY <1>1, <1>2 DEF vars
<1>3. CASE \E s \in Slots : WorkerStep(s)
  BY <1>1, <1>3 DEF WorkerStep, ClaimJob, ClaimAnswerLost, PollEmpty, LoopExit,
      ScrapeDiscarded, ScrapeSucceeds, ScrapeFails, BackoffEnds, LockClaim,
      CommitResult, CompleteErrs, CommitAnswered, CommitAnswerLost, FailJob,
      FailJobErrs, vars
<1>4. CASE \/ \E j \in Jobs : CreateJob(j) \/ GoStale(j)
           \/ \E t \in Slots : RefreshJobClaim(t)
           \/ RequeueStaleJobs
           \/ \E p \in Procs : Shutdown(p) \/ Crash(p) \/ Restart(p)
  BY <1>1, <1>4 DEF CreateJob, GoStale, RefreshJobClaim, RequeueStaleJobs, Requeue,
      Shutdown, Crash, Restart
<1> QED
  BY <1>1, <1>2, <1>3, <1>4 DEF Next

\* What the operations of a slot may be while no failure has been injected.
LEMMA CalmSteps ==
  ASSUME Typing, ClaimHasOwner, Calm, [Next]_vars, ~Fault
  PROVE  \/ UNCHANGED vars
         \/ \E j \in Jobs : CreateJob(j)
         \/ \E s \in Slots : \/ ClaimJob(s) \/ ScrapeSucceeds(s) \/ ScrapeFails(s)
                             \/ BackoffEnds(s)
                             \/ pc[s] = "verifying" /\ Goto(s, "writing")
                                  /\ UNCHANGED <<rowVars, live, history>>
                             \/ CommitResult(s) /\ OwnsRow(work[s], s)
                             \/ pc[s] = "committed" /\ (Leave(s, "idle") \/ Goto(s, "failing"))
                                  /\ UNCHANGED <<rowVars, live, history>>
                             \/ FailJob(s) \/ RefreshJobClaim(s)
<1> USE DEF Calm
<1>1. \A s \in Slots : Alive(s) /\ (CtxDone(s) <=> lost[s])
  BY DEF Alive, Slots, CtxDone
<1>2. ASSUME NEW s \in Slots, pc[s] \in AtWork
      PROVE  ~lost[s] /\ OwnsRow(work[s], s)
  BY <1>2, MineIsOwned DEF SlotCalm, AtWork, Typing, SlotShape, Busy, Working
<1>3. ASSUME NEW j \in Jobs, GoStale(j)
      PROVE  FALSE
  BY <1>1, <1>3 DEF GoStale, Attended, JobCalm
<1>4. CASE RequeueStaleJobs
  BY <1>4 DEF RequeueStaleJobs, Requeue, JobCalm
<1>5. CASE \E p \in Procs : Shutdown(p) \/ Crash(p) \/ Restart(p)
  BY <1>5 DEF Shutdown, Crash, Restart
<1>6. ASSUME NEW s \in Slots, WorkerStep(s)
      PROVE  \/ UNCHANGED vars
             \/ ClaimJob(s) \/ ScrapeSucceeds(s) \/ ScrapeFails(s) \/ BackoffEnds(s)
             \/ pc[s] = "verifying" /\ Goto(s, "writing")
                  /\ UNCHANGED <<rowVars, live, history>>
             \/ CommitResult(s) /\ OwnsRow(work[s], s)
             \/ pc[s] = "committed" /\ (Leave(s, "idle") \/ Goto(s, "failing"))
                  /\ UNCHANGED <<rowVars, live, history>>
             \/ FailJob(s)
  <2>1. CASE ClaimAnswerLost(s) \/ PollEmpty(s) \/ LoopExit(s) \/ FailJobErrs(s)
    BY <1>1, <2>1 DEF ClaimAnswerLost, PollEmpty, LoopExit, FailJobErrs
  <2>2. CASE ScrapeDiscarded(s) \/ CompleteErrs(s)
    BY <1>1, <1>2, <2>2 DEF ScrapeDiscarded, CompleteErrs, AtWork
  <2>3. CASE LockClaim(s) \/ CommitResult(s)
    BY <1>2, <2>3 DEF LockClaim, CommitResult, AtWork
  <2>4. CASE CommitAnswered(s) \/ CommitAnswerLost(s)
    BY <1>1, <2>4 DEF CommitAnswered, CommitAnswerLost, GiveUp
  <2> QED
    BY <1>6, <2>1, <2>2, <2>3, <2>4 DEF WorkerStep
<1> QED
  BY <1>3, <1>4, <1>5, <1>6 DEF Next

\* Without a failure, every slot keeps the job that it claimed, and no job is
\* left without a slot.
LEMMA CalmStep ==
  ASSUME Typing, ClaimHasOwner, Calm, [Next]_vars, ~Fault
  PROVE  Calm'
<1> USE AttemptsAssumption
    DEF Typing, RowTypes, SlotTypes, Calm, SlotCalm, JobCalm, Mine, Busy, Working, AtWork, PCs
<1>0. \A s \in Slots : Alive(s)
  BY DEF Alive, Slots
<1>1. CASE UNCHANGED vars
  BY <1>1 DEF vars, rowVars, slotVars, history
<1>2. CASE \E j \in Jobs : CreateJob(j)
  <2>1. PICK j \in Jobs : CreateJob(j)
    BY <1>2
  <2>2. \A t \in Slots : SlotCalm(t)'
    BY <2>1 DEF CreateJob, history, slotVars, SlotShape
  <2>3. \A i \in Jobs : JobCalm(i)'
    BY <2>1 DEF CreateJob, history, slotVars
  <2> QED
    BY <2>1, <2>2, <2>3 DEF CreateJob
<1>3. ASSUME NEW s \in Slots, ClaimJob(s)
      PROVE  Calm'
  <2>1. PICK j \in Jobs : WriteClaim(j, s) /\ work' = [work EXCEPT ![s] = j]
    BY <1>3 DEF ClaimJob
  <2>2. \A t \in Slots : SlotCalm(t)'
    BY <1>3, <2>1 DEF ClaimJob, WriteClaim, NextQueued, SlotShape
  <2>3. \A i \in Jobs : JobCalm(i)'
    BY <1>3, <2>1 DEF ClaimJob, WriteClaim, NextQueued
  <2> QED
    BY <1>3, <2>2, <2>3 DEF ClaimJob
<1>4. ASSUME NEW s \in Slots, ScrapeSucceeds(s) \/ ScrapeFails(s) \/ BackoffEnds(s)
      PROVE  Calm'
  <2>1. UNCHANGED <<rowVars, work, lost, live, history>>
    BY <1>0, <1>4 DEF ScrapeSucceeds, ScrapeFails, BackoffEnds, GiveUp, Goto
  <2>2. \A t \in Slots : SlotCalm(t)'
    BY <1>0, <1>4, <2>1
    DEF ScrapeSucceeds, ScrapeFails, BackoffEnds, GiveUp, Goto, rowVars, history
  <2>3. \A t \in Slots : pc[t] \in Busy => pc'[t] \in Busy
    BY <1>0, <1>4 DEF ScrapeSucceeds, ScrapeFails, BackoffEnds, GiveUp, Goto
  <2>4. \A i \in Jobs : JobCalm(i)'
    BY <2>1, <2>3 DEF rowVars, history
  <2> QED
    BY <2>1, <2>2, <2>4
<1>5. ASSUME NEW s \in Slots, pc[s] = "verifying", Goto(s, "writing"),
             UNCHANGED <<rowVars, live, history>>
      PROVE  Calm'
  BY <1>5 DEF Goto, rowVars, history
<1>6. ASSUME NEW s \in Slots, CommitResult(s), OwnsRow(work[s], s)
      PROVE  Calm'
  <2>1. /\ work[s] \in Jobs /\ owner[work[s]] = s /\ pc[s] = "writing"
        /\ status' = [status EXCEPT ![work[s]] = "complete"]
        /\ pc' = [pc EXCEPT ![s] = "committed"]
        /\ UNCHANGED <<work, attempt, lost, stale, owner, live>>
    BY <1>6 DEF CommitResult, Goto, SlotShape
  <2>2. \A t \in Slots : SlotCalm(t)'
    BY <2>1 DEF SlotShape
  <2>3. \A i \in Jobs : JobCalm(i)'
    BY <2>1
  <2> QED
    BY <2>1, <2>2, <2>3
<1>7. ASSUME NEW s \in Slots, pc[s] = "committed", Leave(s, "idle") \/ Goto(s, "failing"),
             UNCHANGED <<rowVars, live, history>>
      PROVE  Calm'
  <2>1. \A t \in Slots : t # s => /\ pc'[t] = pc[t] /\ work'[t] = work[t]
                                  /\ attempt'[t] = attempt[t] /\ lost'[t] = lost[t]
    BY <1>7 DEF Leave, Goto
  <2>2. pc'[s] = "idle" \/ (pc'[s] = "failing" /\ work'[s] = work[s])
    BY <1>7 DEF Leave, Goto
  <2>3. \A t \in Slots : SlotCalm(t)'
    BY <1>7, <2>1, <2>2 DEF rowVars, history
  <2>4. \A i \in Jobs : status[i] = "running" => owner[i] # s
    BY <1>7
  <2>5. \A i \in Jobs : JobCalm(i)'
    BY <1>7, <2>1, <2>4 DEF rowVars, history
  <2> QED
    BY <1>7, <2>3, <2>5
<1>8. ASSUME NEW s \in Slots, FailJob(s)
      PROVE  Calm'
  <2>1. /\ pc[s] = "failing" /\ work[s] \in Jobs /\ pc'[s] = "idle"
        /\ \A t \in Slots : t # s => /\ pc'[t] = pc[t] /\ work'[t] = work[t]
                                     /\ attempt'[t] = attempt[t] /\ lost'[t] = lost[t]
        /\ UNCHANGED <<stale, owner, live>>
    BY <1>8 DEF FailJob, Leave, SlotShape
  <2>2. CASE Mine(s)
    <3>1. status' = [status EXCEPT ![work[s]] = "failed"]
      BY <1>8, <2>1, <2>2, MineIsOwned DEF FailJob
    <3>2. \A t \in Slots : SlotCalm(t)'
      BY <2>1, <2>2, <3>1 DEF SlotShape
    <3>3. \A i \in Jobs : JobCalm(i)'
      BY <2>1, <2>2, <3>1
    <3> QED
      BY <2>1, <3>2, <3>3
  <2>3. CASE ~Mine(s)
    <3>1. status[work[s]] = "complete" /\ status' = status
      BY <1>8, <2>1, <2>3 DEF FailJob, OwnsRow
    <3>2. \A t \in Slots : SlotCalm(t)'
      BY <2>1, <3>1
    <3>3. \A i \in Jobs : JobCalm(i)'
      BY <2>1, <3>1
    <3> QED
      BY <2>1, <3>2, <3>3
  <2> QED
    BY <2>2, <2>3
<1>9. ASSUME NEW s \in Slots, RefreshJobClaim(s)
      PROVE  Calm'
  <2>1. /\ pc[s] \in Working /\ work[s] \in Jobs
        /\ UNCHANGED <<status, pc, work, attempt, live, owner>>
    BY <1>9 DEF RefreshJobClaim, Beating, SlotShape, history
  <2>2. CASE OwnsRow(work[s], s)
    <3>1. lost' = lost /\ \A j \in Jobs : ~stale'[j]
      BY <1>9, <2>2 DEF RefreshJobClaim
    <3> QED
      BY <2>1, <3>1
  <2>3. CASE ~OwnsRow(work[s], s)
    <3>1. pc[s] \notin AtWork
      BY <2>1, <2>3, MineIsOwned
    <3>2. stale' = stale /\ \A t \in Slots : t # s => lost'[t] = lost[t]
      BY <1>9, <2>3 DEF RefreshJobClaim
    <3> QED
      BY <2>1, <3>1, <3>2
  <2> QED
    BY <2>2, <2>3
<1> QED
  BY <1>1, <1>2, <1>3, <1>4, <1>5, <1>6, <1>7, <1>8, <1>9, CalmSteps

\* Without an injected failure, a slot reports a job as failed only after all
\* its attempts, or when the job is complete and there is nothing to fail.
\* This needs no unique WORKER_ID.
THEOREM AttemptsUsedUp == Spec => []NoEarlyGiveUp
<1> DEFINE Quiet == ClaimHasOwner /\ (faults = 0 => Calm)
<1>1. Init => Quiet
  BY DEF Init, ClaimHasOwner, Calm, SlotCalm, JobCalm, AtWork
<1>2. Typing /\ Quiet /\ [Next]_vars => Quiet'
  BY ClaimHasOwnerStep, CalmStep, FaultsGrow
<1>3. Quiet => NoEarlyGiveUp
  BY DEF Calm, SlotCalm, NoEarlyGiveUp
<1> QED
  BY <1>1, <1>2, <1>3, TypingHolds, PTL DEF Spec
=============================================================================
