------------------------------ MODULE Permits ------------------------------
(* The class PermitPool of runtime.ts, as operators on a pool: how many      *)
(* permits are out and who waits, in order.  JavaScript runs each method     *)
(* without interruption, so a method call is one application.                *)
EXTENDS Naturals, Sequences

NewPool == [active |-> 0, waiters |-> <<>>]

\* Mutant: one permit is never given out.
HasFreeButOne(pool, limit) == pool.active + 1 < limit

\* acquire: a free permit is taken at once, otherwise the caller queues up.
HasFree(pool, limit) == pool.active < limit
Take(pool) == [pool EXCEPT !.active = @ + 1]
QueueUp(pool, caller) == [pool EXCEPT !.waiters = Append(@, caller)]

\* Mutant: the aborted waiter stays in the queue.
StayInQueue(pool, caller) == pool

\* onAbort: the waiter is looked up and spliced out of the queue.
StopWaiting(pool, caller) ==
  LET queue == pool.waiters
      places == {i \in DOMAIN queue : queue[i] = caller}
      index == CHOOSE i \in places : \A k \in places : i <= k
  IN  IF places = {} THEN pool
      ELSE [pool EXCEPT !.waiters = SubSeq(queue, 1, index - 1)
                                    \o SubSeq(queue, index + 1, Len(queue))]

\* Mutant: the first waiter is taken off the queue, but never resumed.
NobodyWakes(pool) == {}

\* release: the permit passes to the first waiter, or becomes free.
Heir(pool) == IF pool.waiters = <<>> THEN {} ELSE {Head(pool.waiters)}
\* Mutant: the permit is counted as free and handed over as well.
ReleaseTwice(pool) ==
  [active |-> pool.active - 1,
   waiters |-> IF pool.waiters = <<>> THEN <<>> ELSE Tail(pool.waiters)]

Release(pool) == IF pool.waiters = <<>>
                   THEN [pool EXCEPT !.active = @ - 1]
                   ELSE [pool EXCEPT !.waiters = Tail(@)]
=============================================================================
