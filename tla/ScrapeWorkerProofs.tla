------------------------- MODULE ScrapeWorkerProofs -------------------------
(* Proofs about ScrapeWorker: for every set of requests and marketplaces,    *)
(* every limit, every page and every interval, permits are neither leaked    *)
(* nor released twice, and nobody is forgotten in a queue; what the parsers  *)
(* and the merge make of a page of any length is proved by induction over    *)
(* their loops.                                                              *)
EXTENDS ScrapeWorker, FiniteSetTheorems, SequenceTheorems, WellFoundedInduction, TLAPS

-----------------------------------------------------------------------------
(* Queues *)

\* The queue holds each of `who', once, and nobody else.
Queued(queue, who) ==
  /\ queue \in Seq(Requests)
  /\ Elements(queue) = who
  /\ \A i, k \in DOMAIN queue : queue[i] = queue[k] => i = k

\* Joining at the end.
LEMMA AppendQueued ==
  ASSUME NEW queue, NEW who, Queued(queue, who), NEW r \in Requests, r \notin who
  PROVE  Queued(Append(queue, r), who \cup {r})
<1> DEFINE longer == Append(queue, r)
<1>1. /\ queue \in Seq(Requests) /\ Len(queue) \in Nat /\ DOMAIN queue = 1..Len(queue)
      /\ \A i \in 1..Len(queue) : queue[i] # r
  BY DEF Queued, Elements
<1>2. /\ longer \in Seq(Requests) /\ DOMAIN longer = 1..(Len(queue) + 1)
      /\ \A i \in 1..(Len(queue) + 1) : longer[i] = IF i <= Len(queue) THEN queue[i] ELSE r
  BY <1>1
<1>3. Elements(longer) = Elements(queue) \cup {r}
  BY <1>1, <1>2 DEF Elements
<1>4. \A i, k \in DOMAIN longer : longer[i] = longer[k] => i = k
  BY <1>1, <1>2 DEF Queued
<1> QED
  BY <1>2, <1>3, <1>4 DEF Queued

\* Leaving at the head.
LEMMA TailQueued ==
  ASSUME NEW queue, NEW who, Queued(queue, who), queue # <<>>
  PROVE  /\ Head(queue) \in who
         /\ Queued(Tail(queue), who \ {Head(queue)})
<1> DEFINE rest == Tail(queue)
<1>1. /\ queue \in Seq(Requests) /\ Len(queue) \in Nat \ {0} /\ DOMAIN queue = 1..Len(queue)
      /\ Head(queue) = queue[1]
  BY EmptySeq, LenProperties DEF Queued
<1>2. /\ rest \in Seq(Requests) /\ DOMAIN rest = 1..(Len(queue) - 1)
      /\ \A i \in 1..(Len(queue) - 1) : rest[i] = queue[i + 1]
  BY <1>1, HeadTailProperties, LenProperties
<1>3. \A i, k \in DOMAIN queue : queue[i] = queue[k] => i = k
  BY DEF Queued
<1>4. Elements(rest) = Elements(queue) \ {queue[1]}
  <2>1. \A i \in DOMAIN rest : i + 1 \in DOMAIN queue /\ rest[i] = queue[i + 1] /\ i + 1 # 1
    BY <1>1, <1>2
  <2>2. \A i \in DOMAIN queue : i # 1 => i - 1 \in DOMAIN rest /\ rest[i - 1] = queue[i]
    BY <1>1, <1>2
  <2>3. 1 \in DOMAIN queue
    BY <1>1
  <2>4. ASSUME NEW x \in Elements(rest) PROVE x \in Elements(queue) /\ x # queue[1]
    BY <1>3, <2>1, <2>3 DEF Elements
  <2>5. ASSUME NEW x \in Elements(queue), x # queue[1] PROVE x \in Elements(rest)
    BY <2>2, <2>5 DEF Elements
  <2> QED
    BY <2>4, <2>5
<1>5. \A i, k \in DOMAIN rest : rest[i] = rest[k] => i = k
  BY <1>1, <1>2, <1>3
<1>6. who = Elements(queue) /\ queue[1] \in who
  BY <1>1 DEF Queued, Elements
<1>7. Queued(rest, who \ {queue[1]})
  BY <1>2, <1>4, <1>5, <1>6 DEF Queued
<1> QED
  BY <1>1, <1>6, <1>7

\* Leaving from anywhere.
LEMMA SpliceQueued ==
  ASSUME NEW queue, NEW who, Queued(queue, who), NEW n \in DOMAIN queue
  PROVE  Queued(SubSeq(queue, 1, n - 1) \o SubSeq(queue, n + 1, Len(queue)),
                who \ {queue[n]})
<1> DEFINE front == SubSeq(queue, 1, n - 1)
           back == SubSeq(queue, n + 1, Len(queue))
           rest == front \o back
           len == Len(queue)
<1>1. queue \in Seq(Requests) /\ len \in Nat /\ DOMAIN queue = 1..len /\ n \in 1..len
  BY DEF Queued
<1>2. /\ front \in Seq(Requests) /\ Len(front) = n - 1
      /\ \A i \in 1..(n - 1) : front[i] = queue[i]
  BY <1>1, SubSeqProperties, ElementOfSeq
<1>3. /\ back \in Seq(Requests) /\ Len(back) = len - n
      /\ \A i \in 1..(len - n) : back[i] = queue[n + i]
  <2>1. \A i \in (n + 1)..len : queue[i] \in Requests
    BY <1>1, ElementOfSeq
  <2>2. /\ back \in Seq(Requests) /\ Len(back) = IF n + 1 <= len THEN len - (n + 1) + 1 ELSE 0
        /\ \A i \in 1..(len - (n + 1) + 1) : back[i] = queue[n + 1 + i - 1]
    BY <1>1, <2>1, SubSeqProperties
  <2> QED
    BY <1>1, <2>2
<1> HIDE DEF front, back
<1>4. /\ rest \in Seq(Requests) /\ DOMAIN rest = 1..(len - 1)
      /\ \A i \in 1..(len - 1) : rest[i] = IF i < n THEN queue[i] ELSE queue[i + 1]
  <2>1. /\ rest \in Seq(Requests) /\ Len(rest) = Len(front) + Len(back)
        /\ \A i \in 1..(Len(front) + Len(back)) :
             rest[i] = IF i <= Len(front) THEN front[i] ELSE back[i - Len(front)]
    BY <1>2, <1>3, ConcatProperties
  <2> HIDE DEF rest
  <2>2. DOMAIN rest = 1..(len - 1) /\ Len(front) + Len(back) = len - 1
    BY <1>1, <1>2, <1>3, <2>1, LenProperties
  <2>3. ASSUME NEW i \in 1..(len - 1)
        PROVE  rest[i] = IF i < n THEN queue[i] ELSE queue[i + 1]
    <3>1. CASE i < n
      BY <1>1, <1>2, <2>1, <2>2, <3>1
    <3>2. CASE i >= n
      <4>1. i - (n - 1) \in 1..(len - n) /\ n + (i - (n - 1)) = i + 1
        BY <1>1, <3>2
      <4>2. rest[i] = back[i - (n - 1)]
        BY <1>1, <1>2, <2>1, <2>2, <3>2
      <4>3. back[i - (n - 1)] = queue[n + (i - (n - 1))]
        BY <1>3, <4>1
      <4> QED
        BY <1>1, <3>2, <4>1, <4>2, <4>3
    <3> QED
      BY <1>1, <3>1, <3>2
  <2> QED
    BY <2>1, <2>2, <2>3
<1>5. \A i, k \in 1..len : queue[i] = queue[k] => i = k
  BY <1>1 DEF Queued
<1> HIDE DEF rest
<1>6. Elements(rest) = Elements(queue) \ {queue[n]}
  <2>1. \A i \in 1..(len - 1) : rest[i] \in Elements(queue) /\ rest[i] # queue[n]
    BY <1>1, <1>4, <1>5 DEF Elements
  <2>2. ASSUME NEW i \in 1..len, i # n PROVE queue[i] \in Elements(rest)
    <3>1. CASE i < n
      <4>1. i \in 1..(len - 1) /\ i \in DOMAIN rest /\ rest[i] = queue[i]
        BY <1>1, <1>4, <3>1
      <4> QED
        BY <4>1 DEF Elements
    <3>2. CASE i > n
      <4>1. i - 1 \in 1..(len - 1) /\ rest[i - 1] = queue[i]
        BY <1>1, <1>4, <2>2, <3>2
      <4> QED
        BY <1>4, <4>1 DEF Elements
    <3> QED
      BY <1>1, <2>2, <3>1, <3>2
  <2> QED
    BY <1>1, <1>4, <2>1, <2>2 DEF Elements
<1>7. \A i, k \in DOMAIN rest : rest[i] = rest[k] => i = k
  BY <1>1, <1>4, <1>5
<1>8. Queued(rest, who \ {queue[n]})
  BY <1>4, <1>6, <1>7 DEF Queued
<1> QED
  BY <1>8 DEF rest, front, back

-----------------------------------------------------------------------------
(* Pools *)

\* A pool whose permits are with `holders' and whose queue is `waiting'.
PoolOk(pool, limit, holders, waiting) ==
  /\ pool \in [active : Nat, waiters : Seq(Requests)]
  /\ IsFiniteSet(holders) /\ pool.active = Cardinality(holders)
  /\ pool.active <= limit
  /\ Queued(pool.waiters, waiting)
  /\ pool.waiters # <<>> => pool.active = limit

LEMMA NewPoolOk ==
  ASSUME NEW limit \in Nat
  PROVE  PoolOk(NewPool, limit, {}, {})
<1>1. Queued(<<>>, {})
  <2>1. <<>> \in Seq(Requests) /\ DOMAIN <<>> = {}
    OBVIOUS
  <2> QED
    BY <2>1 DEF Queued, Elements
<1> QED
  BY <1>1, FS_EmptySet DEF PoolOk, NewPool

LEMMA TakeOk ==
  ASSUME NEW pool, NEW limit \in Nat, NEW holders, NEW waiting, NEW r \in Requests,
         PoolOk(pool, limit, holders, waiting), HasFree(pool, limit), r \notin holders
  PROVE  PoolOk(Take(pool), limit, holders \cup {r}, waiting)
<1>1. /\ IsFiniteSet(holders \cup {r})
      /\ Cardinality(holders \cup {r}) = Cardinality(holders) + 1
  BY FS_AddElement DEF PoolOk
<1>2. /\ Take(pool) \in [active : Nat, waiters : Seq(Requests)]
      /\ Take(pool).active = pool.active + 1 /\ Take(pool).waiters = pool.waiters
  BY DEF PoolOk, Take
<1> QED
  BY <1>1, <1>2 DEF PoolOk, HasFree

LEMMA QueueUpOk ==
  ASSUME NEW pool, NEW limit \in Nat, NEW holders, NEW waiting, NEW r \in Requests,
         PoolOk(pool, limit, holders, waiting), ~HasFree(pool, limit), r \notin waiting
  PROVE  PoolOk(QueueUp(pool, r), limit, holders, waiting \cup {r})
<1>1. Queued(Append(pool.waiters, r), waiting \cup {r})
  BY AppendQueued DEF PoolOk
<1>2. /\ QueueUp(pool, r) \in [active : Nat, waiters : Seq(Requests)]
      /\ QueueUp(pool, r).active = pool.active
      /\ QueueUp(pool, r).waiters = Append(pool.waiters, r)
  <2>1. Append(pool.waiters, r) \in Seq(Requests)
    BY <1>1 DEF Queued
  <2>2. pool \in [active : Nat, waiters : Seq(Requests)]
    BY DEF PoolOk
  <2> QED
    BY <2>1, <2>2 DEF QueueUp
<1>3. pool.active = limit
  BY DEF PoolOk, HasFree
<1> QED
  BY <1>1, <1>2, <1>3 DEF PoolOk

\* Who inherits a permit has waited for it.
LEMMA ReleaseOk ==
  ASSUME NEW pool, NEW limit \in Nat, NEW holders, NEW waiting, NEW r \in holders,
         PoolOk(pool, limit, holders, waiting), holders \cap waiting = {}
  PROVE  /\ Heir(pool) \subseteq waiting
         /\ PoolOk(Release(pool), limit, (holders \ {r}) \cup Heir(pool), waiting \ Heir(pool))
<1>1. /\ IsFiniteSet(holders \ {r})
      /\ Cardinality(holders \ {r}) = Cardinality(holders) - 1
      /\ Cardinality(holders) \in Nat
  BY FS_RemoveElement, FS_CardinalityType DEF PoolOk
<1>2. CASE pool.waiters = <<>>
  <2>1. Heir(pool) = {}
    BY <1>2 DEF Heir
  <2>2. Cardinality(holders) # 0
    BY FS_EmptySet DEF PoolOk
  <2>3. /\ Release(pool).active = pool.active - 1 /\ Release(pool).waiters = pool.waiters
        /\ Release(pool) \in [active : Nat, waiters : Seq(Requests)]
    BY <1>1, <1>2, <2>2 DEF Release, PoolOk
  <2>4. (holders \ {r}) \cup Heir(pool) = holders \ {r} /\ waiting \ Heir(pool) = waiting
    BY <2>1
  <2>5. PoolOk(Release(pool), limit, holders \ {r}, waiting)
    BY <1>1, <1>2, <2>3 DEF PoolOk
  <2> QED
    BY <2>1, <2>4, <2>5
<1>3. CASE pool.waiters # <<>>
  <2> DEFINE h == Head(pool.waiters)
  <2>1. Heir(pool) = {h}
    BY <1>3 DEF Heir
  <2>2. h \in waiting /\ Queued(Tail(pool.waiters), waiting \ {h})
    BY <1>3, TailQueued DEF PoolOk
  <2>3. /\ Release(pool).active = pool.active
        /\ Release(pool).waiters = Tail(pool.waiters)
        /\ Release(pool) \in [active : Nat, waiters : Seq(Requests)]
    BY <1>3, <2>2 DEF Release, PoolOk, Queued
  <2>4. /\ IsFiniteSet((holders \ {r}) \cup {h})
        /\ Cardinality((holders \ {r}) \cup {h}) = Cardinality(holders)
    <3> DEFINE others == holders \ {r}
    <3>1. h \notin others
      BY <2>2
    <3>2. IsFiniteSet(others) /\ Cardinality(others) = Cardinality(holders) - 1
      BY <1>1
    <3> HIDE DEF others, h
    <3>3. /\ IsFiniteSet(others \cup {h})
          /\ Cardinality(others \cup {h}) = Cardinality(others) + 1
      BY <3>1, <3>2, FS_AddElement
    <3>4. IsFiniteSet(others \cup {h}) /\ Cardinality(others \cup {h}) = Cardinality(holders)
      BY <1>1, <3>2, <3>3
    <3> QED
      BY <3>4 DEF others
  <2>5. PoolOk(Release(pool), limit, (holders \ {r}) \cup {h}, waiting \ {h})
    BY <1>3, <2>2, <2>3, <2>4 DEF PoolOk
  <2> QED
    BY <2>1, <2>2, <2>5
<1> QED
  BY <1>2, <1>3

\* The waiter that leaves is found at its only place.
LEMMA StopWaitingOk ==
  ASSUME NEW pool, NEW limit \in Nat, NEW holders, NEW waiting, NEW r \in waiting,
         PoolOk(pool, limit, holders, waiting)
  PROVE  PoolOk(StopWaiting(pool, r), limit, holders, waiting \ {r})
<1> DEFINE queue == pool.waiters
           places == {i \in DOMAIN queue : queue[i] = r}
           index == CHOOSE i \in places : \A k \in places : i <= k
           rest == SubSeq(queue, 1, index - 1) \o SubSeq(queue, index + 1, Len(queue))
<1>1. Queued(queue, waiting) /\ queue \in Seq(Requests)
  BY DEF PoolOk, Queued
<1>2. PICK n \in places : \A k \in places : n <= k
  <2>1. PICK n \in DOMAIN queue : queue[n] = r
    BY <1>1 DEF Queued, Elements
  <2>2. \A k \in places : k = n
    BY <1>1, <2>1 DEF Queued
  <2>3. n \in Nat
    BY <1>1
  <2> QED
    BY <2>1, <2>2, <2>3
<1>3. index \in places
  BY <1>2
<1>4. index \in DOMAIN queue /\ queue[index] = r
  BY <1>3
<1> HIDE DEF index
<1>5. Queued(rest, waiting \ {r})
  BY <1>1, <1>4, SpliceQueued
<1>6. StopWaiting(pool, r) = [pool EXCEPT !.waiters = rest]
  BY <1>3 DEF StopWaiting, index
<1> HIDE DEF rest, queue
<1>7. /\ StopWaiting(pool, r) \in [active : Nat, waiters : Seq(Requests)]
      /\ StopWaiting(pool, r).active = pool.active
      /\ StopWaiting(pool, r).waiters = rest
  BY <1>5, <1>6 DEF PoolOk, Queued
<1>8. queue # <<>>
  BY <1>1, <1>4
<1> QED
  BY <1>5, <1>7, <1>8 DEF PoolOk, queue

-----------------------------------------------------------------------------
(* The invariant *)

\* What TypeOK says of all variables but `direct', which is made by the parsers.
Types ==
  /\ pc \in [Requests -> Awaiting \cup Resumed \cup {"new", "done"}]
  /\ path \in [Requests -> {"direct", "browser"}]
  /\ aborted \subseteq Requests
  /\ pools \in [Pools -> [active : Nat, waiters : Seq(Requests)]]
  /\ turns \in [Marketplaces -> Seq(Requests)]
  /\ cool \in [Marketplaces -> 0..(Interval + Jitter)]
  /\ quiet \in [Marketplaces -> 0..MaxQuiet]
  /\ counters \in [Marketplaces -> [requests : Nat, successes : Nat, failures : Nat]]
  /\ server \in {"open", "draining", "closed"}

\* Who waits for a permit of pool p, by where the code is.
Waits(p) ==
  {r \in Requests : \/ p = MarketOf[r] /\ pc[r] = "waitMarket"
                    \/ p = "browser" /\ pc[r] = "waitBrowser"}

Books == \A p \in Pools : PoolOk(pools[p], Limit(p), Holders(p), Waits(p))

\* Who waits for its turn.
Paces(m) == {r \in Requests : MarketOf[r] = m /\ pc[r] = "pacing"}

Turns == \A m \in Marketplaces : Queued(turns[m], Paces(m))

\* A request whose client is gone neither waits for a permit nor has got one.
Heeded == \A r \in aborted : pc[r] \notin {"waitMarket", "gotMarket", "waitBrowser", "gotBrowser"}

Flying(m) == {r \in InFlight : MarketOf[r] = m}

Balance ==
  \A m \in Marketplaces :
    /\ IsFiniteSet(Flying(m))
    /\ counters[m].requests = counters[m].successes + counters[m].failures
                              + Cardinality(Flying(m))

\* Where a request is when it gets on.
States == Awaiting \cup Resumed \cup {"new", "done"}

LEMMA LimitType ==
  ASSUME NEW p \in Pools
  PROVE  Limit(p) \in Nat
BY LimitsAssumption DEF Pools, Limit

\* Nobody holds a permit of a pool and waits for another of it.
LEMMA Apart ==
  ASSUME NEW p \in Pools
  PROVE  Holders(p) \cap Waits(p) = {}
BY MarketsAssumption DEF Holders, Waits

\* Where other requests are after a step of r: a waiter may have got what it
\* waited for.
Others(r) ==
  \A q \in Requests : q # r =>
    \/ pc'[q] = pc[q]
    \/ pc[q] = "waitMarket" /\ pc'[q] = "gotMarket"
    \/ pc[q] = "waitBrowser" /\ pc'[q] = "gotBrowser"

\* A request that gives back all its permits passes them on.
LEMMA MoveOnKeeps ==
  ASSUME Types, Books, NEW r \in Requests, NEW where \in {"done", "pacing"},
         NEW given \in SUBSET Pools,
         \A p \in Pools : p \in given <=> r \in Holders(p),
         \A p \in Pools : r \notin Waits(p),
         MoveOn(r, where, given)
  PROVE  /\ Books' /\ pc' \in [Requests -> States] /\ pc'[r] = where /\ Others(r)
         /\ pools' \in [Pools -> [active : Nat, waiters : Seq(Requests)]]
<1> DEFINE woken == UNION {Heir(pools[p]) : p \in given}
           heirs(p) == IF p \in given THEN Heir(pools[p]) ELSE {}
<1>1. \A p \in given :
        /\ Heir(pools[p]) \subseteq Waits(p)
        /\ PoolOk(Release(pools[p]), Limit(p),
                  (Holders(p) \ {r}) \cup Heir(pools[p]), Waits(p) \ Heir(pools[p]))
  BY ReleaseOk, Apart, LimitType DEF Books
<1>2. \A q \in Requests :
        pc'[q] = CASE q = r -> where
                   [] q # r /\ q \in woken ->
                        IF pc[q] = "waitMarket" THEN "gotMarket" ELSE "gotBrowser"
                   [] OTHER -> pc[q]
  BY DEF MoveOn
<1>3. \A q \in Requests : q \in woken <=> \E p \in Pools : q \in heirs(p)
  OBVIOUS
<1>4. \A p \in Pools : heirs(p) \subseteq Waits(p)
  BY <1>1
<1> HIDE DEF woken, heirs
<1>5. ASSUME NEW q \in Requests, q # r
      PROVE  \/ /\ pc'[q] = pc[q]
                /\ \A p \in Pools : q \notin heirs(p)
             \/ /\ pc[q] = "waitMarket" /\ pc'[q] = "gotMarket"
                /\ \A p \in Pools : q \in heirs(p) <=> p = MarketOf[q]
             \/ /\ pc[q] = "waitBrowser" /\ pc'[q] = "gotBrowser"
                /\ \A p \in Pools : q \in heirs(p) <=> p = "browser"
  <2>1. CASE q \notin woken
    BY <1>2, <1>3, <1>5, <2>1
  <2>2. CASE q \in woken
    <3>1. PICK p \in Pools : q \in heirs(p)
      BY <1>3, <2>2
    <3>2. \A x \in Pools : q \in heirs(x) => q \in Waits(x)
      BY <1>4
    <3>3. pc'[q] = IF pc[q] = "waitMarket" THEN "gotMarket" ELSE "gotBrowser"
      BY <1>2, <1>5, <2>2
    <3> QED
      BY <3>1, <3>2, <3>3, MarketsAssumption DEF Waits
  <2> QED
    BY <2>1, <2>2
<1>6. pc'[r] = where
  BY <1>2
<1>7. ASSUME NEW p \in Pools
      PROVE  /\ Holders(p)' = (Holders(p) \ {r}) \cup heirs(p)
             /\ Waits(p)' = Waits(p) \ heirs(p)
  <2>1. ASSUME NEW q \in Requests
        PROVE  q \in Holders(p)' <=> q \in (Holders(p) \ {r}) \cup heirs(p)
    <3>1. CASE q = r
      BY <1>4, <1>6, <3>1 DEF Holders
    <3>2. CASE q # r
      BY <1>5, <3>2, MarketsAssumption DEF Holders, Pools
    <3> QED
      BY <3>1, <3>2
  <2>2. ASSUME NEW q \in Requests
        PROVE  q \in Waits(p)' <=> q \in Waits(p) \ heirs(p)
    <3>1. CASE q = r
      BY <1>4, <1>6, <3>1 DEF Waits
    <3>2. CASE q # r
      BY <1>5, <3>2, MarketsAssumption DEF Waits, Pools
    <3> QED
      BY <3>1, <3>2
  <2>3. Holders(p) \subseteq Requests /\ Holders(p)' \subseteq Requests
        /\ Waits(p) \subseteq Requests /\ Waits(p)' \subseteq Requests
    BY DEF Holders, Waits
  <2> QED
    BY <1>4, <2>1, <2>2, <2>3
<1>8. \A p \in Pools : pools'[p] = IF p \in given THEN Release(pools[p]) ELSE pools[p]
  BY DEF MoveOn
<1>9. ASSUME NEW p \in Pools
      PROVE  PoolOk(pools'[p], Limit(p), Holders(p)', Waits(p)')
  <2>1. CASE p \in given
    BY <1>1, <1>7, <1>8, <2>1 DEF heirs
  <2>2. CASE p \notin given
    <3>1. Holders(p)' = Holders(p) /\ Waits(p)' = Waits(p)
      BY <1>7, <2>2 DEF heirs
    <3> QED
      BY <1>8, <2>2, <3>1 DEF Books
  <2> QED
    BY <2>1, <2>2
<1>10. Books'
  BY <1>9 DEF Books, Limit
<1>11. pc' \in [Requests -> States] /\ Others(r)
  <2>1. DOMAIN pc' = Requests /\ pc' = [q \in Requests |-> pc'[q]]
    BY DEF MoveOn
  <2>2. \A q \in Requests : pc'[q] \in States
    BY <1>5, <1>6 DEF Types, States, Awaiting, Resumed
  <2>3. Others(r)
    BY <1>5 DEF Others
  <2> QED
    BY <2>1, <2>2, <2>3
<1>12. pools' \in [Pools -> [active : Nat, waiters : Seq(Requests)]]
  <2>1. pools' = [p \in Pools |-> pools'[p]]
    BY DEF MoveOn
  <2> QED
    BY <1>9, <2>1 DEF PoolOk
<1> QED
  BY <1>6, <1>10, <1>11, <1>12

-----------------------------------------------------------------------------
(* Turns, aborts and telemetry *)

Moving == Awaiting \cup Resumed

\* A step of r changes the place of r in the queue of turns and among the
\* requests in flight, of no other request.
LEMMA OthersStay ==
  ASSUME NEW r \in Requests, Others(r), NEW m \in Marketplaces
  PROVE  /\ Paces(m)' = IF MarketOf[r] = m /\ pc'[r] = "pacing"
                          THEN Paces(m) \cup {r} ELSE Paces(m) \ {r}
         /\ Flying(m)' = IF MarketOf[r] = m /\ pc'[r] \in Moving
                           THEN Flying(m) \cup {r} ELSE Flying(m) \ {r}
<1>1. \A q \in Requests : q # r => (q \in Paces(m)' <=> q \in Paces(m))
  BY DEF Others, Paces
<1>2. \A q \in Requests : q # r => (q \in Flying(m)' <=> q \in Flying(m))
  BY DEF Others, Flying, InFlight, Awaiting, Resumed
<1>3. Paces(m) \subseteq Requests /\ Paces(m)' \subseteq Requests
      /\ Flying(m) \subseteq Requests /\ Flying(m)' \subseteq Requests
  BY DEF Paces, Flying, InFlight
<1>4. r \in Paces(m)' <=> MarketOf[r] = m /\ pc'[r] = "pacing"
  BY DEF Paces
<1>5. r \in Flying(m)' <=> MarketOf[r] = m /\ pc'[r] \in Moving
  BY DEF Flying, InFlight, Moving
<1> QED
  BY <1>1, <1>2, <1>3, <1>4, <1>5

LEMMA HeededKept ==
  ASSUME Types, Heeded, NEW r \in Requests, Others(r),
         aborted' \subseteq aborted \cup {r},
         r \in aborted' => pc'[r] \notin {"waitMarket", "gotMarket", "waitBrowser", "gotBrowser"}
  PROVE  Heeded'
BY DEF Types, Heeded, Others

LEMMA TurnsKept ==
  ASSUME Turns, NEW r \in Requests, Others(r), pc[r] # "pacing", pc'[r] # "pacing",
         turns' = turns
  PROVE  Turns'
<1>1. \A m \in Marketplaces : Paces(m)' = Paces(m)
  BY OthersStay DEF Paces
<1> QED
  BY <1>1 DEF Turns

LEMMA TurnsJoined ==
  ASSUME Types, Turns, NEW r \in Requests, Others(r), pc[r] # "pacing", pc'[r] = "pacing",
         JoinTurns(r)
  PROVE  Turns' /\ turns' \in [Marketplaces -> Seq(Requests)]
<1>1. MarketOf[r] \in Marketplaces
  BY MarketsAssumption
<1>2. turns' = [turns EXCEPT ![MarketOf[r]] = Append(turns[MarketOf[r]], r)]
  BY DEF JoinTurns
<1>3. ASSUME NEW m \in Marketplaces PROVE Queued(turns'[m], Paces(m)')
  <2>1. Queued(turns[m], Paces(m))
    BY DEF Turns
  <2>2. CASE m = MarketOf[r]
    <3>1. turns'[m] = Append(turns[m], r) /\ Paces(m)' = Paces(m) \cup {r} /\ r \notin Paces(m)
      BY <1>2, <2>2, OthersStay DEF Types, Paces
    <3> QED
      BY <2>1, <3>1, AppendQueued
  <2>3. CASE m # MarketOf[r]
    <3>1. turns'[m] = turns[m] /\ Paces(m)' = Paces(m)
      BY <1>2, <2>3, OthersStay DEF Types, Paces
    <3> QED
      BY <2>1, <3>1
  <2> QED
    BY <2>2, <2>3
<1>4. turns' \in [Marketplaces -> Seq(Requests)]
  BY <1>1, <1>2 DEF Types
<1> QED
  BY <1>3, <1>4 DEF Turns

Counters == [Marketplaces -> [requests : Nat, successes : Nat, failures : Nat]]

\* A counter goes up by one, the others stay.
LEMMA CountRequestDoes ==
  ASSUME Types, NEW m \in Marketplaces, CountRequest(m)
  PROVE  /\ counters' \in Counters
         /\ \A n \in Marketplaces : n # m => counters'[n] = counters[n]
         /\ counters'[m].requests = counters[m].requests + 1
         /\ counters'[m].successes = counters[m].successes
         /\ counters'[m].failures = counters[m].failures
<1> USE DEF CountRequest, Counters
<1>1. counters \in Counters
  BY DEF Types
<1> QED
  <2>1. counters' \in Counters
    BY <1>1
  <2>2. \A n \in Marketplaces : n # m => counters'[n] = counters[n]
    BY <1>1
  <2>3. /\ counters'[m].requests = counters[m].requests + 1
        /\ counters'[m].successes = counters[m].successes
        /\ counters'[m].failures = counters[m].failures
    BY <1>1
  <2> QED
    BY <2>1, <2>2, <2>3

\* The same for an answer ...
LEMMA CountSuccessDoes ==
  ASSUME Types, NEW m \in Marketplaces, CountSuccess(m)
  PROVE  /\ counters' \in Counters
         /\ \A n \in Marketplaces : n # m => counters'[n] = counters[n]
         /\ counters'[m].requests = counters[m].requests
         /\ counters'[m].successes = counters[m].successes + 1
         /\ counters'[m].failures = counters[m].failures
<1> USE DEF CountSuccess, Counters
<1>1. counters \in Counters
  BY DEF Types
<1> QED
  <2>1. counters' \in Counters
    BY <1>1
  <2>2. \A n \in Marketplaces : n # m => counters'[n] = counters[n]
    BY <1>1
  <2>3. /\ counters'[m].requests = counters[m].requests
        /\ counters'[m].successes = counters[m].successes + 1
        /\ counters'[m].failures = counters[m].failures
    BY <1>1
  <2> QED
    BY <2>1, <2>2, <2>3

\* ... and for a failure.
LEMMA CountFailureDoes ==
  ASSUME Types, NEW m \in Marketplaces, CountFailure(m)
  PROVE  /\ counters' \in Counters
         /\ \A n \in Marketplaces : n # m => counters'[n] = counters[n]
         /\ counters'[m].requests = counters[m].requests
         /\ counters'[m].successes = counters[m].successes
         /\ counters'[m].failures = counters[m].failures + 1
<1> USE DEF CountFailure, Counters
<1>1. counters \in Counters
  BY DEF Types
<1> QED
  <2>1. counters' \in Counters
    BY <1>1
  <2>2. \A n \in Marketplaces : n # m => counters'[n] = counters[n]
    BY <1>1
  <2>3. /\ counters'[m].requests = counters[m].requests
        /\ counters'[m].successes = counters[m].successes
        /\ counters'[m].failures = counters[m].failures + 1
    BY <1>1
  <2> QED
    BY <2>1, <2>2, <2>3

LEMMA BalanceMoves ==
  ASSUME Balance, NEW r \in Requests, Others(r), pc[r] \in Moving, pc'[r] \in Moving,
         UNCHANGED counters
  PROVE  Balance'
<1>1. \A m \in Marketplaces : Flying(m)' = Flying(m)
  BY OthersStay DEF Flying, InFlight, Moving
<1> QED
  BY <1>1 DEF Balance

LEMMA BalanceEnds ==
  ASSUME Types, Balance, NEW r \in Requests, Others(r), pc[r] \in Moving, pc'[r] = "done",
         CountFailure(MarketOf[r]) \/ CountSuccess(MarketOf[r])
  PROVE  Balance'
<1> SUFFICES ASSUME NEW m \in Marketplaces
             PROVE  /\ IsFiniteSet(Flying(m)')
                    /\ counters'[m].requests = counters'[m].successes + counters'[m].failures
                                               + Cardinality(Flying(m)')
  BY DEF Balance
<1>1. /\ IsFiniteSet(Flying(m)) /\ Cardinality(Flying(m)) \in Nat
      /\ counters[m].requests = counters[m].successes + counters[m].failures
                                + Cardinality(Flying(m))
      /\ counters[m] \in [requests : Nat, successes : Nat, failures : Nat]
  BY FS_CardinalityType DEF Balance, Types
<1>2. MarketOf[r] \in Marketplaces
  BY MarketsAssumption
<1>3. "done" \notin Moving
  BY DEF Moving, Awaiting, Resumed
<1>4. CASE m = MarketOf[r]
  <2>1. Flying(m)' = Flying(m) \ {r} /\ r \in Flying(m)
    BY <1>3, <1>4, OthersStay DEF Flying, InFlight, Moving
  <2>2. IsFiniteSet(Flying(m)') /\ Cardinality(Flying(m)') = Cardinality(Flying(m)) - 1
    BY <1>1, <2>1, FS_RemoveElement
  <2>3. /\ counters'[m].requests = counters[m].requests
        /\ counters'[m].successes + counters'[m].failures
             = counters[m].successes + counters[m].failures + 1
    BY <1>1, <1>2, <1>4, CountSuccessDoes, CountFailureDoes
  <2> QED
    BY <1>1, <2>2, <2>3
<1>5. CASE m # MarketOf[r]
  <2>1. Flying(m)' = Flying(m)
    BY <1>5, OthersStay DEF Flying
  <2>2. counters'[m] = counters[m]
    BY <1>2, <1>5, CountSuccessDoes, CountFailureDoes
  <2> QED
    BY <1>1, <2>1, <2>2
<1> QED
  BY <1>4, <1>5

LEMMA BalanceArrives ==
  ASSUME Types, Balance, NEW r \in Requests, Others(r), pc[r] = "new", pc'[r] \in Moving,
         CountRequest(MarketOf[r])
  PROVE  Balance'
<1> SUFFICES ASSUME NEW m \in Marketplaces
             PROVE  /\ IsFiniteSet(Flying(m)')
                    /\ counters'[m].requests = counters'[m].successes + counters'[m].failures
                                               + Cardinality(Flying(m)')
  BY DEF Balance
<1>1. /\ IsFiniteSet(Flying(m)) /\ Cardinality(Flying(m)) \in Nat
      /\ counters[m].requests = counters[m].successes + counters[m].failures
                                + Cardinality(Flying(m))
      /\ counters[m] \in [requests : Nat, successes : Nat, failures : Nat]
  BY FS_CardinalityType DEF Balance, Types
<1>2. MarketOf[r] \in Marketplaces
  BY MarketsAssumption
<1>3. r \notin Flying(m)
  BY DEF Flying, InFlight, Awaiting, Resumed
<1>4. CASE m = MarketOf[r]
  <2>1. Flying(m)' = Flying(m) \cup {r}
    BY <1>4, OthersStay
  <2>2. IsFiniteSet(Flying(m)') /\ Cardinality(Flying(m)') = Cardinality(Flying(m)) + 1
    BY <1>1, <1>3, <2>1, FS_AddElement
  <2> QED
    BY <1>1, <1>2, <1>4, <2>2, CountRequestDoes
<1>5. CASE m # MarketOf[r]
  <2>1. Flying(m)' = Flying(m)
    BY <1>3, <1>5, OthersStay
  <2> QED
    BY <1>1, <1>2, <1>5, <2>1, CountRequestDoes
<1> QED
  BY <1>4, <1>5

-----------------------------------------------------------------------------
(* The steps *)

Kept == Types /\ Books /\ Turns /\ Heeded /\ Balance

LEMMA Start == Init => Kept
<1> SUFFICES ASSUME Init PROVE Kept
  OBVIOUS
<1> USE DEF Init
<1>1. Types
  BY PacingAssumption, QuietAssumption, NewPoolOk DEF Types, Awaiting, Resumed, NewPool
<1>2. \A p \in Pools : Holders(p) = {} /\ Waits(p) = {} /\ pools[p] = NewPool
  BY DEF Holders, Waits
<1>3. Books
  BY <1>2, NewPoolOk, LimitType DEF Books
<1>4. Turns
  <2>1. Queued(<<>>, {})
    BY NewPoolOk DEF PoolOk, NewPool
  <2> QED
    BY <2>1 DEF Turns, Paces
<1>5. Heeded
  BY DEF Heeded
<1>6. Balance
  <2>1. \A m \in Marketplaces : Flying(m) = {}
    BY DEF Flying, InFlight, Awaiting, Resumed
  <2>2. IsFiniteSet({}) /\ Cardinality({}) = 0
    BY FS_EmptySet
  <2>3. \A m \in Marketplaces : /\ counters[m].requests = 0
                               /\ counters[m].successes = 0 /\ counters[m].failures = 0
    OBVIOUS
  <2> HIDE DEF Init
  <2> QED
    BY <2>1, <2>2, <2>3 DEF Balance
<1> QED
  BY <1>1, <1>3, <1>4, <1>5, <1>6 DEF Kept

\* The request ends and gives back what it holds.
LEMMA Ends ==
  ASSUME Kept, NEW r \in Requests, NEW given \in SUBSET Pools,
         \A p \in Pools : p \in given <=> r \in Holders(p),
         \A p \in Pools : r \notin Waits(p),
         pc[r] \in Moving, pc[r] # "pacing",
         Fail(r, given) \/ Succeed(r, given),
         UNCHANGED <<aborted, cool, quiet, server>>
  PROVE  Kept'
<1>1. /\ MoveOn(r, "done", given) /\ turns' = turns /\ path' = path
      /\ CountFailure(MarketOf[r]) \/ CountSuccess(MarketOf[r])
  BY DEF Fail, Succeed
<1>2. /\ Books' /\ pc' \in [Requests -> States] /\ pc'[r] = "done" /\ Others(r)
      /\ pools' \in [Pools -> [active : Nat, waiters : Seq(Requests)]]
  BY <1>1, MoveOnKeeps DEF Kept
<1>3. Turns'
  BY <1>1, <1>2, TurnsKept DEF Kept
<1>4. Heeded'
  BY <1>2, HeededKept DEF Kept
<1>5. Balance'
  BY <1>1, <1>2, BalanceEnds DEF Kept
<1>6. counters' \in Counters
  BY <1>1, MarketsAssumption, CountSuccessDoes, CountFailureDoes DEF Kept
<1>7. Types'
  BY <1>1, <1>2, <1>6 DEF Kept, Types, States, Counters
<1> QED
  BY <1>2, <1>3, <1>4, <1>5, <1>7 DEF Kept

\* The request gives back its permit and paces again.
LEMMA FallsBack ==
  ASSUME Kept, NEW r \in Requests, NEW given \in SUBSET Pools,
         \A p \in Pools : p \in given <=> r \in Holders(p),
         \A p \in Pools : r \notin Waits(p),
         pc[r] \in Moving, pc[r] # "pacing",
         NEW found, FallBack(r, given, found),
         UNCHANGED <<aborted, cool, quiet, server>>
  PROVE  Kept'
<1>1. /\ MoveOn(r, "pacing", given) /\ JoinTurns(r) /\ counters' = counters
      /\ path' = [path EXCEPT ![r] = "browser"]
  BY DEF FallBack
<1>2. /\ Books' /\ pc' \in [Requests -> States] /\ pc'[r] = "pacing" /\ Others(r)
      /\ pools' \in [Pools -> [active : Nat, waiters : Seq(Requests)]]
  BY <1>1, MoveOnKeeps DEF Kept
<1>3. Turns' /\ turns' \in [Marketplaces -> Seq(Requests)]
  BY <1>1, <1>2, TurnsJoined DEF Kept
<1>4. Heeded'
  BY <1>2, HeededKept DEF Kept
<1>5. Balance'
  <2>1. pc'[r] \in Moving
    BY <1>2 DEF Moving, Awaiting
  <2> QED
    BY <1>1, <1>2, <2>1, BalanceMoves DEF Kept
<1>6. Types'
  BY <1>1, <1>2, <1>3 DEF Kept, Types, States
<1> QED
  BY <1>2, <1>3, <1>4, <1>5, <1>6 DEF Kept

\* A request that moves on and neither takes nor gives back a permit.
LEMMA StandsStill ==
  ASSUME Types, Books, NEW r \in Requests, NEW where \in States,
         \/ {pc[r], where} \subseteq {"new", "pacing", "paced"}
         \/ {pc[r], where} \subseteq {"gotMarket", "fetching"}
         \/ {pc[r], where} \subseteq {"gotBrowser", "opening", "browsing"},
         pc' = [pc EXCEPT ![r] = where], pools' = pools
  PROVE  /\ Books' /\ pc' \in [Requests -> States] /\ pc'[r] = where /\ Others(r)
<1>1. /\ pc' \in [Requests -> States] /\ pc'[r] = where
      /\ \A q \in Requests : q # r => pc'[q] = pc[q]
  BY DEF Types, States
<1>2. ASSUME NEW p \in Pools PROVE Holders(p)' = Holders(p) /\ Waits(p)' = Waits(p)
  <2>1. \A q \in Requests : q \in Holders(p)' <=> q \in Holders(p)
    BY <1>1 DEF Holders
  <2>2. \A q \in Requests : q \in Waits(p)' <=> q \in Waits(p)
    BY <1>1 DEF Waits
  <2> QED
    BY <2>1, <2>2 DEF Holders, Waits
<1> QED
  BY <1>1, <1>2 DEF Books, Others, Limit

LEMMA ArriveStep ==
  ASSUME Kept, NEW r \in Requests, Arrive(r)
  PROVE  Kept'
<1>1. /\ pc[r] = "new" /\ pc' = [pc EXCEPT ![r] = "pacing"] /\ pools' = pools
      /\ CountRequest(MarketOf[r]) /\ JoinTurns(r)
      /\ UNCHANGED <<path, aborted, cool, quiet, server>>
  BY DEF Arrive
<1>2. Books' /\ pc' \in [Requests -> States] /\ pc'[r] = "pacing" /\ Others(r)
  BY <1>1, StandsStill DEF Kept, States, Awaiting
<1>3. Turns' /\ turns' \in [Marketplaces -> Seq(Requests)]
  BY <1>1, <1>2, TurnsJoined DEF Kept
<1>4. Heeded'
  BY <1>1, <1>2, HeededKept DEF Kept
<1>5. Balance'
  <2>1. pc'[r] \in Moving
    BY <1>2 DEF Moving, Awaiting
  <2> QED
    BY <1>1, <1>2, <2>1, BalanceArrives DEF Kept
<1>6. counters' \in Counters
  BY <1>1, MarketsAssumption, CountRequestDoes DEF Kept
<1>7. Types'
  BY <1>1, <1>2, <1>3, <1>6 DEF Kept, Types, States, Counters
<1> QED
  BY <1>2, <1>3, <1>4, <1>5, <1>7 DEF Kept

LEMMA PaceTurnStep ==
  ASSUME Kept, NEW r \in Requests, PaceTurn(r)
  PROVE  Kept'
<1> DEFINE m == MarketOf[r]
<1>1. /\ pc[r] = "pacing" /\ pc' = [pc EXCEPT ![r] = "paced"] /\ pools' = pools
      /\ Head(turns[m]) = r /\ turns' = [turns EXCEPT ![m] = Tail(turns[m])]
      /\ UNCHANGED <<path, aborted, quiet, counters, server>>
  BY DEF PaceTurn
<1>2. Books' /\ pc' \in [Requests -> States] /\ pc'[r] = "paced" /\ Others(r)
  BY <1>1, StandsStill DEF Kept, States, Resumed
<1>3. m \in Marketplaces
  BY MarketsAssumption
<1>4. cool' \in [Marketplaces -> 0..(Interval + Jitter)]
  <2>1. PICK extra \in 0..Jitter : cool' = [cool EXCEPT ![m] = Interval + extra]
    BY DEF PaceTurn
  <2>2. Interval + extra \in 0..(Interval + Jitter)
    BY PacingAssumption
  <2> QED
    BY <2>1, <2>2 DEF Kept, Types
<1>5. ASSUME NEW n \in Marketplaces PROVE Queued(turns'[n], Paces(n)')
  <2>1. Queued(turns[n], Paces(n))
    BY DEF Kept, Turns
  <2>2. CASE n = m
    <3>1. r \in Paces(m)
      BY <1>1 DEF Paces
    <3>2. turns[m] # <<>>
      BY <2>1, <2>2, <3>1 DEF Queued, Elements
    <3>3. Queued(Tail(turns[m]), Paces(m) \ {r})
      BY <1>1, <2>1, <2>2, <3>2, TailQueued
    <3>4. Paces(m)' = Paces(m) \ {r}
      BY <1>2, <1>3, OthersStay
    <3>5. turns'[m] = Tail(turns[m])
      BY <1>1, <1>3 DEF Kept, Types
    <3> QED
      BY <2>2, <3>3, <3>4, <3>5
  <2>3. CASE n # m
    <3>1. Paces(n)' = Paces(n)
      BY <1>2, <2>3, OthersStay DEF Paces
    <3>2. turns'[n] = turns[n]
      BY <1>1, <2>3 DEF Kept, Types
    <3> QED
      BY <2>1, <3>1, <3>2
  <2> QED
    BY <2>2, <2>3
<1>6. Turns' /\ turns' \in [Marketplaces -> Seq(Requests)]
  BY <1>1, <1>5 DEF Turns, Queued, Kept, Types
<1>7. Heeded'
  BY <1>1, <1>2, HeededKept DEF Kept
<1>8. Balance'
  <2>1. pc[r] \in Moving /\ pc'[r] \in Moving
    BY <1>1, <1>2 DEF Moving, Awaiting, Resumed
  <2> QED
    BY <1>1, <1>2, <2>1, BalanceMoves DEF Kept
<1>9. Types'
  BY <1>1, <1>2, <1>4, <1>6 DEF Kept, Types, States
<1> QED
  BY <1>2, <1>6, <1>7, <1>8, <1>9 DEF Kept

\* A request that got a permit starts what the permit is for.
LEMMA GetsGoing ==
  ASSUME Kept, NEW r \in Requests, NEW where \in States,
         \/ pc[r] = "gotMarket" /\ where = "fetching"
         \/ pc[r] = "gotBrowser" /\ where = "opening"
         \/ pc[r] = "opening" /\ where = "browsing",
         pc' = [pc EXCEPT ![r] = where],
         UNCHANGED <<path, aborted, pools, turns, cool, counters, server>>,
         quiet' = quiet \/ Starts(r)
  PROVE  Kept'
<1>1. Books' /\ pc' \in [Requests -> States] /\ pc'[r] = where /\ Others(r)
  BY StandsStill DEF Kept
<1>2. Turns'
  BY <1>1, TurnsKept DEF Kept
<1>3. Heeded'
  BY <1>1, HeededKept DEF Kept
<1>4. Balance'
  BY <1>1, BalanceMoves DEF Kept, Moving, Awaiting, Resumed
<1>5. quiet' \in [Marketplaces -> 0..MaxQuiet]
  <2>1. quiet \in [Marketplaces -> 0..MaxQuiet] /\ 0 \in 0..MaxQuiet
    BY QuietAssumption DEF Kept, Types
  <2>2. CASE Starts(r)
    BY <2>1, <2>2 DEF Starts
  <2>3. CASE quiet' = quiet
    BY <2>1, <2>3
  <2> QED
    BY <2>2, <2>3
<1>6. Types'
  BY <1>1, <1>5 DEF Kept, Types, States
<1> QED
  BY <1>1, <1>2, <1>3, <1>4, <1>6 DEF Kept

LEMMA FetchSucceedsStep ==
  ASSUME Kept, NEW r \in Requests, FetchSucceeds(r)
  PROVE  Kept'
<1> DEFINE given == {MarketOf[r]}
<1>1. pc[r] = "fetching" /\ UNCHANGED <<aborted, cool, quiet, server>>
  BY DEF FetchSucceeds
<1>2. /\ given \in SUBSET Pools
      /\ \A p \in Pools : p \in given <=> r \in Holders(p)
      /\ \A p \in Pools : r \notin Waits(p)
  BY <1>1, MarketsAssumption DEF Pools, Holders, Waits
<1>3. pc[r] \in Moving /\ pc[r] # "pacing"
  BY <1>1 DEF Moving, Awaiting
<1>4. PICK found \in Parsed[MarketOf[r]] : Succeed(r, given) \/ FallBack(r, given, found)
  BY DEF FetchSucceeds
<1>5. CASE Succeed(r, given)
  BY <1>1, <1>2, <1>3, <1>5, Ends
<1>6. CASE FallBack(r, given, found)
  BY <1>1, <1>2, <1>3, <1>6, FallsBack
<1> QED
  BY <1>4, <1>5, <1>6

LEMMA FetchFailsStep ==
  ASSUME Kept, NEW r \in Requests, FetchFails(r)
  PROVE  Kept'
<1> DEFINE given == {MarketOf[r]}
<1>1. pc[r] = "fetching" /\ UNCHANGED <<aborted, cool, quiet, server>>
  BY DEF FetchFails
<1>2. /\ given \in SUBSET Pools
      /\ \A p \in Pools : p \in given <=> r \in Holders(p)
      /\ \A p \in Pools : r \notin Waits(p)
  BY <1>1, MarketsAssumption DEF Pools, Holders, Waits
<1>3. pc[r] \in Moving /\ pc[r] # "pacing"
  BY <1>1 DEF Moving, Awaiting
<1>4. Fail(r, given) \/ FallBack(r, given, <<>>)
  BY DEF FetchFails
<1>5. CASE Fail(r, given)
  BY <1>1, <1>2, <1>3, <1>5, Ends
<1>6. CASE FallBack(r, given, <<>>)
  BY <1>1, <1>2, <1>3, <1>6, FallsBack
<1> QED
  BY <1>4, <1>5, <1>6

\* Both ways a page ends.
LEMMA BrowserEndsStep ==
  ASSUME Kept, NEW r \in Requests, BrowserFails(r) \/ BrowserSucceeds(r)
  PROVE  Kept'
<1> DEFINE given == {"browser", MarketOf[r]}
<1>1. pc[r] \in {"opening", "browsing"} /\ UNCHANGED <<aborted, cool, quiet, server>>
  BY DEF BrowserFails, BrowserSucceeds
<1>2. /\ given \in SUBSET Pools
      /\ \A p \in Pools : p \in given <=> r \in Holders(p)
      /\ \A p \in Pools : r \notin Waits(p)
  BY <1>1, MarketsAssumption DEF Pools, Holders, Waits
<1>3. pc[r] \in Moving /\ pc[r] # "pacing"
  BY <1>1 DEF Moving, Awaiting
<1>4. Fail(r, given) \/ Succeed(r, given)
  BY DEF BrowserFails, BrowserSucceeds
<1> QED
  BY <1>1, <1>2, <1>3, <1>4, Ends

\* A free permit is taken by a request that neither has nor awaits one.
LEMMA Takes ==
  ASSUME Kept, NEW r \in Requests, NEW p \in Pools, NEW got,
         \/ pc[r] = "paced" /\ p = MarketOf[r] /\ got = "gotMarket"
         \/ pc[r] = "gotMarket" /\ p = "browser" /\ got = "gotBrowser",
         r \notin aborted, HasFree(pools[p], Limit(p)),
         pools' = [pools EXCEPT ![p] = Take(pools[p])],
         pc' = [pc EXCEPT ![r] = got],
         UNCHANGED <<path, turns, counters, aborted, cool, quiet, server>>
  PROVE  Kept'
<1>1. /\ pc' \in [Requests -> States] /\ pc'[r] = got
      /\ \A q \in Requests : q # r => pc'[q] = pc[q]
  BY DEF Kept, Types, States, Resumed
<1>2. Others(r)
  BY <1>1 DEF Others
<1>3. r \notin Holders(p) /\ Waits(p) \subseteq Requests /\ r \notin Waits(p)
  BY MarketsAssumption DEF Holders, Waits
<1>4. ASSUME NEW x \in Pools
      PROVE  /\ Holders(x)' = IF x = p THEN Holders(x) \cup {r} ELSE Holders(x)
             /\ Waits(x)' = Waits(x)
  <2>1. \A q \in Requests : q # r => /\ q \in Holders(x)' <=> q \in Holders(x)
                                     /\ q \in Waits(x)' <=> q \in Waits(x)
    BY <1>1 DEF Holders, Waits
  <2>2. r \in Holders(x)' <=> x = p \/ r \in Holders(x)
    BY <1>1, MarketsAssumption DEF Holders
  <2>3. r \notin Waits(x)' /\ r \notin Waits(x)
    BY <1>1, MarketsAssumption DEF Waits
  <2> QED
    BY <2>1, <2>2, <2>3 DEF Holders, Waits
<1>5. ASSUME NEW x \in Pools
      PROVE  PoolOk(pools'[x], Limit(x), Holders(x)', Waits(x)')
  <2>1. PoolOk(pools[x], Limit(x), Holders(x), Waits(x)) /\ Limit(x) \in Nat
    BY LimitType DEF Kept, Books
  <2>2. CASE x = p
    <3>1. pools'[x] = Take(pools[x])
      BY <2>2 DEF Kept, Types
    <3> QED
      BY <1>3, <1>4, <2>1, <2>2, <3>1, TakeOk
  <2>3. CASE x # p
    <3>1. pools'[x] = pools[x]
      BY <2>3 DEF Kept, Types
    <3> QED
      BY <1>4, <2>1, <2>3, <3>1
  <2> QED
    BY <2>2, <2>3
<1>6. Books' /\ pools' \in [Pools -> [active : Nat, waiters : Seq(Requests)]]
  <2>1. pools' = [x \in Pools |-> pools'[x]]
    BY DEF Kept, Types
  <2>2. \A x \in Pools : pools'[x] \in [active : Nat, waiters : Seq(Requests)]
    BY <1>5 DEF PoolOk
  <2> QED
    BY <1>5, <2>1, <2>2 DEF Books, Limit
<1>7. Turns'
  BY <1>1, <1>2, TurnsKept DEF Kept
<1>8. Heeded'
  BY <1>2, HeededKept DEF Kept
<1>9. Balance'
  BY <1>1, <1>2, BalanceMoves DEF Kept, Moving, Awaiting, Resumed
<1>10. Types'
  BY <1>1, <1>6 DEF Kept, Types, States
<1> QED
  BY <1>6, <1>7, <1>8, <1>9, <1>10 DEF Kept

\* With no permit free the request joins the queue.
LEMMA QueuesUp ==
  ASSUME Kept, NEW r \in Requests, NEW p \in Pools, NEW wait,
         \/ pc[r] = "paced" /\ p = MarketOf[r] /\ wait = "waitMarket"
         \/ pc[r] = "gotMarket" /\ p = "browser" /\ wait = "waitBrowser",
         r \notin aborted, ~HasFree(pools[p], Limit(p)),
         pools' = [pools EXCEPT ![p] = QueueUp(pools[p], r)],
         pc' = [pc EXCEPT ![r] = wait],
         UNCHANGED <<path, turns, counters, aborted, cool, quiet, server>>
  PROVE  Kept'
<1>1. /\ pc' \in [Requests -> States] /\ pc'[r] = wait
      /\ \A q \in Requests : q # r => pc'[q] = pc[q]
  BY DEF Kept, Types, States, Awaiting
<1>2. Others(r)
  BY <1>1 DEF Others
<1>3. r \notin Waits(p)
  BY MarketsAssumption DEF Waits
<1>4. ASSUME NEW x \in Pools
      PROVE  /\ Holders(x)' = Holders(x)
             /\ Waits(x)' = IF x = p THEN Waits(x) \cup {r} ELSE Waits(x)
  <2>1. \A q \in Requests : q # r => /\ q \in Holders(x)' <=> q \in Holders(x)
                                     /\ q \in Waits(x)' <=> q \in Waits(x)
    BY <1>1 DEF Holders, Waits
  <2>2. r \in Holders(x)' <=> r \in Holders(x)
    BY <1>1, MarketsAssumption DEF Holders
  <2>3. r \notin Waits(x) /\ (r \in Waits(x)' <=> x = p)
    BY <1>1, MarketsAssumption DEF Waits
  <2> QED
    BY <2>1, <2>2, <2>3 DEF Holders, Waits
<1>5. ASSUME NEW x \in Pools
      PROVE  PoolOk(pools'[x], Limit(x), Holders(x)', Waits(x)')
  <2>1. PoolOk(pools[x], Limit(x), Holders(x), Waits(x)) /\ Limit(x) \in Nat
    BY LimitType DEF Kept, Books
  <2>2. CASE x = p
    <3>1. pools'[x] = QueueUp(pools[x], r)
      BY <2>2 DEF Kept, Types
    <3> QED
      BY <1>3, <1>4, <2>1, <2>2, <3>1, QueueUpOk
  <2>3. CASE x # p
    <3>1. pools'[x] = pools[x]
      BY <2>3 DEF Kept, Types
    <3> QED
      BY <1>4, <2>1, <2>3, <3>1
  <2> QED
    BY <2>2, <2>3
<1>6. Books' /\ pools' \in [Pools -> [active : Nat, waiters : Seq(Requests)]]
  <2>1. pools' = [x \in Pools |-> pools'[x]]
    BY DEF Kept, Types
  <2>2. \A x \in Pools : pools'[x] \in [active : Nat, waiters : Seq(Requests)]
    BY <1>5 DEF PoolOk
  <2> QED
    BY <1>5, <2>1, <2>2 DEF Books, Limit
<1>7. Turns'
  BY <1>1, <1>2, TurnsKept DEF Kept
<1>8. Heeded'
  BY <1>2, HeededKept DEF Kept
<1>9. Balance'
  BY <1>1, <1>2, BalanceMoves DEF Kept, Moving, Awaiting, Resumed
<1>10. Types'
  BY <1>1, <1>6 DEF Kept, Types, States
<1> QED
  BY <1>6, <1>7, <1>8, <1>9, <1>10 DEF Kept

LEMMA AcquireMarketStep ==
  ASSUME Kept, NEW r \in Requests, AcquireMarket(r)
  PROVE  Kept'
<1> DEFINE p == MarketOf[r]
<1>1. /\ pc[r] = "paced" /\ Acquire(r, p, "gotMarket", "waitMarket", {})
      /\ UNCHANGED <<aborted, cool, quiet, server>>
  BY DEF AcquireMarket
<1>2. p \in Pools
  BY MarketsAssumption DEF Pools
<1>3. CASE r \in aborted
  <2>1. Fail(r, {})
    BY <1>1, <1>3 DEF Acquire
  <2>2. {} \in SUBSET Pools /\ \A x \in Pools : r \notin Holders(x) /\ r \notin Waits(x)
    BY <1>1 DEF Holders, Waits
  <2>3. pc[r] \in Moving /\ pc[r] # "pacing"
    BY <1>1 DEF Moving, Resumed
  <2> QED
    BY <1>1, <2>1, <2>2, <2>3, Ends
<1>4. CASE r \notin aborted /\ HasFree(pools[p], Limit(p))
  <2>1. /\ pools' = [pools EXCEPT ![p] = Take(pools[p])] /\ pc' = [pc EXCEPT ![r] = "gotMarket"]
        /\ UNCHANGED <<path, turns, counters>>
    BY <1>1, <1>4 DEF Acquire
  <2> QED
    BY <1>1, <1>2, <1>4, <2>1, Takes
<1>5. CASE r \notin aborted /\ ~HasFree(pools[p], Limit(p))
  <2>1. /\ pools' = [pools EXCEPT ![p] = QueueUp(pools[p], r)]
        /\ pc' = [pc EXCEPT ![r] = "waitMarket"]
        /\ UNCHANGED <<path, turns, counters>>
    BY <1>1, <1>5 DEF Acquire
  <2> QED
    BY <1>1, <1>2, <1>5, <2>1, QueuesUp
<1> QED
  BY <1>3, <1>4, <1>5

LEMMA AcquireBrowserStep ==
  ASSUME Kept, NEW r \in Requests, AcquireBrowser(r)
  PROVE  Kept'
<1> DEFINE p == "browser"
<1>1. /\ pc[r] = "gotMarket" /\ Acquire(r, p, "gotBrowser", "waitBrowser", {MarketOf[r]})
      /\ UNCHANGED <<aborted, cool, quiet, server>>
  BY DEF AcquireBrowser
<1>2. p \in Pools
  BY DEF Pools
<1>3. r \notin aborted
  BY <1>1 DEF Kept, Heeded
<1>4. CASE HasFree(pools[p], Limit(p))
  <2>1. /\ pools' = [pools EXCEPT ![p] = Take(pools[p])] /\ pc' = [pc EXCEPT ![r] = "gotBrowser"]
        /\ UNCHANGED <<path, turns, counters>>
    BY <1>1, <1>3, <1>4 DEF Acquire
  <2> QED
    BY <1>1, <1>2, <1>3, <1>4, <2>1, Takes
<1>5. CASE ~HasFree(pools[p], Limit(p))
  <2>1. /\ pools' = [pools EXCEPT ![p] = QueueUp(pools[p], r)]
        /\ pc' = [pc EXCEPT ![r] = "waitBrowser"]
        /\ UNCHANGED <<path, turns, counters>>
    BY <1>1, <1>3, <1>5 DEF Acquire
  <2> QED
    BY <1>1, <1>2, <1>3, <1>5, <2>1, QueuesUp
<1> QED
  BY <1>4, <1>5

\* A client that nobody waits for on its behalf is only remembered.
LEMMA DisconnectUnseen ==
  ASSUME Kept, NEW r \in Requests, Disconnect(r), pc[r] \notin {"waitMarket", "waitBrowser"}
  PROVE  Kept'
<1>1. /\ pc[r] \notin Resumed /\ aborted' = aborted \cup {r}
      /\ UNCHANGED <<pc, pools, counters, path, turns, cool, quiet, server>>
  BY DEF Disconnect, Quiet
<1>2. Books' /\ Turns' /\ Balance'
  BY <1>1 DEF Kept, Books, Turns, Balance, Holders, Waits, Limit, Paces, Flying, InFlight
<1>3. Heeded'
  BY <1>1 DEF Kept, Heeded, Resumed
<1>4. Types'
  BY <1>1 DEF Kept, Types
<1> QED
  BY <1>2, <1>3, <1>4 DEF Kept

\* One that waits for its marketplace leaves the queue.
LEMMA DisconnectAtMarket ==
  ASSUME Kept, NEW r \in Requests, Disconnect(r), pc[r] = "waitMarket"
  PROVE  Kept'
<1> DEFINE m == MarketOf[r]
<1>1. /\ pools' = [pools EXCEPT ![m] = StopWaiting(pools[m], r)]
      /\ pc' = [pc EXCEPT ![r] = "done"] /\ CountFailure(m) /\ aborted' = aborted \cup {r}
      /\ UNCHANGED <<path, turns, cool, quiet, server>>
  BY DEF Disconnect
<1>2. /\ pc' \in [Requests -> States] /\ pc'[r] = "done"
      /\ \A q \in Requests : q # r => pc'[q] = pc[q]
  BY <1>1 DEF Kept, Types, States
<1>3. Others(r)
  BY <1>2 DEF Others
<1>4. m \in Pools /\ m \in Marketplaces /\ m # "browser"
  BY MarketsAssumption DEF Pools
<1>5. ASSUME NEW x \in Pools
      PROVE  /\ Holders(x)' = Holders(x)
             /\ Waits(x)' = IF x = m THEN Waits(x) \ {r} ELSE Waits(x)
             /\ x = m => r \in Waits(x)
  <2>1. \A q \in Requests : q # r => /\ q \in Holders(x)' <=> q \in Holders(x)
                                     /\ q \in Waits(x)' <=> q \in Waits(x)
    BY <1>2 DEF Holders, Waits
  <2>2. r \notin Holders(x)' /\ r \notin Holders(x) /\ r \notin Waits(x)'
    BY <1>2 DEF Holders, Waits
  <2>3. r \in Waits(x) <=> x = m
    BY DEF Waits
  <2>4. Holders(x) \subseteq Requests /\ Holders(x)' \subseteq Requests
        /\ Waits(x) \subseteq Requests /\ Waits(x)' \subseteq Requests
    BY DEF Holders, Waits
  <2> QED
    BY <2>1, <2>2, <2>3, <2>4
<1>6. ASSUME NEW x \in Pools
      PROVE  PoolOk(pools'[x], Limit(x), Holders(x)', Waits(x)')
  <2>1. PoolOk(pools[x], Limit(x), Holders(x), Waits(x)) /\ Limit(x) \in Nat
    BY LimitType DEF Kept, Books
  <2>2. CASE x = m
    <3>1. pools'[x] = StopWaiting(pools[x], r)
      BY <1>1, <2>2 DEF Kept, Types
    <3> QED
      BY <1>5, <2>1, <2>2, <3>1, StopWaitingOk
  <2>3. CASE x # m
    <3>1. pools'[x] = pools[x]
      BY <1>1, <2>3 DEF Kept, Types
    <3> QED
      BY <1>5, <2>1, <2>3, <3>1
  <2> QED
    BY <2>2, <2>3
<1>7. Books' /\ pools' \in [Pools -> [active : Nat, waiters : Seq(Requests)]]
  <2>1. pools' = [x \in Pools |-> pools'[x]]
    BY <1>1 DEF Kept, Types
  <2>2. \A x \in Pools : pools'[x] \in [active : Nat, waiters : Seq(Requests)]
    BY <1>6 DEF PoolOk
  <2> QED
    BY <1>6, <2>1, <2>2 DEF Books, Limit
<1>8. Turns'
  BY <1>1, <1>2, <1>3, TurnsKept DEF Kept
<1>9. Heeded'
  BY <1>1, <1>2, <1>3, HeededKept DEF Kept
<1>10. Balance'
  <2>1. pc[r] \in Moving
    BY DEF Moving, Awaiting
  <2> QED
    BY <1>1, <1>2, <1>3, <2>1, BalanceEnds DEF Kept
<1>11. counters' \in Counters
  BY <1>1, <1>4, CountFailureDoes DEF Kept
<1>12. Types'
  BY <1>1, <1>2, <1>7, <1>11 DEF Kept, Types, States, Counters
<1> QED
  BY <1>7, <1>8, <1>9, <1>10, <1>12 DEF Kept

\* One that waits for the browser leaves that queue and gives back its
\* marketplace permit.
LEMMA DisconnectAtBrowser ==
  ASSUME Kept, NEW r \in Requests, Disconnect(r), pc[r] = "waitBrowser"
  PROVE  Kept'
<1> DEFINE m == MarketOf[r]
           heirs == Heir(pools[m])
<1>1. m \in Pools /\ "browser" \in Pools /\ m \in Marketplaces /\ m # "browser"
  BY MarketsAssumption DEF Pools
<1>2. /\ pools' = [pools EXCEPT ![m] = Release(pools[m]),
                                !["browser"] = StopWaiting(pools["browser"], r)]
      /\ pc' = [q \in Requests |-> CASE q = r -> "done"
                                     [] q # r /\ q \in heirs -> "gotMarket"
                                     [] OTHER -> pc[q]]
      /\ CountFailure(m) /\ aborted' = aborted \cup {r}
      /\ UNCHANGED <<path, turns, cool, quiet, server>>
  BY <1>1 DEF Disconnect
<1>3. /\ heirs \subseteq Waits(m)
      /\ PoolOk(Release(pools[m]), Limit(m), (Holders(m) \ {r}) \cup heirs, Waits(m) \ heirs)
  <2>1. r \in Holders(m)
    BY DEF Holders
  <2> QED
    BY <1>1, <2>1, ReleaseOk, Apart, LimitType DEF Kept, Books
<1> HIDE DEF heirs
<1>4. PoolOk(StopWaiting(pools["browser"], r), Limit("browser"),
             Holders("browser"), Waits("browser") \ {r})
  <2>1. r \in Waits("browser")
    BY DEF Waits
  <2> QED
    BY <1>1, <2>1, StopWaitingOk, LimitType DEF Kept, Books
<1>5. \A q \in heirs : q \in Requests /\ MarketOf[q] = m /\ pc[q] = "waitMarket" /\ q # r
  BY <1>1, <1>3 DEF Waits
<1>6. /\ pc'[r] = "done"
      /\ \A q \in Requests : q # r => pc'[q] = IF q \in heirs THEN "gotMarket" ELSE pc[q]
  BY <1>2
<1>7. Others(r)
  BY <1>5, <1>6 DEF Others
<1>8. pc' \in [Requests -> States]
  <2>1. pc' = [q \in Requests |-> pc'[q]]
    BY <1>2
  <2>2. \A q \in Requests : pc'[q] \in States
    BY <1>6 DEF Kept, Types, States, Resumed
  <2> QED
    BY <2>1, <2>2
<1>9. ASSUME NEW x \in Pools
      PROVE  /\ Holders(x)' = IF x = m THEN (Holders(x) \ {r}) \cup heirs ELSE Holders(x)
             /\ Waits(x)' = IF x = m THEN Waits(x) \ heirs
                            ELSE IF x = "browser" THEN Waits(x) \ {r} ELSE Waits(x)
  <2>1. \A q \in Requests : q \in heirs =>
          /\ q \in Holders(x)' <=> x = m
          /\ q \notin Holders(x) /\ q \notin Waits(x)'
          /\ q \in Waits(x) => x = m
    BY <1>1, <1>5, <1>6 DEF Holders, Waits
  <2>2. \A q \in Requests : q # r /\ q \notin heirs => /\ q \in Holders(x)' <=> q \in Holders(x)
                                                       /\ q \in Waits(x)' <=> q \in Waits(x)
    BY <1>6 DEF Holders, Waits
  <2>3. /\ r \notin Holders(x)' /\ r \notin Waits(x)' /\ r \notin heirs
        /\ r \in Holders(x) <=> x = m
        /\ r \in Waits(x) <=> x = "browser"
    BY <1>1, <1>5, <1>6 DEF Holders, Waits
  <2>4. /\ Holders(x) \subseteq Requests /\ Holders(x)' \subseteq Requests
        /\ Waits(x) \subseteq Requests /\ Waits(x)' \subseteq Requests
        /\ heirs \subseteq Requests
    BY <1>5 DEF Holders, Waits
  <2>5. \A q \in Requests :
          q \in Holders(x)' <=> q \in IF x = m THEN (Holders(x) \ {r}) \cup heirs ELSE Holders(x)
    BY <2>1, <2>2, <2>3
  <2>6. \A q \in Requests :
          q \in Waits(x)' <=> q \in IF x = m THEN Waits(x) \ heirs
                                    ELSE IF x = "browser" THEN Waits(x) \ {r} ELSE Waits(x)
    BY <1>1, <2>1, <2>2, <2>3
  <2> QED
    BY <2>4, <2>5, <2>6
<1>10. ASSUME NEW x \in Pools
       PROVE  PoolOk(pools'[x], Limit(x), Holders(x)', Waits(x)')
  <2>1. CASE x = m
    <3>1. pools'[x] = Release(pools[m])
      BY <1>1, <1>2, <2>1 DEF Kept, Types
    <3> QED
      BY <1>3, <1>9, <2>1, <3>1
  <2>2. CASE x = "browser"
    <3>1. pools'[x] = StopWaiting(pools["browser"], r)
      BY <1>1, <1>2, <2>2 DEF Kept, Types
    <3> QED
      BY <1>1, <1>4, <1>9, <2>2, <3>1
  <2>3. CASE x # m /\ x # "browser"
    <3>1. pools'[x] = pools[x]
      BY <1>2, <2>3 DEF Kept, Types
    <3> QED
      BY <1>9, <2>3, <3>1 DEF Kept, Books
  <2> QED
    BY <2>1, <2>2, <2>3
<1>11. Books' /\ pools' \in [Pools -> [active : Nat, waiters : Seq(Requests)]]
  <2>1. pools' = [x \in Pools |-> pools'[x]]
    BY <1>2 DEF Kept, Types
  <2>2. \A x \in Pools : pools'[x] \in [active : Nat, waiters : Seq(Requests)]
    BY <1>10 DEF PoolOk
  <2> QED
    BY <1>10, <2>1, <2>2 DEF Books, Limit
<1>12. Turns'
  BY <1>2, <1>6, <1>7, TurnsKept DEF Kept
<1>13. Heeded'
  BY <1>2, <1>6, <1>7, HeededKept DEF Kept
<1>14. Balance'
  <2>1. pc[r] \in Moving
    BY DEF Moving, Awaiting
  <2> QED
    BY <1>2, <1>6, <1>7, <2>1, BalanceEnds DEF Kept
<1>15. counters' \in Counters
  BY <1>1, <1>2, CountFailureDoes DEF Kept
<1>16. Types'
  BY <1>2, <1>8, <1>11, <1>15 DEF Kept, Types, States, Counters
<1> QED
  BY <1>11, <1>12, <1>13, <1>14, <1>16 DEF Kept

\* A step in which no request moves.
LEMMA StillStep ==
  ASSUME Kept, UNCHANGED <<pc, path, aborted, pools, turns, counters>>,
         cool' \in [Marketplaces -> 0..(Interval + Jitter)],
         quiet' \in [Marketplaces -> 0..MaxQuiet],
         server' \in {"open", "draining", "closed"}
  PROVE  Kept'
BY DEF Kept, Types, Books, Turns, Heeded, Balance, Holders, Waits, Limit, Paces, Flying, InFlight

LEMMA TickStep ==
  ASSUME Kept, Tick
  PROVE  Kept'
<1>1. /\ cool \in [Marketplaces -> 0..(Interval + Jitter)]
      /\ quiet \in [Marketplaces -> 0..MaxQuiet]
      /\ UNCHANGED <<pc, path, aborted, pools, turns, counters, server>>
      /\ cool' = [m \in Marketplaces |-> IF cool[m] > 0 THEN cool[m] - 1 ELSE 0]
      /\ quiet' = [m \in Marketplaces |-> IF quiet[m] < MaxQuiet THEN quiet[m] + 1 ELSE MaxQuiet]
      /\ Interval \in Nat /\ Jitter \in Nat /\ MaxQuiet \in Nat
  BY PacingAssumption, QuietAssumption DEF Tick, Kept, Types
<1>2. /\ cool' \in [Marketplaces -> 0..(Interval + Jitter)]
      /\ quiet' \in [Marketplaces -> 0..MaxQuiet]
  BY <1>1
<1>3. server' \in {"open", "draining", "closed"}
  BY <1>1 DEF Kept, Types
<1> QED
  BY <1>1, <1>2, <1>3, StillStep

LEMMA KeptStep == Kept /\ [Next]_vars => Kept'
<1> SUFFICES ASSUME Kept, [Next]_vars PROVE Kept'
  OBVIOUS
<1>1. ASSUME NEW r \in Requests, Arrive(r) PROVE Kept'
  BY <1>1, ArriveStep
<1>2. ASSUME NEW r \in Requests, PaceTurn(r) PROVE Kept'
  BY <1>2, PaceTurnStep
<1>3. ASSUME NEW r \in Requests, Disconnect(r) PROVE Kept'
  BY <1>3, DisconnectUnseen, DisconnectAtMarket, DisconnectAtBrowser
<1>4. ASSUME NEW r \in Requests, Finish(r) PROVE Kept'
  <2>1. ASSUME ContextOpens(r) PROVE Kept'
    <3>1. /\ pc[r] = "opening" /\ pc' = [pc EXCEPT ![r] = "browsing"] /\ Starts(r)
          /\ UNCHANGED <<path, aborted, pools, turns, cool, counters, server>>
          /\ "browsing" \in States
      BY <2>1 DEF ContextOpens, States, Awaiting
    <3> QED
      BY <3>1, GetsGoing
  <2> QED
    BY <1>4, <2>1, FetchSucceedsStep, FetchFailsStep, BrowserEndsStep DEF Finish
<1>5. ASSUME NEW r \in Requests, Continue(r) PROVE Kept'
  <2>1. ASSUME StartFetch(r) PROVE Kept'
    <3>1. /\ pc[r] = "gotMarket" /\ pc' = [pc EXCEPT ![r] = "fetching"] /\ Starts(r)
          /\ UNCHANGED <<path, aborted, pools, turns, cool, counters, server>>
          /\ "fetching" \in States
      BY <2>1 DEF StartFetch, States, Awaiting
    <3> QED
      BY <3>1, GetsGoing
  <2>2. ASSUME OpenContext(r) PROVE Kept'
    <3>1. /\ pc[r] = "gotBrowser" /\ pc' = [pc EXCEPT ![r] = "opening"] /\ quiet' = quiet
          /\ UNCHANGED <<path, aborted, pools, turns, cool, counters, server>>
          /\ "opening" \in States
      BY <2>2 DEF OpenContext, States, Awaiting
    <3> QED
      BY <3>1, GetsGoing
  <2> QED
    BY <1>5, <2>1, <2>2, AcquireMarketStep, AcquireBrowserStep DEF Continue
<1>6. CASE Tick
  BY <1>6, TickStep
<1>7. CASE Shutdown \/ CloseBrowser
  BY <1>7, StillStep DEF Shutdown, CloseBrowser, Kept, Types
<1>8. CASE UNCHANGED vars
  BY <1>8, StillStep DEF vars, Kept, Types
<1> QED
  BY <1>1, <1>2, <1>3, <1>4, <1>5, <1>6, <1>7, <1>8 DEF Next

\* The invariant that the theorems below are read off.
LEMMA AlwaysKept == Spec => []Kept
BY Start, KeptStep, PTL DEF Spec

-----------------------------------------------------------------------------
(* The theorems *)

\* Whatever requests abort, fail or inherit, in whatever order: the counter of
\* a PermitPool is the number of requests that hold one of its permits, and
\* never above the limit.
THEOREM PermitsNeverLeak == Spec => []PermitsAccounted
<1>1. Kept => PermitsAccounted
  BY DEF Kept, Books, PoolOk, PermitsAccounted
<1> QED
  BY <1>1, AlwaysKept, PTL

\* A request waits only while every permit of the pool is out.
THEOREM PermitsNeverIdle == Spec => []NoIdlePermit
<1>1. Kept => NoIdlePermit
  BY DEF Kept, Books, PoolOk, NoIdlePermit
<1> QED
  BY <1>1, AlwaysKept, PTL

\* A pool's queue holds exactly the requests that wait for it, each once, and
\* nobody whose client is gone.
THEOREM QueuesMatch == Spec => []WaitersMatch
<1>1. ASSUME Kept PROVE WaitersMatch
  <2> SUFFICES ASSUME NEW p \in Pools, NEW r \in Requests
               PROVE  LET places == {i \in DOMAIN pools[p].waiters : pools[p].waiters[i] = r}
                          waits == \/ p = MarketOf[r] /\ pc[r] = "waitMarket"
                                   \/ p = "browser" /\ pc[r] = "waitBrowser"
                      IN  /\ Cardinality(places) = (IF waits THEN 1 ELSE 0)
                          /\ waits => r \notin aborted
    BY DEF WaitersMatch
  <2> DEFINE queue == pools[p].waiters
             places == {i \in DOMAIN queue : queue[i] = r}
             waits == \/ p = MarketOf[r] /\ pc[r] = "waitMarket"
                      \/ p = "browser" /\ pc[r] = "waitBrowser"
  <2>1. waits => r \notin aborted
    BY <1>1 DEF Kept, Heeded
  <2>2. /\ \A i, k \in DOMAIN queue : queue[i] = queue[k] => i = k
        /\ waits <=> r \in Elements(queue)
    BY <1>1 DEF Kept, Books, PoolOk, Queued, Waits
  <2>3. CASE waits
    <3>1. PICK n \in DOMAIN queue : queue[n] = r
      BY <2>2, <2>3 DEF Elements
    <3>2. places = {n}
      BY <2>2, <3>1
    <3>3. Cardinality({n}) = 1
      BY FS_Singleton
    <3> QED
      BY <2>1, <2>3, <3>2, <3>3
  <2>4. CASE ~waits
    <3>1. places = {}
      BY <2>2, <2>4 DEF Elements
    <3> QED
      BY <2>4, <3>1, FS_EmptySet
  <2> QED
    BY <2>3, <2>4
<1> QED
  BY <1>1, AlwaysKept, PTL

\* Telemetry has one request more than answers and failures for each one in
\* flight: none is counted twice or not at all, however it ends.
THEOREM TelemetryAddsUp == Spec => []TelemetryBalanced
<1>1. Kept => TelemetryBalanced
  BY DEF Kept, Balance, TelemetryBalanced, Flying
<1> QED
  BY <1>1, AlwaysKept, PTL

\* When the client is gone its request begins no fetch and opens no context; it
\* only loads the page whose context was already being opened.
THEOREM OneLateLoad == Spec => AtMostOneLateLoad
<1> DEFINE Late(r) == pc'[r] = pc[r] \/ (pc[r] = "opening" /\ pc'[r] = "browsing")
           Spared == \A r \in aborted :
                       pc'[r] \in {"fetching", "opening", "browsing"} => Late(r)
<1>1. ASSUME Kept, [Next]_vars PROVE [Spared]_vars
  <2> SUFFICES ASSUME NEW q \in aborted, pc'[q] \in {"fetching", "opening", "browsing"}
               PROVE  Late(q)
    OBVIOUS
  <2>1. q \in Requests /\ pc[q] \notin {"gotMarket", "gotBrowser"}
    BY <1>1 DEF Kept, Types, Heeded
  <2>2. ASSUME NEW r \in Requests, NEW where \in {"done", "pacing"}, NEW given,
               MoveOn(r, where, given)
        PROVE  pc[q] = pc'[q]
    BY <2>1, <2>2 DEF MoveOn
  <2>3. ASSUME NEW r \in Requests, NEW where,
               where \notin {"fetching", "opening", "browsing"},
               pc' = [pc EXCEPT ![r] = where]
        PROVE  pc[q] = pc'[q]
    BY <1>1, <2>1, <2>3 DEF Kept, Types
  <2>4. ASSUME NEW r \in Requests, Arrive(r) \/ PaceTurn(r)
        PROVE  pc[q] = pc'[q]
    BY <2>3, <2>4 DEF Arrive, PaceTurn
  <2>5. ASSUME NEW r \in Requests, FetchSucceeds(r) \/ FetchFails(r)
        PROVE  pc[q] = pc'[q]
    BY <2>2, <2>5 DEF FetchSucceeds, FetchFails, Succeed, Fail, FallBack
  <2>6. ASSUME NEW r \in Requests, BrowserSucceeds(r) \/ BrowserFails(r)
        PROVE  pc[q] = pc'[q]
    BY <2>2, <2>6 DEF BrowserSucceeds, BrowserFails, Succeed, Fail
  <2>7. ASSUME NEW r \in Requests, AcquireMarket(r) \/ AcquireBrowser(r)
        PROVE  pc[q] = pc'[q]
    BY <2>2, <2>3, <2>7 DEF AcquireMarket, AcquireBrowser, Acquire, Fail
  <2>8. ASSUME NEW r \in Requests, StartFetch(r) \/ OpenContext(r)
        PROVE  pc[q] = pc'[q]
    BY <1>1, <2>1, <2>8 DEF StartFetch, OpenContext, Kept, Types
  <2>9. ASSUME NEW r \in Requests, Disconnect(r)
        PROVE  pc[q] = pc'[q]
    BY <2>1, <2>3, <2>9 DEF Disconnect
  <2>10. ASSUME NEW r \in Requests, ContextOpens(r)
         PROVE  Late(q)
    <3>1. pc[r] = "opening" /\ pc' = [pc EXCEPT ![r] = "browsing"]
      BY <2>10 DEF ContextOpens
    <3>2. pc \in [Requests -> Awaiting \cup Resumed \cup {"new", "done"}]
      BY <1>1 DEF Kept, Types
    <3>3. CASE q = r
      BY <2>1, <3>1, <3>2, <3>3
    <3>4. CASE q # r
      BY <2>1, <3>1, <3>2, <3>4
    <3> QED
      BY <3>3, <3>4
  <2>11. CASE Tick \/ Shutdown \/ CloseBrowser \/ UNCHANGED vars
    BY <2>11 DEF Tick, Shutdown, CloseBrowser, vars
  <2> QED
    BY <1>1, <2>4, <2>5, <2>6, <2>7, <2>8, <2>9, <2>10, <2>11 DEF Next, Finish, Continue
<1>2. Spec => [][Spared]_vars
  BY <1>1, AlwaysKept, PTL DEF Spec
<1> QED
  BY <1>2 DEF AtMostOneLateLoad

-----------------------------------------------------------------------------
(* Induction, and loops: what a recursive function has made after n turns *)

\* Induction: what fails somewhere, fails somewhere first.
LEMMA Least ==
  ASSUME NEW S, S \subseteq Nat, S # {}
  PROVE  \E n \in S : \A k \in S : n <= k
<1> DEFINE R == OpToRel(<, Nat)
<1>1. IsWellFoundedOn(R, Nat)
  BY NatLessThanWellFounded
<1>2. \A k, n \in Nat : k < n => <<k, n>> \in R
  BY DEF OpToRel
<1> HIDE DEF R
<1>3. PICK n \in S : \A k \in S : ~ (<<k, n>> \in R)
  BY <1>1, WFMin
<1>4. \A k \in S : ~ (k < n)
  BY <1>2, <1>3
<1>5. n \in Nat /\ \A k \in S : k \in Nat
  OBVIOUS
<1> QED
  BY <1>3, <1>4, <1>5

\* What holds at first and is kept by every turn holds after the last one.
LEMMA Induction ==
  ASSUME NEW last \in Nat, NEW Good, 0 \in Good,
         \A n \in 1..last : n - 1 \in Good => n \in Good
  PROVE  \A n \in 0..last : n \in Good
<1> DEFINE Bad == {n \in 0..last : n \notin Good}
<1>1. SUFFICES ASSUME Bad # {} PROVE FALSE
  OBVIOUS
<1>2. PICK n \in Bad : \A k \in Bad : n <= k
  <2>1. Bad \subseteq Nat
    OBVIOUS
  <2> HIDE DEF Bad
  <2> QED
    BY <1>1, <2>1, Least
<1>3. n \in 1..last /\ n - 1 \in 0..last /\ ~(n <= n - 1)
  BY <1>2
<1>4. n - 1 \in Good
  BY <1>2, <1>3
<1> QED
  BY <1>2, <1>3, <1>4

\* g[n] is what a loop has made after its n-th turn F.
IsLoop(g, last, T, first, F) ==
  /\ g \in [0..last -> T]
  /\ g = [n \in 0..last |-> IF n = 0 THEN first ELSE F[<<g[n - 1], n>>]]

\* There is such a g: what the recursive functions of Listings stand on.
LEMMA LoopExists ==
  ASSUME NEW last \in Nat, NEW T, NEW first \in T, NEW F \in [T \X (1..last) -> T]
  PROVE  \E g : IsLoop(g, last, T, first, F)
<1> DEFINE Made(g, m) == /\ g \in [0..m -> T] /\ g[0] = first
                         /\ \A n \in 1..m : g[n] = F[<<g[n - 1], n>>]
           Good == {m \in 0..last : \E g : Made(g, m)}
<1>1. 0 \in Good
  <2> DEFINE g == [n \in 0..0 |-> first]
  <2>1. g \in [0..0 -> T] /\ g[0] = first /\ 1..0 = {}
    OBVIOUS
  <2>2. Made(g, 0)
    BY <2>1
  <2> HIDE DEF Made, g
  <2>3. \E f : Made(f, 0)
    BY <2>2
  <2> QED
    BY <2>3
<1>2. ASSUME NEW m \in 1..last, m - 1 \in Good PROVE m \in Good
  <2>1. PICK g : Made(g, m - 1)
    BY <1>2
  <2> DEFINE h == [n \in 0..m |-> IF n < m THEN g[n] ELSE F[<<g[m - 1], m>>]]
  <2>2. m - 1 \in 0..(m - 1) /\ g[m - 1] \in T
    BY <2>1
  <2>3. F[<<g[m - 1], m>>] \in T
    BY <2>2
  <2>4. h \in [0..m -> T]
    <3>1. \A n \in 0..m : n < m => n \in 0..(m - 1)
      OBVIOUS
    <3> QED
      BY <2>1, <2>3, <3>1
  <2>5. h[0] = first
    BY <2>1
  <2>6. ASSUME NEW n \in 1..m PROVE h[n] = F[<<h[n - 1], n>>]
    <3>1. h[n - 1] = g[n - 1] /\ n - 1 \in 0..m
      OBVIOUS
    <3>2. CASE n = m
      BY <3>1, <3>2
    <3>3. CASE n < m
      BY <2>1, <3>1, <3>3
    <3> QED
      BY <3>2, <3>3
  <2> HIDE DEF h
  <2>7. Made(h, m)
    BY <2>4, <2>5, <2>6
  <2> QED
    BY <2>7
<1> HIDE DEF Good
<1>3. \A n \in 0..last : n \in Good
  BY <1>1, <1>2, Induction
<1>4. PICK g : Made(g, last)
  <2> HIDE DEF Made
  <2>1. last \in Good
    BY <1>3
  <2> QED
    BY <2>1 DEF Good
<1>5. ASSUME NEW n \in 0..last
      PROVE  g[n] = IF n = 0 THEN first ELSE F[<<g[n - 1], n>>]
  <2>1. n = 0 \/ (n \in 1..last /\ n # 0)
    OBVIOUS
  <2>2. g[0] = first /\ \A k \in 1..last : g[k] = F[<<g[k - 1], k>>]
    BY <1>4
  <2> QED
    BY <2>1, <2>2
<1>6. g \in [0..last -> T] /\ g = [n \in 0..last |-> g[n]]
  BY <1>4
<1>7. g = [n \in 0..last |-> IF n = 0 THEN first ELSE F[<<g[n - 1], n>>]]
  BY <1>5, <1>6
<1> HIDE DEF Made
<1> QED
  BY <1>6, <1>7 DEF IsLoop

\* dedupe's loop, turn by turn.
LEMMA DedupeLoop ==
  ASSUME NEW items \in Seq(Products), NEW limit \in Nat
  PROVE  \E out :
           /\ Dedupe(items, limit) = out[Len(items)]
           /\ out[0] = <<>>
           /\ \A n \in 1..Len(items) :
                out[n] = IF Len(out[n - 1]) >= limit \/ items[n] \in Elements(out[n - 1])
                           THEN out[n - 1] ELSE Append(out[n - 1], items[n])
<1> DEFINE last == Len(items)
           Turn(before, n) == IF Len(before) >= limit \/ items[n] \in Elements(before)
                                THEN before ELSE Append(before, items[n])
           F == [p \in Seq(Products) \X (1..last) |-> Turn(p[1], p[2])]
           Body(g) == [n \in 0..last |-> IF n = 0 THEN <<>> ELSE Turn(g[n - 1], n)]
           out == CHOOSE g : g = Body(g)
<1>1. last \in Nat /\ \A n \in 1..last : items[n] \in Products
  BY LenProperties, ElementOfSeq
<1>2. \A before \in Seq(Products), n \in 1..last : Turn(before, n) \in Seq(Products)
  BY <1>1
<1>3. <<>> \in Seq(Products)
  OBVIOUS
<1>4. Dedupe(items, limit) = out[last]
  BY DEF Dedupe, Elements
<1> HIDE DEF Turn, last
<1>5. F \in [Seq(Products) \X (1..last) -> Seq(Products)]
  BY <1>2
<1>6. \A before \in Seq(Products), n \in 1..last : F[<<before, n>>] = Turn(before, n)
  OBVIOUS
<1> HIDE DEF F
<1>7. PICK g : IsLoop(g, last, Seq(Products), <<>>, F)
  BY <1>1, <1>3, <1>5, LoopExists
<1>8. g = Body(g)
  <2>1. \A n \in 0..last : n # 0 => n \in 1..last /\ n - 1 \in 0..last
    BY <1>1
  <2>2. \A n \in 0..last : n # 0 => F[<<g[n - 1], n>>] = Turn(g[n - 1], n)
    BY <1>6, <1>7, <2>1 DEF IsLoop
  <2> QED
    BY <1>7, <2>2 DEF IsLoop
<1>9. out = Body(out)
  BY <1>8
<1> HIDE DEF out
<1>10. out[0] = <<>>
  BY <1>1, <1>9
<1>11. \A n \in 1..last : out[n] = Turn(out[n - 1], n)
  BY <1>1, <1>9
<1> QED
  BY <1>4, <1>10, <1>11 DEF Turn, last

\* What the loop of dedupe has made of the first n items.
Deduped(s, items, n, limit) ==
  /\ s \in Seq(Products) /\ Len(s) <= limit
  /\ \A i \in DOMAIN s : \E p \in 1..n : items[p] = s[i]
  /\ \A i, k \in DOMAIN s : i < k =>
       \E p \in 1..n : items[p] = s[i] /\ \A q \in 1..p : items[q] # s[k]
  /\ \A k \in 1..n : items[k] \notin Elements(s) =>
       /\ Len(s) = limit
       /\ \A i \in DOMAIN s : \E p \in 1..(k - 1) : items[p] = s[i]

\* After its last turn it has made that of all items.
LEMMA DedupeDoes ==
  ASSUME NEW items \in Seq(Products), NEW limit \in Nat
  PROVE  Deduped(Dedupe(items, limit), items, Len(items), limit)
<1> DEFINE last == Len(items)
<1>1. last \in Nat /\ \A n \in 1..last : items[n] \in Products
  BY LenProperties, ElementOfSeq
<1>2. PICK out :
        /\ Dedupe(items, limit) = out[last]
        /\ out[0] = <<>>
        /\ \A n \in 1..last :
             out[n] = IF Len(out[n - 1]) >= limit \/ items[n] \in Elements(out[n - 1])
                        THEN out[n - 1] ELSE Append(out[n - 1], items[n])
  BY DedupeLoop
<1> DEFINE Good == {n \in 0..last : Deduped(out[n], items, n, limit)}
<1>3. 0 \in Good
  <2>1. Deduped(<<>>, items, 0, limit)
    BY DEF Deduped
  <2> QED
    BY <1>1, <1>2, <2>1
<1>4. ASSUME NEW n \in 1..last, n - 1 \in Good PROVE n \in Good
  <2> HIDE DEF last
  <2>0. PICK s, x : s = out[n - 1] /\ x = items[n]
    OBVIOUS
  <2>1. Deduped(s, items, n - 1, limit)
    BY <1>4, <2>0
  <2>2. s \in Seq(Products) /\ Len(s) \in Nat /\ DOMAIN s = 1..Len(s) /\ x \in Products
    BY <1>1, <2>0, <2>1, LenProperties DEF Deduped
  <2>3. 1..(n - 1) \subseteq 1..n /\ \A k \in 1..n : k \in 1..(n - 1) \/ k = n
    OBVIOUS
  <2>4. CASE Len(s) >= limit \/ x \in Elements(s)
    <3>1. out[n] = s
      BY <1>2, <2>0, <2>4
    <3>2. ASSUME NEW k \in 1..n, items[k] \notin Elements(s)
          PROVE  Len(s) = limit /\ \A i \in DOMAIN s : \E p \in 1..(k - 1) : items[p] = s[i]
      <4>1. CASE k \in 1..(n - 1)
        BY <2>1, <3>2, <4>1 DEF Deduped
      <4>2. CASE k = n
        <5>1. Len(s) = limit
          <6>1. x \notin Elements(s)
            BY <2>0, <3>2, <4>2
          <6>2. Len(s) <= limit
            BY <2>1 DEF Deduped
          <6>3. Len(s) >= limit
            BY <2>4, <6>1
          <6>4. Len(s) \in Nat
            BY <2>2
          <6> QED
            BY <6>2, <6>3, <6>4
        <5> QED
          BY <2>1, <4>2, <5>1 DEF Deduped
      <4> QED
        BY <2>3, <4>1, <4>2
    <3>3. Deduped(s, items, n, limit)
      BY <2>1, <2>3, <3>2 DEF Deduped
    <3> QED
      BY <3>1, <3>3 DEF Good
  <2>5. CASE Len(s) < limit /\ x \notin Elements(s)
    <3> DEFINE t == Append(s, x)
    <3>1. out[n] = t
      <4>1. ~(Len(s) >= limit \/ x \in Elements(s))
        BY <2>2, <2>5
      <4>2. out[n] = IF Len(s) >= limit \/ x \in Elements(s) THEN s ELSE t
        BY <1>2, <2>0
      <4> QED
        BY <4>1, <4>2
    <3>2. /\ t \in Seq(Products) /\ Len(t) = Len(s) + 1 /\ DOMAIN t = 1..(Len(s) + 1)
          /\ \A i \in DOMAIN t : (i \in DOMAIN s /\ t[i] = s[i]) \/ (i = Len(s) + 1 /\ t[i] = x)
      BY <2>2
    <3>3. \A k \in 1..(n - 1) : items[k] \in Elements(s)
      BY <2>1, <2>2, <2>5 DEF Deduped
    <3>4. \A k \in 1..n : items[k] \in Elements(t)
      <4>1. \A i \in DOMAIN s : i \in DOMAIN t /\ t[i] = s[i]
        BY <2>2, <3>2
      <4>2. Len(s) + 1 \in DOMAIN t /\ t[Len(s) + 1] = x
        BY <2>2, <3>2
      <4> HIDE DEF t
      <4>3. Elements(s) \subseteq Elements(t) /\ x \in Elements(t)
        BY <4>1, <4>2 DEF Elements
      <4> QED
        BY <2>0, <2>3, <3>3, <4>3
    <3> HIDE DEF t
    <3>5. \A i \in DOMAIN t : \E p \in 1..n : items[p] = t[i]
      BY <2>0, <2>1, <2>3, <3>2 DEF Deduped
    <3>6. ASSUME NEW i \in DOMAIN t, NEW k \in DOMAIN t, i < k
          PROVE  \E p \in 1..n : items[p] = t[i] /\ \A q \in 1..p : items[q] # t[k]
      <4>1. i \in DOMAIN s /\ t[i] = s[i]
        BY <2>2, <3>2, <3>6
      <4>2. CASE k \in DOMAIN s /\ t[k] = s[k]
        BY <2>1, <2>3, <3>6, <4>1, <4>2 DEF Deduped
      <4>3. CASE t[k] = x
        <5>1. PICK p \in 1..(n - 1) : items[p] = s[i]
          BY <2>1, <4>1 DEF Deduped
        <5>2. \A q \in 1..p : q \in 1..(n - 1)
          OBVIOUS
        <5> QED
          BY <2>3, <2>5, <3>3, <4>1, <4>3, <5>1, <5>2
      <4> QED
        BY <3>2, <4>2, <4>3
    <3>7. Len(t) <= limit
      BY <2>2, <2>5, <3>2
    <3>8. Deduped(t, items, n, limit)
      BY <3>2, <3>4, <3>5, <3>6, <3>7 DEF Deduped
    <3> QED
      BY <3>1, <3>8 DEF Good
  <2> QED
    BY <2>2, <2>4, <2>5
<1> HIDE DEF Good, last
<1>5. last \in Good
  <2>1. \A n \in 0..last : n \in Good
    BY <1>1, <1>3, <1>4, Induction
  <2> QED
    BY <1>1, <2>1
<1> QED
  BY <1>2, <1>5 DEF Good, last

\* The cards of a page.
LEMMA CardsTyped ==
  ASSUME NEW cards \in Seq(Card)
  PROVE  /\ Len(cards) \in Nat /\ DOMAIN cards = 1..Len(cards)
         /\ \A n \in 1..Len(cards) : cards[n] \in Card /\ cards[n].id \in Products
<1>1. Len(cards) \in Nat /\ DOMAIN cards = 1..Len(cards)
  BY LenProperties
<1>2. \A n \in 1..Len(cards) : cards[n] \in Card
  BY ElementOfSeq
<1>3. \A card \in Card : card.id \in Products
  BY DEF Card
<1> QED
  BY <1>1, <1>2, <1>3

\* The loop over cards, turn by turn.
LEMMA FirstWholeLoop ==
  ASSUME NEW cards \in Seq(Card), NEW limit \in Nat
  PROVE  \E out :
           /\ FirstWhole(cards, limit) = out[Len(cards)]
           /\ out[0] = <<>>
           /\ \A n \in 1..Len(cards) :
                out[n] = IF Len(out[n - 1]) >= limit \/ ~cards[n].whole
                           THEN out[n - 1] ELSE Append(out[n - 1], cards[n].id)
<1> DEFINE last == Len(cards)
           Turn(before, n) == IF Len(before) >= limit \/ ~cards[n].whole
                                THEN before ELSE Append(before, cards[n].id)
           F == [p \in Seq(Products) \X (1..last) |-> Turn(p[1], p[2])]
           Body(g) == [n \in 0..last |-> IF n = 0 THEN <<>> ELSE Turn(g[n - 1], n)]
           out == CHOOSE g : g = Body(g)
<1>1. last \in Nat /\ \A n \in 1..last : cards[n].id \in Products
  BY CardsTyped
<1>2. \A before \in Seq(Products), n \in 1..last : Turn(before, n) \in Seq(Products)
  BY <1>1
<1>3. <<>> \in Seq(Products)
  OBVIOUS
<1>4. FirstWhole(cards, limit) = out[last]
  BY DEF FirstWhole
<1> HIDE DEF Turn, last
<1>5. F \in [Seq(Products) \X (1..last) -> Seq(Products)]
  BY <1>2
<1>6. \A before \in Seq(Products), n \in 1..last : F[<<before, n>>] = Turn(before, n)
  OBVIOUS
<1> HIDE DEF F
<1>7. PICK g : IsLoop(g, last, Seq(Products), <<>>, F)
  BY <1>1, <1>3, <1>5, LoopExists
<1>8. g = Body(g)
  <2>1. \A n \in 0..last : n # 0 => n \in 1..last /\ n - 1 \in 0..last
    BY <1>1
  <2>2. \A n \in 0..last : n # 0 => F[<<g[n - 1], n>>] = Turn(g[n - 1], n)
    BY <1>6, <1>7, <2>1 DEF IsLoop
  <2> QED
    BY <1>7, <2>2 DEF IsLoop
<1>9. out = Body(out)
  BY <1>8
<1> HIDE DEF out
<1>10. out[0] = <<>>
  BY <1>1, <1>9
<1>11. \A n \in 1..last : out[n] = Turn(out[n - 1], n)
  BY <1>1, <1>9
<1> QED
  BY <1>4, <1>10, <1>11 DEF Turn, last

\* What the loop over cards has made of the first n of them.
Picked(s, cards, n, limit) ==
  /\ s \in Seq(Products) /\ Len(s) <= limit
  /\ \A i \in DOMAIN s : \E p \in 1..n :
       /\ cards[p].whole /\ cards[p].id = s[i]
       /\ \A q \in 1..(p - 1) : cards[q].whole => \E m \in 1..(i - 1) : s[m] = cards[q].id
  /\ Len(s) < limit => \A k \in 1..n : cards[k].whole => cards[k].id \in Elements(s)

\* After its last turn it has made that of all cards.
LEMMA FirstWholeDoes ==
  ASSUME NEW cards \in Seq(Card), NEW limit \in Nat
  PROVE  Picked(FirstWhole(cards, limit), cards, Len(cards), limit)
<1> DEFINE last == Len(cards)
<1>1. last \in Nat /\ \A n \in 1..last : cards[n].id \in Products
  BY CardsTyped
<1>2. PICK out :
        /\ FirstWhole(cards, limit) = out[last]
        /\ out[0] = <<>>
        /\ \A n \in 1..last :
             out[n] = IF Len(out[n - 1]) >= limit \/ ~cards[n].whole
                        THEN out[n - 1] ELSE Append(out[n - 1], cards[n].id)
  BY FirstWholeLoop
<1> DEFINE Good == {n \in 0..last : Picked(out[n], cards, n, limit)}
<1>3. 0 \in Good
  <2>1. Picked(<<>>, cards, 0, limit)
    BY DEF Picked
  <2> QED
    BY <1>1, <1>2, <2>1
<1>4. ASSUME NEW n \in 1..last, n - 1 \in Good PROVE n \in Good
  <2> HIDE DEF last
  <2>0. PICK s, x : s = out[n - 1] /\ x = cards[n].id
    OBVIOUS
  <2>1. Picked(s, cards, n - 1, limit)
    BY <1>4, <2>0
  <2>2. s \in Seq(Products) /\ Len(s) \in Nat /\ DOMAIN s = 1..Len(s) /\ x \in Products
    BY <1>1, <2>0, <2>1, LenProperties DEF Picked
  <2>3. 1..(n - 1) \subseteq 1..n /\ \A k \in 1..n : k \in 1..(n - 1) \/ k = n
    OBVIOUS
  <2>4. CASE Len(s) >= limit \/ ~cards[n].whole
    <3>1. out[n] = s
      BY <1>2, <2>0, <2>4
    <3>2. ASSUME Len(s) < limit, NEW k \in 1..n, cards[k].whole
          PROVE  cards[k].id \in Elements(s)
      <4>1. ~cards[n].whole
        BY <2>2, <2>4, <3>2
      <4>2. k \in 1..(n - 1)
        BY <2>3, <3>2, <4>1
      <4> QED
        BY <2>1, <3>2, <4>2 DEF Picked
    <3>3. Picked(s, cards, n, limit)
      BY <2>1, <2>3, <3>2 DEF Picked
    <3> QED
      BY <3>1, <3>3 DEF Good
  <2>5. CASE Len(s) < limit /\ cards[n].whole
    <3> DEFINE t == Append(s, x)
    <3>1. out[n] = t
      <4>1. ~(Len(s) >= limit \/ ~cards[n].whole)
        BY <2>2, <2>5
      <4>2. out[n] = IF Len(s) >= limit \/ ~cards[n].whole THEN s ELSE t
        BY <1>2, <2>0
      <4> QED
        BY <4>1, <4>2
    <3>2. /\ t \in Seq(Products) /\ Len(t) = Len(s) + 1 /\ DOMAIN t = 1..(Len(s) + 1)
          /\ \A i \in DOMAIN t : (i \in DOMAIN s /\ t[i] = s[i]) \/ (i = Len(s) + 1 /\ t[i] = x)
      BY <2>2
    <3>3. \A i \in DOMAIN s : i \in DOMAIN t /\ t[i] = s[i]
      BY <2>2, <3>2
    <3>4. Len(s) + 1 \in DOMAIN t /\ t[Len(s) + 1] = x
      BY <2>2, <3>2
    <3> HIDE DEF t
    <3>5. \A k \in 1..(n - 1) : cards[k].whole => cards[k].id \in Elements(s)
      BY <2>1, <2>5 DEF Picked
    <3>6. \A k \in 1..n : cards[k].whole => cards[k].id \in Elements(t)
      <4>1. Elements(s) \subseteq Elements(t) /\ x \in Elements(t)
        BY <3>3, <3>4 DEF Elements
      <4> QED
        BY <2>0, <2>3, <3>5, <4>1
    <3>7. ASSUME NEW i \in DOMAIN t
          PROVE  \E p \in 1..n :
                   /\ cards[p].whole /\ cards[p].id = t[i]
                   /\ \A q \in 1..(p - 1) :
                        cards[q].whole => \E m \in 1..(i - 1) : t[m] = cards[q].id
      <4>1. CASE i \in DOMAIN s /\ t[i] = s[i]
        <5>1. PICK p \in 1..(n - 1) :
                /\ cards[p].whole /\ cards[p].id = s[i]
                /\ \A q \in 1..(p - 1) : cards[q].whole => \E m \in 1..(i - 1) : s[m] = cards[q].id
          BY <2>1, <4>1 DEF Picked
        <5>2. \A m \in 1..(i - 1) : t[m] = s[m]
          BY <2>2, <3>3, <4>1
        <5> QED
          BY <2>3, <4>1, <5>1, <5>2
      <4>2. CASE i = Len(s) + 1 /\ t[i] = x
        <5>1. ASSUME NEW q \in 1..(n - 1), cards[q].whole
              PROVE  \E m \in 1..(i - 1) : t[m] = cards[q].id
          <6>1. cards[q].id \in Elements(s)
            BY <3>5, <5>1
          <6>2. PICK m \in DOMAIN s : s[m] = cards[q].id
            BY <6>1 DEF Elements
          <6> QED
            BY <2>2, <3>3, <4>2, <6>2
        <5> QED
          BY <2>0, <2>3, <2>5, <4>2, <5>1
      <4> QED
        BY <3>2, <4>1, <4>2
    <3>8. Len(t) <= limit
      BY <2>2, <2>5, <3>2
    <3>9. Picked(t, cards, n, limit)
      BY <3>2, <3>6, <3>7, <3>8 DEF Picked
    <3> QED
      BY <3>1, <3>9 DEF Good
  <2> QED
    BY <2>2, <2>4, <2>5
<1> HIDE DEF Good, last
<1>5. last \in Good
  <2>1. \A n \in 0..last : n \in Good
    BY <1>1, <1>3, <1>4, Induction
  <2> QED
    BY <1>1, <2>1
<1> QED
  BY <1>2, <1>5 DEF Good, last

\* Every member of a list has a first place.
LEMMA PlaceIs ==
  ASSUME NEW all, DOMAIN all \subseteq Nat, NEW x \in Elements(all)
  PROVE  /\ Place(all, x) \in DOMAIN all /\ all[Place(all, x)] = x
         /\ \A k \in DOMAIN all : k < Place(all, x) => all[k] # x
<1> DEFINE Places == {i \in DOMAIN all : all[i] = x}
<1>1. Places \subseteq Nat /\ Places # {}
  BY DEF Elements
<1>2. PICK n \in Places : \A k \in Places : n <= k
  <2> HIDE DEF Places
  <2> QED
    BY <1>1, Least
<1>3. \A k \in DOMAIN all : k < n => all[k] # x
  BY <1>1, <1>2
<1>4. \E i \in DOMAIN all : all[i] = x /\ \A k \in DOMAIN all : k < i => all[k] # x
  BY <1>2, <1>3
<1> QED
  BY <1>4 DEF Place

\* Who is found where x was not met yet comes before x.
LEMMA PlaceBefore ==
  ASSUME NEW all, DOMAIN all \subseteq Nat, NEW x \in Elements(all),
         NEW p \in DOMAIN all, \A q \in DOMAIN all : q <= p => all[q] # x
  PROVE  Place(all, all[p]) < Place(all, x)
<1> DEFINE there == Place(all, x)  here == Place(all, all[p])
<1>1. there \in DOMAIN all /\ all[there] = x
  BY PlaceIs
<1>2. all[p] \in Elements(all)
  BY DEF Elements
<1>3. here \in DOMAIN all /\ \A k \in DOMAIN all : k < here => all[k] # all[p]
  BY <1>2, PlaceIs
<1> HIDE DEF there, here
<1>4. here \in Nat /\ there \in Nat /\ p \in Nat
  BY <1>1, <1>3
<1>5. ~(p < here) /\ ~(there <= p)
  BY <1>1, <1>3
<1>6. here < there
  BY <1>4, <1>5
<1> QED
  BY <1>6 DEF here, there

\* A list without members is empty.
LEMMA NoElements ==
  ASSUME NEW s \in Seq(Products)
  PROVE  /\ Elements(s) = {} <=> s = <<>>
         /\ s = <<>> <=> Len(s) = 0
         /\ Len(s) \in Nat
<1>1. Len(s) \in Nat /\ DOMAIN s = 1..Len(s)
  BY LenProperties
<1>2. s = <<>> <=> Len(s) = 0
  BY <1>1, EmptySeq
<1>3. Elements(s) = {} => 1 \notin DOMAIN s
  BY DEF Elements
<1>4. Elements(s) = {} => Len(s) = 0
  BY <1>1, <1>3
<1>5. Len(s) = 0 => DOMAIN s = {}
  BY <1>1
<1>6. Len(s) = 0 => Elements(s) = {}
  BY <1>5 DEF Elements
<1> QED
  BY <1>1, <1>2, <1>4, <1>6

\* Dedupe drops repetitions only, unless it stops, and keeps the order.
LEMMA DedupeMembers ==
  ASSUME NEW items \in Seq(Products), NEW limit \in Nat, NEW out, out = Dedupe(items, limit)
  PROVE  /\ out \in Seq(Products) /\ Len(out) <= limit
         /\ Elements(out) \subseteq Elements(items)
         /\ Len(out) < limit => Elements(items) \subseteq Elements(out)
         /\ \A i, k \in DOMAIN out : i < k =>
              \E p \in DOMAIN items : /\ items[p] = out[i]
                                      /\ \A q \in DOMAIN items : q <= p => items[q] # out[k]
<1>1. Deduped(out, items, Len(items), limit)
  BY DedupeDoes
<1>2. DOMAIN items = 1..Len(items) /\ Len(items) \in Nat
  BY LenProperties
<1>3. out \in Seq(Products) /\ Len(out) \in Nat /\ Len(out) <= limit
  BY <1>1, LenProperties DEF Deduped
<1>4. \A i \in DOMAIN out : \E p \in DOMAIN items : items[p] = out[i]
  BY <1>1, <1>2 DEF Deduped
<1>5. Elements(out) \subseteq Elements(items)
  BY <1>4 DEF Elements
<1>6. Len(out) < limit => \A k \in DOMAIN items : items[k] \in Elements(out)
  BY <1>1, <1>2, <1>3 DEF Deduped
<1>7. Len(out) < limit => Elements(items) \subseteq Elements(out)
  BY <1>6 DEF Elements
<1>8. ASSUME NEW i \in DOMAIN out, NEW k \in DOMAIN out, i < k
      PROVE  \E p \in DOMAIN items : /\ items[p] = out[i]
                                     /\ \A q \in DOMAIN items : q <= p => items[q] # out[k]
  <2>1. PICK p \in 1..Len(items) : items[p] = out[i] /\ \A q \in 1..p : items[q] # out[k]
    BY <1>1, <1>8 DEF Deduped
  <2> QED
    BY <1>2, <2>1
<1> QED
  BY <1>3, <1>5, <1>7, <1>8

\* What dedupe lists, it lists in the order of the first places.
LEMMA DedupeLists ==
  ASSUME NEW items \in Seq(Products), NEW limit \in Nat
  PROVE  Lists(Dedupe(items, limit), items, limit)
<1>1. PICK out : out = Dedupe(items, limit)
  OBVIOUS
<1>2. /\ out \in Seq(Products) /\ Len(out) <= limit
      /\ Elements(out) \subseteq Elements(items)
      /\ \A i, k \in DOMAIN out : i < k =>
           \E p \in DOMAIN items : /\ items[p] = out[i]
                                   /\ \A q \in DOMAIN items : q <= p => items[q] # out[k]
  BY <1>1, DedupeMembers
<1>3. DOMAIN items \subseteq Nat
  BY LenProperties
<1>4. ASSUME NEW i \in DOMAIN out, NEW k \in DOMAIN out, i < k
      PROVE  Place(items, out[i]) < Place(items, out[k])
  <2>1. PICK p \in DOMAIN items : /\ items[p] = out[i]
                                  /\ \A q \in DOMAIN items : q <= p => items[q] # out[k]
    BY <1>2, <1>4
  <2>2. out[k] \in Elements(items)
    BY <1>2 DEF Elements
  <2>3. Place(items, items[p]) < Place(items, out[k])
    BY <1>3, <2>1, <2>2, PlaceBefore
  <2> QED
    BY <2>1, <2>3
<1> QED
  BY <1>1, <1>2, <1>4 DEF Lists

\* What MergesInOrder asks, of every merge.
LEMMA MergesAll ==
  ASSUME NEW secondary \in ListsUpTo(MaxCards)
  PROVE  MergesInOrder[secondary]
<1> SUFFICES ASSUME NEW primary \in ListsUpTo(MaxCards), NEW limit \in Limits
    PROVE  LET all == primary \o secondary
               out == MergeListings(primary, secondary, limit)
           IN  /\ Lists(out, all, limit)
               /\ \A x \in Elements(all) \ Elements(out) :
                    Len(out) = limit /\ \A y \in Elements(out) : Place(all, y) < Place(all, x)
  BY DEF MergesInOrder
<1>1. primary \in Seq(Products) /\ secondary \in Seq(Products) /\ limit \in Nat
  BY MaxCardsAssumption DEF ListsUpTo, Limits
<1>2. PICK all, out : all = primary \o secondary /\ out = MergeListings(primary, secondary, limit)
  OBVIOUS
<1>3. all \in Seq(Products) /\ out = Dedupe(all, limit)
  BY <1>1, <1>2 DEF MergeListings
<1>4. Lists(out, all, limit)
  BY <1>1, <1>3, DedupeLists
<1>5. DOMAIN all = 1..Len(all) /\ Len(all) \in Nat
  BY <1>3, LenProperties
<1>6. DOMAIN all \subseteq Nat
  BY <1>5
<1>7. Deduped(out, all, Len(all), limit)
  BY <1>1, <1>3, DedupeDoes
<1>8. ASSUME NEW x \in Elements(all) \ Elements(out)
      PROVE  Len(out) = limit /\ \A y \in Elements(out) : Place(all, y) < Place(all, x)
  <2>1. /\ Place(all, x) \in DOMAIN all /\ all[Place(all, x)] = x
        /\ \A k \in DOMAIN all : k < Place(all, x) => all[k] # x
    BY <1>6, PlaceIs
  <2>2. PICK k \in 1..Len(all) : k = Place(all, x)
    BY <1>5, <2>1
  <2>3. all[k] \notin Elements(out)
    BY <2>1, <2>2
  <2>4. Len(out) = limit /\ \A i \in DOMAIN out : \E p \in 1..(k - 1) : all[p] = out[i]
    BY <1>7, <2>3 DEF Deduped
  <2>5. ASSUME NEW y \in Elements(out) PROVE Place(all, y) < Place(all, x)
    <3>1. PICK p \in 1..(k - 1) : all[p] = y
      BY <2>4 DEF Elements
    <3>2. p \in DOMAIN all /\ \A q \in DOMAIN all : q <= p => all[q] # x
      BY <1>5, <2>1, <2>2
    <3>3. Place(all, all[p]) < Place(all, x)
      BY <1>6, <3>2, PlaceBefore
    <3> QED
      BY <3>1, <3>3
  <2> QED
    BY <2>4, <2>5
<1> QED
  BY <1>2, <1>4, <1>8

\* The loops over cards list whole ones only, and all of them unless they stop.
LEMMA FirstWholeMembers ==
  ASSUME NEW cards \in Seq(Card), NEW limit \in Nat, NEW found, found = FirstWhole(cards, limit)
  PROVE  /\ found \in Seq(Products) /\ Len(found) <= limit
         /\ Elements(found) \subseteq Wholes(cards)
         /\ Len(found) < limit => Wholes(cards) \subseteq Elements(found)
<1>1. Picked(found, cards, Len(cards), limit)
  BY FirstWholeDoes
<1>2. DOMAIN cards = 1..Len(cards)
  BY CardsTyped
<1>3. Wholes(cards) = {cards[i].id : i \in {k \in 1..Len(cards) : cards[k].whole}}
  BY <1>2 DEF Wholes, WholeIds, Elements
<1>4. Elements(found) \subseteq Wholes(cards)
  BY <1>1, <1>3 DEF Picked, Elements
<1>5. Len(found) < limit => Wholes(cards) \subseteq Elements(found)
  BY <1>1, <1>3 DEF Picked
<1> QED
  BY <1>1, <1>4, <1>5 DEF Picked

\* What they list first, was first a whole card first.
LEMMA FirstWholeOrder ==
  ASSUME NEW cards \in Seq(Card), NEW limit \in Nat, NEW found, found = FirstWhole(cards, limit),
         NEW p \in DOMAIN found, NEW x \in Wholes(cards),
         \A q \in DOMAIN found : q <= p => found[q] # x
  PROVE  Place(WholeIds(cards), found[p]) < Place(WholeIds(cards), x)
<1> DEFINE all == WholeIds(cards)
<1>1. Picked(found, cards, Len(cards), limit)
  BY FirstWholeDoes
<1>2. DOMAIN cards = 1..Len(cards) /\ Len(cards) \in Nat
  BY CardsTyped
<1>3. /\ DOMAIN all = {k \in 1..Len(cards) : cards[k].whole}
      /\ \A k \in DOMAIN all : all[k] = cards[k].id
  BY <1>2 DEF WholeIds
<1>4. x \in Elements(all)
  BY DEF Wholes
<1> HIDE DEF all
<1>5. PICK c \in 1..Len(cards) :
        /\ cards[c].whole /\ cards[c].id = found[p]
        /\ \A q \in 1..(c - 1) : cards[q].whole => \E m \in 1..(p - 1) : found[m] = cards[q].id
  BY <1>1 DEF Picked
<1>6. c \in DOMAIN all /\ all[c] = found[p]
  BY <1>3, <1>5
<1>7. DOMAIN found = 1..Len(found) /\ Len(found) \in Nat
  BY <1>1, LenProperties DEF Picked
<1>8. ASSUME NEW q \in DOMAIN all, q <= c PROVE all[q] # x
  <2>1. CASE q = c
    BY <1>6, <1>7, <2>1
  <2>2. CASE q # c
    <3>1. q \in 1..(c - 1) /\ cards[q].whole /\ all[q] = cards[q].id
      BY <1>3, <1>8, <2>2
    <3>2. PICK m \in 1..(p - 1) : found[m] = all[q]
      BY <1>5, <3>1
    <3>3. m \in DOMAIN found /\ m <= p
      BY <1>7
    <3> QED
      BY <3>2, <3>3
  <2> QED
    BY <2>1, <2>2
<1>9. DOMAIN all \subseteq Nat
  BY <1>3
<1>10. Place(all, all[c]) < Place(all, x)
  BY <1>4, <1>6, <1>8, <1>9, PlaceBefore
<1> QED
  BY <1>6, <1>10 DEF all

\* What CardsFound asks, of every page.
LEMMA CardsAllFound == CardsFound
<1> SUFFICES ASSUME NEW cards \in PagesUpTo(MaxCards), NEW limit \in Limits
    PROVE  LET out == ParseCards(cards, limit)
           IN  /\ Lists(out, WholeIds(cards), limit)
               /\ out = <<>> => Wholes(cards) = {}
  BY DEF CardsFound
<1>1. cards \in Seq(Card) /\ limit \in Nat \ {0}
  BY MaxCardsAssumption DEF PagesUpTo, Limits
<1>2. PICK found, out : found = FirstWhole(cards, limit) /\ out = Dedupe(found, limit)
  OBVIOUS
<1>3. /\ found \in Seq(Products) /\ Len(found) <= limit
      /\ Elements(found) \subseteq Wholes(cards)
      /\ Len(found) < limit => Wholes(cards) \subseteq Elements(found)
  BY <1>1, <1>2, FirstWholeMembers
<1>4. /\ out \in Seq(Products) /\ Len(out) <= limit
      /\ Elements(out) \subseteq Elements(found)
      /\ Len(out) < limit => Elements(found) \subseteq Elements(out)
      /\ \A i, k \in DOMAIN out : i < k =>
           \E p \in DOMAIN found : /\ found[p] = out[i]
                                   /\ \A q \in DOMAIN found : q <= p => found[q] # out[k]
  BY <1>1, <1>2, <1>3, DedupeMembers
<1>7. ASSUME NEW i \in DOMAIN out, NEW k \in DOMAIN out, i < k
      PROVE  Place(WholeIds(cards), out[i]) < Place(WholeIds(cards), out[k])
  <2>1. PICK p \in DOMAIN found : /\ found[p] = out[i]
                                  /\ \A q \in DOMAIN found : q <= p => found[q] # out[k]
    BY <1>4, <1>7
  <2>2. out[k] \in Wholes(cards)
    BY <1>3, <1>4 DEF Elements
  <2>3. Place(WholeIds(cards), found[p]) < Place(WholeIds(cards), out[k])
    BY <1>1, <1>2, <2>1, <2>2, FirstWholeOrder
  <2> QED
    BY <2>1, <2>3
<1>8. Lists(out, WholeIds(cards), limit)
  BY <1>3, <1>4, <1>7 DEF Lists, Wholes
<1>9. ASSUME out = <<>> PROVE Wholes(cards) = {}
  <2>1. Elements(out) = {} /\ Len(out) < limit
    <3>1. out \in Seq(Products)
      BY <1>4
    <3>2. Elements(out) = {} /\ Len(out) = 0
      BY <1>9, <3>1, NoElements
    <3> QED
      BY <1>1, <3>2
  <2>2. Elements(found) = {}
    BY <1>4, <2>1
  <2>3. Len(found) < limit
    BY <1>1, <1>3, <2>2, NoElements
  <2> QED
    BY <1>3, <2>2, <2>3
<1> QED
  BY <1>2, <1>8, <1>9 DEF ParseCards

\* The links aliDOM goes by.
AtFirstSight(dom) ==
  {dom[i].id : i \in {k \in DOMAIN dom :
     dom[k].whole /\ \A j \in 1..(k - 1) : dom[j].id # dom[k].id}}

\* aliDOM lists those links, and all of them unless it stops.
LEMMA AliDOMMembers ==
  ASSUME NEW dom \in Seq(Card), NEW limit \in Nat, NEW found, found = AliDOM(dom, limit)
  PROVE  /\ found \in Seq(Products) /\ Len(found) <= limit
         /\ Elements(found) \subseteq AtFirstSight(dom)
         /\ Len(found) < limit => AtFirstSight(dom) \subseteq Elements(found)
<1> DEFINE First(i) == \A k \in 1..(i - 1) : dom[k].id # dom[i].id
<1>1. PICK seen : seen = [i \in DOMAIN dom |-> [dom[i] EXCEPT !.whole = @ /\ First(i)]]
  OBVIOUS
<1>2. found = FirstWhole(seen, limit)
  BY <1>1 DEF AliDOM
<1>3. /\ Len(dom) \in Nat /\ DOMAIN dom = 1..Len(dom)
      /\ \A n \in DOMAIN dom : dom[n] \in Card
  BY CardsTyped
<1>4. \A i \in DOMAIN dom : First(i) \in BOOLEAN
  OBVIOUS
<1> HIDE DEF First
<1>5. ASSUME NEW i \in DOMAIN dom
      PROVE  /\ seen[i] \in Card /\ seen[i].id = dom[i].id
             /\ seen[i].whole = (dom[i].whole /\ First(i))
  BY <1>1, <1>3, <1>4 DEF Card
<1>6. seen \in Seq(Card) /\ DOMAIN seen = DOMAIN dom
  <2>1. DOMAIN seen = 1..Len(dom) /\ seen = [i \in 1..Len(dom) |-> seen[i]]
    BY <1>1, <1>3
  <2>2. \A i \in 1..Len(dom) : seen[i] \in Card
    BY <1>3, <1>5
  <2>3. seen \in [1..Len(dom) -> Card]
    BY <2>1, <2>2
  <2> QED
    BY <1>3, <2>1, <2>3
<1>7. Wholes(seen) = {dom[i].id : i \in {k \in DOMAIN dom : dom[k].whole /\ First(k)}}
  BY <1>5, <1>6 DEF Wholes, WholeIds, Elements
<1>8. Wholes(seen) = AtFirstSight(dom)
  BY <1>7 DEF AtFirstSight, First
<1> QED
  BY <1>2, <1>6, <1>8, FirstWholeMembers

\* out lists no product twice, those of the init data first and in their order.
InitFirst(out, init) ==
  \A i, k \in DOMAIN out : i < k =>
    /\ out[i] # out[k]
    /\ out[k] \in Wholes(init) =>
         /\ out[i] \in Wholes(init)
         /\ Place(WholeIds(init), out[i]) < Place(WholeIds(init), out[k])

\* What follows the init data does not disturb it ...
LEMMA InitThenRest ==
  ASSUME NEW init \in Seq(Card), NEW rest \in Seq(Products), NEW limit \in Nat,
         NEW found, found = FirstWhole(init, limit), rest = <<>> \/ Len(found) < limit,
         NEW out, out = Dedupe(found \o rest, limit)
  PROVE  InitFirst(out, init)
<1>1. /\ found \in Seq(Products)
      /\ Elements(found) \subseteq Wholes(init)
      /\ Len(found) < limit => Wholes(init) \subseteq Elements(found)
  BY FirstWholeMembers
<1>2. PICK items : items = found \o rest
  OBVIOUS
<1>3. /\ Len(found) \in Nat /\ DOMAIN found = 1..Len(found)
      /\ Len(rest) \in Nat
      /\ items \in Seq(Products) /\ DOMAIN items = 1..(Len(found) + Len(rest))
      /\ \A p \in 1..Len(found) : items[p] = found[p]
  BY <1>1, <1>2, LenProperties
<1>4. /\ Elements(out) \subseteq Elements(items)
      /\ \A i, k \in DOMAIN out : i < k =>
           \E p \in DOMAIN items : /\ items[p] = out[i]
                                   /\ \A q \in DOMAIN items : q <= p => items[q] # out[k]
  <2>1. out = Dedupe(items, limit) /\ items \in Seq(Products)
    BY <1>2, <1>3
  <2> QED
    BY <2>1, DedupeMembers
<1>5. rest = <<>> => Elements(items) \subseteq Elements(found)
  <2>1. rest = <<>> => items = found
    BY <1>1, <1>2, ConcatEmptySeq
  <2> QED
    BY <2>1
<1>6. ASSUME NEW i \in DOMAIN out, NEW k \in DOMAIN out, i < k
      PROVE  /\ out[i] # out[k]
             /\ out[k] \in Wholes(init) =>
                  /\ out[i] \in Wholes(init)
                  /\ Place(WholeIds(init), out[i]) < Place(WholeIds(init), out[k])
  <2>1. PICK p \in DOMAIN items : /\ items[p] = out[i]
                                  /\ \A q \in DOMAIN items : q <= p => items[q] # out[k]
    BY <1>4, <1>6
  <2>2. out[i] # out[k]
    BY <1>3, <2>1
  <2>3. ASSUME out[k] \in Wholes(init)
        PROVE  /\ out[i] \in Wholes(init)
               /\ Place(WholeIds(init), out[i]) < Place(WholeIds(init), out[k])
    <3>1. out[k] \in Elements(items)
      BY <1>4 DEF Elements
    <3>2. out[k] \in Elements(found)
      BY <1>1, <1>5, <2>3, <3>1
    <3>3. PICK b \in DOMAIN found : found[b] = out[k]
      BY <3>2 DEF Elements
    <3>4. b \in DOMAIN items /\ items[b] = out[k] /\ b \in Nat /\ p \in Nat
      BY <1>3, <3>3
    <3>5. p < b
      BY <2>1, <3>4
    <3>6. p \in DOMAIN found /\ found[p] = out[i]
      BY <1>3, <2>1, <3>3, <3>5
    <3>7. \A q \in DOMAIN found : q <= p => found[q] # out[k]
      BY <1>3, <2>1
    <3>8. Place(WholeIds(init), found[p]) < Place(WholeIds(init), out[k])
      BY <2>3, <3>6, <3>7, FirstWholeOrder
    <3>9. found[p] \in Elements(found)
      BY <3>6 DEF Elements
    <3> QED
      BY <1>1, <3>6, <3>8, <3>9
  <2> QED
    BY <2>2, <2>3
<1> QED
  BY <1>6 DEF InitFirst

\* ... nor does what follows a list that has it all.
LEMMA StructuredThenRest ==
  ASSUME NEW init \in Seq(Card), NEW s \in Seq(Products), NEW rest \in Seq(Products),
         NEW limit \in Nat, InitFirst(s, init), Wholes(init) \subseteq Elements(s),
         NEW out, out = Dedupe(s \o rest, limit)
  PROVE  InitFirst(out, init)
<1>1. PICK items : items = s \o rest
  OBVIOUS
<1>2. /\ Len(s) \in Nat /\ DOMAIN s = 1..Len(s)
      /\ Len(rest) \in Nat
      /\ items \in Seq(Products) /\ DOMAIN items = 1..(Len(s) + Len(rest))
      /\ \A p \in 1..Len(s) : items[p] = s[p]
  BY <1>1, LenProperties
<1>3. \A i, k \in DOMAIN out : i < k =>
        \E p \in DOMAIN items : /\ items[p] = out[i]
                                /\ \A q \in DOMAIN items : q <= p => items[q] # out[k]
  <2>1. out = Dedupe(items, limit) /\ items \in Seq(Products)
    BY <1>1, <1>2
  <2> QED
    BY <2>1, DedupeMembers
<1>4. ASSUME NEW i \in DOMAIN out, NEW k \in DOMAIN out, i < k
      PROVE  /\ out[i] # out[k]
             /\ out[k] \in Wholes(init) =>
                  /\ out[i] \in Wholes(init)
                  /\ Place(WholeIds(init), out[i]) < Place(WholeIds(init), out[k])
  <2>1. PICK p \in DOMAIN items : /\ items[p] = out[i]
                                  /\ \A q \in DOMAIN items : q <= p => items[q] # out[k]
    BY <1>3, <1>4
  <2>2. out[i] # out[k]
    BY <1>2, <2>1
  <2>3. ASSUME out[k] \in Wholes(init)
        PROVE  /\ out[i] \in Wholes(init)
               /\ Place(WholeIds(init), out[i]) < Place(WholeIds(init), out[k])
    <3>1. PICK b \in DOMAIN s : s[b] = out[k]
      BY <2>3 DEF Elements
    <3>2. b \in DOMAIN items /\ items[b] = out[k] /\ b \in Nat /\ p \in Nat
      BY <1>2, <3>1
    <3>3. p < b
      BY <2>1, <3>2
    <3>4. p \in DOMAIN s /\ s[p] = out[i]
      BY <1>2, <2>1, <3>1, <3>3
    <3> QED
      BY <2>3, <3>1, <3>3, <3>4 DEF InitFirst
  <2> QED
    BY <2>2, <2>3
<1> QED
  BY <1>4 DEF InitFirst

\* The members of two lists, one after the other.
LEMMA ConcatElements ==
  ASSUME NEW s \in Seq(Products), NEW t \in Seq(Products)
  PROVE  s \o t \in Seq(Products) /\ Elements(s \o t) = Elements(s) \cup Elements(t)
<1> DEFINE st == s \o t
<1>1. /\ Len(s) \in Nat /\ DOMAIN s = 1..Len(s) /\ Len(t) \in Nat /\ DOMAIN t = 1..Len(t)
      /\ st \in Seq(Products) /\ DOMAIN st = 1..(Len(s) + Len(t))
  BY LenProperties
<1>2. \A i \in DOMAIN s : i \in DOMAIN st /\ st[i] = s[i]
  BY <1>1
<1>3. \A i \in DOMAIN t : Len(s) + i \in DOMAIN st /\ st[Len(s) + i] = t[i]
  BY <1>1
<1>4. \A i \in DOMAIN st : \/ i \in DOMAIN s
                           \/ i - Len(s) \in DOMAIN t /\ Len(s) + (i - Len(s)) = i
  BY <1>1
<1> HIDE DEF st
<1>5. Elements(s) \subseteq Elements(st) /\ Elements(t) \subseteq Elements(st)
  BY <1>2, <1>3 DEF Elements
<1>6. ASSUME NEW i \in DOMAIN st PROVE st[i] \in Elements(s) \cup Elements(t)
  <2>1. CASE i \in DOMAIN s
    BY <1>2, <2>1 DEF Elements
  <2>2. CASE i - Len(s) \in DOMAIN t /\ Len(s) + (i - Len(s)) = i
    <3>1. st[i] = t[i - Len(s)]
      BY <1>3, <2>2
    <3> QED
      BY <2>2, <3>1 DEF Elements
  <2> QED
    BY <1>4, <2>1, <2>2
<1>7. Elements(st) \subseteq Elements(s) \cup Elements(t)
  BY <1>6 DEF Elements
<1>8. st \in Seq(Products) /\ Elements(st) = Elements(s) \cup Elements(t)
  BY <1>1, <1>5, <1>7
<1> QED
  BY <1>8 DEF st

\* AliExpress' three sources, in whichever of them parseAliExpress stops.
LEMMA AliExpressFinds ==
  ASSUME NEW init \in Seq(Card), NEW run \in Seq(Card), NEW dom \in Seq(Card),
         NEW page, page.init = init, page.run = run, page.dom = dom,
         NEW limit \in Nat \ {0}, NEW out, out = ParseAliExpress(page, limit)
  PROVE  /\ out \in Seq(Products) /\ Len(out) <= limit
         /\ Elements(out) \subseteq Wholes(init) \cup Wholes(run) \cup AtFirstSight(dom)
         /\ InitFirst(out, init)
         /\ out = <<>> => Wholes(init) \cup Wholes(run) \cup AtFirstSight(dom) = {}
<1>1. PICK found : found = FirstWhole(init, limit)
  OBVIOUS
<1>2. PICK params : params = FirstWhole(run, limit)
  OBVIOUS
<1>3. PICK links : links = AliDOM(dom, limit)
  OBVIOUS
<1>4. PICK structured : structured = Dedupe(found \o params, limit)
  OBVIOUS
<1>5. /\ found \in Seq(Products) /\ Elements(found) \subseteq Wholes(init)
      /\ Len(found) < limit => Wholes(init) \subseteq Elements(found)
  BY <1>1, FirstWholeMembers
<1>6. /\ params \in Seq(Products) /\ Elements(params) \subseteq Wholes(run)
      /\ Len(params) < limit => Wholes(run) \subseteq Elements(params)
  BY <1>2, FirstWholeMembers
<1>7. /\ links \in Seq(Products) /\ Elements(links) \subseteq AtFirstSight(dom)
      /\ Len(links) < limit => AtFirstSight(dom) \subseteq Elements(links)
  BY <1>3, AliDOMMembers
<1>8. /\ found \o params \in Seq(Products)
      /\ Elements(found \o params) = Elements(found) \cup Elements(params)
  BY <1>5, <1>6, ConcatElements
<1>9. /\ structured \in Seq(Products) /\ Len(structured) <= limit
      /\ Elements(structured) \subseteq Elements(found) \cup Elements(params)
      /\ Len(structured) < limit =>
           Elements(found) \cup Elements(params) \subseteq Elements(structured)
  <2>1. PICK items : items = found \o params
    OBVIOUS
  <2>2. items \in Seq(Products) /\ structured = Dedupe(items, limit)
    BY <1>4, <1>8, <2>1
  <2>3. /\ structured \in Seq(Products) /\ Len(structured) <= limit
        /\ Elements(structured) \subseteq Elements(items)
        /\ Len(structured) < limit => Elements(items) \subseteq Elements(structured)
    BY <2>2, DedupeMembers
  <2> QED
    BY <1>8, <2>1, <2>3
<1>10. Len(found) \in Nat /\ Len(params) \in Nat /\ Len(links) \in Nat /\ Len(structured) \in Nat
  BY <1>5, <1>6, <1>7, <1>9, NoElements
<1>11. out = CASE Len(found) >= limit -> Dedupe(found, limit)
               [] Len(found) < limit /\ Len(structured) >= limit -> structured
               [] OTHER -> Dedupe(structured \o links, limit)
  BY <1>1, <1>2, <1>3, <1>4 DEF ParseAliExpress
<1>12. CASE Len(found) >= limit
  <2>1. out = Dedupe(found, limit)
    BY <1>10, <1>11, <1>12
  <2>2. /\ out \in Seq(Products) /\ Len(out) <= limit
        /\ Elements(out) \subseteq Elements(found)
        /\ Len(out) < limit => Elements(found) \subseteq Elements(out)
    BY <1>5, <2>1, DedupeMembers
  <2>3. out # <<>>
    <3>1. ASSUME out = <<>> PROVE FALSE
      <4>1. Elements(out) = {} /\ Len(out) = 0
        BY <2>2, <3>1, NoElements
      <4>2. Elements(found) = {}
        BY <2>2, <4>1
      <4>3. Len(found) = 0
        BY <1>5, <4>2, NoElements
      <4> QED
        BY <1>12, <4>3
    <3> QED
      BY <3>1
  <2>4. InitFirst(out, init)
    <3>1. PICK rest : rest = <<>>
      OBVIOUS
    <3>2. rest \in Seq(Products) /\ found \o rest = found
      BY <1>5, <3>1, ConcatEmptySeq
    <3>3. out = Dedupe(found \o rest, limit)
      BY <2>1, <3>2
    <3> QED
      BY <1>1, <3>1, <3>2, <3>3, InitThenRest
  <2> QED
    BY <1>5, <2>2, <2>3, <2>4
<1>13. CASE Len(found) < limit
  <2>1. InitFirst(structured, init)
    BY <1>1, <1>4, <1>6, <1>13, InitThenRest
  <2>2. CASE Len(structured) >= limit
    <3>1. out = structured
      BY <1>10, <1>11, <1>13, <2>2
    <3>2. structured # <<>>
      BY <1>9, <1>10, <2>2, NoElements
    <3> QED
      BY <1>5, <1>6, <1>9, <2>1, <3>1, <3>2
  <2>3. CASE Len(structured) < limit
    <3>1. out = Dedupe(structured \o links, limit)
      BY <1>10, <1>11, <1>13, <2>3
    <3>2. /\ structured \o links \in Seq(Products)
          /\ Elements(structured \o links) = Elements(structured) \cup Elements(links)
      BY <1>7, <1>9, ConcatElements
    <3>3. /\ out \in Seq(Products) /\ Len(out) <= limit
          /\ Elements(out) \subseteq Elements(structured) \cup Elements(links)
          /\ Len(out) < limit => Elements(structured) \cup Elements(links) \subseteq Elements(out)
      <4>1. PICK items : items = structured \o links
        OBVIOUS
      <4>2. items \in Seq(Products) /\ out = Dedupe(items, limit)
        BY <3>1, <3>2, <4>1
      <4>3. /\ out \in Seq(Products) /\ Len(out) <= limit
            /\ Elements(out) \subseteq Elements(items)
            /\ Len(out) < limit => Elements(items) \subseteq Elements(out)
        BY <4>2, DedupeMembers
      <4> QED
        BY <3>2, <4>1, <4>3
    <3>4. InitFirst(out, init)
      <4>1. Wholes(init) \subseteq Elements(structured)
        BY <1>5, <1>9, <1>13, <2>3
      <4> QED
        BY <1>7, <1>9, <2>1, <3>1, <4>1, StructuredThenRest
    <3>5. ASSUME out = <<>>
          PROVE  Wholes(init) \cup Wholes(run) \cup AtFirstSight(dom) = {}
      <4>1. Elements(out) = {} /\ Len(out) < limit
        <5>1. Elements(out) = {} /\ Len(out) = 0
          BY <3>3, <3>5, NoElements
        <5> QED
          BY <5>1
      <4>2. Elements(structured) = {} /\ Elements(links) = {}
        BY <3>3, <4>1
      <4>3. Elements(found) = {} /\ Elements(params) = {}
        BY <1>9, <2>3, <4>2
      <4>4. Len(params) < limit /\ Len(links) < limit
        <5>1. Len(params) = 0 /\ Len(links) = 0
          BY <1>6, <1>7, <4>2, <4>3, NoElements
        <5> QED
          BY <5>1
      <4> QED
        BY <1>5, <1>6, <1>7, <1>13, <4>2, <4>3, <4>4
    <3> QED
      BY <1>5, <1>6, <1>7, <1>9, <3>3, <3>4, <3>5
  <2> QED
    BY <1>10, <2>2, <2>3
<1> QED
  BY <1>10, <1>12, <1>13

\* What SourcesFound asks, of every page.
LEMMA SourcesAllFound == SourcesFound
<1> SUFFICES ASSUME NEW init \in PagesUpTo(MaxCards - 1), NEW run \in PagesUpTo(MaxCards - 1),
                    NEW dom \in PagesUpTo(MaxCards - 1), NEW limit \in Limits
    PROVE  LET out == ParseAliExpress([init |-> init, run |-> run, dom |-> dom], limit)
               all == Wholes(init) \cup Wholes(run) \cup AtFirstSight(dom)
           IN  /\ Len(out) <= limit /\ Elements(out) \subseteq all
               /\ InitFirst(out, init)
               /\ out = <<>> => all = {}
  BY DEF SourcesFound, AtFirstSight, InitFirst
<1>1. init \in Seq(Card) /\ run \in Seq(Card) /\ dom \in Seq(Card) /\ limit \in Nat \ {0}
  <2>1. PagesUpTo(MaxCards - 1) \subseteq Seq(Card)
    BY MaxCardsAssumption DEF PagesUpTo
  <2>2. limit \in Nat \ {0}
    BY MaxCardsAssumption DEF Limits
  <2> QED
    BY <2>1, <2>2
<1>2. PICK page : page = [init |-> init, run |-> run, dom |-> dom]
  OBVIOUS
<1>3. page.init = init /\ page.run = run /\ page.dom = dom
  BY <1>2
<1>4. PICK out : out = ParseAliExpress(page, limit)
  OBVIOUS
<1> QED
  BY <1>1, <1>2, <1>3, <1>4, AliExpressFinds

-----------------------------------------------------------------------------
(* What requests carry from one path to the other *)

\* A list of that length is among the lists up to it.
LEMMA ListUpTo ==
  ASSUME NEW s \in Seq(Products), NEW n \in Nat, Len(s) <= n
  PROVE  s \in ListsUpTo(n)
<1>1. Len(s) \in 0..n /\ s \in [1..Len(s) -> Products]
  BY LenProperties
<1> QED
  BY <1>1 DEF ListsUpTo

\* Every parser lists products, at most as many as are wanted.
LEMMA ParsedLists ==
  ASSUME NEW m \in Marketplaces, NEW found \in Parsed[m]
  PROVE  found \in ListsUpTo(Wanted)
<1>1. PICK page \in Pages[m] : found = Parse(m, page)
  BY DEF Parsed
<1>2. Wanted \in Nat \ {0}
  BY PagesAssumption
<1>3. CASE m = AliExpress
  <2>1. page \in [init : Seq(Card), run : Seq(Card), dom : Seq(Card)]
    BY <1>1, <1>3, PagesAssumption
  <2>2. page.init \in Seq(Card) /\ page.run \in Seq(Card) /\ page.dom \in Seq(Card)
    BY <2>1
  <2>3. found = ParseAliExpress(page, Wanted)
    BY <1>1, <1>3 DEF Parse
  <2>4. found \in Seq(Products) /\ Len(found) <= Wanted
    BY <1>2, <2>2, <2>3, AliExpressFinds
  <2> QED
    BY <1>2, <2>4, ListUpTo
<1>4. CASE m # AliExpress
  <2>1. page \in Seq(Card)
    BY <1>1, <1>4, PagesAssumption
  <2>2. PICK whole : whole = FirstWhole(page, Wanted)
    OBVIOUS
  <2>3. whole \in Seq(Products)
    BY <1>2, <2>1, <2>2, FirstWholeMembers
  <2>4. found = Dedupe(whole, Wanted)
    BY <1>1, <1>4, <2>2 DEF Parse, ParseCards
  <2>5. found \in Seq(Products) /\ Len(found) <= Wanted
    BY <1>2, <2>3, <2>4, DedupeMembers
  <2> QED
    BY <1>2, <2>5, ListUpTo
<1> QED
  BY <1>3, <1>4

\* What the direct path left behind is a listing of a parser, or nothing.
Carried == direct \in [Requests -> ListsUpTo(Wanted)]

\* So is the empty one.
LEMMA NothingListed == <<>> \in ListsUpTo(Wanted)
<1>1. <<>> \in Seq(Products) /\ Len(<<>>) <= Wanted /\ Wanted \in Nat
  BY PagesAssumption
<1> QED
  BY <1>1, ListUpTo

\* Only FallBack changes it.
LEMMA CarriedStep == Carried /\ [Next]_vars => Carried'
<1> SUFFICES ASSUME Carried, [Next]_vars PROVE Carried'
  OBVIOUS
<1>1. ASSUME UNCHANGED direct PROVE Carried'
  BY <1>1 DEF Carried
<1>2. ASSUME NEW r \in Requests, NEW given, NEW found \in ListsUpTo(Wanted),
             FallBack(r, given, found)
      PROVE  Carried'
  BY <1>2 DEF FallBack, Carried
<1>3. ASSUME NEW r \in Requests, FetchSucceeds(r) PROVE Carried'
  <2>1. PICK found \in Parsed[MarketOf[r]] :
          IF Enough(found, Wanted) THEN Succeed(r, {MarketOf[r]})
                                   ELSE FallBack(r, {MarketOf[r]}, found)
    BY <1>3 DEF FetchSucceeds
  <2>2. MarketOf[r] \in Marketplaces
    BY MarketsAssumption
  <2>3. found \in ListsUpTo(Wanted)
    BY <2>1, <2>2, ParsedLists
  <2>4. CASE Succeed(r, {MarketOf[r]})
    BY <1>1, <2>4 DEF Succeed
  <2>5. CASE FallBack(r, {MarketOf[r]}, found)
    BY <1>2, <2>3, <2>5
  <2> QED
    BY <2>1, <2>4, <2>5
<1>4. ASSUME NEW r \in Requests, FetchFails(r) PROVE Carried'
  <2>1. CASE Fail(r, {MarketOf[r]})
    BY <1>1, <2>1 DEF Fail
  <2>2. CASE FallBack(r, {MarketOf[r]}, <<>>)
    BY <1>2, <2>2, NothingListed
  <2> QED
    BY <1>4, <2>1, <2>2 DEF FetchFails
<1>5. ASSUME NEW r \in Requests, BrowserFails(r) \/ BrowserSucceeds(r) PROVE Carried'
  BY <1>1, <1>5 DEF BrowserFails, BrowserSucceeds, Succeed, Fail
<1>6. ASSUME NEW r \in Requests, AcquireMarket(r) \/ AcquireBrowser(r) PROVE Carried'
  BY <1>1, <1>6 DEF AcquireMarket, AcquireBrowser, Acquire, Fail
<1>7. ASSUME NEW r \in Requests, StartFetch(r) \/ OpenContext(r) \/ ContextOpens(r) PROVE Carried'
  BY <1>1, <1>7 DEF StartFetch, OpenContext, ContextOpens
<1>8. ASSUME NEW r \in Requests, Arrive(r) \/ PaceTurn(r) \/ Disconnect(r) PROVE Carried'
  BY <1>1, <1>8 DEF Arrive, PaceTurn, Disconnect
<1>9. CASE Tick \/ Shutdown \/ CloseBrowser \/ UNCHANGED vars
  BY <1>1, <1>9 DEF Tick, Shutdown, CloseBrowser, vars
<1> QED
  BY <1>3, <1>4, <1>5, <1>6, <1>7, <1>8, <1>9 DEF Next, Finish, Continue

\* The invariant that the theorems below need of `direct'.
LEMMA AlwaysCarried == Spec => []Carried
<1>1. Init => Carried
  BY NothingListed DEF Init, Carried
<1> QED
  BY <1>1, CarriedStep, PTL DEF Spec

\* Every variable stays in its type, what the parsers make included.
THEOREM TypeCorrect == Spec => []TypeOK
<1>1. ASSUME Kept, Carried PROVE TypeOK
  <2>1. \A s \in ListsUpTo(Wanted) : s \in Seq(Products)
    BY PagesAssumption DEF ListsUpTo
  <2>2. direct \in [Requests -> Seq(Products)]
    BY <1>1, <2>1 DEF Carried
  <2> QED
    BY <1>1, <2>2 DEF Kept, Types, TypeOK
<1> QED
  BY <1>1, AlwaysKept, AlwaysCarried, PTL

\* Whatever page the browser reads, of however many cards: its answer repeats
\* no product, keeps to the limit, lists the browser's first, each list in its
\* order, and leaves out what the direct path found only when it is full.
THEOREM MergesInOrderAlways == Spec => []MergeIsFirstAppearances
<1>1. ASSUME Carried PROVE MergeIsFirstAppearances
  <2>1. ListsUpTo(Wanted) \subseteq ListsUpTo(MaxCards)
    BY PagesAssumption, MaxCardsAssumption DEF ListsUpTo
  <2>2. \A r \in Requests : direct[r] \in ListsUpTo(MaxCards)
    BY <1>1, <2>1 DEF Carried
  <2> QED
    BY <2>2, MergesAll DEF MergeIsFirstAppearances
<1> QED
  BY <1>1, AlwaysCarried, PTL

\* Pages of any number of cards, repeated or lacking parts in any way: whole
\* cards are listed and no others, each product once and in the page's order,
\* and a page that has one is never taken for an empty one.
THEOREM ParsersAlwaysFind == Spec => []ParsersFind
<1>1. ParsersFind
  BY CardsAllFound, SourcesAllFound DEF ParsersFind
<1> QED
  BY <1>1, PTL
=============================================================================
