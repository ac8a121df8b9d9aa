------------------------- MODULE ObservationsProofs -------------------------
(* Proofs about Observations: for every set of slots, products, values and   *)
(* listings, every retention of a day or more, every length of a day and     *)
(* however long transactions are open, the history is what PriceHistory      *)
(* promises.                                                                 *)
EXTENDS Observations, TLAPS

Open(s) == pc[s] # "idle"

-----------------------------------------------------------------------------
(* Constants *)

\* What the configuration says, without the product of two constants.
LEMMA Times ==
  /\ Day \in Nat \ {0} /\ MaxNow \in Nat
  /\ Retention \in Nat /\ Retention >= Day
<1>1. Day \in Nat /\ Day > 0 /\ RetentionDays \in Nat /\ RetentionDays >= 1
  BY TimesAssumption
<1>2. RetentionDays * Day \in Nat /\ RetentionDays * Day >= Day
  BY <1>1
<1> QED
  BY <1>1, <1>2, TimesAssumption DEF Retention

\* A window of d days is no longer than the retention, and a day longer than
\* one of d - 1 days.
LEMMA Windows ==
  ASSUME NEW d \in 1..RetentionDays
  PROVE  /\ d * Day \in Nat /\ d * Day <= Retention
         /\ (d - 1) * Day = d * Day - Day
<1>1. Day \in Nat /\ d \in Nat /\ RetentionDays \in Nat /\ d <= RetentionDays
  BY TimesAssumption
<1>2. d * Day \in Nat
  BY <1>1
<1>3. d * Day <= RetentionDays * Day
  BY <1>1
<1>4. (d - 1) * Day = d * Day - Day
  BY <1>1
<1> QED
  BY <1>2, <1>3, <1>4 DEF Retention

-----------------------------------------------------------------------------
(* Typing *)

HistoryTypes ==
  /\ now \in 0..MaxNow
  /\ points \in [Products -> SUBSET Point]
  /\ seen \in [Products -> [at : 0..MaxNow, value : Values \cup {None}]]
  /\ last \in [Products -> [at : 0..MaxNow, value : Values \cup {None}]]
  /\ \A p \in Products : /\ seen[p].at > 0 => seen[p].value \in Values
                         /\ last[p].value \in Values => last[p].at > 0
  /\ late \in [Products -> BOOLEAN]

TxTypes ==
  /\ pc \in [Slots -> {"idle", "upsert", "observe", "commit"}]
  /\ start \in [Slots -> 0..MaxNow]
  /\ listing \in [Slots -> Seq(Item)]
  /\ next \in [Slots -> Nat]
  /\ wrote \in [Slots -> SUBSET [product : Products, value : Values]]
  /\ lock \in [Products -> Slots \cup {None}]

\* The loop is at a complete item or past the end; a listing names a product
\* at most once.
ShapeOf(s) ==
  /\ next[s] \in 1..(Len(listing[s]) + 1)
  /\ pc[s] \in {"upsert", "observe"} => next[s] \in Complete(listing[s])
  /\ pc[s] = "commit" => next[s] = Len(listing[s]) + 1
  /\ \A i, k \in DOMAIN listing[s] :
       listing[s][i].product = listing[s][k].product => i = k

LoopShape == \A s \in Slots : ShapeOf(s)

\* A transaction's now() is not in the future, and no other transaction has it.
Timing ==
  /\ \A s \in Slots : Open(s) => start[s] \in 1..now
  /\ \A s, t \in Slots : Open(s) /\ Open(t) /\ start[s] = start[t] => s = t
  /\ \A p \in Products :
       /\ seen[p].at <= now /\ last[p].at <= now
       /\ \A s \in Slots : Open(s) => start[s] # seen[p].at /\ start[s] # last[p].at

Typing == HistoryTypes /\ TxTypes /\ LoopShape /\ Timing

-----------------------------------------------------------------------------
(* Decisions *)

\* The items a transaction has stored.
Done(s) == {i \in Complete(listing[s]) : i < next[s]}

Holds(s, i) == lock[listing[s][i].product] = s

\* A transaction has the rows of what it has stored to itself.
LocksOf(s) ==
  /\ \A i \in Done(s) : Holds(s, i)
  /\ pc[s] = "observe" => Holds(s, next[s])

Wrote(s, i) == Entry(listing[s][i]) \in wrote[s]

\* The latest point, pruned or not, has this value and is younger than a day.
Matches(p, v, began) == last[p].value = v /\ last[p].at > began - Day

MatchesNow(s, i) == Matches(listing[s][i].product, listing[s][i].value, start[s])

\* All points of the product have been pruned.
Gone(p) == last[p] \notin points[p]

\* What a transaction has decided is what it would decide now, but for a point
\* that has been pruned: then either decision is right.
Right(s, i) ==
  /\ Wrote(s, i) => ~MatchesNow(s, i) \/ Gone(listing[s][i].product)
  /\ ~Wrote(s, i) => MatchesNow(s, i)

DecisionsOf(s) ==
  /\ \A i \in Done(s) : Right(s, i)
  /\ \A w \in wrote[s] : \E i \in Done(s) : w = Entry(listing[s][i])

Decided == \A s \in Slots : Open(s) => LocksOf(s) /\ DecisionsOf(s)

\* `last' is the latest point as long as there are points; pruning takes it
\* away only when it is older than the retention.
Kept(p) ==
  /\ points[p] # {} => last[p] \in points[p]
  /\ \A x \in points[p] : x.at <= last[p].at /\ (x.at = last[p].at => x = last[p])
  /\ last[p].at > 0 => last[p] \in points[p] \/ last[p].at < now - Retention

LatestKept == \A p \in Products : Kept(p)

Serial == Typing /\ LatestKept /\ Decided

-----------------------------------------------------------------------------
(* Histories *)

\* No point is later than the latest-begun job that stored the product.
Bounded == \A p \in Products : \A x \in points[p] : x.at <= seen[p].at

\* The latest-begun job is less than a day from a point, unless it is so old
\* that the point may be pruned.
Covered ==
  \A p \in Products : seen[p].at > 0 =>
    \/ \E x \in points[p] : x.at > seen[p].at - Day
    \/ seen[p].at < now - Retention + Day

\* The latest points have the value that the latest-begun job saw.
Current(p) ==
  \A x \in points[p] : x.value = seen[p].value \/ \E y \in points[p] : y.at > x.at

Ordered == \A p \in Products : ~late[p] => Spaced(p) /\ Current(p)

Exact == Serial /\ Bounded /\ Covered /\ Ordered

-----------------------------------------------------------------------------
(* What the pieces of a step do *)

\* The step of another slot.
Untouched(t) ==
  /\ pc'[t] = pc[t] /\ start'[t] = start[t] /\ listing'[t] = listing[t]
  /\ next'[t] = next[t] /\ wrote'[t] = wrote[t]

\* The loop goes to the first complete item behind i, or past the end.
LEMMA ProceedTo ==
  ASSUME TxTypes, NEW s \in Slots, NEW l \in Seq(Item), NEW i \in 0..Len(l),
         Proceed(s, l, i)
  PROVE  /\ pc' \in [Slots -> {"idle", "upsert", "observe", "commit"}]
         /\ next' \in [Slots -> Nat]
         /\ pc'[s] \in {"upsert", "commit"}
         /\ next'[s] \in 1..(Len(l) + 1) /\ next'[s] > i
         /\ pc'[s] = "upsert" => next'[s] \in Complete(l)
         /\ pc'[s] = "commit" => next'[s] = Len(l) + 1
         /\ \A k \in Complete(l) : k > i => k >= next'[s]
         /\ \A t \in Slots : t # s => pc'[t] = pc[t] /\ next'[t] = next[t]
<1> DEFINE rest == {k \in Complete(l) : k > i}
<1>1. Len(l) \in Nat /\ Complete(l) \subseteq 1..Len(l)
  BY DEF Complete
<1>2. CASE /\ rest = {}
           /\ pc' = [pc EXCEPT ![s] = "commit"]
           /\ next' = [next EXCEPT ![s] = Len(l) + 1]
  BY <1>1, <1>2 DEF TxTypes
<1>3. CASE \E k \in rest : /\ \A m \in rest : k <= m
                           /\ pc' = [pc EXCEPT ![s] = "upsert"]
                           /\ next' = [next EXCEPT ![s] = k]
  BY <1>1, <1>3 DEF TxTypes
<1> QED
  BY <1>2, <1>3 DEF Proceed

LEMMA EndDoes ==
  ASSUME TxTypes, NEW s \in Slots, End(s)
  PROVE  /\ pc' \in [Slots -> {"idle", "upsert", "observe", "commit"}]
         /\ start' \in [Slots -> 0..MaxNow]
         /\ listing' \in [Slots -> Seq(Item)]
         /\ next' \in [Slots -> Nat]
         /\ wrote' \in [Slots -> SUBSET [product : Products, value : Values]]
         /\ pc'[s] = "idle" /\ listing'[s] = <<>> /\ next'[s] = 1
         /\ \A t \in Slots : t # s => Untouched(t)
<1>1. <<>> \in Seq(Item) /\ 0 \in 0..MaxNow
  BY TimesAssumption
<1> QED
  BY <1>1 DEF TxTypes, End, Untouched

LEMMA ReleaseDoes ==
  ASSUME TxTypes, NEW s \in Slots, Release(s)
  PROVE  /\ lock' \in [Products -> Slots \cup {None}]
         /\ \A p \in Products, t \in Slots : t # s /\ lock[p] = t => lock'[p] = t
BY NoneAssumption DEF TxTypes, Release

\* Abort and the deadlock's victim.
Rollback(s) == /\ Open(s) /\ Release(s) /\ End(s)
               /\ UNCHANGED <<now, points, last, seen, late>>

\* A slot that waits has a transaction.
LEMMA Rollbacks ==
  ASSUME NEW s \in Slots, Abort(s) \/ DeadlockVictim(s)
  PROVE  Rollback(s)
BY DEF Abort, DeadlockVictim, Waiting, Rollback, Open

LEMMA Steps ==
  ASSUME [Next]_vars
  PROVE  \/ UNCHANGED vars \/ Pass \/ Prune
         \/ \E s \in Slots : Begin(s) \/ Upsert(s) \/ Observe(s) \/ Commit(s) \/ Rollback(s)
BY Rollbacks DEF Next

\* An item that a transaction stores, and the one it is at.
LEMMA ItemTypes ==
  ASSUME TxTypes, NEW s \in Slots, NEW i \in Complete(listing[s])
  PROVE  /\ listing[s] \in Seq(Item) /\ i \in 1..Len(listing[s])
         /\ i \in DOMAIN listing[s]
         /\ listing[s][i] \in Item
         /\ listing[s][i].product \in Products
         /\ listing[s][i].value \in Values
<1>1. listing[s] \in Seq(Item)
  BY DEF TxTypes
<1>2. i \in DOMAIN listing[s] /\ DOMAIN listing[s] = 1..Len(listing[s])
  BY <1>1 DEF Complete
<1>3. listing[s][i] \in Item
  BY <1>1, <1>2
<1> QED
  BY <1>1, <1>2, <1>3 DEF Item

LEMMA AtItem ==
  ASSUME TxTypes, LoopShape, NEW s \in Slots, pc[s] \in {"upsert", "observe"}
  PROVE  /\ next[s] \in Complete(listing[s])
         /\ listing[s] \in Seq(Item) /\ next[s] \in 1..Len(listing[s])
         /\ next[s] \in DOMAIN listing[s]
         /\ listing[s][next[s]].product \in Products
         /\ listing[s][next[s]].value \in Values
BY ItemTypes DEF LoopShape, ShapeOf

-----------------------------------------------------------------------------
(* The typing is inductive *)

LEMMA EmptyShape ==
  ASSUME NEW s \in Slots, pc[s] = "idle", listing[s] = <<>>, next[s] = 1
  PROVE  ShapeOf(s)
<1> DEFINE l == listing[s]
<1>1. Len(l) = 0 /\ DOMAIN l = {}
  OBVIOUS
<1> QED
  BY <1>1 DEF ShapeOf

LEMMA ShapeStays ==
  ASSUME NEW s \in Slots, ShapeOf(s),
         pc'[s] = pc[s], listing'[s] = listing[s], next'[s] = next[s]
  PROVE  ShapeOf(s)'
BY DEF ShapeOf

LEMMA TypingInit == Init => Typing
<1> SUFFICES ASSUME Init PROVE Typing
  OBVIOUS
<1> USE Times DEF Init
<1>1. HistoryTypes
  BY NoneAssumption DEF HistoryTypes
<1>2. TxTypes
  <2>1. <<>> \in Seq(Item)
    OBVIOUS
  <2> QED
    BY <2>1 DEF TxTypes
<1>3. LoopShape
  <2> SUFFICES ASSUME NEW s \in Slots PROVE ShapeOf(s)
    BY DEF LoopShape
  <2>1. pc[s] = "idle" /\ listing[s] = <<>> /\ next[s] = 1
    OBVIOUS
  <2> QED
    BY <2>1, EmptyShape
<1>4. Timing
  BY DEF Timing, Open
<1> QED
  BY <1>1, <1>2, <1>3, <1>4 DEF Typing

\* What a transaction has seen is a value of a listing.
LEMMA SeenByIs ==
  ASSUME TxTypes, LoopShape, NEW s \in Slots, NEW i \in Complete(listing[s])
  PROVE  /\ listing[s][i].product \in Stores(s)
         /\ SeenBy(s)[listing[s][i].product] = listing[s][i].value
<1> DEFINE p == listing[s][i].product
           k == CHOOSE k \in Complete(listing[s]) : listing[s][k].product = p
<1>1. p \in Stores(s)
  BY DEF Stores, Found
<1>2. k \in Complete(listing[s]) /\ listing[s][k].product = p
  OBVIOUS
<1>3. k = i
  BY <1>2 DEF LoopShape, ShapeOf, Complete
<1>4. SeenBy(s)[p] = listing[s][k].value
  BY <1>1 DEF SeenBy, SeenIn, Stores
<1> QED
  BY <1>1, <1>3, <1>4

LEMMA SeenByTypes ==
  ASSUME TxTypes, LoopShape, NEW s \in Slots
  PROVE  Stores(s) \subseteq Products /\ SeenBy(s) \in [Stores(s) -> Values]
<1>1. Stores(s) \subseteq Products
  BY ItemTypes DEF Stores, Found
<1>2. \A p \in Stores(s) : SeenBy(s)[p] \in Values
  BY SeenByIs, ItemTypes DEF Stores, Found
<1>3. SeenBy(s) = [p \in Stores(s) |-> SeenBy(s)[p]]
  BY DEF SeenBy, SeenIn, Stores
<1> QED
  BY <1>1, <1>2, <1>3

\* The same of the next state.
LEMMA SeenByTypesNext ==
  ASSUME TxTypes', LoopShape', NEW s \in Slots
  PROVE  Stores(s)' \subseteq Products /\ SeenBy(s)' \in [Stores(s)' -> Values]
<1>1. \A i \in Complete(listing'[s]) : /\ listing'[s][i].product \in Products
                                       /\ listing'[s][i].value \in Values
  <2> SUFFICES ASSUME NEW i \in Complete(listing'[s])
               PROVE  listing'[s][i].product \in Products /\ listing'[s][i].value \in Values
    OBVIOUS
  <2>1. listing'[s] \in Seq(Item) /\ i \in DOMAIN listing'[s]
    BY DEF TxTypes, Complete
  <2>2. listing'[s][i] \in Item
    BY <2>1
  <2> QED
    BY <2>2 DEF Item
<1>2. \A p \in Stores(s)' : SeenBy(s)'[p] \in Values
  <2> SUFFICES ASSUME NEW p \in Stores(s)' PROVE SeenBy(s)'[p] \in Values
    OBVIOUS
  <2> DEFINE k == CHOOSE i \in Complete(listing'[s]) : listing'[s][i].product = p
  <2>1. \E i \in Complete(listing'[s]) : listing'[s][i].product = p
    BY DEF Stores, Found
  <2>2. k \in Complete(listing'[s])
    BY <2>1
  <2>3. SeenBy(s)'[p] = listing'[s][k].value
    BY DEF SeenBy, SeenIn, Stores
  <2> QED
    BY <1>1, <2>2, <2>3
<1>3. SeenBy(s)' = [p \in Stores(s)' |-> SeenBy(s)'[p]]
  BY DEF SeenBy, SeenIn, Stores
<1>4. Stores(s)' \subseteq Products
  BY <1>1 DEF Stores, Found
<1> QED
  BY <1>2, <1>3, <1>4

\* A transaction that ends leaves its slot like a new one.
LEMMA EndKeeps ==
  ASSUME Typing, NEW s \in Slots, Release(s), End(s)
  PROVE  TxTypes' /\ LoopShape'
<1>1. TxTypes'
  BY EndDoes, ReleaseDoes DEF Typing, TxTypes
<1>2. LoopShape'
  <2> SUFFICES ASSUME NEW t \in Slots PROVE ShapeOf(t)'
    BY DEF LoopShape
  <2>1. CASE t = s
    <3>1. pc'[t] = "idle" /\ listing'[t] = <<>> /\ next'[t] = 1
      BY <2>1, EndDoes DEF Typing
    <3> QED
      BY <3>1, EmptyShape DEF ShapeOf
  <2>2. CASE t # s
    <3>1. Untouched(t)
      BY <2>2, EndDoes DEF Typing
    <3>2. ShapeOf(t)
      BY DEF Typing, LoopShape
    <3> QED
      BY <3>1, <3>2, ShapeStays DEF Untouched
  <2> QED
    BY <2>1, <2>2
<1> QED
  BY <1>1, <1>2

\* A step within a transaction keeps the loop's shape.
LEMMA ProceedKeeps ==
  ASSUME Typing, NEW s \in Slots, NEW i \in 0..Len(listing'[s]),
         Proceed(s, listing'[s], i),
         start' \in [Slots -> 0..MaxNow],
         listing' \in [Slots -> Seq(Item)],
         \A t \in Slots : t # s => listing'[t] = listing[t],
         \A k, m \in DOMAIN listing'[s] :
           listing'[s][k].product = listing'[s][m].product => k = m,
         wrote' \in [Slots -> SUBSET [product : Products, value : Values]],
         lock' = lock
  PROVE  TxTypes' /\ LoopShape'
<1> DEFINE l == listing'[s]
<1>1. l \in Seq(Item)
  OBVIOUS
<1>2. /\ pc' \in [Slots -> {"idle", "upsert", "observe", "commit"}]
      /\ next' \in [Slots -> Nat]
      /\ pc'[s] \in {"upsert", "commit"}
      /\ next'[s] \in 1..(Len(l) + 1)
      /\ pc'[s] = "upsert" => next'[s] \in Complete(l)
      /\ pc'[s] = "commit" => next'[s] = Len(l) + 1
      /\ \A t \in Slots : t # s => pc'[t] = pc[t] /\ next'[t] = next[t]
  BY <1>1, ProceedTo DEF Typing
<1>3. TxTypes'
  BY <1>2 DEF Typing, TxTypes
<1>4. LoopShape'
  <2> SUFFICES ASSUME NEW t \in Slots PROVE ShapeOf(t)'
    BY DEF LoopShape
  <2>1. CASE t = s
    <3> HIDE DEF l
    <3>1. /\ next'[s] \in 1..(Len(l) + 1)
          /\ pc'[s] \in {"upsert", "observe"} => next'[s] \in Complete(l)
          /\ pc'[s] = "commit" => next'[s] = Len(l) + 1
      BY <1>2
    <3>2. \A k, m \in DOMAIN l : l[k].product = l[m].product => k = m
      BY DEF l
    <3> QED
      BY <2>1, <3>1, <3>2 DEF ShapeOf, l
  <2>2. CASE t # s
    <3>1. ShapeOf(t)
      BY DEF Typing, LoopShape
    <3> QED
      BY <1>2, <2>2, <3>1, ShapeStays
  <2> QED
    BY <2>1, <2>2
<1> QED
  BY <1>3, <1>4

\* The history of a commit, in the types of its constants.
LEMMA CommitKeeps ==
  ASSUME Typing, NEW s \in Slots, Commit(s)
  PROVE  HistoryTypes'
<1> USE DEF Typing
<1>1. start[s] \in 1..now /\ now \in 0..MaxNow /\ start[s] \in 1..MaxNow
  BY Times DEF Commit, Timing, Open, HistoryTypes
<1>w. \A p \in Products : \A x \in Written(s, p) : x.at = start[s] /\ x.value \in Values /\ x \in Point
  BY <1>1 DEF Written, TxTypes, Point
<1>2. points' \in [Products -> SUBSET Point]
  BY <1>w DEF Commit, Publish, HistoryTypes
<1>3. \A p \in Products : /\ seen'[p] \in [at : 0..MaxNow, value : Values \cup {None}]
                          /\ seen'[p].at > 0 => seen'[p].value \in Values
  <2> SUFFICES ASSUME NEW p \in Products
               PROVE  /\ seen'[p] \in [at : 0..MaxNow, value : Values \cup {None}]
                      /\ seen'[p].at > 0 => seen'[p].value \in Values
    OBVIOUS
  <2>1. CASE p \in Stores(s) /\ start[s] > seen[p].at
    <3>1. SeenBy(s)[p] \in Values
      BY <2>1, SeenByTypes
    <3> QED
      BY <1>1, <2>1, <3>1 DEF Commit
  <2>2. CASE ~(p \in Stores(s) /\ start[s] > seen[p].at)
    BY <2>2 DEF Commit, HistoryTypes
  <2> QED
    BY <2>1, <2>2
<1>4. seen' \in [Products -> [at : 0..MaxNow, value : Values \cup {None}]]
  <2>1. seen' = [p \in Products |-> seen'[p]]
    BY DEF Commit
  <2> QED
    BY <1>3, <2>1
<1>5. late' \in [Products -> BOOLEAN]
  BY Zenon DEF Commit, HistoryTypes
<1>6. \A p \in Products : /\ last'[p] \in [at : 0..MaxNow, value : Values \cup {None}]
                          /\ last'[p].value \in Values => last'[p].at > 0
  <2> SUFFICES ASSUME NEW p \in Products
               PROVE  /\ last'[p] \in [at : 0..MaxNow, value : Values \cup {None}]
                      /\ last'[p].value \in Values => last'[p].at > 0
    OBVIOUS
  <2>1. CASE last'[p] = last[p]
    BY <2>1 DEF HistoryTypes
  <2>2. CASE last'[p] # last[p]
    <3>1. last'[p] \in Written(s, p)
      BY <2>2 DEF Commit
    <3> QED
      BY <1>1, <1>w, <3>1 DEF Point
  <2> QED
    BY <2>1, <2>2
<1>7. last' \in [Products -> [at : 0..MaxNow, value : Values \cup {None}]]
  <2>1. last' = [p \in Products |-> last'[p]]
    BY DEF Commit
  <2> QED
    BY <1>6, <2>1
<1> QED
  BY <1>2, <1>3, <1>4, <1>5, <1>6, <1>7 DEF Commit, HistoryTypes

\* A transaction that begins is the only one of its instant.
LEMMA BeginKeeps ==
  ASSUME Typing, NEW s \in Slots, Begin(s)
  PROVE  Typing'
<1> USE Times DEF Typing
<1>1. PICK l \in Listings : /\ listing' = [listing EXCEPT ![s] = l]
                            /\ Proceed(s, l, 0)
  BY DEF Begin
<1>2. /\ l \in Seq(Item)
      /\ \A i, k \in DOMAIN l : l[i].product = l[k].product => i = k
  BY ListingsAssumption
<1>3. listing'[s] = l /\ listing' \in [Slots -> Seq(Item)]
  BY <1>1, <1>2 DEF TxTypes
<1>4. now' = now + 1 /\ now' \in 1..MaxNow /\ start' = [start EXCEPT ![s] = now']
  BY DEF Begin, Elapse, HistoryTypes
<1>5. TxTypes' /\ LoopShape'
  <2>1. start' \in [Slots -> 0..MaxNow]
    BY <1>4 DEF TxTypes
  <2>2. wrote' \in [Slots -> SUBSET [product : Products, value : Values]] /\ lock' = lock
    BY DEF Begin, TxTypes
  <2>3. 0 \in 0..Len(listing'[s])
    BY <1>2, <1>3
  <2>4. Proceed(s, listing'[s], 0)
    BY <1>1, <1>3
  <2>5. \A t \in Slots : t # s => listing'[t] = listing[t]
    BY <1>1 DEF TxTypes
  <2>6. \A k, m \in DOMAIN listing'[s] :
          listing'[s][k].product = listing'[s][m].product => k = m
    BY <1>2, <1>3
  <2> QED
    BY <1>3, <2>1, <2>2, <2>3, <2>4, <2>5, <2>6, ProceedKeeps
<1>6. HistoryTypes'
  BY <1>4 DEF Begin, HistoryTypes
<1>7. Timing'
  <2>1. \A t \in Slots : t # s => pc'[t] = pc[t] /\ start'[t] = start[t]
    <3>1. 0 \in 0..Len(l)
      BY <1>2
    <3> QED
      BY <1>1, <1>2, <1>4, <3>1, ProceedTo DEF TxTypes
  <2>2. start'[s] = now'
    BY <1>4 DEF TxTypes
  <2>4. UNCHANGED <<last, seen>>
    BY DEF Begin
  <2>5. \A t \in Slots : Open(t)' => start'[t] \in 1..now'
    BY <1>4, <2>1, <2>2 DEF Timing, Open, HistoryTypes, TxTypes
  <2>6. \A t, u \in Slots : Open(t)' /\ Open(u)' /\ start'[t] = start'[u] => t = u
    BY <1>4, <2>1, <2>2 DEF Timing, Open, HistoryTypes, TxTypes
  <2>7. \A p \in Products :
          /\ seen'[p].at <= now' /\ last'[p].at <= now'
          /\ \A t \in Slots : Open(t)' => start'[t] # seen'[p].at /\ start'[t] # last'[p].at
    <3>1. \A p \in Products : seen[p].at \in Nat /\ last[p].at \in Nat
      BY DEF HistoryTypes
    <3>2. \A p \in Products : seen[p].at < now' /\ last[p].at < now'
      BY <1>4, <3>1 DEF Timing, HistoryTypes
    <3>3. \A t \in Slots : Open(t)' /\ t # s => Open(t) /\ start'[t] = start[t]
      BY <2>1 DEF Open
    <3>4. ASSUME NEW p \in Products, NEW t \in Slots, Open(t)'
          PROVE  start'[t] # seen'[p].at /\ start'[t] # last'[p].at
      <4>1. CASE t = s
        BY <2>2, <2>4, <3>1, <3>2, <4>1
      <4>2. CASE t # s
        BY <2>4, <3>3, <3>4, <4>2 DEF Timing
      <4> QED
        BY <4>1, <4>2
    <3>5. \A p \in Products : seen'[p].at <= now' /\ last'[p].at <= now'
      BY <1>4, <2>4, <3>1, <3>2
    <3> QED
      BY <3>4, <3>5
  <2> QED
    BY <2>5, <2>6, <2>7 DEF Timing
<1> QED
  BY <1>5, <1>6, <1>7

LEMMA TypingStep == Typing /\ [Next]_vars => Typing'
<1> SUFFICES ASSUME Typing, [Next]_vars PROVE Typing'
  OBVIOUS
<1> USE Times DEF Typing
<1>1. CASE UNCHANGED vars
  BY <1>1 DEF vars, txVars, HistoryTypes, TxTypes, LoopShape, ShapeOf, Timing, Open
<1>2. CASE Pass
  <2>1. HistoryTypes' /\ TxTypes' /\ LoopShape'
    BY <1>2
    DEF Pass, Elapse, txVars, HistoryTypes, TxTypes, LoopShape, ShapeOf
  <2>2. Timing'
    BY <1>2 DEF Pass, Elapse, txVars, Timing, Open, HistoryTypes, TxTypes
  <2> QED
    BY <2>1, <2>2
<1>3. CASE Prune
  BY <1>3
  DEF Prune, txVars, HistoryTypes, TxTypes, LoopShape, ShapeOf, Timing, Open
<1>4. ASSUME NEW s \in Slots, Begin(s)
      PROVE  Typing'
  BY <1>4, BeginKeeps
<1>5. ASSUME NEW s \in Slots, Upsert(s)
      PROVE  Typing'
  <2>1. listing[s][next[s]].product \in Products
    BY <1>5, AtItem DEF Upsert
  <2>2. TxTypes'
    BY <1>5, <2>1 DEF Upsert, TxTypes
  <2>3. HistoryTypes'
    BY <1>5 DEF Upsert, HistoryTypes
  <2>4. LoopShape'
    BY <1>5 DEF Upsert, TxTypes, LoopShape, ShapeOf
  <2>5. \A t \in Slots : Open(t)' <=> Open(t)
    BY <1>5 DEF Upsert, TxTypes, Open
  <2>6. Timing'
    BY <1>5, <2>5 DEF Upsert, Timing
  <2> QED
    BY <2>2, <2>3, <2>4, <2>6
<1>6. ASSUME NEW s \in Slots, Observe(s)
      PROVE  Typing'
  <2>1. /\ listing[s] \in Seq(Item)
        /\ next[s] \in 0..Len(listing[s])
        /\ listing[s][next[s]].product \in Products
        /\ listing[s][next[s]].value \in Values
    BY <1>6, AtItem DEF Observe
  <2>2. Entry(listing[s][next[s]]) \in [product : Products, value : Values]
    BY <2>1 DEF Entry
  <2>3. wrote' \in [Slots -> SUBSET [product : Products, value : Values]]
    BY <1>6, <2>2 DEF Observe, TxTypes
  <2>4. TxTypes' /\ LoopShape'
    <3>1. Proceed(s, listing'[s], next[s]) /\ listing' = listing /\ start' = start /\ lock' = lock
      BY <1>6 DEF Observe
    <3>2. \A k, m \in DOMAIN listing'[s] :
            listing'[s][k].product = listing'[s][m].product => k = m
      BY <3>1 DEF LoopShape, ShapeOf
    <3> QED
      BY <2>1, <2>3, <3>1, <3>2, ProceedKeeps DEF TxTypes
  <2>5. HistoryTypes'
    BY <1>6 DEF Observe, HistoryTypes
  <2>6. \A t \in Slots : Open(t)' <=> Open(t)
    <3>1. \A t \in Slots : t # s => pc'[t] = pc[t]
      BY <1>6, <2>1, ProceedTo DEF Observe
    <3>2. pc[s] # "idle" /\ pc'[s] # "idle"
      BY <1>6, <2>1, ProceedTo DEF Observe
    <3> QED
      BY <3>1, <3>2 DEF Open
  <2>7. Timing'
    BY <1>6, <2>6 DEF Observe, Timing
  <2> QED
    BY <2>4, <2>5, <2>7
<1>7. ASSUME NEW s \in Slots, Commit(s)
      PROVE  Typing'
  <2>1. TxTypes' /\ LoopShape'
    BY <1>7, EndKeeps DEF Commit
  <2>2. HistoryTypes'
    BY <1>7, CommitKeeps
  <2>3. /\ pc'[s] = "idle"
        /\ \A t \in Slots : t # s => pc'[t] = pc[t] /\ start'[t] = start[t]
    BY <1>7, EndDoes DEF Commit, Untouched
  <2>4. /\ now' = now
        /\ \A p \in Products : /\ seen'[p].at \in {seen[p].at, start[s]}
                               /\ last'[p].at \in {last[p].at, start[s]}
    <3>1. \A p \in Products : \A x \in Written(s, p) : x.at = start[s]
      BY DEF Written
    <3>2. \A p \in Products : last'[p] = last[p] \/ last'[p] \in Written(s, p)
      BY <1>7 DEF Commit
    <3> QED
      BY <1>7, <3>1, <3>2 DEF Commit
  <2>5. Open(s)
    BY <1>7 DEF Commit, Open
  <2>6. \A t \in Slots : Open(t)' => t # s /\ Open(t) /\ start'[t] = start[t]
    BY <2>3 DEF Open
  <2>7. \A p \in Products : seen'[p].at <= now' /\ last'[p].at <= now'
    BY <2>4, <2>5 DEF Timing, HistoryTypes
  <2>8. ASSUME NEW p \in Products, NEW t \in Slots, Open(t)'
        PROVE  start'[t] # seen'[p].at /\ start'[t] # last'[p].at
    <3>1. start[t] # seen[p].at /\ start[t] # last[p].at /\ start[t] # start[s]
      BY <2>5, <2>6, <2>8 DEF Timing
    <3> QED
      BY <2>4, <2>6, <2>8, <3>1
  <2>9. Timing'
    <3>1. \A t \in Slots : Open(t)' => start'[t] \in 1..now'
      BY <2>4, <2>6 DEF Timing
    <3>2. \A t, u \in Slots : Open(t)' /\ Open(u)' /\ start'[t] = start'[u] => t = u
      BY <2>6 DEF Timing
    <3> QED
      BY <2>7, <2>8, <3>1, <3>2 DEF Timing
  <2> QED
    BY <2>1, <2>2, <2>9
<1>8. ASSUME NEW s \in Slots, Rollback(s)
      PROVE  Typing'
  <2>1. TxTypes' /\ LoopShape'
    BY <1>8, EndKeeps DEF Rollback
  <2>2. HistoryTypes'
    BY <1>8 DEF Rollback, HistoryTypes
  <2>3. /\ pc'[s] = "idle"
        /\ \A t \in Slots : t # s => pc'[t] = pc[t] /\ start'[t] = start[t]
    BY <1>8, EndDoes DEF Rollback, Untouched
  <2>4. Timing'
    BY <1>8, <2>3 DEF Rollback, Timing, Open
  <2> QED
    BY <2>1, <2>2, <2>4
<1> QED
  BY <1>1, <1>2, <1>3, <1>4, <1>5, <1>6, <1>7, <1>8, Steps

LEMMA TypingHolds == Spec => []Typing
BY TypingInit, TypingStep, PTL DEF Spec

\* Every variable keeps its type, and an open transaction's loop is at one of
\* its items.
THEOREM TypeCorrect == Spec => []TypeOK
<1>1. Typing => TypeOK
  <2> SUFFICES ASSUME Typing PROVE TypeOK
    OBVIOUS
  <2> USE DEF Typing
  <2>1. \A s \in Slots : /\ listing[s] \in Seq(Item)
                         /\ next[s] \in 1..(Len(listing[s]) + 1)
                         /\ pc[s] \in {"upsert", "observe"} => next[s] \in DOMAIN listing[s]
                         /\ wrote[s] \subseteq [product : Products, value : Values]
    BY DEF TxTypes, LoopShape, ShapeOf, Complete
  <2>2. \A p \in Products : /\ last[p].at \in 0..MaxNow
                            /\ last[p].value \in Values \cup {None}
                            /\ seen[p].at \in 0..MaxNow
                            /\ seen[p].at > 0 => seen[p].value \in Values
    BY DEF HistoryTypes
  <2> QED
    BY <2>1, <2>2 DEF TypeOK, HistoryTypes, TxTypes
<1> QED
  BY <1>1, TypingHolds, PTL

-----------------------------------------------------------------------------
(* Decisions last *)

\* Of two items with the same product, there is only one.
LEMMA Distinct ==
  ASSUME LoopShape, NEW s \in Slots,
         NEW i \in Complete(listing[s]), NEW k \in Complete(listing[s]),
         listing[s][i].product = listing[s][k].product
  PROVE  i = k
BY DEF LoopShape, ShapeOf, Complete

\* What a transaction is about to commit is of products that it has to itself.
LEMMA WroteIsHeld ==
  ASSUME Typing, NEW s \in Slots, LocksOf(s), DecisionsOf(s), NEW w \in wrote[s]
  PROVE  lock[w.product] = s
<1>1. PICK i \in Done(s) : w = Entry(listing[s][i])
  BY DEF DecisionsOf
<1>2. w.product = listing[s][i].product
  BY <1>1 DEF Entry
<1> QED
  BY <1>2 DEF LocksOf, Holds

\* A step of another slot, or of the clock, that writes no point of a product
\* that a transaction has to itself, leaves its decisions right.
LEMMA Undisturbed ==
  ASSUME Typing, NEW t \in Slots, LocksOf(t), DecisionsOf(t), Untouched(t),
         \A p \in Products : lock[p] = t => /\ lock'[p] = t
                                            /\ last'[p] = last[p]
                                            /\ Gone(p) => last[p] \notin points'[p]
  PROVE  LocksOf(t)' /\ DecisionsOf(t)'
<1>1. Done(t)' = Done(t)
  BY DEF Done, Untouched
<1>2. \A i \in Done(t) : listing[t][i].product \in Products
  BY ItemTypes DEF Done, Typing
<1>3. pc[t] = "observe" => listing[t][next[t]].product \in Products
  BY AtItem DEF Typing
<1>h. \A p \in Products : lock[p] = t => lock'[p] = t
  OBVIOUS
<1>4. LocksOf(t)'
  BY <1>1, <1>2, <1>3, <1>h DEF LocksOf, Holds, Untouched
<1>5. \A i \in Done(t) : Right(t, i)'
  <2> SUFFICES ASSUME NEW i \in Done(t) PROVE Right(t, i)'
    OBVIOUS
  <2> PICK p \in Products : p = listing[t][i].product
    BY <1>2
  <2>1. /\ listing'[t] = listing[t] /\ wrote'[t] = wrote[t] /\ start'[t] = start[t]
        /\ Right(t, i)
    BY DEF DecisionsOf, Untouched
  <2>2. last'[p] = last[p] /\ (Gone(p) => last[p] \notin points'[p])
    BY <1>2 DEF LocksOf, Holds
  <2>3. Wrote(t, i)' <=> Wrote(t, i)
    BY <2>1 DEF Wrote
  <2>4. MatchesNow(t, i)' <=> MatchesNow(t, i)
    BY <2>1, <2>2 DEF MatchesNow, Matches
  <2>5. Gone(listing[t][i].product) => Gone(listing[t][i].product)'
    BY <2>1, <2>2 DEF Gone
  <2> QED
    BY <2>1, <2>3, <2>4, <2>5 DEF Right
<1>6. DecisionsOf(t)'
  <2>1. \A w \in wrote'[t] : \E i \in Done(t)' : w = Entry(listing'[t][i])
    BY <1>1 DEF DecisionsOf, Untouched
  <2> QED
    BY <1>1, <1>5, <2>1 DEF DecisionsOf
<1> QED
  BY <1>4, <1>6

\* Where the points are left alone, so are decisions.
LEMMA UndisturbedPoints ==
  ASSUME Typing, NEW t \in Slots, LocksOf(t), DecisionsOf(t), Untouched(t),
         \A p \in Products : lock[p] = t => lock'[p] = t,
         UNCHANGED <<points, last>>
  PROVE  LocksOf(t)' /\ DecisionsOf(t)'
<1>1. \A p \in Products : lock[p] = t => /\ lock'[p] = t
                                         /\ last'[p] = last[p]
                                         /\ Gone(p) => last[p] \notin points'[p]
  BY DEF Gone
<1> QED
  BY <1>1, Undisturbed

\* The NOT EXISTS looks at `last', as long as there are points.
LEMMA RecordedIs ==
  ASSUME NEW p, NEW v, NEW began, Kept(p),
         \A x \in points[p] : x.at \in Nat
  PROVE  Recorded(p, v, began) <=> ~Gone(p) /\ Matches(p, v, began)
<1>1. ASSUME Recorded(p, v, began) PROVE ~Gone(p) /\ Matches(p, v, began)
  <2>1. PICK x \in points[p] : /\ \A y \in points[p] : y.at <= x.at
                               /\ x.value = v /\ x.at > began - Day
    BY <1>1 DEF Recorded, Newest
  <2>2. last[p] \in points[p] /\ last[p].at <= x.at /\ x.at <= last[p].at
    BY <2>1 DEF Kept
  <2>3. x.at = last[p].at
    BY <2>2
  <2>4. x = last[p]
    BY <2>3 DEF Kept
  <2> QED
    BY <2>1, <2>2, <2>4 DEF Gone, Matches
<1>2. ASSUME ~Gone(p), Matches(p, v, began) PROVE Recorded(p, v, began)
  BY <1>2 DEF Gone, Matches, Recorded, Newest, Kept
<1> QED
  BY <1>1, <1>2

\* What a commit writes: the points it adds, and the latest one.
LEMMA CommitWrites ==
  ASSUME Typing, NEW s \in Slots, Commit(s), NEW p \in Products
  PROVE  /\ points'[p] = points[p] \cup Written(s, p)
         /\ last'[p] = IF Written(s, p) # {} /\ (points[p] = {} \/ start[s] > last[p].at)
                         THEN CHOOSE x \in Written(s, p) : TRUE
                         ELSE last[p]
BY DEF Commit, Publish

\* A commit adds no point of a product that another transaction has to itself.
LEMMA CommitLeaves ==
  ASSUME Serial, NEW s \in Slots, Commit(s), NEW p \in Products, lock[p] # s
  PROVE  points'[p] = points[p] /\ last'[p] = last[p]
<1>1. LocksOf(s) /\ DecisionsOf(s)
  BY DEF Serial, Decided, Commit, Open
<1>2. Written(s, p) = {}
  BY <1>1, WroteIsHeld DEF Serial, Written
<1> QED
  BY <1>2, CommitWrites DEF Serial

\* The item that the loop has just stored has been decided on, too.
LEMMA ObserveDecides ==
  ASSUME Serial, NEW s \in Slots, Observe(s)
  PROVE  LocksOf(s)' /\ DecisionsOf(s)'
<1> DEFINE l == listing[s]
           n == next[s]
<1> USE DEF Serial, Typing
<1>1. LocksOf(s) /\ DecisionsOf(s)
  BY DEF Decided, Observe, Open
<1>2. /\ l \in Seq(Item) /\ n \in Complete(l) /\ n \in 0..Len(l)
      /\ Proceed(s, l, n)
      /\ l[n].product \in Products
      /\ UNCHANGED <<points, last, start, listing, lock>>
  BY AtItem DEF Observe
<1>3. /\ pc'[s] # "observe" /\ next'[s] > n /\ next'[s] \in Nat
      /\ \A k \in Complete(l) : k > n => k >= next'[s]
  BY <1>2, ProceedTo
<1>4. Done(s)' = Done(s) \cup {n}
  <2>1. Complete(l) \subseteq Nat
    BY <1>2 DEF Complete
  <2> QED
    BY <1>2, <1>3, <2>1 DEF Done
<1>5. \A i \in Done(s)' : Holds(s, i)
  BY <1>1, <1>4 DEF LocksOf, Observe
<1>6. LocksOf(s)'
  BY <1>2, <1>3, <1>5 DEF LocksOf, Holds
<1>7. \A i \in Done(s)' : /\ MatchesNow(s, i)' <=> MatchesNow(s, i)
                          /\ Gone(l[i].product)' <=> Gone(l[i].product)
  BY <1>2 DEF MatchesNow, Matches, Gone
<1>r. Recorded(l[n].product, l[n].value, start[s]) <=> MatchesNow(s, n) /\ ~Gone(l[n].product)
  <2>1. Kept(l[n].product)
    BY <1>2 DEF LatestKept
  <2>2. \A x \in points[l[n].product] : x.at \in Nat
    BY <1>2 DEF HistoryTypes, Point
  <2> QED
    BY <2>1, <2>2, RecordedIs DEF MatchesNow
<1>8. wrote'[s] = IF MatchesNow(s, n) /\ ~Gone(l[n].product) THEN wrote[s]
                  ELSE wrote[s] \cup {Entry(l[n])}
  BY <1>r DEF Observe, TxTypes
<1>9. ~Wrote(s, n)
  <2> SUFFICES ASSUME Wrote(s, n) PROVE FALSE
    OBVIOUS
  <2>1. PICK i \in Done(s) : Entry(l[n]) = Entry(l[i])
    BY <1>1 DEF DecisionsOf, Wrote
  <2>2. l[n].product = l[i].product /\ i \in Complete(l) /\ i < n
    BY <2>1 DEF Entry, Done
  <2> QED
    BY <1>2, <2>2, Distinct
<1>10. \A i \in Done(s)' : Right(s, i)'
  <2> SUFFICES ASSUME NEW i \in Done(s)'
               PROVE  /\ Entry(l[i]) \in wrote'[s] => ~MatchesNow(s, i) \/ Gone(l[i].product)
                      /\ Entry(l[i]) \notin wrote'[s] => MatchesNow(s, i)
    BY <1>2, <1>7 DEF Right, Wrote, Gone
  <2>1. CASE i = n
    BY <1>8, <1>9, <2>1 DEF Wrote
  <2>2. CASE i \in Done(s) /\ i # n
    <3>1. Entry(l[i]) # Entry(l[n])
      BY <1>2, <2>2, Distinct DEF Entry, Done
    <3> QED
      BY <1>1, <1>8, <2>2, <3>1 DEF DecisionsOf, Right, Wrote
  <2> QED
    BY <1>4, <2>1, <2>2
<1>11. \A w \in wrote'[s] : \E i \in Done(s)' : w = Entry(l[i])
  BY <1>1, <1>4, <1>8 DEF DecisionsOf
<1>12. DecisionsOf(s)'
  BY <1>2, <1>10, <1>11 DEF DecisionsOf
<1> QED
  BY <1>6, <1>12

\* The latest point remains the latest: commits and pruning.
LEMMA KeptCommit ==
  ASSUME Serial, NEW s \in Slots, Commit(s), NEW p \in Products
  PROVE  Kept(p)'
<1> USE DEF Serial, Typing
<1>1. /\ Kept(p) /\ now' = now /\ start[s] # last[p].at
      /\ start[s] \in Nat /\ last[p].at \in Nat
      /\ \A x \in points[p] : x.at \in Nat
  BY DEF LatestKept, Commit, Timing, Open, HistoryTypes, TxTypes, Point
<1>2. CASE Written(s, p) = {}
  <2>1. points'[p] = points[p] /\ last'[p] = last[p]
    BY <1>2, CommitWrites
  <2> QED
    BY <1>1, <2>1 DEF Kept
<1>3. CASE Written(s, p) # {}
  <2>1. \A x, y \in Written(s, p) : x = y /\ x.at = start[s]
    <3>1. LocksOf(s) /\ DecisionsOf(s)
      BY DEF Decided, Commit, Open
    <3>2. ASSUME NEW w \in wrote[s], NEW z \in wrote[s], w.product = p, z.product = p
          PROVE  w = z
      <4>1. PICK i \in Done(s) : w = Entry(listing[s][i])
        BY <3>1 DEF DecisionsOf
      <4>2. PICK k \in Done(s) : z = Entry(listing[s][k])
        BY <3>1 DEF DecisionsOf
      <4>3. i = k
        BY <3>2, <4>1, <4>2, Distinct DEF Entry, Done
      <4> QED
        BY <4>1, <4>2, <4>3
    <3> QED
      BY <3>2 DEF Written
  <2>2. PICK new \in Written(s, p) : TRUE
    BY <1>3
  <2>3. /\ Written(s, p) = {new} /\ new.at = start[s]
        /\ points'[p] = points[p] \cup {new}
    BY <2>1, <2>2, CommitWrites
  <2>4. CASE points[p] = {} \/ start[s] > last[p].at
    <3>1. last'[p] = new
      BY <1>3, <2>3, <2>4, CommitWrites
    <3> QED
      BY <1>1, <2>3, <2>4, <3>1 DEF Kept
  <2>5. CASE ~(points[p] = {} \/ start[s] > last[p].at)
    <3>1. last'[p] = last[p]
      BY <2>5, CommitWrites
    <3>2. start[s] < last[p].at /\ last[p] \in points[p]
      BY <1>1, <2>5 DEF Kept
    <3> QED
      BY <1>1, <2>3, <3>1, <3>2 DEF Kept
  <2> QED
    BY <2>4, <2>5
<1> QED
  BY <1>2, <1>3

LEMMA KeptPrune ==
  ASSUME Serial, Prune, NEW p \in Products
  PROVE  Kept(p)'
<1>1. /\ Kept(p) /\ UNCHANGED <<now, last>> /\ now \in Nat /\ last[p].at \in Nat
      /\ \A x \in points[p] : x.at \in Nat
      /\ points'[p] = {x \in points[p] : x.at >= now - Retention}
  BY DEF Serial, Typing, LatestKept, Prune, HistoryTypes, Point
<1>2. ASSUME NEW y \in points'[p]
      PROVE  last[p] \in points'[p]
  <2>1. y \in points[p] /\ y.at >= now - Retention /\ y.at <= last[p].at /\ last[p] \in points[p]
    BY <1>1, <1>2 DEF Kept
  <2> QED
    BY <1>1, <2>1, Times
<1>3. last[p].at > 0 => last[p] \in points'[p] \/ last[p].at < now - Retention
  BY <1>1, Times DEF Kept
<1> QED
  BY <1>1, <1>2, <1>3 DEF Kept

LEMMA KeptStep ==
  ASSUME Serial, [Next]_vars
  PROVE  LatestKept'
<1> SUFFICES ASSUME NEW p \in Products PROVE Kept(p)'
  BY DEF LatestKept
<1>1. CASE UNCHANGED <<points, last>> /\ now' \in {now, now + 1}
  <2>1. now \in Nat /\ last[p].at \in Nat /\ Kept(p)
    BY DEF Serial, Typing, HistoryTypes, LatestKept
  <2> QED
    BY <1>1, <2>1, Times DEF Kept
<1>2. CASE UNCHANGED vars \/ Pass
  BY <1>1, <1>2 DEF vars, Pass, Elapse
<1>3. CASE Prune
  BY <1>3, KeptPrune
<1>4. ASSUME NEW s \in Slots, Begin(s) \/ Upsert(s) \/ Observe(s) \/ Rollback(s)
      PROVE  Kept(p)'
  BY <1>1, <1>4 DEF Begin, Elapse, Upsert, Observe, Rollback
<1>5. ASSUME NEW s \in Slots, Commit(s)
      PROVE  Kept(p)'
  BY <1>5, KeptCommit
<1> QED
  BY <1>2, <1>3, <1>4, <1>5, Steps

LEMMA SerialInit == Init => Serial
BY TypingInit DEF Serial, Init, Decided, Open, LatestKept, Kept

LEMMA SerialStep == Serial /\ [Next]_vars => Serial'
<1> SUFFICES ASSUME Serial, [Next]_vars PROVE Serial'
  OBVIOUS
<1> USE DEF Serial
<1>1. Typing' /\ LatestKept'
  BY TypingStep, KeptStep
<1>2. Decided'
  <2> SUFFICES ASSUME NEW t \in Slots, Open(t)'
               PROVE  LocksOf(t)' /\ DecisionsOf(t)'
    BY DEF Decided
  <2>1. CASE UNCHANGED vars \/ Pass
    <3>1. Open(t) /\ Untouched(t) /\ UNCHANGED <<points, last, lock>>
      BY <2>1 DEF vars, txVars, Pass, Open, Untouched
    <3> QED
      BY <3>1, UndisturbedPoints DEF Decided
  <2>2. CASE Prune
    <3>1. Open(t) /\ Untouched(t) /\ UNCHANGED <<lock, last>>
      BY <2>2 DEF Prune, txVars, Open, Untouched
    <3>2. \A p \in Products : Gone(p) => last[p] \notin points'[p]
      BY <2>2, <3>1 DEF Prune, Gone
    <3> QED
      BY <3>1, <3>2, Undisturbed DEF Decided
  <2>3. ASSUME NEW s \in Slots, t # s, Open(t), Untouched(t), UNCHANGED <<lock, points, last>>
        PROVE  LocksOf(t)' /\ DecisionsOf(t)'
    BY <2>3, UndisturbedPoints DEF Decided
  <2>4. ASSUME NEW s \in Slots, Begin(s)
        PROVE  LocksOf(t)' /\ DecisionsOf(t)'
    <3>1. PICK l \in Listings : /\ listing' = [listing EXCEPT ![s] = l]
                                /\ Proceed(s, l, 0)
      BY <2>4 DEF Begin
    <3>2. l \in Seq(Item) /\ 0 \in 0..Len(l) /\ Complete(l) \subseteq 1..Len(l)
      BY ListingsAssumption DEF Complete
    <3>3. /\ pc'[s] # "observe" /\ next'[s] \in Nat
          /\ \A k \in Complete(l) : k > 0 => k >= next'[s]
          /\ \A u \in Slots : u # s => pc'[u] = pc[u] /\ next'[u] = next[u]
      BY <3>1, <3>2, ProceedTo DEF Typing
    <3>4. CASE t = s
      <4>1. listing'[t] = l /\ wrote'[t] = {}
        BY <2>4, <3>1, <3>4 DEF Begin, Typing, TxTypes
      <4>2. Done(t)' = {}
        BY <3>2, <3>3, <3>4, <4>1 DEF Done
      <4> QED
        BY <3>3, <3>4, <4>1, <4>2 DEF LocksOf, DecisionsOf
    <3>5. CASE t # s
      <4>1. Untouched(t) /\ Open(t)
        BY <2>4, <3>1, <3>3, <3>5 DEF Begin, Untouched, Open, Typing, TxTypes
      <4> QED
        BY <2>3, <2>4, <3>5, <4>1 DEF Begin
    <3> QED
      BY <3>4, <3>5
  <2>5. ASSUME NEW s \in Slots, Upsert(s)
        PROVE  LocksOf(t)' /\ DecisionsOf(t)'
    <3> DEFINE p == listing[s][next[s]].product
    <3>1. /\ p \in Products /\ lock[p] \in {None, s}
          /\ lock' = [lock EXCEPT ![p] = s]
          /\ pc' = [pc EXCEPT ![s] = "observe"]
          /\ UNCHANGED <<points, last, start, listing, next, wrote>>
      BY <2>5, AtItem DEF Upsert, Typing
    <3>2. Open(t)
      BY <2>5, <3>1 DEF Open, Upsert, Typing, TxTypes
    <3>3. LocksOf(t) /\ DecisionsOf(t)
      BY <3>2 DEF Decided
    <3>4. \A x \in Products : lock[x] = t => lock'[x] = t
      BY <3>1, NoneAssumption DEF Typing, TxTypes
    <3>5. \A i \in Done(t) : Right(t, i)' <=> Right(t, i)
      BY <3>1 DEF Right, Wrote, MatchesNow, Matches, Gone
    <3>6. CASE t = s
      <4>1. Done(t)' = Done(t) /\ \A i \in Done(t) : listing[t][i].product \in Products
        BY <3>1, ItemTypes DEF Done, Typing
      <4>2. LocksOf(t)'
        BY <3>1, <3>3, <3>4, <3>6, <4>1 DEF LocksOf, Holds, Typing, TxTypes
      <4>3. DecisionsOf(t)'
        BY <3>1, <3>3, <3>5, <4>1 DEF DecisionsOf
      <4> QED
        BY <4>2, <4>3
    <3>7. CASE t # s
      <4>1. Untouched(t)
        BY <3>1, <3>7 DEF Untouched, Typing, TxTypes
      <4> QED
        BY <3>1, <3>3, <3>4, <4>1, UndisturbedPoints
    <3> QED
      BY <3>6, <3>7
  <2>6. ASSUME NEW s \in Slots, Observe(s)
        PROVE  LocksOf(t)' /\ DecisionsOf(t)'
    <3>1. CASE t = s
      BY <2>6, <3>1, ObserveDecides
    <3>2. CASE t # s
      <4>1. /\ listing[s] \in Seq(Item) /\ next[s] \in 0..Len(listing[s])
            /\ Proceed(s, listing[s], next[s])
        BY <2>6, AtItem DEF Observe, Typing
      <4>2. Untouched(t) /\ Open(t)
        <5>1. pc'[t] = pc[t] /\ next'[t] = next[t]
          BY <3>2, <4>1, ProceedTo DEF Typing
        <5>2. wrote'[t] = wrote[t]
          BY <2>6, <3>2 DEF Observe, Typing, TxTypes
        <5> QED
          BY <2>6, <5>1, <5>2 DEF Observe, Untouched, Open
      <4> QED
        BY <2>3, <2>6, <3>2, <4>2 DEF Observe
    <3> QED
      BY <3>1, <3>2
  <2>7. ASSUME NEW s \in Slots, Release(s), End(s)
        PROVE  /\ t # s /\ Untouched(t) /\ Open(t)
               /\ \A p \in Products : lock[p] = t => lock'[p] = t
    <3>1. TxTypes
      BY DEF Typing
    <3>2. /\ pc'[s] = "idle" /\ \A x \in Slots : x # s => Untouched(x)
          /\ \A p \in Products, x \in Slots : x # s /\ lock[p] = x => lock'[p] = x
      BY <2>7, <3>1, EndDoes, ReleaseDoes
    <3>3. t # s
      BY <3>2 DEF Open
    <3>4. Untouched(t)
      BY <3>2, <3>3
    <3>5. Open(t)
      BY <3>4 DEF Open, Untouched
    <3>6. \A p \in Products : lock[p] = t => lock'[p] = t
      BY <3>2, <3>3
    <3> QED
      BY <3>3, <3>4, <3>5, <3>6
  <2>8. ASSUME NEW s \in Slots, Commit(s)
        PROVE  LocksOf(t)' /\ DecisionsOf(t)'
    <3>1. /\ t # s /\ Untouched(t) /\ LocksOf(t) /\ DecisionsOf(t)
          /\ \A p \in Products : lock[p] = t => lock'[p] = t
      BY <2>7, <2>8 DEF Commit, Decided
    <3>2. \A p \in Products : lock[p] = t => points'[p] = points[p] /\ last'[p] = last[p]
      BY <2>8, <3>1, CommitLeaves
    <3>3. \A p \in Products : lock[p] = t => /\ lock'[p] = t
                                             /\ last'[p] = last[p]
                                             /\ Gone(p) => last[p] \notin points'[p]
      BY <3>1, <3>2 DEF Gone
    <3> QED
      BY <3>1, <3>3, Undisturbed
  <2>9. ASSUME NEW s \in Slots, Rollback(s)
        PROVE  LocksOf(t)' /\ DecisionsOf(t)'
    <3>1. /\ Untouched(t) /\ LocksOf(t) /\ DecisionsOf(t)
          /\ \A p \in Products : lock[p] = t => lock'[p] = t
      BY <2>7, <2>9 DEF Rollback, Decided
    <3>2. UNCHANGED <<points, last>>
      BY <2>9 DEF Rollback
    <3> QED
      BY <3>1, <3>2, UndisturbedPoints
  <2> QED
    BY <2>1, <2>2, <2>4, <2>5, <2>6, <2>8, <2>9, Steps
<1> QED
  BY <1>1, <1>2

LEMMA SerialHolds == Spec => []Serial
BY SerialInit, SerialStep, PTL DEF Spec

-----------------------------------------------------------------------------
(* A commit is one step of the promised history *)

PointOf(s, p) == [at |-> start[s], value |-> SeenBy(s)[p]]

Adds(s, p) == Written(s, p) # {}

\* What a commit adds is what the whole job would add if it ran at that moment.
LEMMA CommitRecords ==
  ASSUME Serial, NEW s \in Slots, Commit(s), NEW p \in Products
  PROVE  /\ Adds(s, p) =>
              /\ p \in Stores(s)
              /\ ~Matches(p, SeenBy(s)[p], start[s]) \/ Gone(p)
              /\ points'[p] = points[p] \cup {PointOf(s, p)}
              /\ last'[p] = IF points[p] = {} \/ start[s] > last[p].at
                              THEN PointOf(s, p) ELSE last[p]
         /\ ~Adds(s, p) =>
              /\ points'[p] = points[p] /\ last'[p] = last[p]
              /\ p \in Stores(s) => Matches(p, SeenBy(s)[p], start[s])
<1> DEFINE l == listing[s]
<1> USE DEF Serial, Typing
<1>1. LocksOf(s) /\ DecisionsOf(s)
  BY DEF Decided, Commit, Open
<1>2. Done(s) = Complete(l)
  <2>1. next[s] = Len(l) + 1 /\ l \in Seq(Item)
    BY DEF Commit, LoopShape, ShapeOf, TxTypes
  <2>2. Complete(l) \subseteq 1..Len(l) /\ Len(l) \in Nat
    BY <2>1 DEF Complete
  <2> QED
    BY <2>1, <2>2 DEF Done
<1>3. ASSUME Adds(s, p)
      PROVE  /\ p \in Stores(s)
             /\ ~Matches(p, SeenBy(s)[p], start[s]) \/ Gone(p)
             /\ Written(s, p) = {PointOf(s, p)}
  <2>1. PICK w \in wrote[s] : w.product = p
    BY <1>3 DEF Adds, Written
  <2>2. PICK i \in Complete(l) : w = Entry(l[i])
    BY <1>1, <1>2 DEF DecisionsOf
  <2>3. l[i].product = p
    BY <2>1, <2>2 DEF Entry
  <2>4. p \in Stores(s) /\ SeenBy(s)[p] = l[i].value
    BY <2>3, SeenByIs
  <2>5. Right(s, i) /\ Wrote(s, i)
    BY <1>1, <1>2, <2>2 DEF DecisionsOf, Wrote
  <2>6. ~Matches(p, SeenBy(s)[p], start[s]) \/ Gone(p)
    BY <2>3, <2>4, <2>5 DEF Right, MatchesNow
  <2>7. \A z \in wrote[s] : z.product = p => z.value = SeenBy(s)[p]
    <3> SUFFICES ASSUME NEW z \in wrote[s], z.product = p
                 PROVE  z.value = SeenBy(s)[p]
      OBVIOUS
    <3>1. PICK k \in Complete(l) : z = Entry(l[k])
      BY <1>1, <1>2 DEF DecisionsOf
    <3>2. z.product = l[k].product /\ z.value = l[k].value
      BY <3>1 DEF Entry
    <3> QED
      BY <3>2, SeenByIs
  <2>8. w.value = SeenBy(s)[p]
    BY <2>1, <2>7
  <2>9. Written(s, p) = {PointOf(s, p)}
    BY <2>1, <2>7, <2>8 DEF Written, PointOf
  <2> QED
    BY <2>4, <2>6, <2>9
<1>4. ASSUME ~Adds(s, p), p \in Stores(s)
      PROVE  Matches(p, SeenBy(s)[p], start[s])
  <2>1. PICK i \in Complete(l) : l[i].product = p
    BY <1>4 DEF Stores, Found
  <2>2. SeenBy(s)[p] = l[i].value
    BY <2>1, SeenByIs
  <2>3. Entry(l[i]).product = p
    BY <2>1 DEF Entry
  <2>4. ~Wrote(s, i)
    BY <1>4, <2>3 DEF Adds, Written, Wrote
  <2>5. MatchesNow(s, i)
    BY <1>1, <1>2, <2>4 DEF DecisionsOf, Right
  <2> QED
    BY <2>1, <2>2, <2>5 DEF MatchesNow
<1>5. ASSUME Adds(s, p)
      PROVE  /\ points'[p] = points[p] \cup {PointOf(s, p)}
             /\ last'[p] = IF points[p] = {} \/ start[s] > last[p].at
                             THEN PointOf(s, p) ELSE last[p]
  <2>1. (CHOOSE x \in Written(s, p) : TRUE) = PointOf(s, p)
    BY <1>3, <1>5
  <2> QED
    BY <1>3, <1>5, <2>1, CommitWrites
<1>6. ASSUME ~Adds(s, p)
      PROVE  points'[p] = points[p] /\ last'[p] = last[p]
  BY <1>6, CommitWrites DEF Adds
<1> QED
  BY <1>3, <1>4, <1>5, <1>6

\* A step that leaves the jobs of the other slots alone.
LEMMA JobsExcept ==
  ASSUME TxTypes, NEW s \in Slots, NEW job, JobOf(s)' = job,
         \A t \in Slots : t # s => Untouched(t)
  PROVE  [t \in Slots |-> JobOf(t)]' = [[t \in Slots |-> JobOf(t)] EXCEPT ![s] = job]
<1>1. \A t \in Slots : t # s => JobOf(t)' = JobOf(t)
  BY DEF Untouched, JobOf, SeenBy
<1>2. \A t \in Slots : JobOf(t)' = IF t = s THEN job ELSE JobOf(t)
  <2> SUFFICES ASSUME NEW t \in Slots
               PROVE  JobOf(t)' = IF t = s THEN job ELSE JobOf(t)
    OBVIOUS
  <2>1. CASE t = s
    <3>1. JobOf(t)' = JobOf(s)'
      BY <2>1
    <3> QED
      BY <2>1, <3>1
  <2>2. CASE t # s
    BY <1>1, <2>2
  <2> QED
    BY <2>1, <2>2
<1>3. [t \in Slots |-> JobOf(t)]' = [t \in Slots |-> IF t = s THEN job ELSE JobOf(t)]
  BY <1>2, Zenon
<1> QED
  BY <1>3

LEMMA JobsSame ==
  ASSUME \A t \in Slots : JobOf(t)' = JobOf(t)
  PROVE  [t \in Slots |-> JobOf(t)]' = [t \in Slots |-> JobOf(t)]
OBVIOUS

LEMMA CommitIsRecord ==
  ASSUME Serial, NEW s \in Slots, Commit(s)
  PROVE  PromisedHistory!Record(s)
<1> USE DEF Serial, Typing
<1> DEFINE job == [start |-> start[s], seen |-> SeenBy(s)]
           again == {p \in Products : Adds(s, p) /\ Gone(p)}
           added == {p \in Products : Adds(s, p)}
<1>1. JobOf(s) = {job} /\ JobOf(s)' = {}
  BY EndDoes DEF Commit, JobOf
<1>2. again \in SUBSET PromisedHistory!Dropped
  BY DEF PromisedHistory!Dropped, Gone
<1>3. Stores(s) \subseteq Products /\ DOMAIN job.seen = Stores(s) /\ job.start = start[s]
  BY SeenByTypes
<1>4. \A p, v, began : PromisedHistory!Unchanged(p, v, began) <=> Matches(p, v, began)
  BY DEF PromisedHistory!Unchanged, Matches
<1>5. PromisedHistory!Added(job, again) = added
  <2>1. ASSUME NEW p \in Products
        PROVE  p \in PromisedHistory!Added(job, again) <=> Adds(s, p)
    BY <1>3, <1>4, CommitRecords DEF PromisedHistory!Added
  <2>2. PromisedHistory!Added(job, again) \subseteq Products
    BY <1>3 DEF PromisedHistory!Added
  <2> QED
    BY <2>1, <2>2
<1>6. PromisedHistory!Add(job, added)
  <2>1. \A p \in Products :
          points'[p] = IF p \in added THEN points[p] \cup {PointOf(s, p)} ELSE points[p]
    BY CommitRecords
  <2>2. \A p \in Products :
          last'[p] = IF p \in added /\ (points[p] = {} \/ start[s] > last[p].at)
                       THEN PointOf(s, p) ELSE last[p]
    BY CommitRecords
  <2>3. points' = [p \in Products |-> points'[p]] /\ last' = [p \in Products |-> last'[p]]
    BY DEF Commit, Publish
  <2>4. \A p : PointOf(s, p) = [at |-> job.start, value |-> job.seen[p]]
    BY DEF PointOf
  <2>5. points' = [p \in Products |->
                     IF p \in added
                       THEN points[p] \cup {[at |-> job.start, value |-> job.seen[p]]}
                       ELSE points[p]]
    BY <2>1, <2>3, <2>4
  <2>6. last' = [p \in Products |->
                   IF p \in added /\ (points[p] = {} \/ job.start > last[p].at)
                     THEN [at |-> job.start, value |-> job.seen[p]]
                     ELSE last[p]]
    BY <1>3, <2>2, <2>3, <2>4
  <2> QED
    BY <2>5, <2>6 DEF PromisedHistory!Add
<1>7. [t \in Slots |-> JobOf(t)]' = [[t \in Slots |-> JobOf(t)] EXCEPT ![s] = {}]
  BY <1>1, EndDoes, JobsExcept DEF Commit
<1>8. now' = now
  BY DEF Commit
<1>9. job \in [t \in Slots |-> JobOf(t)][s]
  BY <1>1
<1> HIDE DEF job, again, added
<1> QED
  BY <1>2, <1>5, <1>6, <1>7, <1>8, <1>9 DEF PromisedHistory!Record

LEMMA BeginIsStart ==
  ASSUME Serial, NEW s \in Slots, Begin(s)
  PROVE  PromisedHistory!Start(s)
<1> USE DEF Serial, Typing
<1>1. PICK l \in Listings : /\ listing' = [listing EXCEPT ![s] = l]
                            /\ Proceed(s, l, 0)
  BY DEF Begin
<1>2. l \in Seq(Item) /\ 0 \in 0..Len(l)
  BY ListingsAssumption
<1>3. /\ pc'[s] # "idle" /\ start'[s] = now'
      /\ \A t \in Slots : t # s => Untouched(t)
  BY <1>1, <1>2, ProceedTo DEF Begin, Untouched, TxTypes
<1> DEFINE found == Stores(s)'
           job == [start |-> now', seen |-> SeenBy(s)']
<1>4. found \in SUBSET Products /\ SeenBy(s)' \in [found -> Values]
  <2>1. TxTypes' /\ LoopShape'
    BY BeginKeeps
  <2> QED
    BY <2>1, SeenByTypesNext
<1>5. JobOf(s)' = {job} /\ JobOf(s) = {}
  BY <1>3 DEF JobOf, Begin
<1>6. [t \in Slots |-> JobOf(t)]' = [[t \in Slots |-> JobOf(t)] EXCEPT ![s] = {job}]
  BY <1>3, <1>5, JobsExcept
<1>7. /\ [t \in Slots |-> JobOf(t)][s] = {} /\ now' = now + 1
      /\ UNCHANGED <<points, last>>
  BY <1>5 DEF Begin, Elapse
<1> QED
  BY <1>4, <1>6, <1>7 DEF PromisedHistory!Start

LEMMA RollbackIsGiveUp ==
  ASSUME Serial, NEW s \in Slots, Rollback(s)
  PROVE  PromisedHistory!GiveUp(s)
<1>1. JobOf(s)' = {} /\ JobOf(s) # {}
  BY EndDoes DEF Serial, Typing, Rollback, Open, JobOf
<1>2. [t \in Slots |-> JobOf(t)]' = [[t \in Slots |-> JobOf(t)] EXCEPT ![s] = {}]
  BY <1>1, EndDoes, JobsExcept DEF Serial, Typing, Rollback
<1>3. [t \in Slots |-> JobOf(t)][s] # {} /\ UNCHANGED <<now, points, last>>
  BY <1>1 DEF Rollback
<1> QED
  BY <1>2, <1>3 DEF PromisedHistory!GiveUp

\* A step within a transaction is none of the history's.
LEMMA WithinJob ==
  ASSUME Serial, NEW s \in Slots, Upsert(s) \/ Observe(s)
  PROVE  /\ \A t \in Slots : JobOf(t)' = JobOf(t)
         /\ UNCHANGED <<now, points, last>>
<1> USE DEF Serial, Typing
<1>1. UNCHANGED <<now, points, last, start, listing>>
  BY DEF Upsert, Observe
<1>2. \A t \in Slots : pc'[t] = "idle" <=> pc[t] = "idle"
  <2>1. CASE Upsert(s)
    BY <2>1 DEF Upsert, TxTypes
  <2>2. CASE Observe(s)
    <3>1. /\ listing[s] \in Seq(Item) /\ next[s] \in 0..Len(listing[s])
          /\ Proceed(s, listing[s], next[s]) /\ pc[s] = "observe"
      BY <2>2, AtItem DEF Observe
    <3> QED
      BY <3>1, ProceedTo
  <2> QED
    BY <2>1, <2>2
<1>3. \A t \in Slots : SeenBy(t)' = SeenBy(t)
  BY <1>1 DEF SeenBy
<1> QED
  BY <1>1, <1>2, <1>3 DEF JobOf

\* However the transactions of completed jobs interleave, wait for each
\* other's rows, are rolled back or overtaken by pruning, and whatever the
\* retention, the observations are those of whole jobs recorded one at a time.
THEOREM HistoryImplemented == Spec => ImplementsHistory
<1>1. Init => PromisedHistory!Init
  BY DEF Init, PromisedHistory!Init, JobOf
<1>2. Serial /\ [Next]_vars => [PromisedHistory!Next]_PromisedHistory!historyVars
  <2> SUFFICES ASSUME Serial, [Next]_vars
               PROVE  \/ PromisedHistory!Next
                      \/ UNCHANGED <<now, points, last, [t \in Slots |-> JobOf(t)]>>
    BY DEF PromisedHistory!historyVars
  <2>1. ASSUME UNCHANGED txVars
        PROVE  [t \in Slots |-> JobOf(t)]' = [t \in Slots |-> JobOf(t)]
    BY <2>1, JobsSame DEF txVars, JobOf, SeenBy
  <2>2. CASE UNCHANGED vars
    BY <2>1, <2>2 DEF vars
  <2>3. CASE Pass
    BY <2>1, <2>3 DEF Pass, Elapse, PromisedHistory!Next, PromisedHistory!Pass
  <2>4. CASE Prune
    BY <2>1, <2>4 DEF Prune, PromisedHistory!Next, PromisedHistory!Prune
  <2>5. ASSUME NEW s \in Slots, Begin(s)
        PROVE  PromisedHistory!Next
    BY <2>5, BeginIsStart DEF PromisedHistory!Next
  <2>6. ASSUME NEW s \in Slots, Upsert(s) \/ Observe(s)
        PROVE  UNCHANGED <<now, points, last, [t \in Slots |-> JobOf(t)]>>
    BY <2>6, WithinJob, JobsSame
  <2>7. ASSUME NEW s \in Slots, Commit(s)
        PROVE  PromisedHistory!Next
    BY <2>7, CommitIsRecord DEF PromisedHistory!Next
  <2>8. ASSUME NEW s \in Slots, Rollback(s)
        PROVE  PromisedHistory!Next
    BY <2>8, RollbackIsGiveUp DEF PromisedHistory!Next
  <2> QED
    BY <2>2, <2>3, <2>4, <2>5, <2>6, <2>7, <2>8, Steps
<1> QED
  BY <1>1, <1>2, SerialHolds, PTL
  DEF Spec, ImplementsHistory, PromisedHistory!Spec

-----------------------------------------------------------------------------
(* What the histories tell *)

\* A product that a commit does not store keeps its history.
LEMMA CommitPasses ==
  ASSUME Serial, NEW s \in Slots, Commit(s), NEW p \in Products, p \notin Stores(s)
  PROVE  /\ points'[p] = points[p] /\ last'[p] = last[p]
         /\ seen'[p] = seen[p] /\ late'[p] = late[p]
<1>1. points'[p] = points[p] /\ last'[p] = last[p]
  BY CommitRecords
<1>2. seen'[p] = seen[p]
  BY DEF Commit
<1>3. late'[p] = late[p]
  <2>1. late'[p] = (late[p] \/ (p \in Stores(s) /\ start[s] < seen[p].at))
    BY DEF Commit
  <2>2. late[p] \in BOOLEAN
    BY DEF Serial, Typing, HistoryTypes
  <2> QED
    BY <2>1, <2>2
<1> QED
  BY <1>1, <1>2, <1>3

\* A job that began after all that have stored a product before it.
LEMMA CommitInOrder ==
  ASSUME Serial, NEW s \in Slots, Commit(s), NEW p \in Stores(s), ~late'[p]
  PROVE  /\ p \in Products /\ ~late[p]
         /\ start[s] > seen[p].at
         /\ seen'[p] = [at |-> start[s], value |-> SeenBy(s)[p]]
<1>1. p \in Products
  BY SeenByTypes DEF Serial, Typing
<1>2. late'[p] = (late[p] \/ (p \in Stores(s) /\ start[s] < seen[p].at))
  BY <1>1 DEF Commit
<1>3. ~late[p] /\ ~(start[s] < seen[p].at)
  BY <1>2
<1>4. start[s] # seen[p].at
  BY <1>1 DEF Serial, Typing, Timing, Commit, Open
<1>5. start[s] \in Nat /\ seen[p].at \in Nat
  BY <1>1 DEF Serial, Typing, HistoryTypes, TxTypes
<1>6. start[s] > seen[p].at
  BY <1>3, <1>4, <1>5
<1> QED
  BY <1>1, <1>3, <1>6 DEF Commit

LEMMA BoundedStep ==
  ASSUME Exact, NEW s \in Slots, Commit(s)
  PROVE  Bounded'
<1> SUFFICES ASSUME NEW p \in Products, NEW x \in points'[p]
             PROVE  x.at <= seen'[p].at
  BY DEF Bounded
<1> USE DEF Exact, Serial, Typing
<1>1. start[s] \in Nat /\ seen[p].at \in Nat /\ \A y \in points[p] : y.at \in Nat
  BY DEF HistoryTypes, TxTypes, Point
<1>2. x \in points[p] \/ (p \in Stores(s) /\ x.at = start[s])
  <2>1. CASE Adds(s, p)
    <3>1. p \in Stores(s) /\ points'[p] = points[p] \cup {PointOf(s, p)}
      BY <2>1, CommitRecords
    <3> QED
      BY <3>1 DEF PointOf
  <2>2. CASE ~Adds(s, p)
    <3>1. points'[p] = points[p]
      BY <2>2, CommitRecords
    <3> QED
      BY <3>1
  <2> QED
    BY <2>1, <2>2
<1>3. seen'[p].at >= seen[p].at /\ (p \in Stores(s) => seen'[p].at >= start[s])
  BY <1>1 DEF Commit
<1>4. seen'[p].at \in Nat
  BY CommitKeeps DEF HistoryTypes
<1> QED
  BY <1>1, <1>2, <1>3, <1>4 DEF Bounded

LEMMA CoveredStep ==
  ASSUME Exact, NEW s \in Slots, Commit(s)
  PROVE  Covered'
<1> SUFFICES ASSUME NEW p \in Products, seen'[p].at > 0
             PROVE  \/ \E x \in points'[p] : x.at > seen'[p].at - Day
                    \/ seen'[p].at < now' - Retention + Day
  BY DEF Covered
<1> USE DEF Exact, Serial, Typing
<1>1. start[s] \in Nat /\ now' = now
  BY DEF TxTypes, Commit
<1>2. points[p] \subseteq points'[p]
  BY CommitRecords
<1>3. CASE seen'[p] = seen[p]
  BY <1>1, <1>2, <1>3 DEF Covered
<1>4. CASE p \in Stores(s) /\ seen'[p] = [at |-> start[s], value |-> SeenBy(s)[p]]
  <2>1. CASE ~Adds(s, p)
    <3>1. Matches(p, SeenBy(s)[p], start[s])
      BY <1>4, <2>1, CommitRecords
    <3>2. SeenBy(s)[p] \in Values
      BY <1>4, SeenByTypes
    <3>3. last[p].value = SeenBy(s)[p] /\ last[p].at > start[s] - Day
      BY <3>1 DEF Matches
    <3>4. last[p].at > 0 /\ last[p].at \in Nat /\ now \in Nat
      BY <3>2, <3>3 DEF HistoryTypes
    <3>5. last[p] \in points[p] \/ last[p].at < now - Retention
      BY <3>4 DEF LatestKept, Kept
    <3>6. CASE last[p] \in points[p]
      BY <1>2, <1>4, <3>3, <3>6
    <3>7. CASE last[p].at < now - Retention
      BY <1>1, <1>4, <3>3, <3>4, <3>7, Times
    <3> QED
      BY <3>5, <3>6, <3>7
  <2>2. CASE Adds(s, p)
    <3>1. PointOf(s, p) \in points'[p]
      BY <2>2, CommitRecords
    <3>2. start[s] > start[s] - Day
      BY <1>1, Times
    <3> QED
      BY <1>4, <3>1, <3>2 DEF PointOf
  <2> QED
    BY <2>1, <2>2
<1> QED
  BY <1>3, <1>4 DEF Commit

LEMMA OrderedStep ==
  ASSUME Exact, NEW s \in Slots, Commit(s)
  PROVE  Ordered'
<1> SUFFICES ASSUME NEW p \in Products, ~late'[p]
             PROVE  Spaced(p)' /\ Current(p)'
  BY DEF Ordered
<1> USE DEF Exact
<1>1. CASE p \notin Stores(s)
  BY <1>1, CommitPasses DEF Ordered, Spaced, Current
<1>2. CASE p \in Stores(s)
  <2> DEFINE v == SeenBy(s)[p]
             point == PointOf(s, p)
  <2>1. /\ ~late[p] /\ start[s] > seen[p].at
        /\ seen'[p] = point
    BY <1>2, CommitInOrder DEF PointOf
  <2>2. Spaced(p) /\ Current(p)
    BY <2>1 DEF Ordered
  <2>3. /\ start[s] \in Nat /\ seen[p].at \in Nat
        /\ \A x \in points[p] : x.at \in Nat /\ x.at < start[s]
    <3>1. start[s] \in Nat /\ seen[p].at \in Nat /\ \A x \in points[p] : x.at \in Nat
      BY DEF Serial, Typing, HistoryTypes, TxTypes, Point
    <3> QED
      BY <2>1, <3>1 DEF Bounded
  <2>k. Kept(p) /\ last[p].at \in Nat
    BY DEF Serial, LatestKept, Typing, HistoryTypes
  <2>4. CASE ~Adds(s, p)
    <3>1. points'[p] = points[p]
      BY <2>4, CommitRecords
    <3>2. last[p].value = v
      BY <1>2, <2>4, CommitRecords DEF Matches
    <3>3. \A x \in points[p] : x.value = v \/ \E y \in points[p] : y.at > x.at
      <4> SUFFICES ASSUME NEW x \in points[p], x # last[p]
                   PROVE  \E y \in points[p] : y.at > x.at
        BY <3>2
      <4>1. last[p] \in points[p] /\ x.at <= last[p].at /\ x.at # last[p].at
        BY <2>k DEF Kept
      <4> QED
        BY <2>3, <2>k, <4>1
    <3> QED
      BY <2>1, <2>2, <3>1, <3>3 DEF Spaced, Current, PointOf
  <2>5. CASE Adds(s, p)
    <3>1. points'[p] = points[p] \cup {point}
      BY <2>5, CommitRecords
    <3>p. point.at = start[s] /\ point.value = v
      BY DEF PointOf
    <3> HIDE DEF point
    <3>2. Current(p)'
      BY <2>1, <2>3, <3>1, <3>p DEF Current
    <3>3. Spaced(p)'
      <4> SUFFICES ASSUME NEW x \in points'[p], NEW y \in points'[p],
                          x.at < y.at, x.value = y.value,
                          ~\E z \in points'[p] : x.at < z.at /\ z.at < y.at
                   PROVE  y.at - x.at >= Day
        BY DEF Spaced
      <4>1. x \in points[p]
        BY <2>3, <3>1, <3>p
      <4>2. CASE y \in points[p]
        BY <2>2, <3>1, <4>1, <4>2 DEF Spaced
      <4>3. CASE y = point
        <5>1. \A z \in points[p] : z.at <= x.at
          BY <2>3, <3>1, <3>p, <4>1, <4>3
        <5>2. last[p] \in points[p] /\ x.at <= last[p].at /\ last[p].at <= x.at
          BY <2>k, <4>1, <5>1 DEF Kept
        <5>3. x = last[p]
          BY <2>3, <2>k, <4>1, <5>2 DEF Kept
        <5>4. ~Matches(p, v, start[s])
          BY <2>5, <5>2, CommitRecords DEF Gone
        <5>5. ~(x.at > start[s] - Day)
          BY <3>p, <4>3, <5>3, <5>4 DEF Matches
        <5> QED
          BY <2>3, <3>p, <4>1, <4>3, <5>5, Times
      <4> QED
        BY <3>1, <4>2, <4>3
    <3> QED
      BY <3>2, <3>3
  <2> QED
    BY <2>4, <2>5
<1> QED
  BY <1>1, <1>2

\* Pruning keeps whatever is later than a point it keeps.
LEMMA ExactPruned ==
  ASSUME Exact, Prune
  PROVE  Bounded' /\ Covered' /\ Ordered'
<1> USE DEF Exact, Serial, Typing
<1>1. /\ now \in Nat
      /\ \A p \in Products : /\ \A x \in points[p] : x.at \in Nat
                             /\ seen[p].at \in Nat
  BY DEF HistoryTypes, Point
<1>2. /\ \A p \in Products : points'[p] = {x \in points[p] : x.at >= now - Retention}
      /\ UNCHANGED <<now, seen, late>>
  BY DEF Prune
<1>3. Bounded'
  BY <1>2 DEF Bounded
<1>4. Covered'
  <2> SUFFICES ASSUME NEW p \in Products, seen[p].at > 0,
                      ~(seen[p].at < now - Retention + Day)
               PROVE  \E x \in points'[p] : x.at > seen[p].at - Day
    BY <1>2 DEF Covered
  <2>1. PICK x \in points[p] : x.at > seen[p].at - Day
    BY DEF Covered
  <2>2. x.at >= now - Retention
    BY <1>1, <2>1, Times
  <2> QED
    BY <1>2, <2>1, <2>2
<1>5. Ordered'
  <2> SUFFICES ASSUME NEW p \in Products, ~late[p]
               PROVE  Spaced(p)' /\ Current(p)'
    BY <1>2 DEF Ordered
  <2>1. Spaced(p) /\ Current(p)
    BY DEF Ordered
  <2>2. \A x \in points'[p], y \in points[p] : y.at > x.at => y \in points'[p]
    BY <1>1, <1>2, Times
  <2>3. Current(p)'
    BY <1>2, <2>1, <2>2 DEF Current
  <2>4. Spaced(p)'
    BY <1>2, <2>1, <2>2 DEF Spaced
  <2> QED
    BY <2>3, <2>4
<1> QED
  BY <1>3, <1>4, <1>5

LEMMA ExactStep == Exact /\ [Next]_vars => Exact'
<1> SUFFICES ASSUME Exact, [Next]_vars PROVE Exact'
  OBVIOUS
<1>1. Serial'
  BY SerialStep DEF Exact
<1>2. CASE UNCHANGED <<points, seen, late>> /\ now' \in {now, now + 1}
  <2>1. Bounded' /\ Ordered'
    BY <1>2 DEF Exact, Bounded, Ordered, Spaced, Current
  <2>2. Covered'
    BY <1>2, Times DEF Exact, Serial, Typing, HistoryTypes, Covered
  <2> QED
    BY <1>1, <2>1, <2>2 DEF Exact
<1>3. CASE Prune
  BY <1>1, <1>3, ExactPruned DEF Exact
<1>4. ASSUME NEW s \in Slots, Commit(s)
      PROVE  Exact'
  BY <1>1, <1>4, BoundedStep, CoveredStep, OrderedStep DEF Exact
<1>5. CASE UNCHANGED vars \/ Pass
  BY <1>2, <1>5 DEF vars, Pass, Elapse
<1>6. ASSUME NEW s \in Slots, Begin(s) \/ Upsert(s) \/ Observe(s) \/ Rollback(s)
      PROVE  Exact'
  BY <1>2, <1>6 DEF Begin, Elapse, Upsert, Observe, Rollback
<1> QED
  BY <1>3, <1>4, <1>5, <1>6, Steps

LEMMA ExactHolds == Spec => []Exact
<1>1. Init => Exact
  BY SerialInit
  DEF Exact, Init, Bounded, Covered, Ordered, Spaced, Current
<1> QED
  BY <1>1, ExactStep, PTL DEF Spec

\* Where no job was overtaken by a later one, a history holds changes and
\* heartbeats only, and its latest points tell what the latest job saw.
THEOREM OrderedHistoriesExact == Spec => []OrderedIsExact
<1>1. Exact => OrderedIsExact
  BY DEF Exact, Ordered, Current, OrderedIsExact
<1> QED
  BY <1>1, ExactHolds, PTL

\* Whatever the retention and the window, a product that a job saw in the
\* window's last d - 1 days has a point in its last d days.
THEOREM SeenAreShown == Spec => []SeenHasHistory
<1>1. Exact => SeenHasHistory
  <2> SUFFICES ASSUME Exact, NEW p \in Products, NEW d \in 1..RetentionDays, d <= 365,
                      seen[p].at > 0, seen[p].at >= now - (d - 1) * Day
               PROVE  History(p, d) # {}
    BY DEF SeenHasHistory
  <2> DEFINE window == d * Day
  <2>1. window \in Nat /\ window <= Retention /\ (d - 1) * Day = window - Day
    BY Windows
  <2>2. /\ now \in Nat /\ seen[p].at \in Nat
        /\ \A x \in points[p] : x.at \in Nat
    BY DEF Exact, Serial, Typing, HistoryTypes, Point
  <2>3. seen[p].at >= now - window + Day
    <3> HIDE DEF window
    <3> QED
      BY <2>1, <2>2, Times
  <2>4. PICK x \in points[p] : x.at > seen[p].at - Day
    <3> HIDE DEF window
    <3>1. ~(seen[p].at < now - Retention + Day)
      BY <2>1, <2>2, <2>3, Times
    <3> QED
      BY <3>1 DEF Exact, Covered
  <2>5. x.at >= now - window
    <3> HIDE DEF window
    <3> QED
      BY <2>1, <2>2, <2>3, <2>4, Times
  <2>6. Clamp(d) = d
    BY TimesAssumption DEF Clamp
  <2> QED
    BY <2>4, <2>5, <2>6 DEF History
<1> QED
  BY <1>1, ExactHolds, PTL
=============================================================================
