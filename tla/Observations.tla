---------------------------- MODULE Observations ----------------------------
(* Price history in PostgreSQL: worker slots complete their jobs, each in    *)
(* one READ COMMITTED transaction that upserts a job's products one after    *)
(* the other and adds an observation where a value has changed, while a      *)
(* maintenance loop prunes and the API reads.  JobQueue has the transaction's *)
(* other half, the claim on the job's row.                                   *)
EXTENDS Integers, Sequences

CONSTANTS Slots,         \* worker slots, of whatever process
          Products, Values,
          Listings,      \* what a scrape may bring: sequences of Item
          Day,           \* the 24 hours of the heartbeat, in ticks
          RetentionDays, \* RETENTION_DAYS
          MaxNow,        \* bound: the clock
          None           \* no slot, no value

Item == [product : Products, value : Values, complete : BOOLEAN]

ASSUME NoneAssumption == None \notin Slots /\ None \notin Values
ASSUME ListingsAssumption ==
  \A l \in Listings : /\ l \in Seq(Item)
                      /\ \A i, k \in DOMAIN l : l[i].product = l[k].product => i = k
ASSUME TimesAssumption == /\ Day \in Nat \ {0} /\ MaxNow \in Nat
                          /\ RetentionDays \in Nat \ {0}

VARIABLES
  now,     \* PostgreSQL's clock
  points,  \* observations of each product: [at |-> observed_at, value]
  pc,      \* each slot's CompleteJob: "idle", "upsert", "observe", "commit"
  start,   \* now() of its transaction: when it began
  listing, \* the items it stores, in the order of the loop
  next,    \* the index of the item it is at, or past the end
  wrote,   \* its uncommitted observations: [product, value]
  lock,    \* the slot whose transaction has upserted a product, or None
  last,    \* history: the latest point, or the latest before all were pruned
  seen,    \* history: the latest-begun job that has stored each product
  late     \* history: a product was stored by jobs in another order than they began

txVars == <<pc, start, listing, next, wrote, lock>>
vars == <<now, points, txVars, last, seen, late>>

Retention == RetentionDays * Day
Point == [at : 1..MaxNow, value : Values]

TypeOK ==
  /\ now \in 0..MaxNow
  /\ points \in [Products -> SUBSET Point]
  /\ pc \in [Slots -> {"idle", "upsert", "observe", "commit"}]
  /\ start \in [Slots -> 0..MaxNow]
  /\ \A s \in Slots : /\ listing[s] \in Seq(Item)
                      /\ next[s] \in 1..(Len(listing[s]) + 1)
                      /\ pc[s] \in {"upsert", "observe"} => next[s] \in DOMAIN listing[s]
                      /\ wrote[s] \subseteq [product : Products, value : Values]
  /\ lock \in [Products -> Slots \cup {None}]
  /\ \A p \in Products : /\ last[p].at \in 0..MaxNow
                         /\ last[p].value \in Values \cup {None}
                         /\ seen[p].at \in 0..MaxNow
                         /\ seen[p].at > 0 => seen[p].value \in Values
  /\ late \in [Products -> BOOLEAN]

Init ==
  /\ now = 0
  /\ points = [p \in Products |-> {}]
  /\ pc = [s \in Slots |-> "idle"]
  /\ start = [s \in Slots |-> 0]
  /\ listing = [s \in Slots |-> <<>>]
  /\ next = [s \in Slots |-> 1]
  /\ wrote = [s \in Slots |-> {}]
  /\ lock = [p \in Products |-> None]
  /\ last = [p \in Products |-> [at |-> 0, value |-> None]]
  /\ seen = [p \in Products |-> [at |-> 0, value |-> None]]
  /\ late = [p \in Products |-> FALSE]

-----------------------------------------------------------------------------
(* The clock and the maintenance loop *)

\* Timestamps have microseconds: no two transactions begin at the same one.
Elapse == now < MaxNow /\ now' = now + 1

Pass == Elapse /\ UNCHANGED <<points, txVars, last, seen, late>>

Prune == /\ points' = [p \in Products |-> {x \in points[p] : x.at >= now - Retention}]
         /\ UNCHANGED <<now, txVars, last, seen, late>>

-----------------------------------------------------------------------------
(* CompleteJob *)

\* The items that are not passed over.
Complete(l) == {i \in DOMAIN l : l[i].complete}

Found(l) == {l[i].product : i \in Complete(l)}

\* The value a scrape has seen of each of its products.
SeenIn(l) ==
  [p \in Found(l) |-> l[CHOOSE i \in Complete(l) : l[i].product = p].value]

Stores(s) == Found(listing[s])

SeenBy(s) == SeenIn(listing[s])

\* Mutant: the loop runs one item too far.
ProceedBeyond(s, l, i) ==
  \/ /\ i > Len(l)
     /\ pc' = [pc EXCEPT ![s] = "commit"]
     /\ next' = [next EXCEPT ![s] = Len(l) + 1]
  \/ /\ i <= Len(l)
     /\ pc' = [pc EXCEPT ![s] = "upsert"]
     /\ next' = [next EXCEPT ![s] = i + 1]

\* The loop over l goes on behind its i-th item; it passes over incomplete ones.
Proceed(s, l, i) ==
  LET rest == {k \in Complete(l) : k > i} IN
    \/ /\ rest = {}
       /\ pc' = [pc EXCEPT ![s] = "commit"]
       /\ next' = [next EXCEPT ![s] = Len(l) + 1]
    \/ \E k \in rest : /\ \A m \in rest : k <= m
                       /\ pc' = [pc EXCEPT ![s] = "upsert"]
                       /\ next' = [next EXCEPT ![s] = k]

\* BEGIN fixes now().
Begin(s) ==
  /\ pc[s] = "idle" /\ Elapse
  /\ start' = [start EXCEPT ![s] = now']
  /\ \E l \in Listings : /\ listing' = [listing EXCEPT ![s] = l]
                         /\ Proceed(s, l, 0)
  /\ wrote' = [wrote EXCEPT ![s] = {}]
  /\ UNCHANGED <<points, lock, last, seen, late>>

\* Mutant: ON CONFLICT DO NOTHING, which locks no row.
UpsertUnlocked(s) ==
  /\ pc[s] = "upsert"
  /\ pc' = [pc EXCEPT ![s] = "observe"]
  /\ UNCHANGED <<now, points, start, listing, next, wrote, lock, last, seen, late>>

\* INSERT ... ON CONFLICT DO UPDATE waits for the transaction that has
\* inserted or updated the row and then has the row to itself.
Upsert(s) ==
  /\ pc[s] = "upsert"
  /\ LET p == listing[s][next[s]].product IN
       /\ lock[p] \in {None, s}
       /\ lock' = [lock EXCEPT ![p] = s]
  /\ pc' = [pc EXCEPT ![s] = "observe"]
  /\ UNCHANGED <<now, points, start, listing, next, wrote, last, seen, late>>

\* ORDER BY observed_at DESC LIMIT 1.
Newest(rows) == {x \in rows : \A y \in rows : y.at <= x.at}

\* Mutant: without the heartbeat's condition on observed_at.
RecordedEver(p, v, began) == \E x \in Newest(points[p]) : x.value = v

\* The NOT EXISTS fails: the newest observation has these values and is
\* younger than 24 hours.
Recorded(p, v, began) ==
  \E x \in Newest(points[p]) : x.value = v /\ x.at > began - Day

\* The columns that the NOT EXISTS compares, and whose row they are of.
Entry(item) == [product |-> item.product, value |-> item.value]

\* The statement sees what is committed (own rows are of other products); observed_at defaults to now().
Observe(s) ==
  /\ pc[s] = "observe"
  /\ LET item == listing[s][next[s]] IN
       wrote' = IF Recorded(item.product, item.value, start[s]) THEN wrote
                ELSE [wrote EXCEPT ![s] = @ \cup {Entry(item)}]
  /\ Proceed(s, listing[s], next[s])
  /\ UNCHANGED <<now, points, start, listing, lock, last, seen, late>>

\* COMMIT and ROLLBACK both release the rows.
Release(s) == lock' = [p \in Products |-> IF lock[p] = s THEN None ELSE lock[p]]

End(s) == /\ pc' = [pc EXCEPT ![s] = "idle"]
          /\ start' = [start EXCEPT ![s] = 0]
          /\ listing' = [listing EXCEPT ![s] = <<>>]
          /\ next' = [next EXCEPT ![s] = 1]
          /\ wrote' = [wrote EXCEPT ![s] = {}]

\* Its uncommitted observations of a product, as points.
Written(s, p) ==
  {[at |-> start[s], value |-> w.value] : w \in {x \in wrote[s] : x.product = p}}

Publish(s) == points' = [p \in Products |-> points[p] \cup Written(s, p)]

\* The job is marked complete and the transaction's rows become visible.
Commit(s) ==
  /\ pc[s] = "commit"
  /\ Publish(s)
  /\ last' = [p \in Products |->
                IF Written(s, p) # {} /\ (points[p] = {} \/ start[s] > last[p].at)
                  THEN CHOOSE x \in Written(s, p) : TRUE
                  ELSE last[p]]
  /\ seen' = [p \in Products |-> IF p \in Stores(s) /\ start[s] > seen[p].at
                                   THEN [at |-> start[s], value |-> SeenBy(s)[p]]
                                   ELSE seen[p]]
  /\ late' = [p \in Products |-> late[p] \/ (p \in Stores(s) /\ start[s] < seen[p].at)]
  /\ Release(s) /\ End(s)
  /\ UNCHANGED now

\* Mutant: `defer tx.Rollback' is missing.
AbortWithoutRollback(s) ==
  /\ pc[s] # "idle"
  /\ End(s)
  /\ UNCHANGED <<now, points, lock, last, seen, late>>

\* Mutant: the observations are inserted through s.pool instead of tx.
AbortLeavesRows(s) ==
  /\ pc[s] # "idle"
  /\ Publish(s) /\ Release(s) /\ End(s)
  /\ UNCHANGED <<now, last, seen, late>>

\* A statement fails, the claim is lost, the context is cancelled or the
\* process dies: the deferred Rollback, or the server, undoes everything.
Abort(s) ==
  /\ pc[s] # "idle"
  /\ Release(s) /\ End(s)
  /\ UNCHANGED <<now, points, last, seen, late>>

-----------------------------------------------------------------------------
(* PostgreSQL's deadlock detection *)

Waiting(s) == /\ pc[s] = "upsert"
              /\ lock[listing[s][next[s]].product] \notin {None, s}

Blocker(s) == lock[listing[s][next[s]].product]

\* A transaction on a cycle of waiting ones is aborted.
DeadlockVictim(s) ==
  /\ \E cycle \in SUBSET Slots : /\ s \in cycle
                                 /\ \A c \in cycle : Waiting(c)
                                 /\ {Blocker(c) : c \in cycle} = cycle
  /\ Release(s) /\ End(s)
  /\ UNCHANGED <<now, points, last, seen, late>>

-----------------------------------------------------------------------------
(* History of the API *)

Clamp(days) == IF days < 1 THEN 60 ELSE IF days > 365 THEN 365 ELSE days

History(p, days) == {x \in points[p] : x.at >= now - Clamp(days) * Day}

-----------------------------------------------------------------------------
Next == \/ Pass \/ Prune
        \/ \E s \in Slots : \/ Begin(s) \/ Upsert(s) \/ Observe(s) \/ Commit(s)
                            \/ Abort(s) \/ DeadlockVictim(s)

Spec == Init /\ [][Next]_vars

\* Statements end, PostgreSQL grants a row in the order of the requests, and
\* its deadlock detector runs.
Fairness == \A s \in Slots : /\ SF_vars(Upsert(s))
                             /\ WF_vars(Observe(s)) /\ WF_vars(Commit(s))
                             /\ WF_vars(DeadlockVictim(s))

LiveSpec == Spec /\ Fairness

-----------------------------------------------------------------------------
(* Properties *)

\* What a slot is storing, as one job.
JobOf(s) == IF pc[s] = "idle" THEN {} ELSE {[start |-> start[s], seen |-> SeenBy(s)]}

\* Jobs that store the same products at the same time are recorded as if each
\* was one step, or leave nothing: nobody decides on a latest point that
\* another transaction is about to replace, and pruning makes nobody pass over
\* a changed value, however long transactions are open and even where a day is
\* all that is retained.
PromisedHistory == INSTANCE PriceHistory WITH jobs <- [s \in Slots |-> JobOf(s)]
ImplementsHistory == PromisedHistory!Spec

\* The heartbeat keeps pace with pruning and with the API's window: who asks
\* for the last d days (up to RETENTION_DAYS, and to 365, where the
\* window is clamped) of a product that a job saw
\* within the last d - 1 finds a point, whether or not its price ever moved.
SeenHasHistory ==
  \A p \in Products, d \in 1..RetentionDays :
    d <= 365 /\ seen[p].at > 0 /\ seen[p].at >= now - (d - 1) * Day => History(p, d) # {}

\* Points of the same value next to each other are a day apart.
Spaced(p) ==
  \A x, y \in points[p] :
    /\ x.at < y.at /\ x.value = y.value
    /\ ~\E z \in points[p] : x.at < z.at /\ z.at < y.at
    => y.at - x.at >= Day

\* Where no job was overtaken by a later one, a history holds changes and
\* heartbeats only, and its latest point tells what the latest job saw, whatever
\* was rolled back, deadlocked or pruned in between.
OrderedIsExact ==
  \A p \in Products : ~late[p] =>
    /\ Spaced(p)
    /\ \A x \in points[p] : x.value = seen[p].value \/ \E y \in points[p] : y.at > x.at

\* However transactions lock each other's products, each one comes to an end
\* and lets go of its rows.
EveryTransactionEnds ==
  \A s \in Slots : pc[s] # "idle" ~> pc[s] = "idle"

\* docs/deployment.md:71: "stores a new observation only when tracked values
\* change, with one 24-hour heartbeat" - without regard to the order in which
\* jobs began and committed.
ChangeOnly == \A p \in Products : Spaced(p)
=============================================================================
