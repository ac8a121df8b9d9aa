---------------------------- MODULE PriceHistory ----------------------------
(* What the observations table promises.  A job is recorded as a whole, at   *)
(* one instant, with the time it started as the time of its points, or it    *)
(* leaves nothing.  It adds a point for each product whose latest point has  *)
(* another value or is a day old, and for no other product, unless that      *)
(* latest point was dropped while the job went on.                           *)
EXTENDS Integers

CONSTANTS Slots, Products, Values,
          Day,       \* 24 hours, in ticks of the clock
          Retention, \* RETENTION_DAYS, in ticks
          None       \* the value before the first point

VARIABLES now,    \* the database's clock
          points, \* the points of each product: [at, value]
          last,   \* the latest of them, or the latest before all were dropped
          jobs    \* the job of each slot, one or none: [start, seen], where
                  \* seen is the value of each product it has seen

historyVars == <<now, points, last, jobs>>

Init == /\ now = 0
        /\ points = [p \in Products |-> {}]
        /\ last = [p \in Products |-> [at |-> 0, value |-> None]]
        /\ jobs = [s \in Slots |-> {}]

\* Each job starts at an instant of its own.
Start(s) == /\ jobs[s] = {}
            /\ now' = now + 1
            /\ \E found \in SUBSET Products : \E seen \in [found -> Values] :
                 jobs' = [jobs EXCEPT ![s] = {[start |-> now', seen |-> seen]}]
            /\ UNCHANGED <<points, last>>

Unchanged(p, v, start) == last[p].value = v /\ last[p].at > start - Day

Dropped == {p \in Products : last[p] \notin points[p]}

\* A changed value is always recorded; `again' is what is recorded once more
\* because its latest point is gone.
Added(job, again) ==
  {p \in DOMAIN job.seen : ~Unchanged(p, job.seen[p], job.start) \/ p \in again}

Add(job, added) ==
  /\ points' = [p \in Products |->
                  IF p \in added
                    THEN points[p] \cup {[at |-> job.start, value |-> job.seen[p]]}
                    ELSE points[p]]
  /\ last' = [p \in Products |->
                IF p \in added /\ (points[p] = {} \/ job.start > last[p].at)
                  THEN [at |-> job.start, value |-> job.seen[p]]
                  ELSE last[p]]

Record(s) == /\ \E job \in jobs[s], again \in SUBSET Dropped :
                  Add(job, Added(job, again))
             /\ jobs' = [jobs EXCEPT ![s] = {}]
             /\ UNCHANGED now

GiveUp(s) == /\ jobs[s] # {}
             /\ jobs' = [jobs EXCEPT ![s] = {}]
             /\ UNCHANGED <<now, points, last>>

Pass == now' = now + 1 /\ UNCHANGED <<points, last, jobs>>

Prune == /\ points' = [p \in Products |-> {x \in points[p] : x.at >= now - Retention}]
         /\ UNCHANGED <<now, last, jobs>>

Next == \/ Pass \/ Prune
        \/ \E s \in Slots : Start(s) \/ Record(s) \/ GiveUp(s)

Spec == Init /\ [][Next]_historyVars
=============================================================================
