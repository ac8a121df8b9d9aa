-------------------------- MODULE ClaimLeaseProofs --------------------------
(* The lease arithmetic, for every interval, lease, statement time and       *)
(* number of misses.                                                         *)
EXTENDS ClaimLease, TLAPS

Bounded == TypeOK /\ AgeBound /\ TakenOnlyAfterMisses

\* One more missed refresh is one more interval.
LEMMA NextMiss == \A n, h \in Nat : (n + 1) * h = n * h + h
OBVIOUS

LEMMA ProductTyping == \A n, h \in Nat : n * h \in Nat
OBVIOUS

LEMMA MoreMisses == \A m, n, h \in Nat : m <= n => m * h <= n * h
OBVIOUS

\* The products that the arithmetic of a step is about.
LEMMA Products ==
  ASSUME TypeOK
  PROVE  /\ missed * Heartbeat \in Nat /\ (missed + 1) * Heartbeat \in Nat
         /\ (missed + 1) * Heartbeat = missed * Heartbeat + Heartbeat
         /\ Heartbeat \in Nat
<1>1. missed \in Nat /\ Heartbeat \in Nat
  BY DurationsAssumption DEF TypeOK
<1> QED
  BY <1>1, NextMiss, ProductTyping

\* The typing of each variable, one step.
LEMMA TypingStep ==
  ASSUME TypeOK, AgeBound, [Next]_vars
  PROVE  TypeOK'
<1> USE DurationsAssumption
<1>1. /\ claim' \in {"held", "requeued", "lost"}
      /\ refresh' \in {"no", "sent", "renewed", "refused"}
  BY DEF TypeOK, Next, vars, Pass, TickerFires, SendRefresh, RefreshExecutes,
         RefreshAnswers, RefreshErrs, RequeueStaleJobs, ClaimJob
<1>2. due' \in BOOLEAN
  BY Zenon
  DEF TypeOK, Next, vars, Pass, TickerFires, SendRefresh, RefreshExecutes,
      RefreshAnswers, RefreshErrs, RequeueStaleJobs, ClaimJob
<1>3. sinceTick' \in 0..Heartbeat /\ missed' \in 0..MaxMissed
  BY SMT
  DEF TypeOK, Next, vars, Pass, TickerFires, SendRefresh, RefreshExecutes,
      RefreshAnswers, RefreshErrs, RequeueStaleJobs, ClaimJob
<1>4. age' \in Nat /\ waited' \in 0..MaxStalled /\ stalled' \in 0..MaxStalled
  BY SMT
  DEF TypeOK, AgeBound, Next, vars, Pass, TickerFires, SendRefresh, RefreshExecutes,
      RefreshAnswers, RefreshErrs, RequeueStaleJobs, ClaimJob
<1> QED
  BY <1>1, <1>2, <1>3, <1>4 DEF TypeOK

LEMMA AgeStep ==
  ASSUME TypeOK, AgeBound, [Next]_vars
  PROVE  AgeBound'
<1> USE DurationsAssumption
<1>t. /\ age \in Nat /\ sinceTick \in Nat /\ missed \in Nat
      /\ waited \in Nat /\ stalled \in Nat /\ sinceTick <= Heartbeat
  BY DEF TypeOK
<1>p. /\ missed * Heartbeat \in Nat /\ (missed + 1) * Heartbeat \in Nat
      /\ (missed + 1) * Heartbeat = missed * Heartbeat + Heartbeat
      /\ Heartbeat \in Nat
  BY Products
<1>1. CASE Pass
  <2>1. CASE refresh = "no"
    <3>1. /\ due = FALSE /\ sinceTick < Heartbeat /\ sinceTick' = sinceTick + 1
          /\ age' = (IF claim = "held" THEN age + 1 ELSE age)
          /\ UNCHANGED <<waited, stalled, claim, due, refresh, missed>>
      BY <1>1, <2>1 DEF Pass
    <3>2. claim = "held" => age <= stalled + missed * Heartbeat + sinceTick
      BY <2>1, <3>1 DEF AgeBound
    <3> QED
      BY <1>t, <1>p, <2>1, <3>1, <3>2 DEF AgeBound
  <2>2. CASE refresh # "no"
    <3>1. /\ waited' = waited + 1 /\ stalled' = stalled + 1
          /\ age' = (IF claim = "held" THEN age + 1 ELSE age)
          /\ UNCHANGED <<claim, refresh, missed>>
      BY <1>1, <2>2 DEF Pass
    <3> QED
      BY <1>t, <1>p, <1>1, <2>2, <3>1 DEF Pass, AgeBound
  <2> QED
    BY <2>1, <2>2
<1>2. CASE TickerFires
  <2>1. claim = "held" => age <= stalled + (missed + 1) * Heartbeat
    BY DEF AgeBound
  <2>2. /\ due' = TRUE /\ claim # "lost"
        /\ UNCHANGED <<claim, age, refresh, waited, missed, stalled>>
    BY <1>2 DEF TickerFires
  <2> QED
    BY <2>1, <2>2 DEF AgeBound
<1>3. CASE SendRefresh
  BY <1>3, <1>t DEF SendRefresh, AgeBound
<1>4. CASE RefreshExecutes
  <2>1. CASE claim = "held"
    <3>1. /\ refresh' = "renewed" /\ claim' = "held"
          /\ age' \in 0..waited /\ stalled' = age' /\ missed' = missed
      BY <1>4, <2>1 DEF RefreshExecutes
    <3>2. age' \in Nat /\ stalled' \in Nat /\ age' <= stalled'
      BY <1>t, <3>1
    <3>3. (missed' + 1) * Heartbeat \in Nat
      BY <1>t, <1>p, <3>1, ProductTyping
    <3>4. age' <= stalled' + (missed' + 1) * Heartbeat
      BY <3>2, <3>3
    <3> QED
      BY <3>1, <3>2, <3>4 DEF AgeBound
  <2>2. CASE claim # "held"
    <3>1. refresh' = "refused" /\ claim = "requeued" /\ claim' = "requeued"
      BY <1>4, <2>2 DEF RefreshExecutes
    <3> QED
      BY <3>1 DEF AgeBound
  <2> QED
    BY <2>1, <2>2
<1>5. CASE RefreshAnswers
  <2>1. CASE refresh = "renewed"
    <3>1. /\ refresh' = "no" /\ missed' = 0
          /\ UNCHANGED <<claim, due, age, sinceTick, waited, stalled>>
      BY <1>5, <2>1 DEF RefreshAnswers
    <3>2. missed' * Heartbeat \in Nat /\ (missed' + 1) * Heartbeat \in Nat
      BY <3>1, <1>p, ProductTyping
    <3>3. claim = "held" => age <= stalled
      BY <2>1 DEF AgeBound
    <3>4. claim # "lost"
      BY <2>1 DEF AgeBound
    <3> QED
      BY <1>t, <3>1, <3>2, <3>3, <3>4 DEF AgeBound
  <2>2. CASE refresh # "renewed"
    <3>1. refresh' = "no" /\ claim' = "lost" /\ due' = FALSE
      BY <1>5, <2>2 DEF RefreshAnswers
    <3> QED
      BY <3>1 DEF AgeBound
  <2> QED
    BY <2>1, <2>2
<1>6. CASE RefreshErrs
  <2>1. /\ refresh # "no" /\ refresh' = "no" /\ missed' = missed + 1
        /\ UNCHANGED <<claim, age, sinceTick, due, waited, stalled>>
    BY <1>6 DEF RefreshErrs
  <2>2. claim # "lost"
    BY <2>1 DEF AgeBound
  <2>3. claim = "held" => age <= stalled + (missed + 1) * Heartbeat
    BY DEF AgeBound
  <2>4. missed' * Heartbeat \in Nat /\ (missed' + 1) * Heartbeat = missed' * Heartbeat + Heartbeat
    BY <1>t, <1>p, <2>1, ProductTyping, NextMiss
  <2>5. missed' * Heartbeat = (missed + 1) * Heartbeat
    BY <2>1
  <2> QED
    BY <1>t, <1>p, <2>1, <2>2, <2>3, <2>4, <2>5 DEF AgeBound
<1>7. CASE RequeueStaleJobs
  <2>1. /\ claim = "held" /\ claim' = "requeued" /\ age > StaleAfter
        /\ UNCHANGED <<sinceTick, due, refresh, waited, missed, stalled>>
    BY <1>7 DEF RequeueStaleJobs
  <2>2. refresh = "renewed" => age <= stalled
    BY <2>1 DEF AgeBound
  <2> QED
    BY <1>t, <2>1, <2>2 DEF AgeBound
<1>8. CASE ClaimJob
  <2>1. /\ claim = "lost" /\ claim' = "held" /\ stalled' = age'
        /\ age' \in 0..MaxStalled /\ sinceTick' = 0 /\ missed' = 0
        /\ UNCHANGED <<due, refresh, waited>>
    BY <1>8 DEF ClaimJob
  <2>2. refresh = "no" /\ due = FALSE
    BY <2>1 DEF AgeBound
  <2>3. /\ missed' * Heartbeat \in Nat /\ (missed' + 1) * Heartbeat \in Nat
        /\ age' \in Nat
    BY <1>p, <2>1, ProductTyping
  <2>4. /\ age' <= stalled' + (missed' + 1) * Heartbeat
        /\ age' <= stalled' + missed' * Heartbeat + sinceTick'
    <3>1. stalled' = age' /\ sinceTick' = 0
      BY <2>1
    <3> QED
      BY <2>3, <3>1
  <2>5. claim' = "held" /\ refresh' = "no"
    BY <2>1, <2>2
  <2> QED
    BY <2>4, <2>5 DEF AgeBound
<1>9. CASE UNCHANGED vars
  BY <1>9 DEF vars, AgeBound
<1> QED
  BY <1>1, <1>2, <1>3, <1>4, <1>5, <1>6, <1>7, <1>8, <1>9 DEF Next

LEMMA TakenStep ==
  ASSUME Bounded, [Next]_vars
  PROVE  TakenOnlyAfterMisses'
<1> USE DurationsAssumption DEF Bounded
<1>t. stalled \in Nat /\ missed \in Nat
  BY DEF TypeOK
<1>p. /\ missed * Heartbeat \in Nat /\ (missed + 1) * Heartbeat \in Nat
      /\ Heartbeat \in Nat
  BY Products
<1>1. CASE Pass
  <2>1. missed' = missed /\ claim' = claim /\ (stalled' = stalled \/ stalled' = stalled + 1)
    BY <1>1 DEF Pass
  <2>2. (missed' + 1) * Heartbeat = (missed + 1) * Heartbeat
    BY <2>1
  <2> QED
    BY <1>t, <1>p, <2>1, <2>2, DurationsAssumption DEF TakenOnlyAfterMisses
<1>2. CASE TickerFires \/ SendRefresh
  BY <1>2 DEF TickerFires, SendRefresh, TakenOnlyAfterMisses
<1>3. CASE RefreshExecutes
  BY <1>3 DEF RefreshExecutes, TakenOnlyAfterMisses
<1>4. CASE RefreshAnswers
  <2>1. CASE refresh = "renewed" /\ claim = "requeued"
    <3>1. missed' = 0 /\ stalled' = stalled
      BY <1>4, <2>1 DEF RefreshAnswers
    <3>2. stalled > StaleAfter
      BY <2>1 DEF AgeBound
    <3>3. (missed' + 1) * Heartbeat \in Nat
      BY <3>1, <1>p, ProductTyping
    <3> QED
      BY <1>t, <3>1, <3>2, <3>3 DEF TakenOnlyAfterMisses
  <2>2. CASE ~(refresh = "renewed" /\ claim = "requeued")
    BY <1>4, <2>2 DEF RefreshAnswers, TakenOnlyAfterMisses
  <2> QED
    BY <2>1, <2>2
<1>5. CASE RefreshErrs
  <2>1. missed' = missed + 1 /\ claim' = claim /\ stalled' = stalled
    BY <1>5 DEF RefreshErrs
  <2>2. (missed' + 1) * Heartbeat = (missed + 1) * Heartbeat + Heartbeat
    BY <1>t, <1>p, <2>1, NextMiss
  <2> QED
    BY <1>t, <1>p, <2>1, <2>2 DEF TakenOnlyAfterMisses
<1>6. CASE RequeueStaleJobs
  <2>1. /\ claim = "held" /\ age > StaleAfter
        /\ stalled' = stalled /\ missed' = missed
    BY <1>6 DEF RequeueStaleJobs
  <2>2. age <= stalled + (missed + 1) * Heartbeat
    BY <2>1 DEF AgeBound
  <2>3. age \in Nat
    BY DEF TypeOK
  <2> QED
    BY <1>t, <1>p, <2>1, <2>2, <2>3 DEF TakenOnlyAfterMisses
<1>7. CASE ClaimJob
  BY <1>7 DEF ClaimJob, TakenOnlyAfterMisses
<1>8. CASE UNCHANGED vars
  BY <1>8 DEF vars, TakenOnlyAfterMisses
<1> QED
  BY <1>1, <1>2, <1>3, <1>4, <1>5, <1>6, <1>7, <1>8 DEF Next

LEMMA BoundedHolds == Spec => []Bounded
<1>1. Init => Bounded
  <2> SUFFICES ASSUME Init PROVE Bounded
    OBVIOUS
  <2>1. /\ claim = "held" /\ age \in 0..MaxStalled /\ stalled = age
        /\ sinceTick = 0 /\ due = FALSE /\ refresh = "no"
        /\ waited = 0 /\ missed = 0
    BY Zenon DEF Init
  <2>2. missed * Heartbeat \in Nat
    BY <2>1, DurationsAssumption, ProductTyping
  <2>3. AgeBound
    BY <2>1, <2>2, DurationsAssumption DEF AgeBound
  <2>4. /\ age \in Nat /\ sinceTick \in 0..Heartbeat /\ waited \in 0..MaxStalled
        /\ missed \in 0..MaxMissed /\ stalled \in 0..MaxStalled
    BY <2>1, DurationsAssumption
  <2>5. TypeOK
    BY <2>1, <2>4 DEF TypeOK
  <2> QED
    BY <2>1, <2>3, <2>5 DEF Bounded, TakenOnlyAfterMisses
<1>2. Bounded /\ [Next]_vars => Bounded'
  BY TypingStep, AgeStep, TakenStep DEF Bounded
<1> QED
  BY <1>1, <1>2, PTL DEF Spec

\* A live slot keeps its claim as long as the intervals of the refreshes that
\* failed in a row, one more, and the time its statements have taken fit into
\* the lease.
THEOREM LiveSlotsKeepClaims == Spec => []TakenOnlyAfterMisses
<1>1. Bounded => TakenOnlyAfterMisses
  BY DEF Bounded
<1> QED
  BY <1>1, BoundedHolds, PTL

\* Under every configuration Load accepts, a live slot loses its job only
\* when two refreshes in a row have failed or statements on the job have taken
\* more than a whole interval since it was last renewed.
THEOREM AcceptedConfigSurvivesOneMiss ==
  ASSUME ConfigAccepted
  PROVE  Spec => [](claim = "requeued" => missed >= 2 \/ stalled > Heartbeat)
<1>1. Bounded => (claim = "requeued" => missed >= 2 \/ stalled > Heartbeat)
  <2> SUFFICES ASSUME Bounded, claim = "requeued", ~(missed >= 2)
               PROVE  stalled > Heartbeat
    OBVIOUS
  <2>1. missed + 1 \in Nat /\ missed + 1 <= 2 /\ stalled \in Nat /\ Heartbeat \in Nat
    BY DurationsAssumption DEF Bounded, TypeOK
  <2>2. (missed + 1) * Heartbeat <= 2 * Heartbeat
    BY <2>1, MoreMisses
  <2>3. (missed + 1) * Heartbeat + stalled > StaleAfter
    BY DEF Bounded, TakenOnlyAfterMisses
  <2>4. (missed + 1) * Heartbeat \in Nat
    BY <2>1, ProductTyping
  <2> QED
    BY <2>1, <2>2, <2>3, <2>4, DurationsAssumption DEF ConfigAccepted
<1> QED
  BY <1>1, BoundedHolds, PTL
=============================================================================
