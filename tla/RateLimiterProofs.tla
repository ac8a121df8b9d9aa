------------------------- MODULE RateLimiterProofs -------------------------
(* What the rate limiter lets pass, for every rate, window length and number *)
(* of searches.                                                              *)
EXTENDS RateLimiter, FiniteSetTheorems, TLAPS

Windows == [age : 0..Minute, count : Nat]

\* What passed in the present window of a key (all that is not a minute old,
\* when that window is over), and what passed before it and is not yet a
\* minute old.
Current(k) == {r \in Requests : /\ KeyOf[r] = k /\ granted[r] < Minute
                                /\ granted[r] <= windows[k].age}
Earlier(k) == {r \in Requests : /\ KeyOf[r] = k /\ granted[r] < Minute
                                /\ granted[r] > windows[k].age}

\* While a window lasts, the search that opened it is as old as the window ...
OpenBounds(k) ==
  /\ \E r \in Requests : KeyOf[r] = k /\ granted[r] = windows[k].age
  /\ Cardinality(Current(k)) <= windows[k].count
  /\ windows[k].count <= Rate[k]
  /\ Cardinality(Earlier(k)) < Rate[k]

\* ... so that it no longer counts when the window is over.
ClosedBounds(k) ==
  /\ \A r \in Requests : KeyOf[r] = k => granted[r] >= 1
  /\ Cardinality(Current(k)) < Rate[k]

WindowBounds(k) == IF Over(k) THEN ClosedBounds(k) ELSE OpenBounds(k)

WindowsBounded == TypeOK /\ \A k \in Keys : WindowBounds(k)

-----------------------------------------------------------------------------
LEMMA Sizes ==
  ASSUME NEW S \in SUBSET Requests, NEW T \in SUBSET S
  PROVE  /\ IsFiniteSet(S) /\ Cardinality(S) \in Nat /\ Cardinality(T) \in Nat
         /\ Cardinality(T) <= Cardinality(S)
<1>1. IsFiniteSet(S) /\ IsFiniteSet(T)
  BY FS_Subset, RequestsAssumption
<1> QED
  BY <1>1, FS_Subset, FS_CardinalityType

LEMMA Typed ==
  ASSUME TypeOK
  PROVE  /\ \A k \in Keys : /\ windows[k].age \in 0..Minute
                            /\ windows[k].count \in Nat
                            /\ Over(k) <=> windows[k].age = Minute
         /\ \A r \in Requests : granted[r] \in 0..Minute /\ KeyOf[r] \in Keys
         /\ \A k \in Keys : Rate[k] \in Nat \ {0}
<1>1. \A k \in Keys : /\ windows[k].age \in 0..Minute
                      /\ windows[k].count \in Nat
  BY DEF TypeOK
<1>2. \A k \in Keys : Over(k) <=> windows[k].age = Minute
  BY <1>1, MinuteAssumption DEF Over
<1>3. \A r \in Requests : granted[r] \in 0..Minute /\ KeyOf[r] \in Keys
  BY KeysAssumption DEF TypeOK
<1>4. \A k \in Keys : Rate[k] \in Nat \ {0}
  BY RateAssumption
<1> QED
  BY <1>1, <1>2, <1>3, <1>4

LEMMA TypeStep == TypeOK /\ [Next]_limits => TypeOK'
<1> SUFFICES ASSUME TypeOK, [Next]_limits PROVE TypeOK'
  OBVIOUS
<1> USE MinuteAssumption
<1>1. windows \in [Keys -> Windows] /\ granted \in [Requests -> 0..Minute]
  BY DEF TypeOK, Windows
<1>2. windows' \in [Keys -> Windows] /\ granted' \in [Requests -> 0..Minute]
  <2>1. ASSUME NEW r \in Requests, Pass(r)
        PROVE  windows' \in [Keys -> Windows] /\ granted' \in [Requests -> 0..Minute]
    <3>1. granted' \in [Requests -> 0..Minute]
      BY <1>1, <2>1 DEF Pass
    <3>2. PICK w \in Windows : windows' = [windows EXCEPT ![KeyOf[r]] = w]
      <4>1. KeyOf[r] \in Keys /\ windows[KeyOf[r]] \in Windows
        BY <1>1, KeysAssumption
      <4>2. [age |-> 0, count |-> 1] \in Windows
        BY DEF Windows
      <4>3. [windows[KeyOf[r]] EXCEPT !.count = windows[KeyOf[r]].count + 1] \in Windows
        BY <4>1 DEF Windows
      <4>4. \/ windows' = [windows EXCEPT ![KeyOf[r]] = [age |-> 0, count |-> 1]]
            \/ windows' = [windows EXCEPT ![KeyOf[r]] =
                  [windows[KeyOf[r]] EXCEPT !.count = windows[KeyOf[r]].count + 1]]
        BY <2>1 DEF Pass
      <4> QED
        BY <4>2, <4>3, <4>4
    <3> QED
      BY <1>1, <3>1, <3>2, KeysAssumption
  <2>2. CASE Tick
    <3>1. \A k \in Keys : windows'[k] \in Windows
      BY <1>1, <2>2 DEF Tick, Older, Windows
    <3>2. \A r \in Requests : granted'[r] \in 0..Minute
      BY <1>1, <2>2 DEF Tick, Older
    <3>3. windows' = [k \in Keys |-> windows'[k]] /\ granted' = [r \in Requests |-> granted'[r]]
      BY <2>2 DEF Tick
    <3> QED
      BY <3>1, <3>2, <3>3
  <2>3. CASE Forget
    BY <2>3 DEF Forget, NoWindow, Windows
  <2>4. CASE UNCHANGED limits
    BY <1>1, <2>4 DEF limits
  <2> QED
    BY <2>1, <2>2, <2>3, <2>4 DEF Next, TurnAway
<1> QED
  BY <1>2 DEF TypeOK, Windows

\* A key that nothing happens to keeps its bounds.
LEMMA OtherKeys ==
  ASSUME NEW k \in Keys, WindowBounds(k), windows'[k] = windows[k],
         \A r \in Requests : KeyOf[r] = k => granted'[r] = granted[r]
  PROVE  WindowBounds(k)'
<1>1. Current(k)' = Current(k) /\ Earlier(k)' = Earlier(k)
  BY DEF Current, Earlier
<1> QED
  BY <1>1 DEF WindowBounds, OpenBounds, ClosedBounds, Over

\* The first search after a window opens the next one.
LEMMA PassOpens ==
  ASSUME WindowsBounded, NEW r \in Requests, Over(KeyOf[r]), Pass(r)
  PROVE  WindowBounds(KeyOf[r])'
<1> DEFINE k == KeyOf[r]
<1> USE MinuteAssumption
<1>1. k \in Keys /\ TypeOK /\ Rate[k] \in Nat \ {0}
  BY KeysAssumption, RateAssumption DEF WindowsBounded
<1>2. windows'[k].age = 0 /\ windows'[k].count = 1 /\ granted' = [granted EXCEPT ![r] = 0]
  BY <1>1 DEF Pass, TypeOK
<1>3. ClosedBounds(k)
  BY <1>1 DEF WindowsBounded, WindowBounds
<1>4. /\ granted'[r] = 0
      /\ \A s \in Requests \ {r} : granted'[s] = granted[s]
      /\ \A s \in Requests : granted[s] \in 0..Minute
  BY <1>1, <1>2 DEF TypeOK
<1>5. Current(k)' = {r}
  BY <1>2, <1>3, <1>4 DEF Current, ClosedBounds
<1>6. Cardinality(Current(k)') = 1
  BY <1>5, FS_Singleton
<1>7. Earlier(k)' \subseteq Current(k)
  <2> SUFFICES ASSUME NEW s \in Earlier(k)' PROVE s \in Current(k)
    OBVIOUS
  <2>1. s \in Requests \ {r} /\ KeyOf[s] = k /\ granted[s] < Minute
    BY <1>2, <1>4 DEF Earlier
  <2>2. windows[k].age = Minute
    BY <1>1, Typed
  <2> QED
    BY <1>4, <2>1, <2>2 DEF Current
<1>8. Cardinality(Earlier(k)') < Rate[k]
  <2>1. Current(k) \subseteq Requests
    BY DEF Current
  <2> QED
    BY <1>1, <1>3, <1>7, <2>1, Sizes DEF ClosedBounds
<1>9. OpenBounds(k)'
  BY <1>1, <1>2, <1>4, <1>6, <1>8 DEF OpenBounds
<1>10. ~Over(k)'
  BY <1>2 DEF Over
<1> QED
  BY <1>9, <1>10 DEF WindowBounds

\* A search that passes in a window is one more in it.
LEMMA PassCounts ==
  ASSUME WindowsBounded, NEW r \in Requests, granted[r] >= Minute, ~Over(KeyOf[r]), Pass(r)
  PROVE  WindowBounds(KeyOf[r])'
<1> DEFINE k == KeyOf[r]
<1> USE MinuteAssumption
<1>1. k \in Keys /\ TypeOK /\ Rate[k] \in Nat \ {0}
  BY KeysAssumption, RateAssumption DEF WindowsBounded
<1>2. windows[k].age \in Nat /\ windows[k].age < Minute /\ windows[k].count \in Nat
  BY <1>1, Typed DEF Over
<1>3. /\ windows'[k].age = windows[k].age
      /\ windows'[k].count = windows[k].count + 1
      /\ windows[k].count < Rate[k]
  BY <1>1 DEF Pass, TypeOK, HasRoom
<1>4. /\ granted'[r] = 0
      /\ \A s \in Requests \ {r} : granted'[s] = granted[s]
      /\ \A s \in Requests : granted[s] \in 0..Minute
  BY <1>1 DEF Pass, TypeOK
<1>5. OpenBounds(k)
  BY <1>1 DEF WindowsBounded, WindowBounds
<1>6. Current(k)' = Current(k) \cup {r} /\ r \notin Current(k)
  BY <1>2, <1>3, <1>4 DEF Current
<1>7. Earlier(k)' = Earlier(k)
  BY <1>2, <1>3, <1>4 DEF Earlier
<1>8. Cardinality(Current(k)') <= windows'[k].count
  <2>1. IsFiniteSet(Current(k)) /\ Cardinality(Current(k)) \in Nat
    BY Sizes DEF Current
  <2>2. Cardinality(Current(k)') = Cardinality(Current(k)) + 1
    BY <1>6, <2>1, FS_AddElement
  <2> QED
    BY <1>2, <1>3, <1>5, <2>1, <2>2 DEF OpenBounds
<1>9. \E s \in Requests : KeyOf[s] = k /\ granted'[s] = windows'[k].age
  <2>1. PICK s \in Requests : KeyOf[s] = k /\ granted[s] = windows[k].age
    BY <1>5 DEF OpenBounds
  <2>2. s # r
    BY <1>2, <2>1
  <2> QED
    BY <1>3, <1>4, <2>1, <2>2
<1>10. OpenBounds(k)' /\ ~Over(k)'
  BY <1>1, <1>2, <1>3, <1>5, <1>7, <1>8, <1>9 DEF OpenBounds, Over
<1> QED
  BY <1>10 DEF WindowBounds

\* As time passes a window keeps what passed in it; when it is over, its
\* opener is a minute old and no longer counts.
LEMMA TickKeepsBounds ==
  ASSUME WindowsBounded, Tick, NEW k \in Keys
  PROVE  WindowBounds(k)'
<1> USE MinuteAssumption
<1>1. TypeOK /\ WindowBounds(k) /\ Rate[k] \in Nat \ {0}
  BY RateAssumption DEF WindowsBounded
<1>2. /\ windows[k].age \in 0..Minute /\ windows[k].count \in Nat
      /\ \A r \in Requests : granted[r] \in 0..Minute
  BY <1>1, Typed
<1>3. /\ windows'[k].age = Older(windows[k].age)
      /\ windows'[k].count = windows[k].count
      /\ \A r \in Requests : granted'[r] = Older(granted[r])
  BY DEF Tick
<1>4. Current(k) \subseteq Requests /\ Earlier(k) \subseteq Requests
  BY DEF Current, Earlier
<1>5. CASE windows[k].age + 1 < Minute
  <2>1. OpenBounds(k) /\ windows'[k].age = windows[k].age + 1
    BY <1>1, <1>2, <1>3, <1>5 DEF WindowBounds, Over, Older
  <2>2. Current(k)' = Current(k)
    BY <1>2, <1>3, <1>5, <2>1 DEF Current, Older
  <2>3. Earlier(k)' \subseteq Earlier(k)
    BY <1>2, <1>3, <1>5, <2>1 DEF Earlier, Older
  <2>4. Cardinality(Earlier(k)') < Rate[k]
    BY <1>1, <1>4, <2>1, <2>3, Sizes DEF OpenBounds
  <2>5. \E r \in Requests : KeyOf[r] = k /\ granted'[r] = windows'[k].age
    BY <1>2, <1>3, <1>5, <2>1 DEF OpenBounds, Older
  <2>6. OpenBounds(k)'
    BY <1>3, <2>1, <2>2, <2>4, <2>5 DEF OpenBounds
  <2> QED
    BY <1>5, <1>2, <2>1, <2>6 DEF WindowBounds, Over
<1>6. CASE windows[k].age + 1 = Minute
  <2>1. OpenBounds(k) /\ windows'[k].age = Minute
    BY <1>1, <1>2, <1>3, <1>6 DEF WindowBounds, Over, Older
  <2>2. PICK opener \in Requests : KeyOf[opener] = k /\ granted[opener] = windows[k].age
    BY <2>1 DEF OpenBounds
  <2>3. Current(k)' \subseteq Current(k) \ {opener}
    <3> SUFFICES ASSUME NEW s \in Current(k)' PROVE s \in Current(k) \ {opener}
      OBVIOUS
    <3>1. s \in Requests /\ KeyOf[s] = k /\ Older(granted[s]) < Minute
      BY <1>3 DEF Current
    <3>2. granted[s] + 1 < Minute
      BY <1>2, <3>1 DEF Older
    <3> QED
      BY <1>2, <1>6, <2>2, <3>1, <3>2 DEF Current
  <2>4. opener \in Current(k)
    BY <1>2, <1>6, <2>2 DEF Current
  <2>5. Cardinality(Current(k) \ {opener}) = Cardinality(Current(k)) - 1
    BY <1>4, <2>4, Sizes, FS_RemoveElement
  <2>6. Cardinality(Current(k)') < Rate[k]
    <3>1. /\ Cardinality(Current(k)) \in Nat
          /\ Cardinality(Current(k)') \in Nat
          /\ Cardinality(Current(k)') <= Cardinality(Current(k) \ {opener})
      BY <1>4, <2>3, Sizes
    <3> QED
      BY <1>1, <1>2, <2>1, <2>5, <3>1 DEF OpenBounds
  <2>7. \A r \in Requests : KeyOf[r] = k => granted'[r] >= 1
    BY <1>2, <1>3 DEF Older
  <2> QED
    BY <2>1, <2>6, <2>7 DEF WindowBounds, ClosedBounds, Over
<1>7. CASE windows[k].age = Minute
  <2>1. ClosedBounds(k) /\ windows'[k].age = Minute
    BY <1>1, <1>3, <1>7 DEF WindowBounds, Over, Older
  <2>2. Current(k)' \subseteq Current(k)
    <3> SUFFICES ASSUME NEW s \in Current(k)' PROVE s \in Current(k)
      OBVIOUS
    <3>1. s \in Requests /\ KeyOf[s] = k /\ Older(granted[s]) < Minute
      BY <1>3 DEF Current
    <3> QED
      BY <1>2, <1>7, <3>1 DEF Current, Older
  <2>3. Cardinality(Current(k)') < Rate[k]
    BY <1>1, <1>4, <2>1, <2>2, Sizes DEF ClosedBounds
  <2>4. \A r \in Requests : KeyOf[r] = k => granted'[r] >= 1
    BY <1>2, <1>3 DEF Older
  <2> QED
    BY <2>1, <2>3, <2>4 DEF WindowBounds, ClosedBounds, Over
<1> QED
  BY <1>2, <1>5, <1>6, <1>7

LEMMA BoundsForgotten ==
  ASSUME Forget \/ Init, NEW k \in Keys
  PROVE  (Forget => WindowBounds(k)') /\ (Init => WindowBounds(k))
<1> USE MinuteAssumption, RateAssumption
<1>1. ASSUME Forget PROVE WindowBounds(k)'
  <2>1. windows'[k].age = Minute /\ \A r \in Requests : granted'[r] = Minute
    BY <1>1 DEF Forget, NoWindow
  <2>2. Current(k)' = {}
    BY <2>1 DEF Current
  <2> QED
    BY <2>1, <2>2, FS_EmptySet DEF WindowBounds, ClosedBounds, Over
<1>2. ASSUME Init PROVE WindowBounds(k)
  <2>1. windows[k].age = Minute /\ \A r \in Requests : granted[r] = Minute
    BY <1>2 DEF Init, NoWindow
  <2>2. Current(k) = {}
    BY <2>1 DEF Current
  <2> QED
    BY <2>1, <2>2, FS_EmptySet DEF WindowBounds, ClosedBounds, Over
<1> QED
  BY <1>1, <1>2

-----------------------------------------------------------------------------
LEMMA BoundsInit == Init => WindowsBounded
BY BoundsForgotten, MinuteAssumption DEF Init, NoWindow, WindowsBounded, TypeOK

LEMMA BoundsStep == WindowsBounded /\ [Next]_limits => WindowsBounded'
<1> SUFFICES ASSUME WindowsBounded, [Next]_limits PROVE WindowsBounded'
  OBVIOUS
<1>1. TypeOK'
  BY TypeStep DEF WindowsBounded
<1>2. ASSUME NEW k \in Keys PROVE WindowBounds(k)'
  <2>1. CASE UNCHANGED limits
    BY <2>1, OtherKeys DEF limits, WindowsBounded
  <2>2. ASSUME NEW r \in Requests, granted[r] >= Minute, Pass(r)
        PROVE  WindowBounds(k)'
    <3>1. CASE KeyOf[r] = k
      BY <2>2, <3>1, PassOpens, PassCounts
    <3>2. CASE KeyOf[r] # k
      <4>1. windows'[k] = windows[k] /\ \A s \in Requests : KeyOf[s] = k => granted'[s] = granted[s]
        BY <2>2, <3>2 DEF Pass, WindowsBounded, TypeOK
      <4> QED
        BY <4>1, OtherKeys DEF WindowsBounded
    <3> QED
      BY <3>1, <3>2
  <2>3. CASE Tick
    BY <2>3, TickKeepsBounds
  <2>4. CASE Forget
    BY <2>4, BoundsForgotten
  <2> QED
    BY <2>1, <2>2, <2>3, <2>4 DEF Next, TurnAway
<1> QED
  BY <1>1, <1>2 DEF WindowsBounded

\* Two windows together let fewer than twice the rate pass within a minute
\* (server.go allow): the opener of the earlier one is always out of it.
THEOREM BurstsBounded == Spec => []BurstBound
<1>1. WindowsBounded => BurstBound
  <2> SUFFICES ASSUME WindowsBounded, NEW k \in Keys
               PROVE  Cardinality({r \in Requests : KeyOf[r] = k /\ granted[r] < Minute}) < 2 * Rate[k]
    BY DEF BurstBound
  <2>1. /\ TypeOK /\ WindowBounds(k) /\ Rate[k] \in Nat \ {0}
        /\ windows[k].age \in 0..Minute /\ windows[k].count \in Nat
        /\ \A r \in Requests : granted[r] \in 0..Minute
        /\ Over(k) <=> windows[k].age = Minute
    BY Typed DEF WindowsBounded
  <2>2. {r \in Requests : KeyOf[r] = k /\ granted[r] < Minute} = Current(k) \cup Earlier(k)
    BY <2>1, MinuteAssumption DEF Current, Earlier
  <2>3. /\ Current(k) \in SUBSET Requests /\ Earlier(k) \in SUBSET Requests
        /\ Current(k) \cap Earlier(k) = {}
    BY <2>1, MinuteAssumption DEF Current, Earlier
  <2>4. /\ Cardinality(Current(k)) \in Nat /\ Cardinality(Earlier(k)) \in Nat
        /\ Cardinality(Current(k) \cup Earlier(k)) = Cardinality(Current(k)) + Cardinality(Earlier(k))
    <3>1. /\ IsFiniteSet(Current(k)) /\ Cardinality(Current(k)) \in Nat
          /\ IsFiniteSet(Earlier(k)) /\ Cardinality(Earlier(k)) \in Nat
      BY <2>3, Sizes
    <3>2. Cardinality(Current(k) \cap Earlier(k)) = 0
      BY <2>3, FS_EmptySet
    <3>3. Cardinality(Current(k) \cup Earlier(k)) =
            Cardinality(Current(k)) + Cardinality(Earlier(k)) - Cardinality(Current(k) \cap Earlier(k))
      BY <3>1, FS_Union
    <3> QED
      BY <3>1, <3>2, <3>3
  <2>5. CASE Over(k)
    <3>1. Earlier(k) = {}
      BY <2>1, <2>5, MinuteAssumption DEF Earlier
    <3> QED
      BY <2>1, <2>2, <2>4, <2>5, <3>1, FS_EmptySet DEF WindowBounds, ClosedBounds
  <2>6. CASE ~Over(k)
    BY <2>1, <2>2, <2>4, <2>6 DEF WindowBounds, OpenBounds
  <2> QED
    BY <2>5, <2>6
<1> QED
  BY BoundsInit, BoundsStep, <1>1, PTL DEF Spec

\* "Retry-After: 60" is honest (server.go allow): a window that is not over
\* was opened by a search that passed less than a minute ago.
THEOREM RetryAfterHonest == Spec => []RetryAfterSuffices
<1>1. WindowsBounded => RetryAfterSuffices
  BY MinuteAssumption DEF WindowsBounded, WindowBounds, OpenBounds, RetryAfterSuffices, Over, TypeOK
<1> QED
  BY BoundsInit, BoundsStep, <1>1, PTL DEF Spec
=============================================================================
