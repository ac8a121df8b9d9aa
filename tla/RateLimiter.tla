---------------------------- MODULE RateLimiter ----------------------------
(* The API's rate limiter: one fixed window per key, which the first search  *)
(* after a minute restarts.  SearchApi composes it with the handlers.        *)
EXTENDS Naturals, FiniteSets

CONSTANTS Requests, \* searches
          Keys,
          KeyOf,    \* the API key a search is made with
          Rate,     \* rate_limit_per_minute of each key
          Minute    \* the window, in ticks

ASSUME RequestsAssumption == IsFiniteSet(Requests)
ASSUME KeysAssumption == KeyOf \in [Requests -> Keys]
\* CHECK (rate_limit_per_minute > 0)
ASSUME RateAssumption == Rate \in [Keys -> Nat \ {0}]
ASSUME MinuteAssumption == Minute \in Nat \ {0}

VARIABLES windows, \* rateLimiter.items: age in ticks and count
          granted  \* history: ticks since the limiter let a search pass

limits == <<windows, granted>>

TypeOK ==
  /\ windows \in [Keys -> [age : 0..Minute, count : Nat]]
  /\ granted \in [Requests -> 0..Minute]

\* No window yet is like one that is over.
NoWindow == [age |-> Minute, count |-> 0]

Init == /\ windows = [k \in Keys |-> NoWindow]
        /\ granted = [r \in Requests |-> Minute]

Over(k) == windows[k].age >= Minute

\* Mutant: `window.count > limit'.
HasRoomForOneMore(k) == windows[k].count <= Rate[k]

HasRoom(k) == windows[k].count < Rate[k]

\* allow returns true: the window is over and a new one begins, or has room.
Pass(r) ==
  LET k == KeyOf[r]
  IN  /\ \/ Over(k) /\ windows' = [windows EXCEPT ![k] = [age |-> 0, count |-> 1]]
         \/ ~Over(k) /\ HasRoom(k) /\ windows' = [windows EXCEPT ![k].count = @ + 1]
      /\ granted' = [granted EXCEPT ![r] = 0]

\* Mutant: a search that is turned away prolongs the window.
TurnAwayProlongs(r) ==
  /\ ~Over(KeyOf[r]) /\ ~HasRoom(KeyOf[r])
  /\ windows' = [windows EXCEPT ![KeyOf[r]].age = 0]
  /\ UNCHANGED granted

\* allow returns false, and leaves the window alone.
TurnAway(r) == ~Over(KeyOf[r]) /\ ~HasRoom(KeyOf[r]) /\ UNCHANGED limits

Older(age) == IF age < Minute THEN age + 1 ELSE Minute

Tick ==
  /\ windows' = [k \in Keys |-> [age |-> Older(windows[k].age), count |-> windows[k].count]]
  /\ granted' = [r \in Requests |-> Older(granted[r])]

\* The process restarts; its memory is gone.  What passed before is not
\* counted against it.
Forget == /\ windows' = [k \in Keys |-> NoWindow]
          /\ granted' = [r \in Requests |-> Minute]

\* The name of a search is free for another one when it has passed and a
\* minute is over.
Next == \/ \E r \in Requests : granted[r] >= Minute /\ (Pass(r) \/ TurnAway(r))
        \/ Tick \/ Forget

Spec == Init /\ [][Next]_limits

-----------------------------------------------------------------------------
(* Properties *)

\* Any span shorter than a minute lets fewer than twice a key's rate pass (in
\* one process's life).  A burst at the boundary of two fixed windows is the
\* worst case, and misses one: the search that opened the earlier window.
BurstBound ==
  \A k \in Keys :
    Cardinality({r \in Requests : KeyOf[r] = k /\ granted[r] < Minute}) < 2 * Rate[k]

\* "Retry-After: 60" is honest: once nothing has passed for a minute, the next
\* search of the key passes, however many were refused meanwhile.
RetryAfterSuffices ==
  \A k \in Keys :
    (\A r \in Requests : KeyOf[r] = k => granted[r] >= Minute) => Over(k) \/ HasRoom(k)
=============================================================================
