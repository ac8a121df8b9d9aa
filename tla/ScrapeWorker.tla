---------------------------- MODULE ScrapeWorker ----------------------------
(* The extraction worker: POST /scrape requests that pace themselves, take   *)
(* a marketplace permit, fetch the page directly and, when that yields too   *)
(* little, pace again, take a marketplace and a browser permit and let       *)
(* Chromium render it.  A client may disconnect at any await.                *)
(*                                                                           *)
(* The process is single-threaded: what runs between two awaits is a step.   *)
(* A promise that is already settled resumes its request before any timer,   *)
(* socket or abort event is handled; `Quiet' says that none is left.         *)
EXTENDS Permits, Listings, FiniteSets

CONSTANTS Requests,      \* the requests that may arrive
          Marketplaces,
          MarketOf,      \* the marketplace a request asks for
          MarketLimit,   \* *_MAX_CONCURRENT of each marketplace
          BrowserLimit,  \* BROWSER_CONCURRENCY
          Interval,      \* *_MIN_INTERVAL_MS, in ticks
          Jitter,        \* REQUEST_JITTER_MS, in ticks
          HttpFastPath,  \* HTTP_FAST_PATH
          AliExpress,    \* the marketplace whose pages have several sources
          Pages,         \* the pages each marketplace may serve
          Wanted,        \* the `limit' of the requests
          MaxQuiet       \* bound: how far `quiet' counts

ASSUME LimitsAssumption == /\ BrowserLimit \in Nat \ {0}
                           /\ MarketLimit \in [Marketplaces -> Nat \ {0}]
ASSUME MarketsAssumption == /\ "browser" \notin Marketplaces
                            /\ MarketOf \in [Requests -> Marketplaces]
ASSUME PacingAssumption == Interval \in Nat /\ Jitter \in Nat /\ HttpFastPath \in BOOLEAN
ASSUME QuietAssumption == MaxQuiet \in Nat
ASSUME PagesAssumption ==
  /\ \A m \in Marketplaces \ {AliExpress} : Pages[m] \subseteq Seq(Card)
  /\ AliExpress \in Marketplaces =>
       Pages[AliExpress] \subseteq [init : Seq(Card), run : Seq(Card), dom : Seq(Card)]
  /\ Wanted \in Nat \ {0} /\ Wanted <= MaxCards

Pools == Marketplaces \cup {"browser"}
Limit(p) == IF p = "browser" THEN BrowserLimit ELSE MarketLimit[p]

VARIABLES
  pc,        \* where each request waits
  path,      \* "direct" or "browser": which function it is in
  direct,    \* what the direct path found, when it was not enough
  aborted,   \* requests whose AbortController fired
  pools,     \* browserPool and marketplacePools
  turns,     \* pacingTails: who waits for its turn, in order
  cool,      \* ticks until nextRequestAt
  quiet,     \* history: ticks since the last retailer interaction started
  counters,  \* telemetry per marketplace
  server     \* "open", "draining" (shuttingDown) or "closed"

vars == <<pc, path, direct, aborted, pools, turns, cool, quiet, counters, server>>

\* Waiting for a timer, a permit, the retailer or Chromium ...
Awaiting == {"pacing", "waitMarket", "fetching", "waitBrowser", "opening", "browsing"}
\* ... or about to resume from a settled promise.
Resumed == {"paced", "gotMarket", "gotBrowser"}
InFlight == {r \in Requests : pc[r] \in Awaiting \cup Resumed}
Quiet == \A r \in Requests : pc[r] \notin Resumed

TypeOK ==
  /\ pc \in [Requests -> Awaiting \cup Resumed \cup {"new", "done"}]
  /\ path \in [Requests -> {"direct", "browser"}]
  /\ direct \in [Requests -> Seq(Products)]
  /\ aborted \subseteq Requests
  /\ pools \in [Pools -> [active : Nat, waiters : Seq(Requests)]]
  /\ turns \in [Marketplaces -> Seq(Requests)]
  /\ cool \in [Marketplaces -> 0..(Interval + Jitter)]
  /\ quiet \in [Marketplaces -> 0..MaxQuiet]
  /\ counters \in [Marketplaces -> [requests : Nat, successes : Nat, failures : Nat]]
  /\ server \in {"open", "draining", "closed"}

Init ==
  /\ pc = [r \in Requests |-> "new"]
  /\ path = [r \in Requests |-> IF HttpFastPath THEN "direct" ELSE "browser"]
  /\ direct = [r \in Requests |-> <<>>]
  /\ aborted = {}
  /\ pools = [p \in Pools |-> NewPool]
  /\ turns = [m \in Marketplaces |-> <<>>]
  /\ cool = [m \in Marketplaces |-> 0]
  /\ quiet = [m \in Marketplaces |-> MaxQuiet]
  /\ counters = [m \in Marketplaces |-> [requests |-> 0, successes |-> 0, failures |-> 0]]
  /\ server = "open"

-----------------------------------------------------------------------------
(* Helpers *)

\* The request moves on to `where' and gives back the permits of `given'; the
\* waiters that inherit them resume.
MoveOn(r, where, given) ==
  LET woken == UNION {Heir(pools[p]) : p \in given}
  IN  /\ pools' = [p \in Pools |-> IF p \in given THEN Release(pools[p]) ELSE pools[p]]
      /\ pc' = [q \in Requests |->
                  CASE q = r -> where
                    [] q # r /\ q \in woken ->
                         IF pc[q] = "waitMarket" THEN "gotMarket" ELSE "gotBrowser"
                    [] OTHER -> pc[q]]

Parse(m, page) == IF m = AliExpress THEN ParseAliExpress(page, Wanted)
                                    ELSE ParseCards(page, Wanted)

\* What the parsers may find.
Parsed == [m \in Marketplaces |-> {Parse(m, page) : page \in Pages[m]}]

CountRequest(m) == counters' = [counters EXCEPT ![m].requests = @ + 1]
CountSuccess(m) == counters' = [counters EXCEPT ![m].successes = @ + 1]
CountFailure(m) == counters' = [counters EXCEPT ![m].failures = @ + 1]

\* pace() begins by queueing up behind the marketplace's earlier callers.
JoinTurns(r) == turns' = [turns EXCEPT ![MarketOf[r]] = Append(@, r)]

\* Mutant: telemetry.failure only for clients that are still there.
FailUncounted(r, given) ==
  /\ MoveOn(r, "done", given)
  /\ IF r \in aborted THEN UNCHANGED counters ELSE CountFailure(MarketOf[r])
  /\ UNCHANGED <<path, direct, turns>>

\* scrape() throws: telemetry.failure, and 502 unless the client is gone.
Fail(r, given) == /\ MoveOn(r, "done", given)
                  /\ CountFailure(MarketOf[r])
                  /\ UNCHANGED <<path, direct, turns>>

Succeed(r, given) == /\ MoveOn(r, "done", given)
                     /\ CountSuccess(MarketOf[r])
                     /\ UNCHANGED <<path, direct, turns>>

\* The direct path is not enough: go through browserHTML.
FallBack(r, given, found) == /\ MoveOn(r, "pacing", given)
                             /\ path' = [path EXCEPT ![r] = "browser"]
                             /\ direct' = [direct EXCEPT ![r] = found]
                             /\ JoinTurns(r)
                             /\ UNCHANGED counters

\* Mutant: a free permit is taken without a look at the signal.
AcquireBlindly(r, p, got, wait, held) ==
  /\ IF HasFree(pools[p], Limit(p))
       THEN /\ pools' = [pools EXCEPT ![p] = Take(@)]
            /\ pc' = [pc EXCEPT ![r] = got]
       ELSE /\ pools' = [pools EXCEPT ![p] = QueueUp(@, r)]
            /\ pc' = [pc EXCEPT ![r] = wait]
  /\ UNCHANGED <<path, direct, turns, counters>>

\* acquire(): an aborted signal throws, a free permit is taken, else wait.
Acquire(r, p, got, wait, held) ==
  CASE r \in aborted ->
         Fail(r, held)
    [] r \notin aborted /\ HasFree(pools[p], Limit(p)) ->
         /\ pools' = [pools EXCEPT ![p] = Take(@)]
         /\ pc' = [pc EXCEPT ![r] = got]
         /\ UNCHANGED <<path, direct, turns, counters>>
    [] OTHER ->
         /\ pools' = [pools EXCEPT ![p] = QueueUp(@, r)]
         /\ pc' = [pc EXCEPT ![r] = wait]
         /\ UNCHANGED <<path, direct, turns, counters>>

Starts(r) == quiet' = [quiet EXCEPT ![MarketOf[r]] = 0]

-----------------------------------------------------------------------------
(* Events: requests, timers, the retailer, Chromium, the client *)

\* A valid POST /scrape.
Arrive(r) ==
  /\ Quiet /\ pc[r] = "new" /\ server = "open"
  /\ pc' = [pc EXCEPT ![r] = "pacing"]
  /\ CountRequest(MarketOf[r])
  /\ JoinTurns(r)
  /\ UNCHANGED <<path, direct, aborted, pools, cool, quiet, server>>

\* pace(): the request at the head waits for nextRequestAt, moves it on and
\* lets the next one have its turn.  It does not look at the abort signal.
PaceTurn(r) ==
  LET m == MarketOf[r]
  IN  /\ Quiet /\ pc[r] = "pacing" /\ Head(turns[m]) = r /\ cool[m] = 0
      /\ \E extra \in 0..Jitter : cool' = [cool EXCEPT ![m] = Interval + extra]
      /\ turns' = [turns EXCEPT ![m] = Tail(@)]
      /\ pc' = [pc EXCEPT ![r] = "paced"]
      /\ UNCHANGED <<path, direct, aborted, pools, quiet, counters, server>>

\* The fetch, its body and the parser are through; the permit is released.
FetchSucceeds(r) ==
  /\ Quiet /\ pc[r] = "fetching"
  /\ \E found \in Parsed[MarketOf[r]] :
       IF Enough(found, Wanted) THEN Succeed(r, {MarketOf[r]})
                                ELSE FallBack(r, {MarketOf[r]}, found)
  /\ UNCHANGED <<aborted, cool, quiet, server>>

\* Timeout, status, size, challenge page, or the abort of the client.
FetchFails(r) ==
  /\ Quiet /\ pc[r] = "fetching"
  /\ IF r \in aborted THEN Fail(r, {MarketOf[r]})
                      ELSE FallBack(r, {MarketOf[r]}, <<>>)
  /\ UNCHANGED <<aborted, cool, quiet, server>>

\* newContext() resolves; navigation starts.  An abort that came meanwhile is
\* not noticed: the listener is added too late to see it.
ContextOpens(r) ==
  /\ Quiet /\ pc[r] = "opening"
  /\ pc' = [pc EXCEPT ![r] = "browsing"]
  /\ Starts(r)
  /\ UNCHANGED <<path, direct, aborted, pools, turns, cool, counters, server>>

\* newContext() rejects, or the page fails, is a challenge or was closed by
\* the abort listener; the context is closed and both permits are released.
BrowserFails(r) ==
  /\ Quiet /\ pc[r] \in {"opening", "browsing"}
  /\ Fail(r, {"browser", MarketOf[r]})
  /\ UNCHANGED <<aborted, cool, quiet, server>>

\* The page was read and its context closed; with nothing found on either
\* path scrape() throws.
BrowserSucceeds(r) ==
  /\ Quiet /\ pc[r] = "browsing"
  /\ \E found \in Parsed[MarketOf[r]] :
       IF MergeListings(found, direct[r], Wanted) # <<>>
         THEN Succeed(r, {"browser", MarketOf[r]})
         ELSE Fail(r, {"browser", MarketOf[r]})
  /\ UNCHANGED <<aborted, cool, quiet, server>>

\* The client disconnects: a waiter leaves its queue and its request fails; a
\* fetch or a page notices by failing later; pacing does not notice.
Disconnect(r) ==
  /\ Quiet /\ r \in InFlight \ aborted
  /\ aborted' = aborted \cup {r}
  /\ CASE pc[r] = "waitMarket" ->
            /\ pools' = [pools EXCEPT ![MarketOf[r]] = StopWaiting(@, r)]
            /\ pc' = [pc EXCEPT ![r] = "done"]
            /\ CountFailure(MarketOf[r])
       [] pc[r] = "waitBrowser" ->
            /\ pools' = [pools EXCEPT ![MarketOf[r]] = Release(@),
                                      !["browser"] = StopWaiting(@, r)]
            /\ pc' = [q \in Requests |->
                        CASE q = r -> "done"
                          [] q # r /\ q \in Heir(pools[MarketOf[r]]) -> "gotMarket"
                          [] OTHER -> pc[q]]
            /\ CountFailure(MarketOf[r])
       [] OTHER -> UNCHANGED <<pools, pc, counters>>
  /\ UNCHANGED <<path, direct, turns, cool, quiet, server>>

\* Mutant: the cooldown goes below zero.
TickBelowZero ==
  /\ Quiet
  /\ \E m \in Marketplaces : cool[m] > 0
  /\ cool' = [m \in Marketplaces |-> cool[m] - 1]
  /\ UNCHANGED <<pc, path, direct, aborted, pools, turns, quiet, counters, server>>

Tick ==
  /\ Quiet
  /\ \E m \in Marketplaces : cool[m] > 0 \/ quiet[m] < MaxQuiet
  /\ cool' = [m \in Marketplaces |-> IF cool[m] > 0 THEN cool[m] - 1 ELSE 0]
  /\ quiet' = [m \in Marketplaces |-> IF quiet[m] < MaxQuiet THEN quiet[m] + 1 ELSE MaxQuiet]
  /\ UNCHANGED <<pc, path, direct, aborted, pools, turns, counters, server>>

\* SIGINT or SIGTERM: server.close() waits for the requests in flight ...
Shutdown ==
  /\ Quiet /\ server = "open"
  /\ server' = "draining"
  /\ UNCHANGED <<pc, path, direct, aborted, pools, turns, cool, quiet, counters>>

\* ... before the browser is closed.
CloseBrowser ==
  /\ Quiet /\ server = "draining" /\ InFlight = {}
  /\ server' = "closed"
  /\ UNCHANGED <<pc, path, direct, aborted, pools, turns, cool, quiet, counters>>

-----------------------------------------------------------------------------
(* Continuations: what a request does when the promise it awaits resolves *)

AcquireMarket(r) ==
  /\ pc[r] = "paced"
  /\ Acquire(r, MarketOf[r], "gotMarket", "waitMarket", {})
  /\ UNCHANGED <<aborted, cool, quiet, server>>

StartFetch(r) ==
  /\ pc[r] = "gotMarket" /\ path[r] = "direct"
  /\ pc' = [pc EXCEPT ![r] = "fetching"]
  /\ Starts(r)
  /\ UNCHANGED <<path, direct, aborted, pools, turns, cool, counters, server>>

\* The browser permit is taken while the marketplace permit is held.
AcquireBrowser(r) ==
  /\ pc[r] = "gotMarket" /\ path[r] = "browser"
  /\ Acquire(r, "browser", "gotBrowser", "waitBrowser", {MarketOf[r]})
  /\ UNCHANGED <<aborted, cool, quiet, server>>

OpenContext(r) ==
  /\ pc[r] = "gotBrowser"
  /\ pc' = [pc EXCEPT ![r] = "opening"]
  /\ UNCHANGED <<path, direct, aborted, pools, turns, cool, quiet, counters, server>>

-----------------------------------------------------------------------------
Continue(r) == AcquireMarket(r) \/ StartFetch(r) \/ AcquireBrowser(r) \/ OpenContext(r)

Finish(r) == \/ FetchSucceeds(r) \/ FetchFails(r)
             \/ ContextOpens(r) \/ BrowserFails(r) \/ BrowserSucceeds(r)

Next == \/ \E r \in Requests : \/ Arrive(r) \/ PaceTurn(r) \/ Disconnect(r)
                               \/ Finish(r) \/ Continue(r)
        \/ Tick \/ Shutdown \/ CloseBrowser

Spec == Init /\ [][Next]_vars

\* Timers fire and settled promises resume.  Fetches, navigations and waits for
\* selectors settle because the code gives each a timeout; that newContext,
\* newPage, content and close settle is assumed: the code gives them none and
\* leaves it to Playwright.
Fairness == /\ \A r \in Requests : WF_vars(PaceTurn(r) \/ Finish(r) \/ Continue(r))
            /\ WF_vars(Tick) /\ WF_vars(CloseBrowser)

LiveSpec == Spec /\ Fairness

-----------------------------------------------------------------------------
(* Properties *)

\* Who holds a permit of pool p, by where the code is.
Holders(p) ==
  {r \in Requests :
     \/ p = MarketOf[r] /\ pc[r] \in {"gotMarket", "fetching", "waitBrowser",
                                      "gotBrowser", "opening", "browsing"}
     \/ p = "browser" /\ pc[r] \in {"gotBrowser", "opening", "browsing"}}

\* A pool's counter is the number of requests that hold a permit, never more
\* than the limit: no path through abort, handoff and failure leaks a permit
\* or releases one twice (the hand-over comment at runtime.ts:56-57).
PermitsAccounted ==
  \A p \in Pools : /\ pools[p].active = Cardinality(Holders(p))
                   /\ pools[p].active <= Limit(p)

\* No permit lies idle while a request waits for one.
NoIdlePermit ==
  \A p \in Pools : pools[p].waiters # <<>> => pools[p].active = Limit(p)

\* A request is in the queue of exactly the pool it waits for, once, and is
\* not there any more once its client is gone.
WaitersMatch ==
  \A p \in Pools, r \in Requests :
    LET places == {i \in DOMAIN pools[p].waiters : pools[p].waiters[i] = r}
        waits == \/ p = MarketOf[r] /\ pc[r] = "waitMarket"
                 \/ p = "browser" /\ pc[r] = "waitBrowser"
    IN  /\ Cardinality(places) = (IF waits THEN 1 ELSE 0)
        /\ waits => r \notin aborted

\* Telemetry counts every request once when it arrives and once when it ends,
\* disconnected ones too.
TelemetryBalanced ==
  \A m \in Marketplaces :
    counters[m].requests = counters[m].successes + counters[m].failures
                           + Cardinality({r \in InFlight : MarketOf[r] = m})

\* A request whose client is gone begins no fetch and opens no browser context
\* any more, whatever permits and turns it is still given.  It contacts the
\* retailer at most once: by the page whose context was being opened when the
\* client left, since the abort listener comes too late to stop that one.
AtMostOneLateLoad ==
  [][\A r \in aborted :
       pc'[r] \in {"fetching", "opening", "browsing"}
         => pc'[r] = pc[r] \/ (pc[r] = "opening" /\ pc'[r] = "browsing")]_vars

\* src/README.md:40: results "are deduplicated by marketplace product ID".
\* Whatever page the browser reads for a request, its answer holds each product
\* once and at most `limit', the browser's before the direct path's, and only a
\* full answer drops what the direct path had found before.
MergeIsFirstAppearances ==
  \A r \in Requests : pc[r] = "browsing" => MergesInOrder[direct[r]]

\* Whatever page a request reads next, however its cards repeat products or lack
\* parts: the parser lists whole ones only, each once, at most as many as it
\* may, and it finds something wherever there is something.
ParsersFind ==
  \A r \in Requests :
    pc[r] \in {"fetching", "browsing"} =>
      IF MarketOf[r] = AliExpress THEN SourcesFound ELSE CardsFound

\* Every request is answered or dropped in the end: pacing, two pools held
\* one inside the other and aborts never block each other for good.
EveryRequestEnds == \A r \in Requests : pc[r] = "pacing" ~> pc[r] = "done"

\* ".env.example:33: Polite upstream pressure controls. These spread starts":
\* two interactions with a marketplace start at least its interval apart.
StartsSpread ==
  [][\A r \in Requests :
       pc'[r] # pc[r] /\ pc'[r] \in {"fetching", "browsing"}
         => quiet[MarketOf[r]] >= Interval]_vars
=============================================================================
