# Verification of web-scraper

TLA+ models of the web-scraper service and of its ZIZ migration tool, TLC runs
that check them on small instances, and TLAPS proofs of the properties that
matter most. All line numbers refer to the files under `src/`.

    tlc -workers 2 -config JobQueue.cfg MCJobQueue     # a run
    tlapm JobQueueProofs.tla                           # the proofs of a component

`PROJECT.json` lists every component, run, property mutant, mapped source line,
finding, hazard and theorem.

## 1. The system

| component | source | state it keeps | operations |
|---|---|---|---|
| Job queue | `internal/store/store.go`, `schema.sql` | `scrape_jobs` in PostgreSQL | CreateJob, ClaimJob, RefreshJobClaim, CompleteJob, FailJob, RequeueStaleJobs |
| Price history | the same | `products`, `observations` | the upserts and observations of CompleteJob, PruneHistory, History |
| Workers table, keys | the same | `workers`, `api_keys` | TouchWorker, ListWorkers; key creation, lookup, revocation |
| Worker process | `cmd/worker/main.go`, `internal/config` | per slot: the job, the attempt, the claim-lost channel | workerLoop, maintainJobClaim (heartbeat), maintenance |
| API server | `internal/api`, `cmd/api` | rate-limiter windows in memory, waiting searches | search, job, history, keys, workers |
| Extraction worker | `browser-worker/src/index.ts`, `runtime.ts` | permit pools, pacing chains, telemetry, the browser | POST /scrape, /healthz, shutdown |
| Parsers | `browser-worker/src/parsers.ts` | none | parse, dedupe, merge |
| Search policy | `internal/policy` | none | FilterSearchQuery |
| Article export | `internal/ziz/export.go`, `client.go`, `cmd/ziz-migrate` | article parts on disk | ExportArticles, ReadArticles, ValidateArticles |
| Media download | `internal/ziz/media.go` | media files, manifest | DownloadMedia |
| Deployment | compose files, `deploy/` | - | restart policy, environment |

How they interact. A client posts a search; the API server inserts a row into
`scrape_jobs` and, if asked to, polls the row until a deadline. A slot of some
worker process claims the oldest queued row, asks the extraction worker over
HTTP for listings, retries a few times, and writes the result in a transaction
that locks and verifies its claim; meanwhile a heartbeat goroutine per job
renews `claimed_at`. That transaction also writes the listings: it upserts each
product and adds an observation when a tracked value has changed or a day has
passed. Every process also runs a maintenance loop that puts rows
whose `claimed_at` is too old back into the queue, and prunes old observations. The extraction worker is one
Node process shared by the slots: it paces requests per marketplace, bounds
them with permit pools, tries plain HTTP first and Chromium second. The
migration tool is a separate command that shares no state with the service.

What is hard, and what makes each part correct:

* **Queue and workers**: claims are leases, so two slots may work on one job;
  commits and their answers can be separated by a crash, a cancelled context or
  a heartbeat; processes die and come back under the same name. Correct means:
  the latest claim alone ends the job, a finished job never changes, the
  heartbeat's verdict is true, and no job stays unfinished for ever.
* **Price history**: concurrent transactions compare with rows that others are
  about to write, lock products in the order of their listings, and date their
  rows by the moment they began. Correct means: a history is what it would be if
  each job was recorded at one instant, nothing of a rolled-back job stays, a
  product that is seen every day never drops out of its history, every
  transaction ends.
* **The lease**: intervals, delays and failed refreshes add up. Correct means a
  live slot is not robbed of its job by ordinary hiccups.
* **API server**: ticker and deadline race; windows reset; keys are revoked
  while searches wait. Correct means: a client is never told an outcome the job
  does not have, the limit and `Retry-After` are honest, a search has one answer, its client learns the outcome.
* **Extraction worker**: clients disconnect at any `await`; permits are handed
  over between requests, and one pool is waited for while another is held.
  Correct means: permits are neither leaked nor doubled, no lost wake-up, exact
  telemetry, an orderly shutdown; an answer without repeated products, and one
  that is not empty when there was something to find.
* **Article export**: workers, producer, first error and user interrupt end a
  run together; a rerun trusts what an earlier run left. Correct means: success
  implies completeness, silence about missing articles means that there are none,
  and every run terminates.
* **Media download**: files, counters and manifest lines are written by different
  goroutines, lines in batches; a run may be killed anywhere and a flush be cut.
  Correct means: the manifest names only files that are there, a successful run
  maps every URL it could fetch, and every run terminates.

## 2. Modules

| module | models | state and actions |
|---|---|---|
| `JobLifecycle` | what the queue promises of a job | status, owner, finisher; Submit, Start, GiveBack, End |
| `JobQueue` | `scrape_jobs`, workerLoop, heartbeat, requeueing, processes | one action per SQL statement or step of the loop |
| `MCJobQueue` | its instances | |
| `JobQueueProofs` | its theorems | |
| `PriceHistory` | what `observations` promises | clock, points, jobs; Start, Record (a whole job), GiveUp, Prune, Pass |
| `Observations`, `MCObservations`, `ObservationsProofs` | CompleteJob's writes to `products` and `observations`, PruneHistory, History | one action per statement of the loop, commit, rollback, deadlock, pruning |
| `ClaimLease`, `MCClaimLease`, `ClaimLeaseProofs` | the lease in time | ticker, refresh sent, executed, answered or failed, requeue |
| `RateLimiter`, `MCRateLimiter`, `RateLimiterProofs` | rateLimiter, in time | allow returns true or false, a tick, a restart |
| `SearchApi`, `MCSearchApi`, `SearchApiProofs` | searches, polling, revocation; instantiates `JobLifecycle` for the jobs and `RateLimiter` for the windows | one action per handler step |
| `Permits` | class PermitPool as operators | |
| `Listings` | parsers.ts and the merge of index.ts as operators | |
| `ScrapeWorker`, `MCScrapeWorker`, `ScrapeWorkerProofs` | POST /scrape requests over `Permits` and `Listings` | one action per stretch between two awaits |
| `ZizExport`, `MCZizExport`, `ZizExportProofs` | ExportArticles, validation and warning of the command, kills and reruns, the site | one action per channel operation, request, write |
| `ZizMedia`, `MCZizMedia`, `ZizMediaProofs` | DownloadMedia, cut writes, kills and reruns | one action per channel operation, stat, rename, flush |

The composition of service and queue goes through `JobLifecycle`: `JobQueue`
implements it (checked and proved), and `SearchApi` uses its actions as the
environment that moves the jobs. CompleteJob is one transaction that two modules
share: `JobQueue` has its claim on the job's row, `Observations` its writes to the
products, and neither half reads what the other one writes. `SearchApi` moves the windows with `RateLimiter`'s
actions and is shown to implement it (`UsesLimiter`).

### JobQueue

A row is `status`, `holder` (worker_id), `stale` (claimed_at is older than
WORKER_STALE_AFTER) and `error`, reduced to null, "requeued" or "scrape". A slot
is `pc`, `work` (its local variable `job`), `attempt` and `lost` (the heartbeat
has sent ErrJobClaimLost and cancelled jobCtx). `live` is the set of processes
whose root context is not cancelled. `owner` and `finisher` are history: which
slot claimed last, and which one wrote the final status; no guard reads them
except `Attended`, which decides whether an expired lease counts as a fault.

| workerLoop | action |
|---|---|
| ClaimJob returns a row / nothing / an error after the commit | ClaimJob / PollEmpty / ClaimAnswerLost |
| client.Scrape, then the select on claimLost (88-97) | ScrapeSucceeds, ScrapeFails, ScrapeDiscarded |
| backoff (111-123) | BackoffEnds |
| CompleteJob: SELECT ... FOR UPDATE; UPDATE and COMMIT; an error; the answer | LockClaim; CommitResult; CompleteErrs; CommitAnswered, CommitAnswerLost |
| after the loop (125-141) | GiveUp, FailJob, FailJobErrs |

A row lock is `Locked`: statements on a locked row wait, so they are not
enabled. An error of ClaimJob before its commit changes nothing and is no step.
In PollEmpty nothing changes either; it is there because the slot keeps trying.
A refresh that fails with a database error has no effect beyond the age of the
claim, which `ClaimLease` counts. `priority` is never set by the code, so
jobs are ordered by `created_at`, and their names are numbers in that order.
Shutdown and Crash differ: after a shutdown the slots wind down through
their error paths and their jobs stay running.

### Observations and PriceHistory

A *value* is the tuple of the columns that the NOT EXISTS of `store.go:283-297`
compares, a *point* a row of `observations`; two transactions never begin at the
same tick, because `now()` has microseconds.

| CompleteJob | action |
|---|---|
| BEGIN, which fixes `now()` (235) | Begin |
| the loop over the listings, which passes over incomplete items (258-262) | Proceed, in Begin and Observe |
| INSERT ... ON CONFLICT DO UPDATE on `products` (263-278) | Upsert |
| INSERT ... WHERE NOT EXISTS on `observations` (280-303) | Observe |
| COMMIT (322) | Commit |
| any error, a lost claim, a cancelled context, a crash: the deferred Rollback | Abort |
| deadlock_timeout of PostgreSQL | DeadlockVictim |

Upsert takes the product's row, or waits for the transaction that holds it, and
keeps it until COMMIT or ROLLBACK. Under READ COMMITTED each statement sees what is
committed when it starts, so Observe reads `points` and adds to `wrote`, which
Commit makes visible. A job's products are distinct, because its listings were
de-duplicated (`MergeIsFirstAppearances`). `seen` and `late` are history: what the
latest-begun job saw of a product, and whether jobs have stored it in another order
than they began; no guard reads them.

PriceHistory knows each job by what it has seen and when it started, and records it
whole, in one step at its COMMIT with its start as the time of its points, or leaves
nothing of it. So a job that is stored in part, or whose rows outlive its rollback,
is no step of PriceHistory (the mutants of Upsert and Abort show both). A product gets
a point when its latest point has another value or is a day older than the job. That
point is remembered in `last` also when it was dropped, because a transaction may decide on a
point that is pruned before its COMMIT, or the other way round: then, and only then,
PriceHistory lets an unchanged value be recorded again or not. With RETENTION_DAYS = 1, which
Load accepts, heartbeat and pruning have the same period and this is an everyday case; with more
it takes a transaction that is open for a day. Both are within the model: a
transaction may be open for any time.

The start as the time of the points is visible: `OrderedIsExact` holds only of products
whose jobs commit in the order in which they began, and finding 4 shows what happens
to the others.

`SeenHasHistory` speaks of windows of up to 365 days, because History clamps its
`days` there, while a retention may be longer. Of a product seen within the last
d - 1 days it promises a point within d, so with a retention of one day only that a product
seen at this very moment has one.

### ClaimLease

Time in ticks: `age` of claimed_at, `sinceTick` of the heartbeat ticker, whose channel
holds one tick (`due`), and the refresh under way, which is sent, executed by the
database and answered, or fails, in steps of their own. RefreshJobClaim runs under
jobCtx without a timeout (`main.go:163`), so nothing bounds how long it takes; `now()` is some moment since
it was sent. `missed` counts the refreshes that failed in a row. `stalled` is history: how much of
the time since the last value of claimed_at a statement on the job was under way, the
claim's own answer included. A hung refresh therefore does cost a live slot its job, and
`TakenOnlyAfterMisses` says how long it has to hang: a requeue takes
(missed + 1) intervals and `stalled` together to exceed the lease.

### RateLimiter

Windows count ticks since they opened, up to `Minute`, when they are over; a key
without a window is like one whose window is over. `granted` is history: ticks since
the limiter let a request pass. A restart forgets both.

### SearchApi

A search goes through authentication, limiter, body and policy checks, INSERT
and waiting loop; its job has the same name. A history read passes the first two
layers, so it is counted too, and shows no job. Every poll reads the row at one instant. The
deadline's message stays in its channel, so `expired` is a flag.

### ScrapeWorker and Permits

Node runs each stretch between two awaits without interruption, and promises
that have settled resume before timers, sockets and aborts are handled: `Quiet`
is that rule. A permit handed over by release() resumes its heir in this way.
A waiter that aborts is cut out of the queue at its index, as in `runtime.ts`.
release() also skips waiters that are aborted; there are none, because the
abort listener has removed them, and `WaitersMatch` checks just that.

### Listings

A page is a sequence of cards (of AliExpress, one for each of its three sources), and
a card is an id and whether it has all that a listing needs. The parsers' loops
with their limits, `dedupe`, the order of the sources, `enough` and `mergeListings` are
operators. `ScrapeWorker` applies them to the pages it is served, so whether a
request falls back, what it answers and whether it fails follow from them;
`direct` is what the direct path had found. `MergeIsFirstAppearances` and `ParsersFind`
ask in every state in which a page is about to be read for all pages of up to
`MaxCards` cards (lists of `MaxCards` listings, limits up to `MaxCards + 1`), far more
than the few that drive the control flow. `Place` is where a product comes first; "in
order" compares such places. For AliExpress only the init data's order is claimed: a
source that is cut off at the limit, repetitions included, may let a later source
overtake what it did not reach.

### ZizExport

Posts are numbers, a page is the posts of that rank in id order at the moment
of the request, and the site may change between steps. The channel is
unbuffered: `Hand` is a rendezvous. Retries and backoff of the client are inside
one request, which succeeds or fails. A part appears on disk whole, by rename.
The probe and the handling of page 1 run before any goroutine exists and are one
step. After the export the command reads the parts back and compares their number
of articles with the total of the probe: `Finish` and `warned`. The counters of
summary.json (written, skipped) are not modelled. There is at least one worker: ExportArticles turns a number below
1 into 16, and DownloadMedia into 24 (`export.go:42`, `media.go:55`). Without a
worker a run would end at once with nothing handed out, and the theorems need the
assumption.

### ZizMedia

`File` gives the path under which the bytes of a URL are stored, so two URLs may
share one. Stat and rename are two steps, between which another worker may store
the same bytes. A record is sent through the bounded channel
`results`, encoded into `buffer` and written by a flush after `Batch` lines or at
the end. The manifest is reduced to what loadMediaManifest makes of it: `mapped`,
the URLs of its whole lines with status downloaded or skipped, and `tail`, a last
line that lacks its newline; "junk" stands for one that cannot be decoded and is no
URL. FlushCut writes any prefix of the buffer; the next
line that is appended shares a line with `tail`, and then neither can be decoded.
A run that has nothing to append leaves `tail` for a later one. Each run reads the
articles anew (`media.go:76-86`), which an export may have added or replaced: `found` is any of
`Exports`. The number of runs is not bounded. `joint` is history: the URLs of the cut line a run
found and of the line it wrote behind it.
An error of DownloadMedia ends the process (`fatal`), so it stops every
goroutine at once.

## 3. Runs

| run | question | result |
|---|---|---|
| `job_queue` | 2 jobs, 2 processes with one slot each, 2 attempts, any 2 faults | safety, refinement of JobLifecycle and liveness hold |
| `claim_lease` | 20 s / 90 s in units of 10 s, waits of up to 110 s, up to 5 misses in a row | a live slot loses its job only when missed intervals, one more and the waiting exceed the lease: without waiting, after 4 misses |
| `scrape_worker` | 3 requests, 2 marketplaces, 1 permit each, 1 browser, fast path on, 3 kinds of pages, with fairness | permits, queues, telemetry and answers are right, every request ends |
| `scrape_worker_pacing` | 3 requests on one marketplace | StartsSpread is violated (finding 1) |
| `ziz_export` | 2 workers, 5 posts, 2 per page, 3 runs, 1 site change, 2 faults | safety and termination hold |
| `ziz_export_rerun` | one worker, no faults, the site grows by one post | RerunFillsGaps is violated (finding 2) |
| `search_api` | 2 requests, one key with rate 1, 2 faults, revocation, with fairness | safety and the refinement of RateLimiter hold, a search is answered once, its client learns the outcome from the answer or by polling |
| `rate_limiter` | 5 requests of a key with rate 2, one of a key with rate 1, a minute of 3 ticks | bursts stay below twice the rate, Retry-After is honest |
| `ziz_media` | 2 workers, 3 URLs of which 2 serve the same bytes, a channel of 1, batches of 2, any number of runs, articles that gain or lose a URL between them, 2 faults | safety and termination hold |
| `ziz_media_cut` | 1 worker, 2 URLs, 1 fault | ManifestMapsAll is violated (finding 3) |
| `observations` | 2 slots, 2 products stored in opposite orders and one that only comes incomplete, a day of 2 ticks, 2 days of retention, 6 ticks, with fairness | the refinement of PriceHistory, exactness, coverage and termination hold |
| `observations_order` | the same without fairness | ChangeOnly is violated (finding 4) |

Every property of a passing run has a mutant: a plausible bug, written next to
the definition it replaces (commented `Mutant`), under which TLC reports that
property violated.

**Bounds.** Two jobs and two processes give every contention there is: a job is
contended by at most a stale and a current slot at a time, and slots of
one process differ from slots of two only in that they crash together. Two
faults allow a stale claim followed by a crash or an ambiguous commit of
the next owner; two attempts, a retry and a last attempt. Three requests
are the smallest number with a permit holder, a waiter and a third one that
holds the other pool. Five posts on pages of two are a first, a middle and a
last, partial page. Requests of the API meet only in the limiter and in a
revocation, so two of one key (one that waits, one that does not) are enough there;
five requests of rate two are more than two adjacent windows may let pass, and three
ticks leave room for a burst before and after the boundary. Three URLs with a
channel of one and batches of two fill the channel, flush in the middle of a run
and leave a partial batch for the end; two of them race for one file, and runs
without number resume from whatever the earlier ones left, so a cut line is also found
by a run long after. `Minute` is a unit of
time, not a bound: the proofs hold for every length. Two slots that store
two products in opposite orders deadlock, overtake each other and lose an update if
the rows were not locked; six ticks are three days, so heartbeats, pruning and a
job that started before a pruning all happen. Three cards are enough for a repeated
product between two others, and three runs of the export for a failure, a resumed run and one after
that. Waits of 110 s let one statement outlast the lease, and five misses outlast it
without any waiting. The bounds are `MaxFaults`, `MaxRuns`, `MaxChanges`, `MaxPosts`, `MaxMissed`,
`MaxStalled` (the waiting of ClaimLease), `MaxNow` (the clock of Observations), `MaxCards` and `MaxQuiet` (how far a history variable of pacing counts); each is a constant.

**Deadlock** is checked for the queue, the price history, the lease and the API, which
never stop.
It is off for the extraction worker (it stops after a shutdown), the export and
the media download (the command ends).

**Fairness.** JobQueue: slots take their next step: a scrape ends by
BROWSER_REQUEST_TIMEOUT, and a SQL statement returns or fails, which is an assumption, because
ClaimJob, RefreshJobClaim, CompleteJob and FailJob have no deadline in `main.go`: on a connection that hangs
without an error EveryJobEnds has to wait for TCP. Leases expire, the maintenance
ticker fires, Docker restarts a stopped process (`restart: unless-stopped`).
Nothing is assumed of the heartbeat, of faults or of new jobs. ScrapeWorker:
timers fire, fetches and navigations settle (each has a timeout), settled promises
resume; that newContext, newPage, content and close settle is assumed of Playwright. ZizExport and ZizMedia: goroutines run and requests end. Observations:
statements return, PostgreSQL grants a row to its waiters in the order of
their requests (strong fairness of Upsert: a row may be taken and given back
again and again) and its deadlock detector runs; nothing is assumed of Abort. SearchApi: timers fire, the
select takes a ready deadline in the end (it chooses at random among the ready
cases), clients keep polling, and jobs end, which is what EveryJobEnds says of
the queue.

### Findings

1. `pace()` runs before the permit is acquired, so the "spread starts" of
   `.env.example:33` do not hold for requests that waited for a permit.
2. A resuming export keeps a part that an earlier run wrote as a shorter last
   page (always so for page 1), so the advice of `docs/ziz-migration.md:97` does not
   fill the gap.
3. A media rerun appends to the manifest without looking at its end. After a flush
   that was cut, the first new line is glued to the remainder of the old one and
   both are skipped when the manifest is read: a successful rerun leaves a stored
   URL unmapped (`docs/ziz-migration.md:72`). `OnlyJointIsLost` bounds the loss to the
   URLs of these two lines. The next resuming run downloads them again; but a run that appends
   nothing leaves the cut line as it is, and when that line was cut right before its newline, a much
   later run may still lose it.
4. A job that began first and stores a product last puts its row behind a newer
   one, since `observed_at` is the beginning of the transaction: the history may then
   hold one value twice in a row within a day (`docs/deployment.md:71`,
   `README.md:51`), and its latest point may not be what the latest job saw.

Two more disagreements were read off the code and need no run:
`GET /v1/jobs/{id}?compact=1`, shown in `README.md:106-110`, returns the full view
(`server.go:203`); and identical bytes served under different extensions are
stored twice (`media.go:266`), where `docs/ziz-migration.md:72` says one file.
`WORKER_ID` decides who owns a claim (`store.go:241-243`) and nothing makes it unique:
the same `.env` on two hosts defeats the check. The models and proofs of the queue
take it to be unique and say so (`UniqueWorkerIDs`).

## 4. Proofs

For all constants that satisfy the named ASSUMEs, TLAPS proves the following. Where
"with unique WORKER_IDs" stands, the theorem has the hypothesis `UniqueWorkerIDs`.

| module | theorem | statement |
|---|---|---|
| `JobQueueProofs` | `TypeCorrect` | `Spec => []TypeOK` |
| | `StaleWorkersFenced` | `[]LatestClaimEnds`, with unique WORKER_IDs |
| | `TransactionsGuarded` | `[]TransactionKeepsClaim`, with unique WORKER_IDs |
| | `VerdictsTrue` | `[]LostIsTrue`, with unique WORKER_IDs |
| | `FinishedJobsFinal` | `TerminalIsFinal` |
| | `QueueImplementsLifecycle` | `ImplementsLifecycle`, with unique WORKER_IDs |
| | `AttemptsUsedUp` | `[]NoEarlyGiveUp` |
| `ObservationsProofs` | `TypeCorrect` | `[]TypeOK` |
| | `HistoryImplemented` | `ImplementsHistory` |
| | `OrderedHistoriesExact` | `[]OrderedIsExact` |
| | `SeenAreShown` | `[]SeenHasHistory` |
| `ClaimLeaseProofs` | `LiveSlotsKeepClaims` | `[]TakenOnlyAfterMisses` |
| | `AcceptedConfigSurvivesOneMiss` | with an accepted configuration a live slot loses its job only after two misses or more waiting than one interval |
| `SearchApiProofs` | `OutcomesStand` | `[]OutcomeStands` |
| | `ApiUsesLimiter` | `UsesLimiter` (SearchApi implements RateLimiter) |
| | `AnsweredOnce` | `OneAnswer` |
| `RateLimiterProofs` | `BurstsBounded` | `[]BurstBound` |
| | `RetryAfterHonest` | `[]RetryAfterSuffices` |
| `ScrapeWorkerProofs` | `PermitsNeverLeak` | `[]PermitsAccounted` |
| | `PermitsNeverIdle` | `[]NoIdlePermit` |
| | `QueuesMatch` | `[]WaitersMatch` |
| | `TelemetryAddsUp` | `[]TelemetryBalanced` |
| | `OneLateLoad` | `AtMostOneLateLoad` |
| | `TypeCorrect` | `[]TypeOK` |
| | `MergesInOrderAlways` | `[]MergeIsFirstAppearances` |
| | `ParsersAlwaysFind` | `[]ParsersFind` |
| `ZizExportProofs` | `TypeCorrect` | `[]TypeOK` |
| | `NoPageLost` | `[]SuccessHasAllPages` |
| | `FullRunsComplete` | `[]FullRunExportsAll` |
| | `RerunsComplete` | `[]ResumeCompletes` |
| | `SilenceIsHonest` | `[]UnwarnedIsComplete` |
| `ZizMediaProofs` | `TypeCorrect` | `[]TypeOK` |
| | `MappedFilesThere` | `[]MappedFilesExist` |
| | `WholeManifestComplete` | `[]WholeManifestMapsAll` |
| | `OnlyJointsAreLost` | `[]OnlyJointIsLost` |

None of them assumes fairness. Each inductive invariant of a specification holds in TLC
on the run of its component, too; the invariants of loops (`Deduped`, `Picked`) are only proved.

**The queue.** LatestClaimEnds alone is not inductive: a slot ends
a job when the *row* says it is the holder, and nothing in LatestClaimEnds
relates holder and owner. The strengthening is `Claims`: typing, and
`ClaimHasOwner`, which says of every running row that its holder is the claim id of its
owner. With unique WORKER_IDs claim ids name slots (`ClaimIDUnique`), so whoever
passes the WHERE clause is the owner (`OwnsRowIsOwner`), and the finisher it
writes is the owner. The assumption is one about the deployment, which the code
does not enforce. TransactionKeepsClaim needs in addition that requeueing waits for locked
rows; LostIsTrue, that a claim once lost to a slot does not come back to that slot
while it still has the same job in hand. The refinement uses the same invariant:
`RowSteps` shows that every step is one of five row changes or leaves the row
alone, and each is an action of JobLifecycle or a stutter. NoEarlyGiveUp rests on
`Calm`, which holds as long as no failure was injected: every process is live, every
running row is fresh and its owner is busy with it, and a slot at work has the latest
claim. So nobody else claims the job, and with shared WORKER_IDs no slot is mistaken
for another.

**The price history.** `Serial`: `last` is the latest point of a product while it has any, and is
dropped only when older than the retention (`LatestKept`); the locks that a transaction has
taken are still its own (`LocksOf`); and for every product it is past, what it decided in
Observe is what it would decide now by `last`, or that point has been dropped, and then
either decision is right (`DecisionsOf`). The lock keeps other jobs from that history, and
pruning does not change `last`. So at COMMIT the rows written are the changed values of
PriceHistory's Record and some of the dropped ones, Abort is its GiveUp, and every other step is
Start, Prune, Pass or a stutter. Nothing is assumed of the retention but that it is a
day at least, or of how long a transaction is open. `Exact` adds the history variables: no point
is younger than what was last seen (`Bounded`), a product that was seen has a point
within the day before, unless that is about to be too old (`Covered`), and a history
that no job overtook is spaced and current (`Ordered`).

**The lease.** `AgeBound`: while a claim is held its age is at most `stalled`, plus one
interval per refresh that failed, plus the time since the tick, or plus a whole interval once the next
tick is due or its refresh under way. TakenOnlyAfterMisses has to survive what happens
after the requeue, too: a refresh that had renewed the claim may be answered only then and reset `missed`,
but in that case `stalled` alone exceeds the lease.

**The API.** What a client was shown last is only ever copied from the row or
is "queued", and JobLifecycle never leaves a terminal status, so `OutcomeStands`
is inductive with typing. OneAnswer needs that an answered search is over for its handler (`Over`),
`ApiUsesLimiter` that a request is not counted before its handler is there (`Uncounted`).

**The limiter.** `WindowsBounded` counts what passed in the present window and what
passed before it and is not yet a minute old. An open window holds at most its
count, its opener is exactly as old as the window, and fewer than the rate are left
of the earlier one; when the window is over, its opener is a minute old, so fewer than
the rate are left of it too. BurstBound is the sum, RetryAfterSuffices the opener.

**The extraction worker.** `PoolOk(pool, limit, holders, waiting)` ties a pool to the
requests whose code is past its acquire (holders) or awaits it (waiting): the counter
is the number of holders, the queue lists those who wait, each once, and nobody
waits while a permit is free. One lemma per operation of PermitPool (`TakeOk`,
`QueueUpOk`, `ReleaseOk`, `StopWaitingOk`) says how it moves the two sets: the counter
stays at a hand-over because the heir leaves one set and enters the other. The
invariant `Kept` has it for every pool (`Books`), the same for the pacing chains
(`Turns`), the balance of the telemetry, and `Heeded`: a request whose client is gone
neither waits nor has just been given a permit. That last part is what keeps
release() from handing a permit to the dead, and AtMostOneLateLoad follows from it. The one late
load does happen: a client that disconnects while newContext() is pending is noticed only after the page is loaded
(`index.ts:205-222`).

**The parsers.** `Dedupe` and `FirstWhole` are recursive functions over the turns of a
loop. That such a function exists (`LoopExists`) and what it has made after n turns
(`Deduped`, `Picked`, the loop invariants) is proved by `Induction`, which is
no theorem of the library but follows from the well-foundedness of `<` on Nat: what fails
somewhere fails somewhere first (`Least`). `DedupeMembers` and `FirstWholeMembers` say what
the loops list and leave out; `PlaceBefore` and `FirstWholeOrder`, in which order. From them
follow CardsFound, SourcesFound and MergesInOrder for every `MaxCards`, so for pages of
any length, and `Carried`: what a request takes from the direct path to the browser is a
list of at most `Wanted` products, which is the last conjunct of TypeOK.

**The export.** SuccessHasAllPages is not inductive, since it says nothing while the run
goes on. `Progress` does: of the pages handed out, each is done or in the hands of a
worker (`Held`), unless the run was cancelled. `Manned` says that no worker leaves before
the producer has ended, so that the last page finds a taker. "Done" includes that a full run
of an unchanged site has written what the page holds (`Current`); `Genuine` and
`Honest` relate the parts on disk and the warning to a site that never changed.

**The media download.** `Backed` says of every record, in a worker's hands, in the
channel, in the buffer or in the manifest, that its file is there (or its URL is
among the failures). `Safe(lost)` says that every URL outside `lost` is still to come,
in transit, or mapped or given up, and that a URL which the run skips as seen is mapped.
The invariant of a run is `Safe(joint)` (`Going`): `joint` is empty until the first flush
behind a cut line, which makes it that line's URL and the first one of its batch
(`FlushSafe`), and no later flush of the run costs anything, because the manifest then ends with a
newline. It says nothing of earlier runs, so it holds for any number of them, whatever
the articles were. When all goroutines are done nothing is to come or in transit.

What the proofs taught about the model: `SeenHasHistory` was first stated for every
window up to the retention, and is false beyond the 365 days to which History clamps
(no instance was that large); the export and the download end at once without a
worker, so `WorkersAssumption` states what the code ensures; a last line
that cannot be decoded must not be the name of a URL (`NoneAssumption`); and
`SourcesFound` claimed that AliExpress' three sources come out in order, which is
false from four cards on: with limit 3, run parameters `a a a b` and links `c b` give
`a c b`, because the loop over the run parameters counts the repeated `a` and stops
before `b`. TLC had looked at three cards. The code promises no order among
sources, so the property now claims what it does: only whole cards, each product once,
the init data first and in its order, and never an empty answer to a page with something.

Only model-checked:

* Liveness, which TLAPS does not support (nor ENABLED): EveryJobEnds, EveryRequestEnds,
  EveryRunEnds of both commands, EveryClientLearns,
  EveryTransactionEnds.

Every other property of the passing runs, invariant or action property or refinement,
is proved.

## 5. Not modelled

* The `workers` table: written by TouchWorker, read only by the admin listing.
* The descriptive columns of `products` (title, image, rating): each upsert
  overwrites them and nothing compares them.
* ReadArticles and the conversion of articles are pure; so are the filter of media
  URLs and the choice of a file extension.
* Selectors, regular expressions, prices and counts of the parsers, the search
  policy, compact view, JSON: pure functions on text. A query is accepted or
  refused, a card is whole or not.
* The retries of the WordPress client: a request with its retries is one step that
  succeeds or fails.
* Connection pools, timeouts as numbers, HTTP framing, logging, deployment.

## 6. Plan

Done in this order: JobLifecycle, JobQueue and its proofs, ClaimLease and its
proofs, ScrapeWorker with Permits, ZizExport, RateLimiter, SearchApi
and their proofs, ZizMedia, PriceHistory and Observations, Listings under ScrapeWorker,
the command after the export. Then the proofs: the inductive
invariants of Observations, ScrapeWorker, ZizExport and ZizMedia, NoEarlyGiveUp,
and the loops of Listings. What is left:

1. The pairing of the two halves of CompleteJob: that a job's observations are
   committed exactly with its result follows from their sharing one transaction, and is
   stated by neither module.
2. The retry loop of the WordPress client, if its limits become configurable.
