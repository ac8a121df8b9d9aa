----------------------------- MODULE ZizExport -----------------------------
(* ziz-migrate's article export: a probe of page 1, a producer that hands    *)
(* page numbers to workers, workers that skip, fetch and write article       *)
(* parts, the first error that cancels the others, and reruns that resume    *)
(* from the parts on disk while the site goes on publishing.                 *)
EXTENDS Naturals, FiniteSets

CONSTANTS Workers,    \* the export's worker goroutines, at least one
          PerPage,    \* posts per REST page and article part
          MaxPosts,   \* bound: posts the site ever has
          Sites,      \* the posts that may be published at the start
          MaxChanges, \* bound: posts published or withdrawn meanwhile
          MaxRuns,    \* bound: invocations of the command
          MaxFaults   \* bound: failed requests or writes, kills and Ctrl-Cs

ASSUME PagingAssumption == PerPage \in Nat \ {0} /\ MaxPosts \in Nat
ASSUME BoundsAssumption == MaxRuns \in Nat /\ MaxFaults \in Nat /\ MaxChanges \in Nat
ASSUME WorkersAssumption == Workers # {}
ASSUME SitesAssumption == Sites \subseteq SUBSET (1..MaxPosts)

VARIABLES
  site,        \* ids of the posts that are published now
  parts,       \* article parts on disk: page -> set of posts
  phase,       \* "idle", "exporting", "exported", "finished" or "error"
  resume,      \* the -resume flag of this run
  total,       \* X-WP-Total seen by the probe
  totalPages,  \* X-WP-TotalPages seen by the probe
  next,        \* the page the producer offers, or 0 when `pages' is closed
  pc,          \* each worker: "receive", "check", "fetch", "write", "exit"
  page,        \* the page a worker has received
  posts,       \* what a worker has fetched
  failed,      \* errCh holds the first error (and cancel() was called)
  interrupted, \* the command's context is done (SIGINT, SIGTERM)
  warned,      \* the command has warned that articles are missing
  runs, faults,
  changes,     \* history: how often the site has changed
  probed       \* history: `changes' when this run probed the site

channel == <<total, totalPages, next, failed, resume>>
workerVars == <<pc, page, posts>>
bounds == <<runs, faults>>
changed == <<changes, probed>>
vars == <<site, parts, phase, channel, workerVars, interrupted, warned, bounds, changed>>

Posts == 1..MaxPosts

\* X-WP-TotalPages; an empty site counts as one page.
PageCount(n) == IF n = 0 THEN 1 ELSE (n + PerPage - 1) \div PerPage
Pages == 1..PageCount(MaxPosts)

\* The REST page at this moment: ids in ascending order, PerPage at a time.
PostsOn(p) ==
  {id \in site : PageCount(Cardinality({x \in site : x <= id})) = p}

Cancelled == failed \/ interrupted

Running == phase \in {"exporting", "exported"}

TypeOK ==
  /\ site \subseteq Posts
  /\ DOMAIN parts \subseteq Pages
  /\ \A p \in DOMAIN parts : parts[p] \subseteq Posts
  /\ phase \in {"idle", "exporting", "exported", "finished", "error"}
  /\ total \in 0..MaxPosts /\ totalPages \in {0} \cup Pages
  /\ next \in 0..(PageCount(MaxPosts) + 1)
  /\ pc \in [Workers -> {"receive", "check", "fetch", "write", "exit"}]
  /\ page \in [Workers -> {0} \cup Pages]
  /\ posts \in [Workers -> SUBSET Posts]
  /\ {resume, failed, interrupted, warned} \subseteq BOOLEAN
  /\ runs \in 0..MaxRuns /\ faults \in 0..MaxFaults
  /\ changes \in 0..MaxChanges /\ probed \in 0..MaxChanges

Init ==
  /\ site \in Sites
  /\ parts = [p \in {} |-> {}]
  /\ phase = "idle" /\ resume = TRUE
  /\ total = 0 /\ totalPages = 0 /\ next = 0
  /\ pc = [w \in Workers |-> "exit"]
  /\ page = [w \in Workers |-> 0]
  /\ posts = [w \in Workers |-> {}]
  /\ failed = FALSE /\ interrupted = FALSE
  /\ warned = FALSE
  /\ runs = 0 /\ faults = 0
  /\ changes = 0 /\ probed = 0

-----------------------------------------------------------------------------
(* The site and the operator *)

\* A post is published (an old draft keeps its old id) or withdrawn: the
\* pages behind it shift.
SiteChanges ==
  /\ changes < MaxChanges
  /\ changes' = changes + 1
  /\ \E id \in Posts : site' = IF id \in site THEN site \ {id} ELSE site \cup {id}
  /\ UNCHANGED <<parts, phase, channel, workerVars, interrupted, warned, bounds, probed>>

Fault == faults < MaxFaults /\ faults' = faults + 1

\* writeArticlePart: a temporary file renamed over the part.
WritePart(p, content) == parts' = [q \in DOMAIN parts \cup {p} |->
                                     IF q = p THEN content ELSE parts[q]]

\* ExportArticles up to the start of its workers: fetch page 1, keep or write
\* its part, and return at once when there is no other page.
StartRun ==
  /\ ~Running /\ runs < MaxRuns
  /\ runs' = runs + 1
  /\ resume' \in BOOLEAN
  /\ total' = Cardinality(site)
  /\ totalPages' = PageCount(total')
  /\ IF resume' /\ 1 \in DOMAIN parts
       THEN UNCHANGED parts
       ELSE WritePart(1, PostsOn(1))
  /\ IF totalPages' = 1
       THEN /\ phase' = "exported" /\ next' = 0
            /\ pc' = [w \in Workers |-> "exit"]
       ELSE /\ phase' = "exporting" /\ next' = 2
            /\ pc' = [w \in Workers |-> "receive"]
  /\ page' = [w \in Workers |-> 0]
  /\ posts' = [w \in Workers |-> {}]
  /\ failed' = FALSE /\ interrupted' = FALSE /\ warned' = FALSE
  /\ probed' = changes
  /\ UNCHANGED <<site, faults, changes>>

\* The probe fails, retries included: the run ends before it did anything.
ProbeFails ==
  /\ ~Running /\ runs < MaxRuns /\ Fault
  /\ runs' = runs + 1
  /\ phase' = "error"
  /\ UNCHANGED <<site, parts, channel, workerVars, interrupted, warned, changed>>

Interrupt == /\ Running /\ ~interrupted /\ Fault
             /\ interrupted' = TRUE
             /\ UNCHANGED <<site, parts, phase, channel, workerVars, warned, runs, changed>>

\* Mutant: parts are written in place, so a kill leaves a torn one.
KillTearsPart ==
  /\ phase = "exporting" /\ Fault
  /\ \E w \in Workers : pc[w] = "write" /\ WritePart(page[w], {})
  /\ phase' = "idle" /\ next' = 0
  /\ pc' = [w \in Workers |-> "exit"]
  /\ UNCHANGED <<site, total, totalPages, failed, resume, page, posts,
                 interrupted, warned, runs, changed>>

Kill == /\ Running /\ Fault
        /\ phase' = "idle"
        /\ next' = 0
        /\ pc' = [w \in Workers |-> "exit"]
        /\ UNCHANGED <<site, parts, total, totalPages, failed, resume, page, posts,
                       interrupted, warned, runs, changed>>

-----------------------------------------------------------------------------
(* The producer and the workers of a run *)

\* Mutant: the producer's loop has no upper bound but the closing.
HandBeyond(w) ==
  /\ phase = "exporting" /\ pc[w] = "receive" /\ next \in 2..(totalPages + 1)
  /\ pc' = [pc EXCEPT ![w] = "check"]
  /\ page' = [page EXCEPT ![w] = next]
  /\ next' = next + 1
  /\ UNCHANGED <<site, parts, phase, total, totalPages, failed, resume, posts,
                 interrupted, warned, bounds, changed>>

\* The unbuffered channel hands the next page to a waiting worker.
Hand(w) ==
  /\ phase = "exporting" /\ pc[w] = "receive" /\ next \in 2..totalPages
  /\ pc' = [pc EXCEPT ![w] = "check"]
  /\ page' = [page EXCEPT ![w] = next]
  /\ next' = next + 1
  /\ UNCHANGED <<site, parts, phase, total, totalPages, failed, resume, posts,
                 interrupted, warned, bounds, changed>>

\* Mutants: `page < totalPages', and a close(pages) that a cancelled producer
\* does not reach.
ProducerEndsEarly ==
  /\ phase = "exporting" /\ next # 0
  /\ next >= totalPages \/ Cancelled
  /\ next' = 0
  /\ UNCHANGED <<site, parts, phase, total, totalPages, failed, resume, workerVars,
                 interrupted, warned, bounds, changed>>

ProducerLeavesOpen ==
  /\ phase = "exporting" /\ next > totalPages /\ ~Cancelled
  /\ next' = 0
  /\ UNCHANGED <<site, parts, phase, total, totalPages, failed, resume, workerVars,
                 interrupted, warned, bounds, changed>>

\* All pages are handed out, or the context is done: close(pages).
ProducerEnds ==
  /\ phase = "exporting" /\ next # 0
  /\ next > totalPages \/ Cancelled
  /\ next' = 0
  /\ UNCHANGED <<site, parts, phase, total, totalPages, failed, resume, workerVars,
                 interrupted, warned, bounds, changed>>

Exits(w) == pc' = [pc EXCEPT ![w] = "exit"]

WorkerEnds(w) ==
  /\ phase = "exporting" /\ pc[w] = "receive" /\ next = 0
  /\ Exits(w)
  /\ UNCHANGED <<site, parts, phase, channel, page, posts, interrupted, warned,
                 bounds, changed>>

\* Mutant: a part on disk is kept whatever -resume says.
CheckKeepsParts(w) ==
  /\ pc[w] = "check"
  /\ IF Cancelled
       THEN Exits(w)
       ELSE LET kept == page[w] # totalPages /\ page[w] \in DOMAIN parts
            IN  pc' = [pc EXCEPT ![w] = IF kept THEN "receive" ELSE "fetch"]
  /\ UNCHANGED <<site, parts, phase, channel, page, posts, interrupted, warned,
                 bounds, changed>>

\* A cancelled worker drops its page; a resuming one skips a part on disk
\* unless it is the last; otherwise the page is fetched.
Check(w) ==
  /\ pc[w] = "check"
  /\ IF Cancelled
       THEN Exits(w)
       ELSE LET kept == resume /\ page[w] # totalPages /\ page[w] \in DOMAIN parts
            IN  pc' = [pc EXCEPT ![w] = IF kept THEN "receive" ELSE "fetch"]
  /\ UNCHANGED <<site, parts, phase, channel, page, posts, interrupted, warned,
                 bounds, changed>>

FetchPage(w) ==
  /\ pc[w] = "fetch" /\ PostsOn(page[w]) # {}
  /\ pc' = [pc EXCEPT ![w] = "write"]
  /\ posts' = [posts EXCEPT ![w] = PostsOn(page[w])]
  /\ UNCHANGED <<site, parts, phase, channel, page, interrupted, warned, bounds,
                 changed>>

WritePage(w) ==
  /\ pc[w] = "write"
  /\ WritePart(page[w], posts[w])
  /\ pc' = [pc EXCEPT ![w] = "receive"]
  /\ UNCHANGED <<site, phase, channel, page, posts, interrupted, warned, bounds,
                 changed>>

\* errCh has room for one error; the sender that finds it cancels the others.
ReportError == failed' = TRUE

\* The request fails (the context is done, the page no longer exists, or its
\* retries are used up), or the write does.
PageFails(w) ==
  /\ \/ /\ pc[w] = "fetch" /\ (Cancelled \/ PostsOn(page[w]) = {})
        /\ UNCHANGED faults
     \/ pc[w] \in {"fetch", "write"} /\ Fault
  /\ ReportError
  /\ Exits(w)
  /\ UNCHANGED <<site, parts, phase, total, totalPages, next, resume, page, posts,
                 interrupted, warned, runs, changed>>

\* wg.Wait() returns; a non-empty errCh is the run's error.
RunEnds ==
  /\ phase = "exporting" /\ \A w \in Workers : pc[w] = "exit"
  /\ phase' = IF failed THEN "error" ELSE "exported"
  /\ UNCHANGED <<site, parts, channel, workerVars, interrupted, warned, bounds,
                 changed>>

-----------------------------------------------------------------------------
(* The command after the export *)

\* ValidateArticles reads every part and counts the articles by their ids.
Exported == UNION {parts[p] : p \in DOMAIN parts}

\* Mutant: an interrupted run has nothing to say.
FinishQuietly ==
  /\ phase = "exported"
  /\ phase' = "finished"
  /\ warned' = (~interrupted /\ total > 0 /\ Cardinality(Exported) < total)
  /\ UNCHANGED <<site, parts, channel, workerVars, interrupted, bounds, changed>>

\* summary.json is written, and the export is compared with the total of the
\* probe, also when the export was interrupted and gave no error.
Finish ==
  /\ phase = "exported"
  /\ phase' = "finished"
  /\ warned' = (total > 0 /\ Cardinality(Exported) < total)
  /\ UNCHANGED <<site, parts, channel, workerVars, interrupted, bounds, changed>>

\* A part cannot be read, the summary cannot be written, or the media download
\* cannot open its manifest.  An interrupt does not get here: DownloadMedia
\* returns nil when its context is done, and the rest does not look at it.
FinishFails ==
  /\ phase = "exported" /\ Fault
  /\ phase' = "error"
  /\ UNCHANGED <<site, parts, channel, workerVars, interrupted, warned, runs, changed>>

-----------------------------------------------------------------------------
WorkerStep(w) == \/ Hand(w) \/ WorkerEnds(w) \/ Check(w)
                 \/ FetchPage(w) \/ WritePage(w) \/ PageFails(w)

Next == \/ SiteChanges \/ StartRun \/ ProbeFails \/ Interrupt \/ Kill
        \/ \E w \in Workers : WorkerStep(w)
        \/ ProducerEnds \/ RunEnds \/ Finish \/ FinishFails

Spec == Init /\ [][Next]_vars

\* Goroutines run; requests end (the client has a timeout and bounded retries).
Fairness == /\ \A w \in Workers : WF_vars(WorkerStep(w))
            /\ WF_vars(ProducerEnds) /\ WF_vars(RunEnds) /\ WF_vars(Finish)

LiveSpec == Spec /\ Fairness

-----------------------------------------------------------------------------
(* Properties *)

\* ExportArticles has returned without an error.
Succeeded == phase \in {"exported", "finished"}

\* A run that reports success and was not interrupted left a part for every
\* page: no page is lost between the producer, the workers and the error.
SuccessHasAllPages ==
  Succeeded /\ ~interrupted => 1..totalPages \subseteq DOMAIN parts

\* A successful full run (-resume=false) on a site that does not change while
\* it runs exports the whole site, whatever older parts are on disk.
FullRunExportsAll ==
  Succeeded /\ ~interrupted /\ ~resume /\ probed = changes => site \subseteq Exported

\* docs/ziz-migration.md:29: "If a run is interrupted, run the same command
\* again."  On a site that never changes, the first successful run leaves
\* everything exported, however many runs were killed or failed before it.
ResumeCompletes ==
  Succeeded /\ ~interrupted /\ changes = 0 => site \subseteq Exported

\* Whatever fails or is cancelled, the producer and every worker come to an
\* end, ExportArticles returns and the command ends.
EveryRunEnds == Running ~> ~Running

\* A run that finishes without the warning has exported the whole site (as
\* long as the site never changed), although an interrupted export may drop
\* pages and still end without an error: the operator who goes by
\* docs/ziz-migration.md:97 stops rerunning only when nothing is missing.
UnwarnedIsComplete ==
  phase = "finished" /\ ~warned /\ changes = 0 => site \subseteq Exported

\* docs/ziz-migration.md:97: "If the exported unique count is below the
\* WordPress total, rerun the command with -resume=true. Missing page chunks
\* will be fetched without redoing successful chunks."  After a successful,
\* uninterrupted rerun, on a site that did not change meanwhile, all is there.
RerunFillsGaps ==
  Succeeded /\ ~interrupted /\ probed = changes => Cardinality(Exported) >= total
=============================================================================
