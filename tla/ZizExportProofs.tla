-------------------------- MODULE ZizExportProofs --------------------------
(* Proofs about ZizExport: for every number of workers, page size, site and  *)
(* sequence of runs, failures and kills, a page that was handed out is not   *)
(* lost without the run saying so.                                           *)
EXTENDS ZizExport, FiniteSetTheorems, TLAPS

-----------------------------------------------------------------------------
(* The invariant *)

\* A worker has page p in its hands.
Held(p) == \E w \in Workers : page[w] = p /\ pc[w] \in {"check", "fetch", "write"}

\* Page 1 and the pages the producer has handed out; all when it has ended.
HandedOut == IF next = 0 THEN 1..totalPages ELSE 1..(next - 1)

\* The part of page p is there, and a full run of an unchanged site has
\* written what the page holds now.
Done(p) == /\ p \in DOMAIN parts
           /\ ~resume /\ probed = changes => parts[p] = PostsOn(p)

InRun == phase \in {"exporting", "exported", "finished"}

\* Where the goroutines are.
Shape ==
  /\ phase # "exporting" => \A w \in Workers : pc[w] = "exit"
  /\ \A w \in Workers : pc[w] \in {"check", "fetch", "write"} => page[w] \in Pages
  /\ phase = "exporting" => totalPages \in Pages /\ next \in {0} \cup 2..(totalPages + 1)
  /\ InRun => totalPages \in Pages

\* What the run has found out is true as long as the site does not change.
Current ==
  /\ probed <= changes
  /\ InRun /\ probed = changes =>
       /\ total = Cardinality(site) /\ totalPages = PageCount(total)
       /\ \A w \in Workers : pc[w] = "write" => posts[w] = PostsOn(page[w])

\* A page is done or in somebody's hands, unless the run was cancelled.
Progress ==
  /\ phase = "exporting" /\ ~Cancelled => \A p \in HandedOut : Done(p) \/ Held(p)
  /\ Succeeded /\ ~interrupted => \A p \in 1..totalPages : Done(p)

\* On a site that never changed the parts hold what the pages hold.
Genuine == changes = 0 => \A p \in DOMAIN parts : parts[p] = PostsOn(p)

\* The command warns when there is less than the probe has promised.
Honest == phase = "finished" /\ ~warned => total = 0 \/ Cardinality(Exported) >= total

\* No worker leaves while pages are handed out, unless the run is cancelled.
Manned == phase = "exporting" /\ next # 0 /\ ~Cancelled => \A w \in Workers : pc[w] # "exit"

Kept == TypeOK /\ Shape /\ Manned /\ Current /\ Progress /\ Genuine /\ Honest

-----------------------------------------------------------------------------
(* Pages and parts *)

LEMMA PageCountDoes ==
  ASSUME NEW n \in Nat, NEW k \in Nat, n <= k
  PROVE  PageCount(n) \in Nat \ {0} /\ PageCount(n) <= PageCount(k)
<1>1. PerPage \in Nat \ {0}
  BY PagingAssumption
<1>2. /\ n # 0 => (n + PerPage - 1) \div PerPage >= 1
      /\ k # 0 => (k + PerPage - 1) \div PerPage >= 1
      /\ (n + PerPage - 1) \div PerPage \in Int
  BY <1>1
<1>3. (n + PerPage - 1) \div PerPage <= (k + PerPage - 1) \div PerPage
  BY <1>1
<1> QED
  BY <1>1, <1>2, <1>3 DEF PageCount

LEMMA SiteFinite ==
  ASSUME NEW some \in SUBSET Posts
  PROVE  /\ IsFiniteSet(some) /\ Cardinality(some) \in 0..MaxPosts
         /\ \A less \in SUBSET some : IsFiniteSet(less) /\ Cardinality(less) <= Cardinality(some)
<1>1. MaxPosts \in Nat /\ IsFiniteSet(Posts) /\ Cardinality(Posts) = MaxPosts
  BY PagingAssumption, FS_Interval DEF Posts
<1>2. /\ IsFiniteSet(some) /\ Cardinality(some) <= MaxPosts
  BY <1>1, FS_Subset
<1>3. Cardinality(some) \in Nat
  BY <1>2, FS_CardinalityType
<1> QED
  BY <1>1, <1>2, <1>3, FS_Subset

LEMMA SomePages ==
  /\ 1 \in Pages
  /\ \A n \in 0..MaxPosts : PageCount(n) \in Pages
  /\ \A p \in Pages : p \in Nat
<1>1. MaxPosts \in Nat /\ PageCount(MaxPosts) \in Nat \ {0}
  BY PagingAssumption, PageCountDoes
<1>2. \A n \in 0..MaxPosts : PageCount(n) \in Nat \ {0} /\ PageCount(n) <= PageCount(MaxPosts)
  BY <1>1, PageCountDoes
<1> QED
  BY <1>1, <1>2 DEF Pages

\* Every post is on one of the site's pages.
LEMMA PagesHoldSite ==
  ASSUME site \subseteq Posts, NEW id \in site
  PROVE  \E p \in 1..PageCount(Cardinality(site)) : id \in PostsOn(p)
<1> DEFINE upTo == {x \in site : x <= id}
<1>1. /\ Cardinality(upTo) \in Nat /\ Cardinality(site) \in Nat
      /\ Cardinality(upTo) <= Cardinality(site)
  <2>1. upTo \in SUBSET site /\ upTo \in SUBSET Posts
    OBVIOUS
  <2> QED
    BY <2>1, SiteFinite
<1>2. PageCount(Cardinality(upTo)) \in 1..PageCount(Cardinality(site))
  <2>1. PageCount(Cardinality(site)) \in Nat
    BY <1>1, PageCountDoes
  <2> QED
    BY <1>1, <2>1, PageCountDoes
<1>3. id \in PostsOn(PageCount(Cardinality(upTo)))
  BY DEF PostsOn
<1> QED
  BY <1>2, <1>3

LEMMA PostsOnType ==
  ASSUME site \subseteq Posts, NEW p
  PROVE  PostsOn(p) \subseteq site /\ PostsOn(p) \subseteq Posts
BY DEF PostsOn

LEMMA WritePartDoes ==
  ASSUME NEW p, NEW content, WritePart(p, content)
  PROVE  /\ DOMAIN parts' = DOMAIN parts \cup {p}
         /\ parts'[p] = content
         /\ \A q \in DOMAIN parts : q # p => parts'[q] = parts[q]
BY DEF WritePart

LEMMA Start == Init => Kept
<1> SUFFICES ASSUME Init PROVE Kept
  OBVIOUS
<1>1. TypeOK
  <2>1. site \subseteq Posts
    BY SitesAssumption DEF Init, Posts
  <2>2. DOMAIN parts \subseteq Pages /\ \A p \in DOMAIN parts : parts[p] \subseteq Posts
    BY DEF Init
  <2>3. total \in 0..MaxPosts /\ next \in 0..(PageCount(MaxPosts) + 1)
    BY PagingAssumption, PageCountDoes DEF Init
  <2>4. /\ pc \in [Workers -> {"receive", "check", "fetch", "write", "exit"}]
        /\ page \in [Workers -> {0} \cup Pages] /\ posts \in [Workers -> SUBSET Posts]
    BY DEF Init
  <2>5. /\ runs \in 0..MaxRuns /\ faults \in 0..MaxFaults
        /\ changes \in 0..MaxChanges /\ probed \in 0..MaxChanges
    BY BoundsAssumption DEF Init
  <2> QED
    BY <2>1, <2>2, <2>3, <2>4, <2>5 DEF Init, TypeOK
<1>2. Shape
  BY DEF Init, Shape, InRun
<1>3. Manned /\ Current /\ Progress /\ Genuine /\ Honest
  BY DEF Init, Manned, Current, Progress, Genuine, Honest, InRun, Succeeded
<1> QED
  BY <1>1, <1>2, <1>3 DEF Kept

-----------------------------------------------------------------------------
(* The site and the operator *)

LEMMA SiteChangesStep ==
  ASSUME Kept, SiteChanges
  PROVE  Kept'
<1>1. /\ changes' = changes + 1 /\ changes < MaxChanges /\ changes \in Nat
      /\ UNCHANGED <<parts, phase, channel, workerVars, interrupted, warned, bounds, probed>>
      /\ probed <= changes /\ probed \in Nat /\ MaxChanges \in Nat
  BY BoundsAssumption DEF SiteChanges, Kept, TypeOK, Current
<1>2. changes' # 0 /\ probed' # changes' /\ probed' <= changes' /\ changes' \in 0..MaxChanges
  BY <1>1
<1>3. site' \subseteq Posts
  BY DEF SiteChanges, Kept, TypeOK
<1>4. TypeOK'
  BY <1>1, <1>2, <1>3 DEF Kept, TypeOK, channel, workerVars, bounds
<1>5. Shape'
  BY <1>1 DEF Kept, Shape, InRun, channel, workerVars
<1>6. Current' /\ Genuine'
  BY <1>2 DEF Current, Genuine
<1>7. Progress'
  <2>1. \A p : (Done(p) => Done(p)') /\ Held(p)' = Held(p)
    BY <1>1, <1>2 DEF Done, Held, channel, workerVars
  <2>2. HandedOut' = HandedOut /\ Cancelled' = Cancelled /\ Succeeded' = Succeeded
    BY <1>1 DEF HandedOut, Cancelled, Succeeded, channel
  <2> QED
    BY <1>1, <2>1, <2>2 DEF Kept, Progress, channel
<1>8. Honest'
  BY <1>1 DEF Kept, Honest, Exported, channel
<1>9. Manned'
  BY <1>1 DEF Kept, Manned, Cancelled, channel, workerVars
<1> QED
  BY <1>4, <1>5, <1>6, <1>7, <1>8, <1>9 DEF Kept

\* The probe and page 1.
LEMMA StartRunStep ==
  ASSUME Kept, StartRun
  PROVE  Kept'
<1> USE DEF Kept
<1>1. /\ site \subseteq Posts /\ Cardinality(site) \in 0..MaxPosts
      /\ PageCount(Cardinality(site)) \in Pages /\ 1 \in Pages
      /\ \A p \in Pages : p \in Nat
  BY SiteFinite, SomePages DEF TypeOK
<1>2. /\ total' = Cardinality(site) /\ totalPages' = PageCount(total')
      /\ runs' = runs + 1 /\ runs < MaxRuns /\ resume' \in BOOLEAN
      /\ page' = [w \in Workers |-> 0] /\ posts' = [w \in Workers |-> {}]
      /\ failed' = FALSE /\ interrupted' = FALSE /\ warned' = FALSE /\ probed' = changes
      /\ UNCHANGED <<site, faults, changes>>
  BY DEF StartRun
<1>3. /\ phase' \in {"exporting", "exported"}
      /\ phase' = "exported" => totalPages' = 1 /\ next' = 0
      /\ phase' = "exporting" => totalPages' # 1 /\ next' = 2
      /\ pc' \in [Workers -> {"receive", "exit"}]
      /\ \A w \in Workers : pc'[w] = IF phase' = "exporting" THEN "receive" ELSE "exit"
  BY DEF StartRun
<1>4. \A p : PostsOn(p)' = PostsOn(p)
  BY <1>2 DEF PostsOn
<1>5. /\ DOMAIN parts' = DOMAIN parts \cup {1}
      /\ \A p \in DOMAIN parts' : \/ p \in DOMAIN parts /\ parts'[p] = parts[p]
                                  \/ parts'[p] = PostsOn(p)
      /\ ~resume' => parts'[1] = PostsOn(1)
  <2>1. CASE resume' /\ 1 \in DOMAIN parts
    BY <2>1 DEF StartRun
  <2>2. CASE ~(resume' /\ 1 \in DOMAIN parts)
    <3>1. WritePart(1, PostsOn(1))
      BY <2>2 DEF StartRun
    <3>2. /\ DOMAIN parts' = DOMAIN parts \cup {1} /\ parts'[1] = PostsOn(1)
          /\ \A q \in DOMAIN parts : q # 1 => parts'[q] = parts[q]
      BY <3>1, WritePartDoes
    <3> QED
      BY <3>2
  <2> QED
    BY <2>1, <2>2
<1>6. totalPages' \in Pages /\ totalPages' \in Nat
  BY <1>1, <1>2
<1>7. TypeOK'
  <2>1. DOMAIN parts' \subseteq Pages /\ \A p \in DOMAIN parts' : parts'[p] \subseteq Posts
    BY <1>1, <1>5, PostsOnType DEF TypeOK
  <2>2. next' \in 0..(PageCount(MaxPosts) + 1)
    BY <1>3, PagingAssumption, PageCountDoes
  <2>3. runs' \in 0..MaxRuns /\ changes' \in 0..MaxChanges /\ probed' \in 0..MaxChanges
    BY <1>2, BoundsAssumption DEF TypeOK
  <2>4. /\ pc' \in [Workers -> {"receive", "check", "fetch", "write", "exit"}]
        /\ page' \in [Workers -> {0} \cup Pages] /\ posts' \in [Workers -> SUBSET Posts]
    BY <1>2, <1>3
  <2>5. {resume', failed', interrupted', warned'} \subseteq BOOLEAN
    BY <1>2
  <2> HIDE DEF Kept
  <2> QED
    BY <1>1, <1>2, <1>3, <1>6, <2>1, <2>2, <2>3, <2>4, <2>5 DEF TypeOK, Kept
<1>8. Shape'
  BY <1>3, <1>6, SomePages DEF Shape, InRun, Pages
<1>9. Current'
  BY <1>2, <1>3 DEF Current, TypeOK
<1>10. Done(1)'
  BY <1>4, <1>5 DEF Done
<1>11. Progress'
  <2>1. \A p \in HandedOut' : p = 1
    BY <1>3 DEF HandedOut
  <2>2. phase' = "exported" => \A p \in 1..totalPages' : p = 1
    BY <1>3
  <2> QED
    BY <1>3, <1>10, <2>1, <2>2 DEF Progress, Succeeded
<1>12. Genuine'
  BY <1>2, <1>4, <1>5 DEF Genuine
<1>13. Honest' /\ Manned'
  BY <1>3 DEF Honest, Manned
<1> QED
  BY <1>7, <1>8, <1>9, <1>11, <1>12, <1>13

\* A step that ends or interrupts the run and touches neither the site nor the
\* parts.
LEMMA BreaksStep ==
  ASSUME Kept,
         \/ phase' = phase /\ pc' = pc /\ next' = next /\ interrupted' = TRUE
         \/ /\ phase' \in {"idle", "error"} /\ next' \in {next, 0} /\ interrupted' = interrupted
            /\ pc' \in [Workers -> {"exit"}],
         runs' \in 0..MaxRuns, faults' \in 0..MaxFaults,
         UNCHANGED <<site, parts, total, totalPages, failed, resume, page, posts, warned, changed>>
  PROVE  Kept'
<1> USE DEF Kept
<1>1. \A p : PostsOn(p)' = PostsOn(p)
  BY DEF PostsOn
<1>2. TypeOK'
  <2>1. next' \in 0..(PageCount(MaxPosts) + 1)
    BY PagingAssumption, PageCountDoes DEF TypeOK
  <2> QED
    BY <2>1 DEF TypeOK, changed
<1>3. Shape'
  BY DEF Shape, InRun, TypeOK
<1>4. Current'
  BY <1>1 DEF Current, InRun, TypeOK, changed
<1>5. Progress'
  BY DEF Progress, Cancelled, Succeeded, TypeOK
<1>6. Genuine'
  BY <1>1 DEF Genuine, changed
<1>7. Honest' /\ Manned'
  BY DEF Honest, Exported, Manned, Cancelled
<1> QED
  BY <1>2, <1>3, <1>4, <1>5, <1>6, <1>7

LEMMA OperatorStep ==
  ASSUME Kept, ProbeFails \/ Interrupt \/ Kill \/ FinishFails
  PROVE  Kept'
<1>1. /\ runs \in Nat /\ faults \in Nat /\ MaxRuns \in Nat /\ MaxFaults \in Nat
      /\ runs <= MaxRuns /\ faults <= MaxFaults
      /\ phase # "exporting" => pc \in [Workers -> {"exit"}]
  BY BoundsAssumption DEF Kept, TypeOK, Shape
<1>2. CASE ProbeFails
  <2>1. /\ phase' = "error" /\ next' = next /\ interrupted' = interrupted
        /\ pc' \in [Workers -> {"exit"}] /\ runs' \in 0..MaxRuns /\ faults' \in 0..MaxFaults
        /\ UNCHANGED <<site, parts, total, totalPages, failed, resume, page, posts, warned, changed>>
    BY <1>1, <1>2 DEF ProbeFails, Fault, Running, channel, workerVars
  <2> QED
    BY <2>1, BreaksStep
<1>3. CASE Interrupt
  <2>1. /\ phase' = phase /\ pc' = pc /\ next' = next /\ interrupted' = TRUE
        /\ runs' \in 0..MaxRuns /\ faults' \in 0..MaxFaults
        /\ UNCHANGED <<site, parts, total, totalPages, failed, resume, page, posts, warned, changed>>
    BY <1>1, <1>3 DEF Interrupt, Fault, channel, workerVars
  <2> QED
    BY <2>1, BreaksStep
<1>4. CASE Kill
  <2>1. /\ phase' = "idle" /\ next' = 0 /\ interrupted' = interrupted
        /\ pc' \in [Workers -> {"exit"}] /\ runs' \in 0..MaxRuns /\ faults' \in 0..MaxFaults
        /\ UNCHANGED <<site, parts, total, totalPages, failed, resume, page, posts, warned, changed>>
    BY <1>1, <1>4 DEF Kill, Fault
  <2> QED
    BY <2>1, BreaksStep
<1>5. CASE FinishFails
  <2>1. /\ phase' = "error" /\ next' = next /\ interrupted' = interrupted
        /\ pc' \in [Workers -> {"exit"}] /\ runs' \in 0..MaxRuns /\ faults' \in 0..MaxFaults
        /\ UNCHANGED <<site, parts, total, totalPages, failed, resume, page, posts, warned, changed>>
    BY <1>1, <1>5 DEF FinishFails, Fault, channel, workerVars
  <2> QED
    BY <2>1, BreaksStep
<1> QED
  BY <1>2, <1>3, <1>4, <1>5

-----------------------------------------------------------------------------
(* Producer and workers *)

LEMMA HandStep ==
  ASSUME Kept, NEW w \in Workers, Hand(w)
  PROVE  Kept'
<1> USE DEF Kept
<1>1. /\ phase = "exporting" /\ pc[w] = "receive" /\ next \in 2..totalPages
      /\ pc' = [pc EXCEPT ![w] = "check"] /\ page' = [page EXCEPT ![w] = next]
      /\ next' = next + 1
      /\ UNCHANGED <<site, parts, phase, total, totalPages, failed, resume, posts,
                     interrupted, warned, runs, faults, changes, probed>>
  BY DEF Hand, bounds, changed
<1>2. totalPages \in Pages /\ totalPages \in Nat /\ next \in Pages
  BY <1>1, SomePages, PagingAssumption, PageCountDoes DEF Shape, Pages
<1>3. /\ pc'[w] = "check" /\ page'[w] = next
      /\ \A v \in Workers : v # w => pc'[v] = pc[v] /\ page'[v] = page[v]
  BY <1>1 DEF TypeOK
<1>4. \A p : PostsOn(p)' = PostsOn(p)
  BY <1>1 DEF PostsOn
<1>5. TypeOK'
  <2>1. next' \in 0..(PageCount(MaxPosts) + 1)
    BY <1>1, <1>2, PagingAssumption, PageCountDoes DEF Pages
  <2>2. /\ pc' \in [Workers -> {"receive", "check", "fetch", "write", "exit"}]
        /\ page' \in [Workers -> {0} \cup Pages]
    BY <1>1, <1>2 DEF TypeOK
  <2> QED
    BY <1>1, <2>1, <2>2 DEF TypeOK
<1>6. Shape'
  BY <1>1, <1>2, <1>3 DEF Shape
<1>7. Current'
  BY <1>1, <1>3, <1>4 DEF Current, InRun, TypeOK
<1>8. Progress'
  <2>1. \A p : Done(p)' = Done(p)
    BY <1>1, <1>4 DEF Done
  <2>2. \A p : Held(p) => Held(p)'
    BY <1>1, <1>3 DEF Held
  <2>3. \A p : p = next => Held(p)'
    BY <1>3 DEF Held
  <2>4. \A p \in HandedOut' : p \in HandedOut \/ p = next
    BY <1>1, <1>2 DEF HandedOut
  <2> QED
    BY <1>1, <2>1, <2>2, <2>3, <2>4 DEF Progress, Cancelled, Succeeded
<1>9. Genuine'
  BY <1>1, <1>4 DEF Genuine
<1>10. Honest' /\ Manned'
  BY <1>1, <1>3 DEF Honest, Manned, Cancelled
<1> QED
  BY <1>5, <1>6, <1>7, <1>8, <1>9, <1>10

LEMMA ProducerEndsStep ==
  ASSUME Kept, ProducerEnds
  PROVE  Kept'
<1> USE DEF Kept
<1>1. /\ phase = "exporting" /\ next # 0 /\ next' = 0
      /\ next > totalPages \/ Cancelled
      /\ UNCHANGED <<site, parts, phase, total, totalPages, failed, resume, pc, page, posts,
                     interrupted, warned, runs, faults, changes, probed>>
  BY DEF ProducerEnds, bounds, changed, workerVars
<1>2. totalPages \in Nat /\ next \in 2..(totalPages + 1)
  BY <1>1, SomePages DEF Shape
<1>3. \A p : PostsOn(p)' = PostsOn(p)
  BY <1>1 DEF PostsOn
<1>4. TypeOK'
  <2>1. next' \in 0..(PageCount(MaxPosts) + 1)
    BY <1>1, PagingAssumption, PageCountDoes
  <2> QED
    BY <1>1, <2>1 DEF TypeOK
<1>5. Shape'
  BY <1>1 DEF Shape, InRun
<1>6. Current'
  BY <1>1, <1>3 DEF Current, InRun, TypeOK
<1>7. Progress'
  <2>1. \A p : Done(p)' = Done(p) /\ Held(p)' = Held(p)
    BY <1>1, <1>3 DEF Done, Held
  <2>2. ~Cancelled => HandedOut' = HandedOut
    BY <1>1, <1>2 DEF HandedOut
  <2> QED
    BY <1>1, <2>1, <2>2 DEF Progress, Cancelled, Succeeded
<1>8. Genuine'
  BY <1>1, <1>3 DEF Genuine
<1>9. Honest' /\ Manned'
  BY <1>1 DEF Honest, Manned
<1> QED
  BY <1>4, <1>5, <1>6, <1>7, <1>8, <1>9

\* A worker goes on with the page it has, or drops it because it is done or the
\* run is cancelled; no part changes.
LEMMA WorkerMoves ==
  ASSUME Kept, NEW w \in Workers, NEW where \in {"receive", "fetch", "write", "exit"},
         pc' = [pc EXCEPT ![w] = where],
         where \in {"fetch", "write"} => pc[w] \in {"check", "fetch"},
         \/ pc[w] = "receive" \/ where \in {"fetch", "write"}
         \/ Cancelled' \/ Done(page[w]),
         where = "exit" => Cancelled' \/ next = 0,
         phase = "exporting",
         posts' = IF where = "write" THEN [posts EXCEPT ![w] = PostsOn(page[w])] ELSE posts,
         failed' \in {failed, TRUE}, faults' \in 0..MaxFaults,
         UNCHANGED <<site, parts, phase, total, totalPages, next, resume, page,
                     interrupted, warned, runs, changes, probed>>
  PROVE  Kept'
<1> USE DEF Kept
<1>1. /\ pc'[w] = where /\ \A v \in Workers : v # w => pc'[v] = pc[v]
      /\ pc' \in [Workers -> {"receive", "check", "fetch", "write", "exit"}]
  BY DEF TypeOK
<1>2. \A p : PostsOn(p)' = PostsOn(p)
  BY DEF PostsOn
<1>3. /\ posts' \in [Workers -> SUBSET Posts]
      /\ \A v \in Workers : posts'[v] = IF v = w /\ where = "write" THEN PostsOn(page[w])
                                                                    ELSE posts[v]
  <2>1. posts \in [Workers -> SUBSET Posts] /\ PostsOn(page[w]) \in SUBSET Posts
    BY PostsOnType DEF TypeOK
  <2> QED
    BY <2>1
<1>4. TypeOK'
  BY <1>1, <1>3 DEF TypeOK
<1>5. Shape'
  BY <1>1 DEF Shape, InRun
<1>6. Current'
  BY <1>1, <1>2, <1>3 DEF Current, InRun
<1>7. Progress'
  <2>1. \A p : Done(p)' = Done(p)
    BY <1>2 DEF Done
  <2>2. ~Cancelled' => ~Cancelled
    BY DEF Cancelled
  <2>3. \A p : Held(p) => Held(p)' \/ Done(p) \/ Cancelled'
    BY <1>1 DEF Held
  <2>4. HandedOut' = HandedOut
    BY DEF HandedOut
  <2> QED
    BY <2>1, <2>2, <2>3, <2>4 DEF Progress, Succeeded
<1>8. Genuine'
  BY <1>2 DEF Genuine
<1>9. Honest' /\ Manned'
  BY <1>1 DEF Honest, Manned, Cancelled
<1> QED
  BY <1>4, <1>5, <1>6, <1>7, <1>8, <1>9

\* A cancelled worker drops its page, a resuming one skips a part that is there.
LEMMA CheckStep ==
  ASSUME Kept, NEW w \in Workers, Check(w)
  PROVE  Kept'
<1>1. /\ pc[w] = "check" /\ phase = "exporting" /\ faults \in 0..MaxFaults
      /\ UNCHANGED <<site, parts, phase, total, totalPages, next, failed, resume, page, posts,
                     interrupted, warned, runs, faults, changes, probed>>
  BY DEF Check, Kept, Shape, TypeOK, channel, bounds, changed
<1>2. CASE Cancelled
  <2>1. pc' = [pc EXCEPT ![w] = "exit"] /\ Cancelled'
    BY <1>1, <1>2 DEF Check, Exits, Cancelled
  <2> QED
    BY <1>1, <2>1, WorkerMoves
<1>3. CASE ~Cancelled /\ resume /\ page[w] # totalPages /\ page[w] \in DOMAIN parts
  <2>1. pc' = [pc EXCEPT ![w] = "receive"] /\ Done(page[w])
    BY <1>3 DEF Check, Done
  <2> QED
    BY <1>1, <2>1, WorkerMoves
<1>4. CASE ~Cancelled /\ ~(resume /\ page[w] # totalPages /\ page[w] \in DOMAIN parts)
  <2>1. pc' = [pc EXCEPT ![w] = "fetch"]
    BY <1>4 DEF Check
  <2> QED
    BY <1>1, <2>1, WorkerMoves
<1> QED
  BY <1>2, <1>3, <1>4

LEMMA MovingStep ==
  ASSUME Kept, NEW w \in Workers, WorkerEnds(w) \/ FetchPage(w) \/ PageFails(w)
  PROVE  Kept'
<1>1. faults \in 0..MaxFaults /\ MaxFaults \in Nat
  BY BoundsAssumption DEF Kept, TypeOK
<1>2. CASE WorkerEnds(w)
  <2>1. /\ pc[w] = "receive" /\ next = 0 /\ pc' = [pc EXCEPT ![w] = "exit"] /\ phase = "exporting"
        /\ UNCHANGED <<site, parts, phase, total, totalPages, next, failed, resume, page, posts,
                       interrupted, warned, runs, faults, changes, probed>>
    BY <1>2 DEF WorkerEnds, Exits, channel, bounds, changed
  <2> QED
    BY <1>1, <2>1, WorkerMoves
<1>3. CASE FetchPage(w)
  <2>1. /\ pc[w] = "fetch" /\ pc' = [pc EXCEPT ![w] = "write"] /\ phase = "exporting"
        /\ posts' = [posts EXCEPT ![w] = PostsOn(page[w])]
        /\ UNCHANGED <<site, parts, phase, total, totalPages, next, failed, resume, page,
                       interrupted, warned, runs, faults, changes, probed>>
    BY <1>3 DEF FetchPage, Kept, Shape, channel, bounds, changed
  <2> QED
    BY <1>1, <2>1, WorkerMoves
<1>4. CASE PageFails(w)
  <2>1. /\ pc' = [pc EXCEPT ![w] = "exit"] /\ failed' = TRUE /\ Cancelled' /\ phase = "exporting"
        /\ faults' \in 0..MaxFaults
        /\ UNCHANGED <<site, parts, phase, total, totalPages, next, resume, page, posts,
                       interrupted, warned, runs, changes, probed>>
    BY <1>1, <1>4 DEF PageFails, ReportError, Exits, Cancelled, Fault, Kept, Shape, changed
  <2> QED
    BY <1>1, <2>1, WorkerMoves
<1> QED
  BY <1>2, <1>3, <1>4

\* A page becomes a part; another worker's page is another page or holds the same.
LEMMA WritePageStep ==
  ASSUME Kept, NEW w \in Workers, WritePage(w)
  PROVE  Kept'
<1> USE DEF Kept
<1>1. /\ phase = "exporting" /\ pc[w] = "write" /\ WritePart(page[w], posts[w])
      /\ pc' = [pc EXCEPT ![w] = "receive"]
      /\ UNCHANGED <<site, phase, total, totalPages, next, failed, resume, page, posts,
                     interrupted, warned, runs, faults, changes, probed>>
  BY DEF WritePage, Shape, channel, bounds, changed
<1>2. /\ pc'[w] = "receive" /\ \A v \in Workers : v # w => pc'[v] = pc[v]
      /\ pc' \in [Workers -> {"receive", "check", "fetch", "write", "exit"}]
  BY <1>1 DEF TypeOK
<1>3. \A p : PostsOn(p)' = PostsOn(p)
  BY <1>1 DEF PostsOn
<1>4. /\ DOMAIN parts' = DOMAIN parts \cup {page[w]} /\ parts'[page[w]] = posts[w]
      /\ \A p \in DOMAIN parts : p # page[w] => parts'[p] = parts[p]
  BY <1>1, WritePartDoes
<1>5. /\ page[w] \in Pages /\ posts[w] \subseteq Posts
      /\ probed = changes => posts[w] = PostsOn(page[w])
  BY <1>1 DEF Shape, Current, InRun, TypeOK
<1>6. TypeOK'
  <2>1. DOMAIN parts' \subseteq Pages /\ \A p \in DOMAIN parts' : parts'[p] \subseteq Posts
    BY <1>4, <1>5 DEF TypeOK
  <2> QED
    BY <1>1, <1>2, <2>1 DEF TypeOK
<1>7. Shape'
  BY <1>1, <1>2 DEF Shape, InRun
<1>8. Current'
  BY <1>1, <1>2, <1>3 DEF Current, InRun
<1>9. Progress'
  <2>1. \A p : Done(p) => Done(p)'
    BY <1>1, <1>3, <1>4, <1>5 DEF Done
  <2>2. Done(page[w])'
    BY <1>1, <1>3, <1>4, <1>5 DEF Done
  <2>3. \A p : Held(p) => Held(p)' \/ p = page[w]
    BY <1>1, <1>2 DEF Held
  <2>4. \A p : p = page[w] => Done(p)'
    BY <1>1, <2>2
  <2>5. HandedOut' = HandedOut
    BY <1>1 DEF HandedOut
  <2> QED
    BY <1>1, <2>1, <2>3, <2>4, <2>5 DEF Progress, Succeeded, Cancelled
<1>10. Genuine'
  BY <1>1, <1>3, <1>4, <1>5 DEF Genuine, Current, TypeOK
<1>11. Honest' /\ Manned'
  BY <1>1, <1>2 DEF Honest, Manned, Cancelled
<1> QED
  BY <1>6, <1>7, <1>8, <1>9, <1>10, <1>11

-----------------------------------------------------------------------------
(* The end of a run *)

\* Nobody has a page any more, and all are handed out.
LEMMA RunEndsStep ==
  ASSUME Kept, RunEnds
  PROVE  Kept'
<1> USE DEF Kept
<1>1. /\ phase = "exporting" /\ \A w \in Workers : pc[w] = "exit"
      /\ phase' = IF failed THEN "error" ELSE "exported"
      /\ UNCHANGED <<site, parts, total, totalPages, next, failed, resume, pc, page, posts,
                     interrupted, warned, runs, faults, changes, probed>>
  BY DEF RunEnds, channel, workerVars, bounds, changed
<1>2. \A p : PostsOn(p)' = PostsOn(p)
  BY <1>1 DEF PostsOn
<1>3. TypeOK'
  BY <1>1 DEF TypeOK
<1>4. Shape'
  BY <1>1 DEF Shape, InRun
<1>5. Current'
  BY <1>1, <1>2 DEF Current, InRun
<1>6. Progress'
  <2> SUFFICES ASSUME ~failed, ~interrupted
               PROVE  \A p \in 1..totalPages : Done(p)'
    BY <1>1 DEF Progress, Succeeded
  <2>1. HandedOut = 1..totalPages
    BY <1>1, WorkersAssumption DEF Manned, Cancelled, HandedOut
  <2>2. \A p : ~Held(p) /\ Done(p)' = Done(p)
    BY <1>1, <1>2 DEF Held, Done
  <2> QED
    BY <1>1, <2>1, <2>2 DEF Progress, Cancelled
<1>7. Genuine'
  BY <1>1, <1>2 DEF Genuine
<1>8. Honest' /\ Manned'
  BY <1>1 DEF Honest, Manned
<1> QED
  BY <1>3, <1>4, <1>5, <1>6, <1>7, <1>8

LEMMA FinishStep ==
  ASSUME Kept, Finish
  PROVE  Kept'
<1> USE DEF Kept
<1>1. /\ phase = "exported" /\ phase' = "finished"
      /\ warned' = (total > 0 /\ Cardinality(Exported) < total)
      /\ UNCHANGED <<site, parts, total, totalPages, next, failed, resume, pc, page, posts,
                     interrupted, runs, faults, changes, probed>>
  BY DEF Finish, channel, workerVars, bounds, changed
<1>2. \A p : PostsOn(p)' = PostsOn(p)
  BY <1>1 DEF PostsOn
<1>3. TypeOK'
  BY <1>1 DEF TypeOK
<1>4. Shape'
  BY <1>1 DEF Shape, InRun
<1>5. Current'
  BY <1>1, <1>2 DEF Current, InRun
<1>6. Progress'
  <2>1. \A p : Done(p)' = Done(p)
    BY <1>1, <1>2 DEF Done
  <2> QED
    BY <1>1, <2>1 DEF Progress, Succeeded
<1>7. Genuine'
  BY <1>1, <1>2 DEF Genuine
<1>8. Manned'
  BY <1>1 DEF Manned
<1>9. Honest'
  <2>1. Exported \in SUBSET Posts
    BY DEF TypeOK, Exported
  <2>2. Cardinality(Exported) \in Nat /\ total \in Nat
    BY <2>1, SiteFinite DEF TypeOK
  <2>3. Exported' = Exported
    BY <1>1 DEF Exported
  <2>4. ~warned' => ~(total > 0 /\ Cardinality(Exported) < total)
    BY <1>1
  <2>5. ~warned' => total = 0 \/ Cardinality(Exported) >= total
    BY <2>2, <2>4
  <2>6. total' = total
    BY <1>1
  <2> QED
    BY <2>3, <2>5, <2>6 DEF Honest
<1> QED
  BY <1>3, <1>4, <1>5, <1>6, <1>7, <1>8, <1>9

LEMMA StutterStep ==
  ASSUME Kept, UNCHANGED vars
  PROVE  Kept'
<1> USE DEF Kept, vars, channel, workerVars, bounds, changed
<1>1. \A p : PostsOn(p)' = PostsOn(p)
  BY DEF PostsOn
<1>2. TypeOK' /\ Shape' /\ Manned'
  BY DEF TypeOK, Shape, Manned, InRun, Cancelled
<1>3. Current' /\ Genuine'
  BY <1>1 DEF Current, Genuine, InRun
<1>4. Progress'
  <2>1. \A p : Done(p)' = Done(p) /\ Held(p)' = Held(p)
    BY <1>1 DEF Done, Held
  <2> QED
    BY <2>1 DEF Progress, Succeeded, Cancelled, HandedOut
<1>5. Honest'
  BY DEF Honest, Exported
<1> QED
  BY <1>2, <1>3, <1>4, <1>5

LEMMA AlwaysKept == Spec => []Kept
<1>1. Init => Kept
  BY Start
<1>2. ASSUME Kept, [Next]_vars PROVE Kept'
  <2>1. ASSUME NEW w \in Workers, WorkerStep(w) PROVE Kept'
    BY <1>2, <2>1, HandStep, MovingStep, CheckStep, WritePageStep DEF WorkerStep
  <2> QED
    BY <1>2, <2>1, SiteChangesStep, StartRunStep, OperatorStep, ProducerEndsStep, RunEndsStep,
       FinishStep, StutterStep DEF Next
<1> QED
  BY <1>1, <1>2, PTL DEF Spec

-----------------------------------------------------------------------------
(* The theorems *)

\* Every state of the export is well-typed, for all sites, workers and bounds.
THEOREM TypeCorrect == Spec => []TypeOK
<1>1. Kept => TypeOK
  BY DEF Kept
<1> QED
  BY <1>1, AlwaysKept, PTL

\* Whatever fails between producer, workers and errCh: a run that reports
\* success and was not interrupted left a part for every page.
THEOREM NoPageLost == Spec => []SuccessHasAllPages
<1>1. Kept => SuccessHasAllPages
  BY DEF Kept, Progress, Done, SuccessHasAllPages
<1> QED
  BY <1>1, AlwaysKept, PTL

\* When all pages are done and hold what they should, the site is exported.
LEMMA DoneIsExported ==
  ASSUME Kept, Succeeded, ~interrupted, probed = changes,
         \A p \in 1..totalPages : p \in DOMAIN parts /\ parts[p] = PostsOn(p)
  PROVE  site \subseteq Exported
<1>1. totalPages = PageCount(Cardinality(site))
  BY DEF Kept, Current, InRun, Succeeded
<1>2. \A p \in 1..totalPages : PostsOn(p) \subseteq Exported
  BY DEF Exported
<1>3. site \subseteq Posts
  BY DEF Kept, TypeOK
<1> QED
  BY <1>1, <1>2, <1>3, PagesHoldSite

\* A successful full run has the whole site as it was meanwhile, whatever parts
\* older runs have left.
THEOREM FullRunsComplete == Spec => []FullRunExportsAll
<1>1. ASSUME Kept PROVE FullRunExportsAll
  <2> SUFFICES ASSUME Succeeded, ~interrupted, ~resume, probed = changes
               PROVE  site \subseteq Exported
    BY DEF FullRunExportsAll
  <2>1. \A p \in 1..totalPages : p \in DOMAIN parts /\ parts[p] = PostsOn(p)
    BY <1>1 DEF Kept, Progress, Done
  <2> QED
    BY <1>1, <2>1, DoneIsExported
<1> QED
  BY <1>1, AlwaysKept, PTL

\* As long as the site has never changed, success means that all of it is
\* exported, however many runs were killed or failed before.
THEOREM RerunsComplete == Spec => []ResumeCompletes
<1>1. ASSUME Kept PROVE ResumeCompletes
  <2> SUFFICES ASSUME Succeeded, ~interrupted, changes = 0
               PROVE  site \subseteq Exported
    BY DEF ResumeCompletes
  <2>1. probed = changes
    BY <1>1 DEF Kept, Current, TypeOK
  <2>2. \A p \in 1..totalPages : p \in DOMAIN parts /\ parts[p] = PostsOn(p)
    BY <1>1 DEF Kept, Progress, Done, Genuine
  <2> QED
    BY <1>1, <2>1, <2>2, DoneIsExported
<1> QED
  BY <1>1, AlwaysKept, PTL

\* A run that finishes and does not warn has exported all of an unchanged site,
\* even if it was interrupted.
THEOREM SilenceIsHonest == Spec => []UnwarnedIsComplete
<1>1. ASSUME Kept PROVE UnwarnedIsComplete
  <2> SUFFICES ASSUME phase = "finished", ~warned, changes = 0
               PROVE  site \subseteq Exported
    BY DEF UnwarnedIsComplete
  <2>1. probed = changes /\ total = Cardinality(site)
    BY <1>1 DEF Kept, Current, TypeOK, InRun
  <2>2. site \subseteq Posts /\ Exported \subseteq site
    BY <1>1, PostsOnType DEF Kept, TypeOK, Genuine, Exported
  <2>3. IsFiniteSet(site) /\ Cardinality(site) \in Nat
    BY <2>2, SiteFinite
  <2>4. CASE total = 0
    BY <2>1, <2>3, <2>4, FS_EmptySet
  <2>5. CASE Cardinality(Exported) >= total
    <3>1. Cardinality(Exported) <= Cardinality(site) /\ Cardinality(Exported) \in Nat
      BY <2>2, <2>3, FS_Subset, FS_CardinalityType
    <3> QED
      BY <2>1, <2>2, <2>3, <2>5, <3>1, FS_Subset
  <2> QED
    BY <1>1, <2>4, <2>5 DEF Kept, Honest
<1> QED
  BY <1>1, AlwaysKept, PTL
=============================================================================
