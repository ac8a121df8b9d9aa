------------------------------ MODULE ZizMedia ------------------------------
(* ziz-migrate's media download: a producer, workers that store files under  *)
(* the hash of their content, a collector that appends one line per URL to   *)
(* the manifest in batches, and reruns that resume from the manifest.        *)
EXTENDS Naturals, Sequences, SequencesExt, FiniteSets

CONSTANTS Exports,   \* the sets of media URLs that a run may find in the articles
          File,      \* the path of the bytes each URL serves (hash, extension)
          Workers,   \* the download's worker goroutines, at least one
          Capacity,  \* of the results channel (the code's 2 * Workers)
          Batch,     \* lines buffered before a flush (the code's 100)
          MaxFaults, \* bound: kills, Ctrl-Cs and failed writes of the manifest
          None

URLs == UNION Exports

ASSUME FileAssumption == URLs \subseteq DOMAIN File
ASSUME WorkersAssumption == Workers # {}
ASSUME CapacityAssumption == Capacity \in Nat \ {0} /\ Batch \in Nat \ {0}
ASSUME BoundsAssumption == MaxFaults \in Nat
ASSUME NoneAssumption == "junk" \notin URLs /\ None \notin URLs \cup {"junk"}

VARIABLES
  files,       \* paths that exist under media/files
  mapped,      \* URLs that the complete lines of the manifest map to a file
  tail,        \* its last line lacks its newline: a URL when it is otherwise
               \* whole and maps it, "junk" when not; else None
  phase,       \* "idle", "downloading", "ok" or "error"
  seen,        \* seenManifest, or {} without -resume
  found,       \* urlSet: the media URLs of the articles exported so far
  todo,        \* URLs the producer has not handed out
  open,        \* `jobs' is not closed
  pc,          \* each worker: "receive", "check", "download", "rename", "send", "exit"
  url,         \* the URL a worker has received
  outcome,     \* the status of its record
  results,     \* the results channel
  buffer,      \* lines encoded and not flushed
  interrupted, \* the command's context is done
  faults,
  gaveUp,      \* history: URLs whose download failed in this run
  tornStart,   \* history: the manifest was torn when this run began
  joint        \* history: the URLs of the cut last line this run found and of the
               \* line it wrote right behind it

manifest == <<mapped, tail>>
loaded == <<seen, found>>
producer == <<todo, open>>
workerVars == <<pc, url, outcome>>
collector == <<results, buffer>>
history == <<gaveUp, tornStart, joint>>
vars == <<files, manifest, phase, loaded, producer, workerVars, collector,
          interrupted, faults, history>>

Statuses == {"downloaded", "skipped", "failed"}
Records == URLs \X Statuses

TypeOK ==
  /\ files \subseteq {File[u] : u \in URLs}
  /\ mapped \subseteq URLs /\ seen \subseteq URLs /\ found \subseteq URLs
  /\ todo \subseteq URLs /\ gaveUp \subseteq URLs /\ joint \subseteq URLs
  /\ phase \in {"idle", "downloading", "ok", "error"}
  /\ pc \in [Workers -> {"receive", "check", "download", "rename", "send", "exit"}]
  /\ url \in [Workers -> URLs \cup {None}]
  /\ outcome \in [Workers -> Statuses \cup {None}]
  /\ results \in BoundedSeq(Records, Capacity)
  /\ buffer \in BoundedSeq(Records, Batch)
  /\ tail \in URLs \cup {"junk", None}
  /\ {open, interrupted, tornStart} \subseteq BOOLEAN
  /\ faults \in 0..MaxFaults

Init ==
  /\ files = {} /\ mapped = {} /\ tail = None
  /\ phase = "idle" /\ seen = {} /\ found = {} /\ todo = {} /\ open = FALSE
  /\ pc = [w \in Workers |-> "exit"]
  /\ url = [w \in Workers |-> None]
  /\ outcome = [w \in Workers |-> None]
  /\ results = <<>> /\ buffer = <<>>
  /\ interrupted = FALSE
  /\ faults = 0
  /\ gaveUp = {} /\ tornStart = FALSE /\ joint = {}

Fault == faults < MaxFaults /\ faults' = faults + 1

-----------------------------------------------------------------------------
(* The command *)

\* loadMediaManifest: the last line counts without its newline.
Mapped == mapped \cup ({tail} \cap URLs)

\* The manifest is loaded and the articles are read: since the last run an
\* export may have added some or replaced them.  The goroutines are started.
StartRun ==
  /\ phase # "downloading"
  /\ phase' = "downloading"
  /\ seen' \in {Mapped, {}}
  /\ found' \in Exports
  /\ todo' = found' /\ open' = TRUE
  /\ pc' = [w \in Workers |-> "receive"]
  /\ interrupted' = FALSE
  /\ gaveUp' = {} /\ tornStart' = (tail # None) /\ joint' = {}
  /\ UNCHANGED <<files, manifest, url, outcome, collector, faults>>

Interrupt ==
  /\ phase = "downloading" /\ ~interrupted /\ Fault
  /\ interrupted' = TRUE
  /\ UNCHANGED <<files, manifest, phase, loaded, producer, workerVars, collector, history>>

\* The process is gone, and with it what is in memory.
Stop(how) ==
  /\ phase' = how
  /\ todo' = {} /\ open' = FALSE
  /\ pc' = [w \in Workers |-> "exit"]
  /\ url' = [w \in Workers |-> None]
  /\ outcome' = [w \in Workers |-> None]
  /\ results' = <<>> /\ buffer' = <<>>

Kill ==
  /\ phase = "downloading" /\ Fault
  /\ Stop("idle")
  /\ UNCHANGED <<files, manifest, loaded, interrupted, history>>

-----------------------------------------------------------------------------
(* Producer and workers *)

\* The worker has no URL any more.
Leave(w, where) == /\ pc' = [pc EXCEPT ![w] = where]
                   /\ url' = [url EXCEPT ![w] = None]
                   /\ outcome' = [outcome EXCEPT ![w] = None]

\* The unbuffered channel hands some URL to a waiting worker; a map is
\* iterated in no particular order.
Hand(w, u) ==
  /\ pc[w] = "receive" /\ u \in todo
  /\ todo' = todo \ {u}
  /\ url' = [url EXCEPT ![w] = u]
  /\ pc' = [pc EXCEPT ![w] = "check"]
  /\ UNCHANGED <<files, manifest, phase, loaded, open, outcome, collector,
                 interrupted, faults, history>>

\* Mutant: a producer that sees the context done does not close(jobs).
ProducerLeavesOpen ==
  /\ open /\ todo = {} /\ ~interrupted
  /\ open' = FALSE /\ UNCHANGED todo
  /\ UNCHANGED <<files, manifest, phase, loaded, workerVars, collector,
                 interrupted, faults, history>>

\* All URLs are handed out, or the context is done: close(jobs).
ProducerEnds ==
  /\ open /\ (todo = {} \/ interrupted)
  /\ open' = FALSE /\ todo' = {}
  /\ UNCHANGED <<files, manifest, phase, loaded, workerVars, collector,
                 interrupted, faults, history>>

WorkerEnds(w) ==
  /\ pc[w] = "receive" /\ ~open
  /\ pc' = [pc EXCEPT ![w] = "exit"]
  /\ UNCHANGED <<files, manifest, phase, loaded, producer, url, outcome, collector,
                 interrupted, faults, history>>

\* A cancelled worker drops its URL; a resuming one skips what the manifest maps.
Check(w) ==
  /\ pc[w] = "check"
  /\ IF interrupted
       THEN Leave(w, "exit")
       ELSE IF url[w] \in seen
         THEN Leave(w, "receive")
         ELSE pc' = [pc EXCEPT ![w] = "download"] /\ UNCHANGED <<url, outcome>>
  /\ UNCHANGED <<files, manifest, phase, loaded, producer, collector,
                 interrupted, faults, history>>

\* downloadOneMedia returns a record.
Return(w, status) ==
  /\ outcome' = [outcome EXCEPT ![w] = status]
  /\ pc' = [pc EXCEPT ![w] = "send"]

\* The request, the limits, a write or the rename fail; the context is done.
DownloadFails(w) ==
  /\ pc[w] \in {"download", "rename"}
  /\ Return(w, "failed")
  /\ gaveUp' = gaveUp \cup {url[w]}
  /\ UNCHANGED <<files, manifest, phase, loaded, producer, url, collector,
                 interrupted, faults, tornStart, joint>>

\* The bytes are in a synced temporary file.  Somebody may have stored the same.
Stat(w) ==
  /\ pc[w] = "download"
  /\ IF File[url[w]] \in files
       THEN Return(w, "skipped")
       ELSE pc' = [pc EXCEPT ![w] = "rename"] /\ UNCHANGED outcome
  /\ UNCHANGED <<files, manifest, phase, loaded, producer, url, collector,
                 interrupted, faults, history>>

\* Mutant: the error of os.Rename is ignored.
RenameUnchecked(w) ==
  /\ pc[w] = "rename"
  /\ files' \in {files, files \cup {File[url[w]]}}
  /\ Return(w, "downloaded")
  /\ UNCHANGED <<manifest, phase, loaded, producer, url, collector,
                 interrupted, faults, history>>

\* Since Stat another worker may have put its file there; it is replaced.
Rename(w) ==
  /\ pc[w] = "rename"
  /\ files' = files \cup {File[url[w]]}
  /\ Return(w, "downloaded")
  /\ UNCHANGED <<manifest, phase, loaded, producer, url, collector,
                 interrupted, faults, history>>

\* results <- record, when there is room; or the context is done.
Send(w) ==
  /\ pc[w] = "send"
  /\ \/ /\ Len(results) < Capacity
        /\ results' = Append(results, <<url[w], outcome[w]>>)
        /\ Leave(w, "receive")
     \/ interrupted /\ Leave(w, "exit") /\ UNCHANGED results
  /\ UNCHANGED <<files, manifest, phase, loaded, producer, buffer,
                 interrupted, faults, history>>

-----------------------------------------------------------------------------
(* The collector *)

\* Lines are appended to the manifest.  The first one continues a last line
\* without a newline, and loadMediaManifest skips what it cannot decode: both
\* are lost.
Write(lines) ==
  /\ mapped' = mapped \cup {lines[i][1] : i \in {i \in DOMAIN lines :
                              lines[i][2] # "failed" /\ (i = 1 => tail = None)}}
  /\ joint' = IF tail = None \/ lines = <<>> THEN joint
                                            ELSE ({tail} \cap URLs) \cup {lines[1][1]}

\* Mutant: `pending > 100'.
CollectOneMore ==
  /\ results # <<>> /\ Len(buffer) <= Batch
  /\ buffer' = Append(buffer, Head(results))
  /\ results' = Tail(results)
  /\ UNCHANGED <<files, manifest, phase, loaded, producer, workerVars,
                 interrupted, faults, history>>

Collect ==
  /\ results # <<>> /\ Len(buffer) < Batch
  /\ buffer' = Append(buffer, Head(results))
  /\ results' = Tail(results)
  /\ UNCHANGED <<files, manifest, phase, loaded, producer, workerVars,
                 interrupted, faults, history>>

Flush ==
  /\ Len(buffer) = Batch
  /\ Write(buffer) /\ tail' = None
  /\ buffer' = <<>>
  /\ UNCHANGED <<files, phase, loaded, producer, workerVars, results,
                 interrupted, faults, gaveUp, tornStart>>

\* close(results) after wg.Wait, and nothing is left in it.
ResultsDone == phase = "downloading" /\ (\A w \in Workers : pc[w] = "exit") /\ results = <<>>

\* Mutant: no Flush after the loop.
RunEndsUnflushed ==
  /\ ResultsDone /\ Len(buffer) < Batch
  /\ buffer' = <<>>
  /\ phase' = "ok"
  /\ UNCHANGED <<files, manifest, loaded, producer, workerVars, results,
                 interrupted, faults, history>>

\* The last Flush and Sync.
RunEnds ==
  /\ ResultsDone /\ Len(buffer) < Batch
  /\ Write(buffer) /\ tail' = IF buffer = <<>> THEN tail ELSE None
  /\ buffer' = <<>>
  /\ phase' = "ok"
  /\ UNCHANGED <<files, loaded, producer, workerVars, results,
                 interrupted, faults, gaveUp, tornStart>>

\* Mutant: the error of the last Flush is not returned.
FlushCutUnchecked ==
  /\ ResultsDone /\ buffer # <<>> /\ Fault
  /\ mapped' = mapped /\ tail' = "junk"
  /\ Stop("ok")
  /\ UNCHANGED <<files, loaded, interrupted, history>>

\* A flush writes only a part of the buffer: the disk is full, and the command
\* fails, or it is killed meanwhile.
FlushCut ==
  /\ Len(buffer) = Batch \/ (ResultsDone /\ buffer # <<>>)
  /\ Fault
  /\ \E n \in 0..(Len(buffer) - 1) :
       LET before == IF n = 0 THEN tail ELSE None
           cut == buffer[n + 1]
       IN  /\ Write(SubSeq(buffer, 1, n))
           /\ \/ tail' = before
              \/ tail' = "junk"
              \/ before = None /\ cut[2] # "failed" /\ tail' = cut[1]
  /\ Stop("error")
  /\ UNCHANGED <<files, loaded, interrupted, gaveUp, tornStart>>

-----------------------------------------------------------------------------
WorkerStep(w) == \/ \E u \in URLs : Hand(w, u)
                 \/ WorkerEnds(w) \/ Check(w) \/ DownloadFails(w)
                 \/ Stat(w) \/ Rename(w) \/ Send(w)

CollectorStep == Collect \/ Flush \/ RunEnds

Next == \/ StartRun \/ Interrupt \/ Kill \/ FlushCut
        \/ \E w \in Workers : WorkerStep(w)
        \/ ProducerEnds \/ CollectorStep

Spec == Init /\ [][Next]_vars

\* Goroutines run, and requests end.
Fairness == /\ \A w \in Workers : WF_vars(WorkerStep(w))
            /\ WF_vars(ProducerEnds) /\ WF_vars(CollectorStep)

LiveSpec == Spec /\ Fairness

-----------------------------------------------------------------------------
(* Properties *)

\* What the manifest maps is there: a file is in place before its line is, and
\* neither a kill nor a batch that is lost or cut puts a line before its file.
MappedFilesExist == \A u \in Mapped : File[u] \in files

\* docs/ziz-migration.md:72: "media/manifest.jsonl maps every original URL to
\* its local path".
ManifestMapsAll == phase = "ok" /\ ~interrupted => found \subseteq Mapped \cup gaveUp

\* That is so when the run did not find a cut line: no record is lost between
\* workers, channel, collector and batches, and resuming loses none either, be
\* it after a run that wrote behind a cut line and so lost some.
WholeManifestMapsAll == ~tornStart => ManifestMapsAll

\* A run that finds a cut line, of the run before or of one much earlier, loses
\* no URL but the one of that line and the one of the line it writes behind it;
\* as long as runs have nothing to append, none is lost.
OnlyJointIsLost ==
  phase = "ok" /\ ~interrupted => found \ (Mapped \cup gaveUp) \subseteq joint

\* A full channel, a cancelled producer and workers that leave early never
\* wait for each other for ever: DownloadMedia returns.
EveryRunEnds == phase = "downloading" ~> phase # "downloading"
=============================================================================
