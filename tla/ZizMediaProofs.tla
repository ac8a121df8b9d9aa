--------------------------- MODULE ZizMediaProofs ---------------------------
(* Proofs about ZizMedia: for every set of URLs, number of workers, channel  *)
(* and batch size and sequence of kills and cut writes, the manifest   *)
(* names only files that are there and lacks no URL but at the end of a cut line.*)
EXTENDS ZizMedia, SequenceTheorems, TLAPS

USE DEF loaded

-----------------------------------------------------------------------------
(* The invariant *)

Busy == {"check", "download", "rename", "send"}

\* Where the goroutines are, and what they hold.
Shape ==
  /\ phase # "downloading" => /\ \A w \in Workers : pc[w] = "exit"
                              /\ results = <<>> /\ buffer = <<>>
  /\ \A w \in Workers : /\ pc[w] \in Busy => url[w] \in URLs
                        /\ pc[w] = "send" => outcome[w] \in Statuses
  /\ phase = "downloading" /\ ~interrupted =>
       /\ ~open => todo = {}
       /\ \A w \in Workers : pc[w] = "exit" => ~open

\* A record is what became of the download.
Sound(u, status) == IF status = "failed" THEN u \in gaveUp ELSE File[u] \in files

\* Files are in place before their records.
Backed ==
  /\ \A u \in Mapped : File[u] \in files
  /\ \A w \in Workers : pc[w] = "send" => Sound(url[w], outcome[w])
  /\ \A i \in DOMAIN results : Sound(results[i][1], results[i][2])
  /\ \A i \in DOMAIN buffer : Sound(buffer[i][1], buffer[i][2])

\* The record of u is on its way to the manifest.
Reported(u) == \/ \E w \in Workers : pc[w] = "send" /\ url[w] = u
               \/ \E i \in DOMAIN results : results[i][1] = u
               \/ \E i \in DOMAIN buffer : buffer[i][1] = u

\* A worker is at work on u, or its record is on the way.
InTransit(u) == (\E w \in Workers : pc[w] \in Busy \ {"send"} /\ url[w] = u) \/ Reported(u)

\* All URLs but those of `lost' are still to come, on the way or dealt with.
Safe(lost) == /\ \A u \in found \ lost : u \in todo \/ InTransit(u) \/ u \in Mapped \cup gaveUp
              /\ seen \ lost \subseteq Mapped

\* What is at the joint is lost, once the first lines are written behind it.
Going ==
  phase = "downloading" /\ ~interrupted =>
    /\ Safe(joint)
    /\ tail # None \/ ~tornStart => joint = {}
    /\ tail # None => tornStart

Settled ==
  phase = "ok" /\ ~interrupted =>
    /\ found \subseteq Mapped \cup gaveUp \cup joint
    /\ ~tornStart => joint = {}

Kept == TypeOK /\ Shape /\ Backed /\ Going /\ Settled

-----------------------------------------------------------------------------
(* Sequences of records *)

LEMMA Bounded ==
  ASSUME NEW S, NEW n \in Nat, NEW s
  PROVE  s \in BoundedSeq(S, n) <=> s \in Seq(S) /\ Len(s) <= n
<1>1. ASSUME s \in BoundedSeq(S, n) PROVE s \in Seq(S) /\ Len(s) <= n
  <2>1. PICK m \in 0..n : s \in [1..m -> S]
    BY <1>1 DEF BoundedSeq, SeqOf
  <2>2. m \in Nat /\ s \in Seq(S) /\ Len(s) = m
    BY <2>1, SeqDef, LenProperties
  <2> QED
    BY <2>1, <2>2
<1>2. ASSUME s \in Seq(S), Len(s) <= n PROVE s \in BoundedSeq(S, n)
  <2>1. Len(s) \in 0..n /\ s \in [1..Len(s) -> S]
    BY <1>2, LenProperties
  <2> QED
    BY <2>1 DEF BoundedSeq, SeqOf
<1> QED
  BY <1>1, <1>2

LEMMA AppendDoes ==
  ASSUME NEW S, NEW s \in Seq(S), NEW x \in S, NEW t, t = Append(s, x)
  PROVE  /\ t \in Seq(S) /\ Len(t) = Len(s) + 1
         /\ \A i \in DOMAIN t : t[i] = x \/ \E k \in DOMAIN s : t[i] = s[k]
         /\ \A k \in DOMAIN s : k \in DOMAIN t /\ t[k] = s[k]
         /\ \E i \in DOMAIN t : t[i] = x
<1>1. Len(s) \in Nat /\ DOMAIN s = 1..Len(s)
  OBVIOUS
<1>2. /\ t \in Seq(S) /\ Len(t) = Len(s) + 1 /\ DOMAIN t = 1..(Len(s) + 1)
      /\ \A i \in 1..Len(s) : t[i] = s[i]
      /\ t[Len(s) + 1] = x
  BY <1>1
<1>3. \A i \in DOMAIN t : t[i] = x \/ \E k \in DOMAIN s : t[i] = s[k]
  BY <1>1, <1>2
<1> QED
  BY <1>1, <1>2, <1>3

LEMMA TailDoes ==
  ASSUME NEW S, NEW s \in Seq(S), s # <<>>, NEW t, t = Tail(s)
  PROVE  /\ t \in Seq(S) /\ Len(t) = Len(s) - 1
         /\ Head(s) \in S /\ \E k \in DOMAIN s : s[k] = Head(s)
         /\ \A i \in DOMAIN t : \E k \in DOMAIN s : t[i] = s[k]
<1>1. /\ Len(s) \in Nat \ {0} /\ DOMAIN s = 1..Len(s) /\ Head(s) = s[1] /\ s[1] \in S
  BY EmptySeq, LenProperties, ElementOfSeq
<1>2. /\ t \in Seq(S) /\ Len(t) = Len(s) - 1 /\ DOMAIN t = 1..(Len(s) - 1)
      /\ \A i \in 1..(Len(s) - 1) : t[i] = s[i + 1]
  BY <1>1, HeadTailProperties, LenProperties
<1>3. \A i \in DOMAIN t : i + 1 \in DOMAIN s /\ t[i] = s[i + 1]
  BY <1>1, <1>2
<1>5. \A i \in DOMAIN t : \E k \in DOMAIN s : t[i] = s[k]
  BY <1>3
<1>7. Head(s) \in S /\ \E k \in DOMAIN s : s[k] = Head(s)
  <2>1. 1 \in DOMAIN s
    BY <1>1
  <2> QED
    BY <1>1, <2>1
<1> QED
  BY <1>2, <1>5, <1>7

LEMMA TailHasRest ==
  ASSUME NEW S, NEW s \in Seq(S), s # <<>>, NEW k \in DOMAIN s, NEW t, t = Tail(s)
  PROVE  s[k] = Head(s) \/ \E i \in DOMAIN t : t[i] = s[k]
<1>1. Len(s) \in Nat \ {0} /\ DOMAIN s = 1..Len(s) /\ Head(s) = s[1]
  BY EmptySeq, LenProperties
<1>2. /\ Len(t) = Len(s) - 1 /\ DOMAIN t = 1..(Len(s) - 1)
      /\ \A i \in 1..(Len(s) - 1) : t[i] = s[i + 1]
  BY <1>1, HeadTailProperties, LenProperties
<1>3. k = 1 \/ (k - 1 \in DOMAIN t /\ t[k - 1] = s[k])
  BY <1>1, <1>2
<1> QED
  BY <1>1, <1>3

LEMMA RecordType ==
  ASSUME NEW s \in Seq(Records), NEW i \in DOMAIN s
  PROVE  s[i][1] \in URLs /\ s[i][2] \in Statuses
<1>1. s[i] \in Records
  BY ElementOfSeq
<1> QED
  BY <1>1 DEF Records

\* What TypeOK says of the two sequences.
LEMMA Sequences ==
  ASSUME TypeOK
  PROVE  /\ results \in Seq(Records) /\ Len(results) <= Capacity
         /\ buffer \in Seq(Records) /\ Len(buffer) <= Batch
BY Bounded, CapacityAssumption DEF TypeOK

LEMMA EmptyIsBounded ==
  ASSUME NEW n \in Nat
  PROVE  <<>> \in BoundedSeq(Records, n) /\ DOMAIN <<>> = {}
<1>1. <<>> \in Seq(Records) /\ Len(<<>>) = 0 /\ DOMAIN <<>> = {}
  OBVIOUS
<1>2. <<>> \in Seq(Records) /\ Len(<<>>) <= n
  BY <1>1
<1>3. <<>> \in BoundedSeq(Records, n)
  BY <1>2, Bounded
<1> QED
  BY <1>1, <1>3

-----------------------------------------------------------------------------
(* The beginning *)

LEMMA Start == Init => Kept
<1> SUFFICES ASSUME Init PROVE Kept
  OBVIOUS
<1> USE DEF Init
<1>1. TypeOK
  <2>1. results \in BoundedSeq(Records, Capacity) /\ buffer \in BoundedSeq(Records, Batch)
    BY CapacityAssumption, EmptyIsBounded
  <2>2. /\ pc \in [Workers -> {"receive", "check", "download", "rename", "send", "exit"}]
        /\ url \in [Workers -> URLs \cup {None}] /\ outcome \in [Workers -> Statuses \cup {None}]
    OBVIOUS
  <2>3. /\ files \subseteq {File[u] : u \in URLs}
        /\ mapped \subseteq URLs /\ seen \subseteq URLs /\ found \subseteq URLs
        /\ todo \subseteq URLs /\ gaveUp \subseteq URLs /\ joint \subseteq URLs
        /\ phase \in {"idle", "downloading", "ok", "error"} /\ tail \in URLs \cup {"junk", None}
    OBVIOUS
  <2>4. {open, interrupted, tornStart} \subseteq BOOLEAN
    OBVIOUS
  <2>5. faults \in 0..MaxFaults
    BY BoundsAssumption
  <2> HIDE DEF Init
  <2> QED
    BY <2>1, <2>2, <2>3, <2>4, <2>5 DEF TypeOK
<1>2. Shape
  BY DEF Shape, Busy
<1>3. Backed
  BY NoneAssumption, EmptyIsBounded, CapacityAssumption DEF Backed, Mapped
<1>4. Going /\ Settled
  BY DEF Going, Settled
<1> QED
  BY <1>1, <1>2, <1>3, <1>4 DEF Kept

-----------------------------------------------------------------------------
(* What the steps have in common *)

\* The manifest stays, and no URL or failure is forgotten on the way: what is
\* dropped was in seenManifest.
LEMMA GoingKept ==
  ASSUME Going, UNCHANGED <<mapped, tail, loaded, tornStart, joint>>,
         phase' = "downloading" /\ ~interrupted' => phase = "downloading" /\ ~interrupted,
         ~interrupted' => \A u \in found : u \in todo \/ InTransit(u) =>
                            \/ u \in todo' \/ InTransit(u)' \/ u \in gaveUp' \cup seen,
         gaveUp \subseteq gaveUp'
  PROVE  Going'
<1> SUFFICES ASSUME phase' = "downloading", ~interrupted'
             PROVE  /\ Safe(joint)'
                    /\ tail' # None \/ ~tornStart' => joint' = {}
                    /\ tail' # None => tornStart'
  BY DEF Going
<1>1. /\ phase = "downloading" /\ ~interrupted /\ found' = found /\ seen' = seen /\ joint' = joint
      /\ Mapped' = Mapped
  BY DEF Mapped
<1>2. Safe(joint)
  BY <1>1 DEF Going
<1>3. Safe(joint)'
  BY <1>1, <1>2 DEF Safe
<1> QED
  BY <1>1, <1>3 DEF Going

\* A step of one worker, in the middle of a run, that touches no record of
\* another.
LEMMA WorkerKeeps ==
  ASSUME Kept, NEW w \in Workers, phase = "downloading",
         pc' \in [Workers -> {"receive", "check", "download", "rename", "send", "exit"}],
         url' \in [Workers -> URLs \cup {None}],
         outcome' \in [Workers -> Statuses \cup {None}],
         \A v \in Workers \ {w} : pc'[v] = pc[v] /\ url'[v] = url[v] /\ outcome'[v] = outcome[v],
         pc'[w] \in Busy => url'[w] \in URLs,
         pc'[w] = "send" => outcome'[w] \in Statuses /\ Sound(url[w], outcome[w])',
         pc'[w] = "exit" /\ ~interrupted => ~open,
         files \subseteq files', files' \subseteq {File[u] : u \in URLs},
         gaveUp \subseteq gaveUp', gaveUp' \subseteq URLs,
         todo' \subseteq todo,
         results' \in BoundedSeq(Records, Capacity),
         (\A i \in DOMAIN results : Sound(results[i][1], results[i][2]))',
         ~interrupted =>
           \A u \in found : u \in todo \/ InTransit(u) =>
             \/ u \in todo' \/ InTransit(u)' \/ u \in gaveUp' \cup seen,
         UNCHANGED <<manifest, phase, loaded, open, buffer, interrupted, faults, tornStart, joint>>
  PROVE  Kept'
<1> USE DEF Kept, manifest
<1>1. TypeOK'
  BY DEF TypeOK
<1>2. Shape'
  <2>1. \A v \in Workers : /\ pc'[v] \in Busy => url'[v] \in URLs
                           /\ pc'[v] = "send" => outcome'[v] \in Statuses
    BY DEF Shape
  <2>2. ~interrupted => /\ ~open => todo' = {}
                        /\ \A v \in Workers : pc'[v] = "exit" => ~open
    BY DEF Shape
  <2> QED
    BY <2>1, <2>2 DEF Shape
<1>3. \A u, status : Sound(u, status) => Sound(u, status)'
  BY DEF Sound
<1>4. Backed'
  <2>1. \A u \in Mapped' : File[u] \in files'
    BY DEF Backed, Mapped
  <2>2. \A v \in Workers : pc'[v] = "send" => Sound(url[v], outcome[v])'
    <3>1. ASSUME NEW v \in Workers, v # w, pc'[v] = "send" PROVE Sound(url[v], outcome[v])'
      <4>1. Sound(url[v], outcome[v]) /\ url'[v] = url[v] /\ outcome'[v] = outcome[v]
        BY <3>1 DEF Backed
      <4> QED
        BY <4>1 DEF Sound
    <3> QED
      BY <3>1
  <2>3. (\A i \in DOMAIN buffer : Sound(buffer[i][1], buffer[i][2]))'
    BY <1>3 DEF Backed
  <2> QED
    BY <2>1, <2>2, <2>3 DEF Backed
<1>5. Going'
  BY GoingKept
<1>6. Settled'
  BY DEF Settled
<1> QED
  BY <1>1, <1>2, <1>4, <1>5, <1>6

\* A worker that has no record in its hands goes on with its URL, or drops one
\* that the manifest maps.
LEMMA HandsKeep ==
  ASSUME Kept, NEW w \in Workers, phase = "downloading", pc[w] # "send",
         pc' \in [Workers -> {"receive", "check", "download", "rename", "send", "exit"}],
         url' \in [Workers -> URLs \cup {None}],
         outcome' \in [Workers -> Statuses \cup {None}],
         \A v \in Workers \ {w} : pc'[v] = pc[v] /\ url'[v] = url[v] /\ outcome'[v] = outcome[v],
         pc'[w] \in Busy => url'[w] \in URLs,
         pc'[w] = "send" => outcome'[w] \in Statuses /\ Sound(url[w], outcome[w])',
         pc'[w] = "exit" /\ ~interrupted => ~open,
         files \subseteq files', files' \subseteq {File[u] : u \in URLs},
         gaveUp \subseteq gaveUp', gaveUp' \subseteq URLs,
         todo' \subseteq todo,
         ~interrupted =>
           /\ \A u \in todo \ todo' : pc'[w] \in Busy /\ url'[w] = u
           /\ pc[w] \in Busy => (pc'[w] \in Busy /\ url'[w] = url[w]) \/ url[w] \in seen,
         UNCHANGED <<manifest, phase, loaded, open, collector, interrupted, faults, tornStart, joint>>
  PROVE  Kept'
<1> USE DEF collector
<1>1. results' \in BoundedSeq(Records, Capacity)
  BY DEF Kept, TypeOK
<1>2. (\A i \in DOMAIN results : Sound(results[i][1], results[i][2]))'
  <2>1. \A u, status : Sound(u, status) => Sound(u, status)'
    BY DEF Sound
  <2>2. \A i \in DOMAIN results : Sound(results[i][1], results[i][2])
    BY DEF Kept, Backed
  <2> QED
    BY <2>1, <2>2 DEF Sound
<1>3. ASSUME ~interrupted
      PROVE  \A u \in found : u \in todo \/ InTransit(u) =>
               \/ u \in todo' \/ InTransit(u)' \/ u \in gaveUp' \cup seen
  <2>1. \A u : Reported(u) => Reported(u)'
    BY DEF Reported
  <2>2. \A u : pc'[w] \in Busy /\ url'[w] = u => InTransit(u)'
    BY DEF InTransit, Reported
  <2>3. \A u : InTransit(u) => InTransit(u)' \/ u \in seen
    BY <1>3, <2>1, <2>2 DEF InTransit
  <2> QED
    BY <1>3, <2>1, <2>2, <2>3
<1> QED
  BY <1>1, <1>2, <1>3, WorkerKeeps

\* What the variables of a worker are after a step.
LEMMA WorkerTypes ==
  ASSUME TypeOK, NEW w \in Workers
  PROVE  /\ \A x \in {"receive", "check", "download", "rename", "send", "exit"} :
              pc' = [pc EXCEPT ![w] = x] =>
                /\ pc' \in [Workers -> {"receive", "check", "download", "rename", "send", "exit"}]
                /\ pc'[w] = x /\ \A v \in Workers \ {w} : pc'[v] = pc[v]
         /\ \A x \in URLs \cup {None} :
              url' = [url EXCEPT ![w] = x] =>
                /\ url' \in [Workers -> URLs \cup {None}]
                /\ url'[w] = x /\ \A v \in Workers \ {w} : url'[v] = url[v]
         /\ \A x \in Statuses \cup {None} :
              outcome' = [outcome EXCEPT ![w] = x] =>
                /\ outcome' \in [Workers -> Statuses \cup {None}]
                /\ outcome'[w] = x /\ \A v \in Workers \ {w} : outcome'[v] = outcome[v]
BY DEF TypeOK

LEMMA HandStep ==
  ASSUME Kept, NEW w \in Workers, NEW u \in URLs, Hand(w, u)
  PROVE  Kept'
<1>1. /\ phase = "downloading" /\ pc[w] = "receive" /\ u \in todo /\ todo' = todo \ {u}
      /\ url' = [url EXCEPT ![w] = u] /\ pc' = [pc EXCEPT ![w] = "check"]
      /\ outcome' = outcome
      /\ UNCHANGED <<files, manifest, phase, loaded, open, collector, interrupted, faults,
                     gaveUp, tornStart, joint>>
  BY DEF Hand, Kept, Shape, history
<1>2. /\ pc' \in [Workers -> {"receive", "check", "download", "rename", "send", "exit"}]
      /\ url' \in [Workers -> URLs \cup {None}] /\ outcome' \in [Workers -> Statuses \cup {None}]
      /\ pc'[w] = "check" /\ url'[w] = u
      /\ \A v \in Workers \ {w} : pc'[v] = pc[v] /\ url'[v] = url[v] /\ outcome'[v] = outcome[v]
  BY <1>1, WorkerTypes DEF Kept, TypeOK
<1>3. files' \subseteq {File[x] : x \in URLs} /\ gaveUp' \subseteq URLs
  BY <1>1 DEF Kept, TypeOK
<1>4. "receive" \notin Busy /\ "check" \in Busy
  BY DEF Busy
<1> QED
  BY <1>1, <1>2, <1>3, <1>4, HandsKeep

LEMMA WorkerEndsStep ==
  ASSUME Kept, NEW w \in Workers, WorkerEnds(w)
  PROVE  Kept'
<1>1. /\ phase = "downloading" /\ pc[w] = "receive" /\ ~open
      /\ pc' = [pc EXCEPT ![w] = "exit"]
      /\ UNCHANGED <<files, manifest, phase, loaded, todo, open, url, outcome, collector,
                     interrupted, faults, gaveUp, tornStart, joint>>
  BY DEF WorkerEnds, Kept, Shape, history, producer
<1>2. /\ pc' \in [Workers -> {"receive", "check", "download", "rename", "send", "exit"}]
      /\ url' \in [Workers -> URLs \cup {None}] /\ outcome' \in [Workers -> Statuses \cup {None}]
      /\ pc'[w] = "exit" /\ \A v \in Workers \ {w} : pc'[v] = pc[v]
  BY <1>1, WorkerTypes DEF Kept, TypeOK
<1>3. files' \subseteq {File[x] : x \in URLs} /\ gaveUp' \subseteq URLs
  BY <1>1 DEF Kept, TypeOK
<1>4. "receive" \notin Busy /\ "exit" \notin Busy
  BY DEF Busy
<1> QED
  BY <1>1, <1>2, <1>3, <1>4, HandsKeep

LEMMA CheckStep ==
  ASSUME Kept, NEW w \in Workers, Check(w)
  PROVE  Kept'
<1>1. /\ phase = "downloading" /\ pc[w] = "check" /\ url[w] \in URLs
      /\ UNCHANGED <<files, manifest, phase, loaded, todo, open, collector,
                     interrupted, faults, gaveUp, tornStart, joint>>
  BY DEF Check, Kept, Shape, history, producer, Busy
<1>2. files' \subseteq {File[x] : x \in URLs} /\ gaveUp' \subseteq URLs
  BY <1>1 DEF Kept, TypeOK
<1>3. "receive" \notin Busy /\ "exit" \notin Busy /\ "download" \in Busy
  BY DEF Busy
<1>4. ASSUME NEW where \in {"receive", "exit"}, Leave(w, where),
             interrupted \/ (where = "receive" /\ url[w] \in seen)
      PROVE  Kept'
  <2>1. /\ pc' \in [Workers -> {"receive", "check", "download", "rename", "send", "exit"}]
        /\ url' \in [Workers -> URLs \cup {None}] /\ outcome' \in [Workers -> Statuses \cup {None}]
        /\ pc'[w] = where
        /\ \A v \in Workers \ {w} : pc'[v] = pc[v] /\ url'[v] = url[v] /\ outcome'[v] = outcome[v]
    BY <1>4, WorkerTypes DEF Kept, Leave
  <2> QED
    BY <1>1, <1>2, <1>3, <1>4, <2>1, HandsKeep
<1>5. ASSUME pc' = [pc EXCEPT ![w] = "download"], UNCHANGED <<url, outcome>>
      PROVE  Kept'
  <2>1. /\ pc' \in [Workers -> {"receive", "check", "download", "rename", "send", "exit"}]
        /\ url' \in [Workers -> URLs \cup {None}] /\ outcome' \in [Workers -> Statuses \cup {None}]
        /\ pc'[w] = "download" /\ \A v \in Workers \ {w} : pc'[v] = pc[v]
    BY <1>5, WorkerTypes DEF Kept, TypeOK
  <2> QED
    BY <1>1, <1>2, <1>3, <1>5, <2>1, HandsKeep
<1> QED
  BY <1>4, <1>5 DEF Check

LEMMA DownloadFailsStep ==
  ASSUME Kept, NEW w \in Workers, DownloadFails(w)
  PROVE  Kept'
<1>1. /\ phase = "downloading" /\ pc[w] \in {"download", "rename"} /\ url[w] \in URLs
      /\ outcome' = [outcome EXCEPT ![w] = "failed"] /\ pc' = [pc EXCEPT ![w] = "send"]
      /\ gaveUp' = gaveUp \cup {url[w]}
      /\ UNCHANGED <<files, manifest, phase, loaded, todo, open, url, collector,
                     interrupted, faults, tornStart, joint>>
  BY DEF DownloadFails, Return, Kept, Shape, producer, Busy
<1>2. /\ pc' \in [Workers -> {"receive", "check", "download", "rename", "send", "exit"}]
      /\ url' \in [Workers -> URLs \cup {None}] /\ outcome' \in [Workers -> Statuses \cup {None}]
      /\ pc'[w] = "send" /\ outcome'[w] = "failed" /\ outcome'[w] \in Statuses
      /\ \A v \in Workers \ {w} : pc'[v] = pc[v] /\ outcome'[v] = outcome[v]
  BY <1>1, WorkerTypes DEF Kept, TypeOK, Statuses
<1>3. files' \subseteq {File[x] : x \in URLs} /\ gaveUp' \subseteq URLs
  BY <1>1 DEF Kept, TypeOK
<1>4. Sound(url[w], outcome[w])'
  BY <1>1, <1>2 DEF Sound
<1>5. "send" \in Busy
  BY DEF Busy
<1> QED
  BY <1>1, <1>2, <1>3, <1>4, <1>5, HandsKeep

LEMMA StatStep ==
  ASSUME Kept, NEW w \in Workers, Stat(w)
  PROVE  Kept'
<1>1. /\ phase = "downloading" /\ pc[w] = "download" /\ url[w] \in URLs
      /\ UNCHANGED <<files, manifest, phase, loaded, todo, open, url, collector,
                     interrupted, faults, gaveUp, tornStart, joint>>
  BY DEF Stat, Kept, Shape, producer, history, Busy
<1>2. files' \subseteq {File[x] : x \in URLs} /\ gaveUp' \subseteq URLs
      /\ url' \in [Workers -> URLs \cup {None}]
  BY <1>1 DEF Kept, TypeOK
<1>3. "send" \in Busy /\ "rename" \in Busy
  BY DEF Busy
<1>4. CASE File[url[w]] \in files
  <2>1. outcome' = [outcome EXCEPT ![w] = "skipped"] /\ pc' = [pc EXCEPT ![w] = "send"]
    BY <1>4 DEF Stat, Return
  <2>2. /\ pc' \in [Workers -> {"receive", "check", "download", "rename", "send", "exit"}]
        /\ outcome' \in [Workers -> Statuses \cup {None}]
        /\ pc'[w] = "send" /\ outcome'[w] = "skipped" /\ outcome'[w] \in Statuses
        /\ \A v \in Workers \ {w} : pc'[v] = pc[v] /\ outcome'[v] = outcome[v]
    BY <2>1, WorkerTypes DEF Kept, Statuses
  <2>3. Sound(url[w], outcome[w])'
    BY <1>1, <1>4, <2>2 DEF Sound
  <2> QED
    BY <1>1, <1>2, <1>3, <2>2, <2>3, HandsKeep
<1>5. CASE File[url[w]] \notin files
  <2>1. pc' = [pc EXCEPT ![w] = "rename"] /\ outcome' = outcome
    BY <1>5 DEF Stat
  <2>2. /\ pc' \in [Workers -> {"receive", "check", "download", "rename", "send", "exit"}]
        /\ outcome' \in [Workers -> Statuses \cup {None}]
        /\ pc'[w] = "rename" /\ \A v \in Workers \ {w} : pc'[v] = pc[v]
    BY <2>1, WorkerTypes DEF Kept, TypeOK
  <2> QED
    BY <1>1, <1>2, <1>3, <2>1, <2>2, HandsKeep
<1> QED
  BY <1>4, <1>5

LEMMA RenameStep ==
  ASSUME Kept, NEW w \in Workers, Rename(w)
  PROVE  Kept'
<1>1. /\ phase = "downloading" /\ pc[w] = "rename" /\ url[w] \in URLs
      /\ outcome' = [outcome EXCEPT ![w] = "downloaded"] /\ pc' = [pc EXCEPT ![w] = "send"]
      /\ files' = files \cup {File[url[w]]}
      /\ UNCHANGED <<manifest, phase, loaded, todo, open, url, collector,
                     interrupted, faults, gaveUp, tornStart, joint>>
  BY DEF Rename, Return, Kept, Shape, producer, history, Busy
<1>2. /\ pc' \in [Workers -> {"receive", "check", "download", "rename", "send", "exit"}]
      /\ url' \in [Workers -> URLs \cup {None}] /\ outcome' \in [Workers -> Statuses \cup {None}]
      /\ pc'[w] = "send" /\ outcome'[w] = "downloaded" /\ outcome'[w] \in Statuses
      /\ \A v \in Workers \ {w} : pc'[v] = pc[v] /\ outcome'[v] = outcome[v]
  BY <1>1, WorkerTypes DEF Kept, TypeOK, Statuses
<1>3. files' \subseteq {File[x] : x \in URLs} /\ gaveUp' \subseteq URLs
  BY <1>1 DEF Kept, TypeOK
<1>4. Sound(url[w], outcome[w])'
  BY <1>1, <1>2 DEF Sound
<1>5. "send" \in Busy
  BY DEF Busy
<1> QED
  BY <1>1, <1>2, <1>3, <1>4, <1>5, HandsKeep

LEMMA SendStep ==
  ASSUME Kept, NEW w \in Workers, Send(w)
  PROVE  Kept'
<1>1. /\ phase = "downloading" /\ pc[w] = "send" /\ url[w] \in URLs /\ outcome[w] \in Statuses
      /\ Sound(url[w], outcome[w])
      /\ UNCHANGED <<files, manifest, phase, loaded, todo, open, buffer,
                     interrupted, faults, gaveUp, tornStart, joint>>
  BY DEF Send, Kept, Shape, Backed, producer, history, Busy
<1>2. files' \subseteq {File[x] : x \in URLs} /\ gaveUp' \subseteq URLs
  BY <1>1 DEF Kept, TypeOK
<1>3. "receive" \notin Busy /\ "exit" \notin Busy
  BY DEF Busy
<1>4. TypeOK
  BY DEF Kept
<1>5. \A u, status : Sound(u, status) => Sound(u, status)'
  BY <1>1 DEF Sound
<1>6. \A i \in DOMAIN results : Sound(results[i][1], results[i][2])
  BY DEF Kept, Backed
<1>7. ASSUME NEW where \in {"receive", "exit"}, Leave(w, where)
      PROVE  /\ pc' \in [Workers -> {"receive", "check", "download", "rename", "send", "exit"}]
             /\ url' \in [Workers -> URLs \cup {None}]
             /\ outcome' \in [Workers -> Statuses \cup {None}]
             /\ pc'[w] = where
             /\ \A v \in Workers \ {w} : pc'[v] = pc[v] /\ url'[v] = url[v] /\ outcome'[v] = outcome[v]
  BY <1>4, <1>7, WorkerTypes DEF Leave
<1>8. ASSUME Len(results) < Capacity, results' = Append(results, <<url[w], outcome[w]>>),
             Leave(w, "receive")
      PROVE  Kept'
  <2> DEFINE r == <<url[w], outcome[w]>>
  <2>1. r \in Records /\ r[1] = url[w] /\ r[2] = outcome[w]
    BY <1>1 DEF Records
  <2>2. results \in Seq(Records) /\ Len(results) \in Nat
    BY <1>4, Sequences, LenProperties
  <2>3. /\ results' \in Seq(Records) /\ Len(results') = Len(results) + 1
        /\ \A i \in DOMAIN results' : results'[i] = r \/ \E k \in DOMAIN results : results'[i] = results[k]
        /\ \A k \in DOMAIN results : k \in DOMAIN results' /\ results'[k] = results[k]
        /\ \E i \in DOMAIN results' : results'[i] = r
    <3> HIDE DEF r
    <3>1. results' = Append(results, r)
      BY <1>8 DEF r
    <3> QED
      BY <2>1, <2>2, <3>1, AppendDoes
  <2>4. results' \in BoundedSeq(Records, Capacity)
    <3>1. Capacity \in Nat /\ Len(results') <= Capacity
      BY <1>8, <2>2, <2>3, CapacityAssumption
    <3> QED
      BY <2>3, <3>1, Bounded
  <2> HIDE DEF r
  <2>5. (\A i \in DOMAIN results : Sound(results[i][1], results[i][2]))'
    <3>1. \A i \in DOMAIN results' : \/ results'[i][1] = url[w] /\ results'[i][2] = outcome[w]
                                     \/ \E k \in DOMAIN results : /\ results'[i][1] = results[k][1]
                                                                  /\ results'[i][2] = results[k][2]
      BY <2>1, <2>3
    <3>2. \A i \in DOMAIN results' : Sound(results'[i][1], results'[i][2])
      BY <1>1, <1>6, <3>1
    <3> QED
      BY <1>5, <3>2 DEF Sound
  <2>6. \A u : Reported(u) => Reported(u)'
    <3>1. \A i \in DOMAIN results : i \in DOMAIN results' /\ results'[i][1] = results[i][1]
      BY <2>3
    <3>2. \E i \in DOMAIN results' : results'[i][1] = url[w]
      BY <2>1, <2>3
    <3>3. \A v \in Workers \ {w} : pc'[v] = pc[v] /\ url'[v] = url[v]
      BY <1>7, <1>8
    <3> QED
      BY <1>1, <3>1, <3>2, <3>3 DEF Reported
  <2>7. \A u : InTransit(u) => InTransit(u)'
    <3>1. \A v \in Workers \ {w} : pc'[v] = pc[v] /\ url'[v] = url[v]
      BY <1>7, <1>8
    <3> QED
      BY <1>1, <2>6, <3>1 DEF InTransit
  <2>8. pc'[w] = "receive"
    BY <1>7, <1>8
  <2>9. /\ pc' \in [Workers -> {"receive", "check", "download", "rename", "send", "exit"}]
        /\ url' \in [Workers -> URLs \cup {None}]
        /\ outcome' \in [Workers -> Statuses \cup {None}]
        /\ \A v \in Workers \ {w} : pc'[v] = pc[v] /\ url'[v] = url[v] /\ outcome'[v] = outcome[v]
    BY <1>7, <1>8
  <2> QED
    BY <1>1, <1>2, <1>3, <2>4, <2>5, <2>6, <2>7, <2>8, <2>9, WorkerKeeps
<1>9. ASSUME interrupted, Leave(w, "exit"), UNCHANGED results
      PROVE  Kept'
  <2>1. results' \in BoundedSeq(Records, Capacity)
    BY <1>4, <1>9 DEF TypeOK
  <2>2. (\A i \in DOMAIN results : Sound(results[i][1], results[i][2]))'
    BY <1>5, <1>6, <1>9 DEF Sound
  <2>3. /\ pc' \in [Workers -> {"receive", "check", "download", "rename", "send", "exit"}]
        /\ url' \in [Workers -> URLs \cup {None}]
        /\ outcome' \in [Workers -> Statuses \cup {None}]
        /\ pc'[w] = "exit"
        /\ \A v \in Workers \ {w} : pc'[v] = pc[v] /\ url'[v] = url[v] /\ outcome'[v] = outcome[v]
    BY <1>7, <1>9
  <2> QED
    BY <1>1, <1>2, <1>3, <1>9, <2>1, <2>2, <2>3, WorkerKeeps
<1> QED
  BY <1>8, <1>9 DEF Send

-----------------------------------------------------------------------------
(* The producer, the command and the collector *)

LEMMA ProducerEndsStep ==
  ASSUME Kept, ProducerEnds
  PROVE  Kept'
<1>1. /\ phase = "downloading" \/ phase' # "downloading"
      /\ open' = FALSE /\ todo' = {}
      /\ ~interrupted => todo = {}
      /\ UNCHANGED <<files, mapped, tail, phase, loaded, pc, url, outcome, results, buffer,
                     interrupted, faults, gaveUp, tornStart, joint>>
  BY DEF ProducerEnds, manifest, workerVars, collector, history
<1>2. TypeOK'
  BY <1>1 DEF Kept, TypeOK
<1>3. Shape'
  BY <1>1 DEF Kept, Shape
<1>4. Backed'
  BY <1>1 DEF Kept, Backed, Sound, Mapped
<1>5. Going'
  <2>1. \A u : Reported(u) => Reported(u)'
    BY <1>1 DEF Reported
  <2>2. \A u : InTransit(u) => InTransit(u)'
    BY <1>1, <2>1 DEF InTransit
  <2> QED
    BY <1>1, <2>1, <2>2, GoingKept DEF Kept
<1>6. Settled'
  BY <1>1 DEF Kept, Settled, Mapped
<1> QED
  BY <1>2, <1>3, <1>4, <1>5, <1>6 DEF Kept

LEMMA InterruptStep ==
  ASSUME Kept, Interrupt
  PROVE  Kept'
<1>1. /\ interrupted' = TRUE /\ faults < MaxFaults /\ faults' = faults + 1
      /\ UNCHANGED <<files, mapped, tail, phase, loaded, todo, open, pc, url, outcome,
                     results, buffer, gaveUp, tornStart, joint>>
  BY DEF Interrupt, Fault, manifest, producer, workerVars, collector, history
<1>2. faults' \in 0..MaxFaults
  BY <1>1, BoundsAssumption DEF Kept, TypeOK
<1>3. TypeOK'
  BY <1>1, <1>2 DEF Kept, TypeOK
<1>4. Shape'
  BY <1>1 DEF Kept, Shape
<1>5. Backed'
  BY <1>1 DEF Kept, Backed, Sound, Mapped
<1>6. Going' /\ Settled'
  BY <1>1 DEF Going, Settled
<1> QED
  BY <1>3, <1>4, <1>5, <1>6 DEF Kept

\* What a process that has stopped leaves behind.
LEMMA StopDoes ==
  ASSUME NEW how \in {"idle", "ok", "error"}, Stop(how)
  PROVE  /\ Shape'
         /\ todo' = {} /\ {open'} \subseteq BOOLEAN
         /\ phase' \in {"idle", "downloading", "ok", "error"}
         /\ pc' \in [Workers -> {"receive", "check", "download", "rename", "send", "exit"}]
         /\ url' \in [Workers -> URLs \cup {None}]
         /\ outcome' \in [Workers -> Statuses \cup {None}]
         /\ results' \in BoundedSeq(Records, Capacity) /\ buffer' \in BoundedSeq(Records, Batch)
         /\ (\A u \in Mapped : File[u] \in files)' => Backed'
<1>1. DOMAIN results' = {} /\ DOMAIN buffer' = {}
  BY EmptyIsBounded, CapacityAssumption DEF Stop
<1>2. \A w \in Workers : pc'[w] = "exit"
  BY DEF Stop
<1>3. Shape'
  BY <1>2 DEF Stop, Shape, Busy
<1>4. (\A u \in Mapped : File[u] \in files)' => Backed'
  BY <1>1, <1>2 DEF Backed
<1>5. results' \in BoundedSeq(Records, Capacity) /\ buffer' \in BoundedSeq(Records, Batch)
  BY EmptyIsBounded, CapacityAssumption DEF Stop
<1> QED
  BY <1>3, <1>4, <1>5 DEF Stop

LEMMA KillStep ==
  ASSUME Kept, Kill
  PROVE  Kept'
<1>1. /\ Stop("idle") /\ faults < MaxFaults /\ faults' = faults + 1
      /\ UNCHANGED <<files, mapped, tail, loaded, interrupted, gaveUp, tornStart, joint>>
  BY DEF Kill, Fault, manifest, history
<1>2. faults' \in 0..MaxFaults
  BY <1>1, BoundsAssumption DEF Kept, TypeOK
<1>3. (\A u \in Mapped : File[u] \in files)'
  BY <1>1 DEF Kept, Backed, Mapped
<1>4. Shape' /\ Backed'
  BY <1>1, <1>3, StopDoes
<1>5. TypeOK'
  <2>1. /\ todo' = {} /\ open' = FALSE
        /\ phase' \in {"idle", "downloading", "ok", "error"}
        /\ pc' \in [Workers -> {"receive", "check", "download", "rename", "send", "exit"}]
        /\ url' \in [Workers -> URLs \cup {None}]
        /\ outcome' \in [Workers -> Statuses \cup {None}]
        /\ results' \in BoundedSeq(Records, Capacity) /\ buffer' \in BoundedSeq(Records, Batch)
    <3>1. todo' = {} /\ open' = FALSE
      BY <1>1 DEF Stop
    <3> QED
      BY <1>1, <3>1, StopDoes
  <2> QED
    BY <1>1, <1>2, <2>1 DEF Kept, TypeOK
<1>6. Going' /\ Settled'
  BY <1>1 DEF Going, Settled, Stop
<1> QED
  BY <1>4, <1>5, <1>6 DEF Kept

LEMMA StartRunStep ==
  ASSUME Kept, StartRun
  PROVE  Kept'
<1>1. /\ phase # "downloading" /\ phase' = "downloading"
      /\ seen' \in {Mapped, {}} /\ found' \in Exports /\ todo' = found' /\ open' = TRUE
      /\ pc' = [w \in Workers |-> "receive"] /\ interrupted' = FALSE
      /\ gaveUp' = {} /\ tornStart' = (tail # None) /\ joint' = {}
      /\ UNCHANGED <<files, mapped, tail, url, outcome, results, buffer, faults>>
  BY DEF StartRun, manifest, collector
<1>2. results = <<>> /\ buffer = <<>> /\ DOMAIN results = {} /\ DOMAIN buffer = {}
  BY <1>1, EmptyIsBounded, CapacityAssumption DEF Kept, Shape
<1>3. \A w \in Workers : pc'[w] = "receive"
  BY <1>1
<1>4. Mapped' = Mapped /\ Mapped \subseteq URLs
  BY <1>1 DEF Kept, TypeOK, Mapped
<1>5. TypeOK'
  <2>1. found' \subseteq URLs
    BY <1>1 DEF URLs
  <2>2. seen' \subseteq URLs
    BY <1>1, <1>4
  <2>3. pc' \in [Workers -> {"receive", "check", "download", "rename", "send", "exit"}]
    BY <1>1
  <2>4. {open', interrupted', tornStart'} \subseteq BOOLEAN
    BY <1>1
  <2> QED
    BY <1>1, <2>1, <2>2, <2>3, <2>4 DEF Kept, TypeOK
<1>6. Shape'
  BY <1>1, <1>3 DEF Shape, Busy
<1>7. Backed'
  BY <1>1, <1>2, <1>3, <1>4 DEF Kept, Backed
<1>8. \A lost : Safe(lost)'
  BY <1>1, <1>4 DEF Safe
<1>9. Going'
  BY <1>1, <1>8 DEF Going
<1>10. Settled'
  BY <1>1 DEF Settled
<1> QED
  BY <1>5, <1>6, <1>7, <1>9, <1>10 DEF Kept

LEMMA CollectStep ==
  ASSUME Kept, Collect
  PROVE  Kept'
<1> DEFINE r == Head(results)
<1>1. /\ results # <<>> /\ Len(buffer) < Batch
      /\ results' = Tail(results)
      /\ UNCHANGED <<files, mapped, tail, phase, loaded, todo, open, pc, url, outcome,
                     interrupted, faults, gaveUp, tornStart, joint>>
  BY DEF Collect, manifest, producer, workerVars, history
<1>2. buffer' = Append(buffer, r)
  BY DEF Collect
<1>3. /\ results \in Seq(Records) /\ Len(results) <= Capacity /\ Len(results) \in Nat
      /\ buffer \in Seq(Records) /\ Len(buffer) \in Nat
  BY Sequences, LenProperties DEF Kept
<1>4. phase = "downloading"
  BY <1>1 DEF Kept, Shape
<1> HIDE DEF r
<1>5. /\ results' \in Seq(Records) /\ Len(results') = Len(results) - 1
      /\ r \in Records /\ \E k \in DOMAIN results : results[k] = r
      /\ \A i \in DOMAIN results' : \E k \in DOMAIN results : results'[i] = results[k]
      /\ \A k \in DOMAIN results : results[k] = r \/ \E i \in DOMAIN results' : results'[i] = results[k]
  <2>1. results \in Seq(Records) /\ results # <<>> /\ results' = Tail(results)
    BY <1>1, <1>3
  <2>2. r = Head(results)
    BY DEF r
  <2>3. results' \in Seq(Records) /\ Len(results') = Len(results) - 1
    BY <2>1, TailDoes
  <2>4. Head(results) \in Records /\ \E k \in DOMAIN results : results[k] = Head(results)
    BY <2>1, TailDoes
  <2>5. \A i \in DOMAIN results' : \E k \in DOMAIN results : results'[i] = results[k]
    BY <2>1, TailDoes
  <2>6. \A k \in DOMAIN results : \/ results[k] = Head(results)
                                  \/ \E i \in DOMAIN results' : results'[i] = results[k]
    BY <2>1, TailHasRest
  <2> QED
    BY <2>2, <2>3, <2>4, <2>5, <2>6
<1>6. /\ buffer' \in Seq(Records) /\ Len(buffer') = Len(buffer) + 1
      /\ \A i \in DOMAIN buffer' : buffer'[i] = r \/ \E k \in DOMAIN buffer : buffer'[i] = buffer[k]
      /\ \A k \in DOMAIN buffer : k \in DOMAIN buffer' /\ buffer'[k] = buffer[k]
      /\ \E i \in DOMAIN buffer' : buffer'[i] = r
  <2>1. buffer \in Seq(Records) /\ r \in Records /\ buffer' = Append(buffer, r)
    BY <1>2, <1>3, <1>5
  <2> QED
    BY <2>1, AppendDoes
<1>7. TypeOK'
  <2>1. /\ Capacity \in Nat /\ Len(results') <= Capacity
        /\ Batch \in Nat /\ Len(buffer') <= Batch
    BY <1>1, <1>3, <1>5, <1>6, CapacityAssumption
  <2>2. results' \in BoundedSeq(Records, Capacity)
    BY <1>5, <2>1, Bounded
  <2>3. buffer' \in BoundedSeq(Records, Batch)
    BY <1>6, <2>1, Bounded
  <2> QED
    BY <1>1, <2>2, <2>3 DEF Kept, TypeOK
<1>8. Shape'
  BY <1>1, <1>4 DEF Kept, Shape
<1>9. Backed'
  <2>1. \A u, status : Sound(u, status) => Sound(u, status)'
    BY <1>1 DEF Sound
  <2>2. \A k \in DOMAIN results : Sound(results[k][1], results[k][2])
    BY DEF Kept, Backed
  <2>3. \A k \in DOMAIN buffer : Sound(buffer[k][1], buffer[k][2])
    BY DEF Kept, Backed
  <2>4. \A i \in DOMAIN results' : Sound(results'[i][1], results'[i][2])
    BY <1>5, <2>2
  <2>5. \A i \in DOMAIN buffer' : Sound(buffer'[i][1], buffer'[i][2])
    BY <1>5, <1>6, <2>2, <2>3
  <2>6. (\A i \in DOMAIN results : Sound(results[i][1], results[i][2]))'
    BY <2>1, <2>4 DEF Sound
  <2>7. (\A i \in DOMAIN buffer : Sound(buffer[i][1], buffer[i][2]))'
    BY <2>1, <2>5 DEF Sound
  <2>8. (\A w \in Workers : pc[w] = "send" => Sound(url[w], outcome[w]))'
    BY <1>1 DEF Kept, Backed, Sound
  <2>9. (\A u \in Mapped : File[u] \in files)'
    BY <1>1 DEF Kept, Backed, Mapped
  <2> QED
    BY <2>6, <2>7, <2>8, <2>9 DEF Backed
<1>10. Going'
  <2>1. \A u : Reported(u) => Reported(u)'
    <3>1. \A k \in DOMAIN results :
            \/ \E i \in DOMAIN results' : results'[i][1] = results[k][1]
            \/ \E i \in DOMAIN buffer' : buffer'[i][1] = results[k][1]
      BY <1>5, <1>6
    <3>2. \A k \in DOMAIN buffer : \E i \in DOMAIN buffer' : buffer'[i][1] = buffer[k][1]
      BY <1>6
    <3> QED
      BY <1>1, <3>1, <3>2 DEF Reported
  <2>2. \A u : InTransit(u) => InTransit(u)'
    BY <1>1, <2>1 DEF InTransit
  <2> QED
    BY <1>1, <2>1, <2>2, GoingKept DEF Kept
<1>11. Settled'
  BY <1>1, <1>4 DEF Settled
<1> QED
  BY <1>7, <1>8, <1>9, <1>10, <1>11 DEF Kept

-----------------------------------------------------------------------------
(* Writing the manifest *)

\* Which URLs the lines of a batch map: not those of failures, and not that of
\* a first line that continues a cut one; these two are the joint.
LEMMA WriteDoes ==
  ASSUME NEW lines \in Seq(Records), Write(lines), mapped \subseteq URLs, joint \subseteq URLs
  PROVE  /\ mapped \subseteq mapped' /\ mapped' \subseteq URLs
         /\ \A u \in mapped' \ mapped :
              \E i \in DOMAIN lines : lines[i][1] = u /\ lines[i][2] # "failed"
         /\ \A i \in DOMAIN lines : \/ lines[i][2] = "failed"
                                    \/ i = 1 /\ tail # None
                                    \/ lines[i][1] \in mapped'
         /\ joint' \subseteq URLs
<1> DEFINE kept == {i \in DOMAIN lines : lines[i][2] # "failed" /\ (i = 1 => tail = None)}
<1>1. mapped' = mapped \cup {lines[i][1] : i \in kept}
  BY DEF Write
<1>2. \A i \in DOMAIN lines : lines[i][1] \in URLs
  BY RecordType
<1>3. \A u \in mapped' \ mapped : \E i \in kept : lines[i][1] = u
  BY <1>1
<1>4. \A i \in kept : lines[i][1] \in mapped'
  BY <1>1
<1>5. mapped \subseteq mapped'
  BY <1>1
<1>6. mapped' \subseteq URLs
  BY <1>2, <1>3
<1>7. joint' \subseteq URLs
  <2>1. lines # <<>> => 1 \in DOMAIN lines
    BY EmptySeq, LenProperties
  <2>2. joint' = joint \/ (lines # <<>> /\ joint' = ({tail} \cap URLs) \cup {lines[1][1]})
    BY DEF Write
  <2> QED
    BY <1>2, <2>1, <2>2
<1> QED
  BY <1>3, <1>4, <1>5, <1>6, <1>7

\* A flushed batch loses what is at the joint, and nothing else.
LEMMA FlushSafe ==
  ASSUME TypeOK, Backed, Safe(joint), tail # None => joint = {},
         buffer # <<>>, Write(buffer), tail' = None,
         UNCHANGED <<todo, pc, url, results, loaded, gaveUp>>
  PROVE  Safe(joint)'
<1>1. buffer \in Seq(Records) /\ mapped \subseteq URLs /\ joint \subseteq URLs
  BY Sequences DEF TypeOK
<1>2. /\ mapped \subseteq mapped'
      /\ \A i \in DOMAIN buffer : \/ buffer[i][2] = "failed"
                                  \/ i = 1 /\ tail # None
                                  \/ buffer[i][1] \in mapped'
  BY <1>1, WriteDoes
<1>3. Mapped' = mapped'
  BY NoneAssumption DEF Mapped
<1>4. /\ tail = None => joint' = joint
      /\ tail # None => joint' = ({tail} \cap URLs) \cup {buffer[1][1]}
  BY DEF Write
<1>5. joint \subseteq joint'
  BY <1>4
<1>6. \A i \in DOMAIN buffer : buffer[i][1] \in joint' \/ buffer[i][1] \in Mapped' \cup gaveUp'
  <2>1. \A i \in DOMAIN buffer : buffer[i][2] = "failed" => buffer[i][1] \in gaveUp
    BY DEF Backed, Sound
  <2> QED
    BY <1>2, <1>3, <1>4, <2>1
<1>7. \A u \in Mapped : u \in joint' \/ u \in Mapped'
  BY <1>2, <1>3, <1>4, NoneAssumption DEF Mapped
<1>8. \A u : InTransit(u) => InTransit(u)' \/ \E i \in DOMAIN buffer : buffer[i][1] = u
  BY DEF InTransit, Reported
<1>9. seen' \ joint' \subseteq Mapped'
  BY <1>5, <1>7 DEF Safe
<1>10. ASSUME NEW u \in found' \ joint'
       PROVE  u \in todo' \/ InTransit(u)' \/ u \in Mapped' \cup gaveUp'
  <2>1. u \in todo \/ InTransit(u) \/ u \in Mapped \cup gaveUp
    BY <1>5, <1>10 DEF Safe
  <2> QED
    BY <1>6, <1>7, <1>8, <1>10, <2>1
<1> QED
  BY <1>9, <1>10 DEF Safe

LEMMA FlushStep ==
  ASSUME Kept, Flush
  PROVE  Kept'
<1>1. /\ Len(buffer) = Batch /\ Write(buffer) /\ tail' = None /\ buffer' = <<>>
      /\ UNCHANGED <<files, phase, loaded, todo, open, pc, url, outcome, results,
                     interrupted, faults, gaveUp, tornStart>>
  BY DEF Flush, producer, workerVars, history
<1>2. TypeOK /\ Shape /\ Backed /\ Going
  BY DEF Kept
<1>3. buffer \in Seq(Records) /\ mapped \subseteq URLs /\ joint \subseteq URLs
  BY <1>2, Sequences DEF TypeOK
<1>4. /\ mapped' \subseteq URLs /\ joint' \subseteq URLs
      /\ \A u \in mapped' \ mapped :
           \E i \in DOMAIN buffer : buffer[i][1] = u /\ buffer[i][2] # "failed"
  BY <1>1, <1>3, WriteDoes
<1>5. buffer' \in BoundedSeq(Records, Batch) /\ DOMAIN buffer' = {}
  BY <1>1, EmptyIsBounded, CapacityAssumption
<1>6. Mapped' = mapped'
  BY <1>1, NoneAssumption DEF Mapped
<1>7. phase = "downloading"
  <2>1. buffer # <<>>
    BY <1>1, CapacityAssumption
  <2> QED
    BY <1>2, <2>1 DEF Shape
<1>8. TypeOK'
  BY <1>1, <1>2, <1>4, <1>5 DEF TypeOK
<1>9. Shape'
  BY <1>1, <1>2, <1>7 DEF Shape
<1>10. Backed'
  <2>1. \A u \in mapped' : File[u] \in files'
    BY <1>1, <1>2, <1>4 DEF Backed, Sound, Mapped
  <2>2. \A u, status : Sound(u, status) => Sound(u, status)'
    BY <1>1 DEF Sound
  <2> QED
    BY <1>1, <1>2, <1>5, <1>6, <2>1, <2>2 DEF Backed, Sound
<1>11. Going'
  <2> SUFFICES ASSUME ~interrupted
               PROVE  /\ Safe(joint)'
                      /\ ~tornStart => joint' = {}
    BY <1>1 DEF Going
  <2>1. /\ Safe(joint)
        /\ tail # None \/ ~tornStart => joint = {}
        /\ tail # None => tornStart
    BY <1>2, <1>7 DEF Going
  <2>2. buffer # <<>>
    BY <1>1, CapacityAssumption
  <2>3. Safe(joint)'
    BY <1>1, <1>2, <2>1, <2>2, FlushSafe
  <2>4. ~tornStart => joint' = joint
    BY <1>1, <2>1 DEF Write
  <2> QED
    BY <2>1, <2>3, <2>4
<1>12. Settled'
  BY <1>1, <1>7 DEF Settled
<1> QED
  BY <1>8, <1>9, <1>10, <1>11, <1>12 DEF Kept

\* When a run ends by itself, nothing is to come and nothing is on the way but
\* what is in the buffer.
LEMMA RunEndsStep ==
  ASSUME Kept, RunEnds
  PROVE  Kept'
<1>1. /\ ResultsDone /\ Write(buffer) /\ tail' = (IF buffer = <<>> THEN tail ELSE None)
      /\ buffer' = <<>> /\ phase' = "ok"
      /\ UNCHANGED <<files, loaded, todo, open, pc, url, outcome, results,
                     interrupted, faults, gaveUp, tornStart>>
  BY DEF RunEnds, producer, workerVars, history
<1>2. phase = "downloading" /\ (\A w \in Workers : pc[w] = "exit") /\ results = <<>>
  BY <1>1 DEF ResultsDone
<1>3. TypeOK /\ Shape /\ Backed /\ Going
  BY DEF Kept
<1>4. buffer \in Seq(Records) /\ mapped \subseteq URLs /\ joint \subseteq URLs
  BY <1>3, Sequences DEF TypeOK
<1>5. /\ mapped' \subseteq URLs /\ mapped \subseteq mapped' /\ joint' \subseteq URLs
      /\ \A u \in mapped' \ mapped :
           \E i \in DOMAIN buffer : buffer[i][1] = u /\ buffer[i][2] # "failed"
  BY <1>1, <1>4, WriteDoes
<1>6. buffer' \in BoundedSeq(Records, Batch) /\ DOMAIN buffer' = {}
  BY <1>1, EmptyIsBounded, CapacityAssumption
<1>7. TypeOK'
  <2>1. tail' \in URLs \cup {"junk", None}
    BY <1>1, <1>3 DEF TypeOK
  <2> QED
    BY <1>1, <1>3, <1>5, <1>6, <2>1 DEF TypeOK
<1>8. Shape'
  BY <1>1, <1>2 DEF Shape, Busy
<1>9. Backed'
  <2>1. \A u \in mapped' : File[u] \in files'
    BY <1>1, <1>3, <1>5 DEF Backed, Sound, Mapped
  <2>2. \A u \in Mapped' : File[u] \in files'
    BY <1>1, <1>3, <2>1, NoneAssumption DEF Backed, Mapped
  <2>3. DOMAIN results' = {}
    BY <1>1, <1>2, EmptyIsBounded, CapacityAssumption
  <2> QED
    BY <1>1, <1>2, <1>6, <2>2, <2>3 DEF Backed
<1>10. Going'
  BY <1>1 DEF Going
<1>11. Settled'
  <2> SUFFICES ASSUME ~interrupted
               PROVE  /\ found \subseteq (Mapped \cup gaveUp \cup joint)'
                      /\ ~tornStart => joint' = {}
    BY <1>1 DEF Settled
  <2>1. todo = {}
    BY <1>1, <1>2, <1>3, WorkersAssumption DEF Shape
  <2>2. /\ Safe(joint)
        /\ tail # None \/ ~tornStart => joint = {}
        /\ tail # None => tornStart
    BY <1>2, <1>3 DEF Going
  <2>3. DOMAIN results = {}
    BY <1>2, EmptyIsBounded, CapacityAssumption
  <2>4. \A u : InTransit(u) => \E i \in DOMAIN buffer : buffer[i][1] = u
    BY <1>2, <2>3 DEF InTransit, Reported, Busy
  <2>5. ~tornStart => joint' = {}
    BY <1>1, <2>2 DEF Write
  <2>6. CASE buffer = <<>>
    <3>1. DOMAIN buffer = {} /\ tail' = tail /\ joint' = joint
      BY <1>1, <2>6, EmptyIsBounded, CapacityAssumption DEF Write
    <3>2. mapped' = mapped
      BY <1>5, <3>1
    <3>3. Mapped' = Mapped
      BY <3>1, <3>2 DEF Mapped
    <3>4. \A u \in found \ joint : u \in Mapped \cup gaveUp
      BY <2>1, <2>2, <2>4, <3>1 DEF Safe
    <3>5. found \subseteq (Mapped \cup gaveUp \cup joint)'
      BY <1>1, <3>1, <3>3, <3>4
    <3> QED
      BY <2>5, <3>5
  <2>7. CASE buffer # <<>>
    <3>1. tail' = None
      BY <1>1, <2>7
    <3>2. Safe(joint)'
      BY <1>1, <1>3, <2>2, <2>7, <3>1, FlushSafe
    <3>3. DOMAIN buffer' = {} /\ todo' = {} /\ DOMAIN results' = {}
      BY <1>1, <1>6, <2>1, <2>3
    <3>4. \A u : ~InTransit(u)'
      BY <1>1, <1>2, <3>3 DEF InTransit, Reported, Busy
    <3>5. \A u \in found' \ joint' : u \in Mapped' \cup gaveUp'
      BY <3>2, <3>3, <3>4 DEF Safe
    <3>6. found \subseteq (Mapped \cup gaveUp \cup joint)'
      BY <1>1, <3>5
    <3> QED
      BY <2>5, <3>6
  <2> QED
    BY <2>6, <2>7
<1> QED
  BY <1>7, <1>8, <1>9, <1>10, <1>11 DEF Kept

\* Of a batch that is cut short, a part is written, and perhaps the next line
\* without its newline.
LEMMA FlushCutStep ==
  ASSUME Kept, FlushCut
  PROVE  Kept'
<1>1. PICK n \in 0..(Len(buffer) - 1) :
        LET before == IF n = 0 THEN tail ELSE None
            cut == buffer[n + 1]
        IN  /\ Write(SubSeq(buffer, 1, n))
            /\ \/ tail' = before
               \/ tail' = "junk"
               \/ before = None /\ cut[2] # "failed" /\ tail' = cut[1]
  BY DEF FlushCut
<1>2. /\ Stop("error") /\ faults < MaxFaults /\ faults' = faults + 1
      /\ UNCHANGED <<files, loaded, interrupted, gaveUp, tornStart>>
  BY DEF FlushCut, Fault, history
<1>3. TypeOK /\ Backed
  BY DEF Kept
<1>4. buffer \in Seq(Records) /\ mapped \subseteq URLs /\ joint \subseteq URLs /\ Len(buffer) \in Nat
      /\ DOMAIN buffer = 1..Len(buffer)
  BY <1>3, Sequences, LenProperties DEF TypeOK
<1>5. n \in Nat /\ n + 1 \in DOMAIN buffer /\ \A i \in 1..n : i \in DOMAIN buffer
  BY <1>1, <1>4
<1>6. PICK lines : lines = SubSeq(buffer, 1, n)
  OBVIOUS
<1>7. lines \in Seq(Records) /\ DOMAIN lines = 1..n /\ \A i \in 1..n : lines[i] = buffer[i]
  BY <1>4, <1>5, <1>6
<1>8. Write(lines)
  BY <1>1, <1>6
<1>9. \A i \in DOMAIN buffer : /\ buffer[i][1] \in URLs
                               /\ buffer[i][2] # "failed" => File[buffer[i][1]] \in files
  BY <1>3, <1>4, RecordType DEF Backed, Sound
<1>10. /\ mapped' \subseteq URLs /\ joint' \subseteq URLs
       /\ \A u \in mapped' \ mapped : \E i \in DOMAIN lines : lines[i][1] = u /\ lines[i][2] # "failed"
  BY <1>4, <1>7, <1>8, WriteDoes
<1>11. \A u \in mapped' : File[u] \in files
  BY <1>3, <1>5, <1>7, <1>9, <1>10 DEF Backed, Mapped
<1>12. /\ tail' \in URLs \cup {"junk", None}
       /\ tail' \in URLs => File[tail'] \in files
  <2>1. CASE tail' = tail
    BY <1>3, <2>1 DEF TypeOK, Backed, Mapped
  <2>2. CASE tail' \in {None, "junk"}
    BY <2>2, NoneAssumption
  <2>3. CASE buffer[n + 1][2] # "failed" /\ tail' = buffer[n + 1][1]
    BY <1>5, <1>9, <2>3
  <2> QED
    BY <1>1, <2>1, <2>2, <2>3
<1>13. (\A u \in Mapped : File[u] \in files)'
  BY <1>2, <1>11, <1>12 DEF Mapped
<1>14. Shape' /\ Backed'
  BY <1>2, <1>13, StopDoes
<1>15. TypeOK'
  <2>1. todo' = {} /\ open' = FALSE
    BY <1>2 DEF Stop
  <2>2. /\ phase' \in {"idle", "downloading", "ok", "error"}
        /\ pc' \in [Workers -> {"receive", "check", "download", "rename", "send", "exit"}]
        /\ url' \in [Workers -> URLs \cup {None}]
        /\ outcome' \in [Workers -> Statuses \cup {None}]
        /\ results' \in BoundedSeq(Records, Capacity) /\ buffer' \in BoundedSeq(Records, Batch)
    BY <1>2, StopDoes
  <2>3. faults' \in 0..MaxFaults
    BY <1>2, <1>3, BoundsAssumption DEF TypeOK
  <2> QED
    BY <1>2, <1>3, <1>10, <1>12, <2>1, <2>2, <2>3 DEF TypeOK
<1>16. Going' /\ Settled'
  BY <1>2 DEF Going, Settled, Stop
<1> QED
  BY <1>14, <1>15, <1>16 DEF Kept

LEMMA StutterStep ==
  ASSUME Kept, UNCHANGED vars
  PROVE  Kept'
<1> USE DEF vars, manifest, producer, workerVars, collector, history
<1>1. TypeOK'
  BY DEF Kept, TypeOK
<1>2. Shape'
  BY DEF Kept, Shape
<1>3. Backed'
  BY DEF Kept, Backed, Sound, Mapped
<1>4. Going'
  <2>1. \A u : Reported(u) => Reported(u)'
    BY DEF Reported
  <2>2. \A u : InTransit(u) => InTransit(u)'
    BY <2>1 DEF InTransit
  <2> QED
    BY <2>1, <2>2, GoingKept DEF Kept
<1>5. Settled'
  BY DEF Kept, Settled, Mapped
<1> QED
  BY <1>1, <1>2, <1>3, <1>4, <1>5 DEF Kept

LEMMA AlwaysKept == Spec => []Kept
<1>1. Kept /\ [Next]_vars => Kept'
  <2> SUFFICES ASSUME Kept, [Next]_vars PROVE Kept'
    OBVIOUS
  <2>1. ASSUME NEW w \in Workers, WorkerStep(w) PROVE Kept'
    BY <2>1, HandStep, WorkerEndsStep, CheckStep, DownloadFailsStep, StatStep, RenameStep,
       SendStep DEF WorkerStep
  <2>2. CASE StartRun \/ Interrupt \/ Kill \/ FlushCut
    BY <2>2, StartRunStep, InterruptStep, KillStep, FlushCutStep
  <2>3. CASE ProducerEnds
    BY <2>3, ProducerEndsStep
  <2>4. CASE CollectorStep
    BY <2>4, CollectStep, FlushStep, RunEndsStep DEF CollectorStep
  <2>5. CASE UNCHANGED vars
    BY <2>5, StutterStep
  <2> QED
    BY <2>1, <2>2, <2>3, <2>4, <2>5 DEF Next
<1> QED
  BY <1>1, Start, PTL DEF Spec

-----------------------------------------------------------------------------
(* What the command promises *)

\* Every variable of the download stays in its range; in particular neither the
\* results channel nor the collector's buffer holds more than it has room for.
THEOREM TypeCorrect == Spec => []TypeOK
BY AlwaysKept, PTL DEF Kept

\* However the command is killed, interrupted or its writes are cut, and
\* however often it is run again, a URL that a complete or a last line of the
\* manifest maps has its file in media/files.
THEOREM MappedFilesThere == Spec => []MappedFilesExist
<1>1. Kept => MappedFilesExist
  BY DEF Kept, Backed, MappedFilesExist
<1> QED
  BY <1>1, AlwaysKept, PTL

\* A run of DownloadMedia that finds a whole manifest and ends by itself has
\* mapped every URL it did not fail to download: nothing is lost between
\* producer, workers, channel, buffer and batches.
THEOREM WholeManifestComplete == Spec => []WholeManifestMapsAll
<1>1. Kept => WholeManifestMapsAll
  BY DEF Kept, Settled, WholeManifestMapsAll, ManifestMapsAll
<1> QED
  BY <1>1, AlwaysKept, PTL

\* A run that finds a cut last line, whenever it was cut and by which run, leaves
\* out no URL but that of the cut line and that of the line it writes behind it,
\* for any size of batch and however many lines the run writes.
THEOREM OnlyJointsAreLost == Spec => []OnlyJointIsLost
<1>1. Kept => OnlyJointIsLost
  BY DEF Kept, Settled, OnlyJointIsLost
<1> QED
  BY <1>1, AlwaysKept, PTL
=============================================================================
