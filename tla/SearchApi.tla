----------------------------- MODULE SearchApi -----------------------------
(* The API server: searches that authenticate, pass the rate limiter, submit *)
(* a job and may wait for its end, clients that poll what they were promised *)
(* with 202, and an administrator who revokes keys.  The jobs themselves     *)
(* move as JobLifecycle says, which is what JobQueue implements.             *)
EXTENDS Naturals

CONSTANTS Requests,  \* requests with a key; a search and its job have the same name
          Keys,
          KeyOf,     \* the API key a search is made with
          Waiters,   \* searches with wait_ms > 0
          Rate, Minute, \* as in RateLimiter
          MaxFaults, \* bound: failed statements, lost answers, API restarts
          Worker, Null

ASSUME WaitersAssumption == Waiters \subseteq Requests
ASSUME FaultsAssumption == MaxFaults \in Nat
ASSUME LimitsAssumption == /\ KeyOf \in [Requests -> Keys]
                           /\ Rate \in [Keys -> Nat \ {0}]
                           /\ Minute \in Nat \ {0}
ASSUME WorkerAssumption == Worker # Null

VARIABLES
  pc,       \* how far the handler of each search is
  expired,  \* the wait_ms timer of a search has fired
  code,     \* the HTTP status it was answered with, or 0
  shown,    \* the job status its client was shown last
  revoked,  \* keys with revoked_at
  status, owner, finisher, \* scrape_jobs, as in JobLifecycle
  windows, granted,        \* as in RateLimiter
  faults

jobs == <<status, owner, finisher>>
replies == <<code, shown>>
limits == <<windows, granted>>
vars == <<pc, expired, replies, limits, revoked, jobs, faults>>

Job == INSTANCE JobLifecycle WITH Jobs <- Requests, Slots <- {Worker}
Terminal == Job!Terminal
Limiter == INSTANCE RateLimiter

TypeOK ==
  /\ pc \in [Requests -> {"new", "authenticated", "admitted", "waiting", "answered", "gone"}]
  /\ expired \in [Requests -> BOOLEAN]
  /\ code \in [Requests -> {0, 200, 202, 400, 401, 429, 500, 502}]
  /\ shown \in [Requests -> {"nothing", "queued", "running"} \cup Terminal]
  /\ Limiter!TypeOK
  /\ revoked \subseteq Keys
  /\ status \in [Requests -> {"absent", "queued", "running"} \cup Terminal]
  /\ owner \in [Requests -> {Worker, Null}] /\ finisher \in [Requests -> {Worker, Null}]
  /\ faults \in 0..MaxFaults

Init ==
  /\ pc = [r \in Requests |-> "new"]
  /\ expired = [r \in Requests |-> FALSE]
  /\ code = [r \in Requests |-> 0]
  /\ shown = [r \in Requests |-> "nothing"]
  /\ revoked = {}
  /\ Job!Init
  /\ Limiter!Init
  /\ faults = 0

-----------------------------------------------------------------------------
(* Helpers *)

Fault == faults < MaxFaults /\ faults' = faults + 1

Goto(r, where) == pc' = [pc EXCEPT ![r] = where]

Refuse(r, c) == /\ Goto(r, "answered")
                /\ code' = [code EXCEPT ![r] = c]
                /\ UNCHANGED shown

Show(r, what) == shown' = [shown EXCEPT ![r] = what]

\* Mutant: a running job is answered like a complete one.
AnswerTooGood(r, what) ==
  /\ Goto(r, "answered")
  /\ code' = [code EXCEPT ![r] = IF what = "failed" THEN 502 ELSE 200]
  /\ Show(r, what)

\* writeJobJSON, with the code writeTerminalJob gives a job that ended.
Answer(r, what) ==
  /\ Goto(r, "answered")
  /\ code' = [code EXCEPT ![r] = CASE what = "complete" -> 200
                                   [] what = "failed" -> 502
                                   [] OTHER -> 202]
  /\ Show(r, what)

-----------------------------------------------------------------------------
(* POST /v1/search, and GET /v1/history *)

\* A revoked key, or a database error: 401 either way.
Authenticate(r) ==
  /\ pc[r] = "new"
  /\ \/ /\ KeyOf[r] \notin revoked
        /\ Goto(r, "authenticated")
        /\ UNCHANGED <<replies, faults>>
     \/ KeyOf[r] \in revoked /\ Refuse(r, 401) /\ UNCHANGED faults
     \/ Fault /\ Refuse(r, 401)
  /\ UNCHANGED <<expired, limits, revoked, jobs>>

\* rateLimiter.allow
Allow(r) ==
  /\ pc[r] = "authenticated"
  /\ \/ Limiter!Pass(r) /\ Goto(r, "admitted") /\ UNCHANGED replies
     \/ Limiter!TurnAway(r) /\ Refuse(r, 429)
  /\ UNCHANGED <<expired, revoked, jobs, faults>>

\* Mutant: a refused body gives its place in the window back.
RejectBodyRefunds(r) ==
  /\ pc[r] = "admitted"
  /\ Refuse(r, 400)
  /\ windows' = [windows EXCEPT ![KeyOf[r]].count = @ - 1]
  /\ UNCHANGED <<expired, granted, revoked, jobs, faults>>

\* The body or the query is refused, after the limiter has counted it.
RejectBody(r) ==
  /\ pc[r] = "admitted"
  /\ Refuse(r, 400)
  /\ UNCHANGED <<expired, limits, revoked, jobs, faults>>

CreateJob(r) ==
  /\ pc[r] = "admitted"
  /\ Job!Submit(r)
  /\ IF r \in Waiters THEN Goto(r, "waiting") /\ UNCHANGED replies
                      ELSE Answer(r, "queued")
  /\ UNCHANGED <<expired, limits, revoked, faults>>

\* The INSERT fails, or commits and its answer is lost; the client may have
\* disconnected.
CreateJobErrs(r) ==
  /\ pc[r] = "admitted" /\ Fault
  /\ Job!Submit(r) \/ UNCHANGED jobs
  /\ Refuse(r, 500)
  /\ UNCHANGED <<expired, limits, revoked>>

\* GET /v1/history passes the same two layers, and shows no job.
History(r) ==
  /\ pc[r] = "admitted"
  /\ Goto(r, "answered")
  /\ UNCHANGED <<expired, replies, limits, revoked, jobs, faults>>

DeadlineFires(r) ==
  /\ pc[r] = "waiting" /\ ~expired[r]
  /\ expired' = [expired EXCEPT ![r] = TRUE]
  /\ UNCHANGED <<pc, replies, limits, revoked, jobs, faults>>

\* case <-ticker.C: look at the job, answer if it has ended.
TickerAnswers(r) ==
  /\ pc[r] = "waiting"
  /\ IF status[r] \in Terminal THEN Answer(r, status[r]) ELSE UNCHANGED <<pc, replies>>
  /\ UNCHANGED <<expired, limits, revoked, jobs, faults>>

\* Mutant: no return behind writeError; the loop goes on.
TickerErrsOn(r) ==
  /\ pc[r] = "waiting" /\ Fault
  /\ code' = [code EXCEPT ![r] = 500]
  /\ UNCHANGED <<pc, shown, expired, limits, revoked, jobs>>

\* The job cannot be read.
TickerErrs(r) ==
  /\ pc[r] = "waiting" /\ Fault
  /\ Refuse(r, 500)
  /\ UNCHANGED <<expired, limits, revoked, jobs>>

\* case <-deadline.C: answer with the job as it is, or, when it cannot be
\* read, as it was created.
DeadlineAnswers(r) ==
  /\ pc[r] = "waiting" /\ expired[r]
  /\ \/ Answer(r, status[r]) /\ UNCHANGED faults
     \/ Answer(r, "queued") /\ Fault
  /\ UNCHANGED <<expired, limits, revoked, jobs>>

\* case <-r.Context().Done()
Disconnect(r) ==
  /\ pc[r] = "waiting"
  /\ Goto(r, "gone")
  /\ UNCHANGED <<expired, replies, limits, revoked, jobs, faults>>

-----------------------------------------------------------------------------
(* GET /v1/jobs/{id}, by a client that was answered 202 *)

\* Mutant: the answer to a poll is cached.
PollCached(r) ==
  /\ code[r] = 202 /\ KeyOf[r] \notin revoked
  /\ Show(r, shown[r])
  /\ UNCHANGED <<pc, expired, code, limits, revoked, jobs, faults>>

\* Authorized and read in one statement; 404 changes nothing the client knows.
PollJob(r) ==
  /\ code[r] = 202 /\ KeyOf[r] \notin revoked
  /\ Show(r, status[r])
  /\ UNCHANGED <<pc, expired, code, limits, revoked, jobs, faults>>

-----------------------------------------------------------------------------
(* The administrator, time, the process, the workers *)

RevokeAPIKey(k) ==
  /\ revoked' = revoked \cup {k}
  /\ UNCHANGED <<pc, expired, replies, limits, jobs, faults>>

Tick == Limiter!Tick /\ UNCHANGED <<pc, expired, replies, revoked, jobs, faults>>

\* The rate limiter's memory and the searches in flight go with the process;
\* Shutdown waits 10 s for them, a search may wait 30 s.
RestartApi ==
  /\ Fault
  /\ Limiter!Forget
  /\ pc' = [r \in Requests |-> IF pc[r] \in {"authenticated", "admitted", "waiting"}
                                 THEN "gone" ELSE pc[r]]
  /\ UNCHANGED <<expired, replies, revoked, jobs>>

JobStarts(r) == Job!Start(r, Worker) /\ UNCHANGED <<pc, expired, replies, limits, revoked, faults>>
JobGivenBack(r) == Job!GiveBack({r}) /\ UNCHANGED <<pc, expired, replies, limits, revoked, faults>>
JobEnds(r) == /\ \E outcome \in Terminal : Job!End(r, outcome)
              /\ UNCHANGED <<pc, expired, replies, limits, revoked, faults>>

-----------------------------------------------------------------------------
Handle(r) == \/ Authenticate(r) \/ Allow(r) \/ RejectBody(r)
             \/ CreateJob(r) \/ CreateJobErrs(r) \/ History(r)

Wait(r) == \/ DeadlineFires(r) \/ TickerAnswers(r) \/ TickerErrs(r)
           \/ DeadlineAnswers(r) \/ Disconnect(r)

Next == \/ \E r \in Requests : \/ Handle(r) \/ Wait(r) \/ PollJob(r)
                               \/ JobStarts(r) \/ JobGivenBack(r) \/ JobEnds(r)
        \/ \E k \in Keys : RevokeAPIKey(k)
        \/ Tick \/ RestartApi

Spec == Init /\ [][Next]_vars

\* Timers fire.  When the ticker and the deadline are both ready, select takes
\* either at random, so a deadline that stays ready is taken in the end.
\* Clients go on polling, and jobs end (JobQueue's EveryJobEnds).
Fairness == \A r \in Requests :
  /\ WF_vars(DeadlineFires(r)) /\ WF_vars(DeadlineAnswers(r))
  /\ WF_vars(PollJob(r))
  /\ WF_vars(JobStarts(r)) /\ SF_vars(JobEnds(r))

LiveSpec == Spec /\ Fairness

-----------------------------------------------------------------------------
(* Properties *)

\* An outcome that a client was shown, as a code or in a body, is the job's
\* outcome and stays it: whatever races between ticker, deadline, requeue and
\* worker, no client is told "complete" or "failed" of a job that is not.
OutcomeStands ==
  \A r \in Requests : /\ shown[r] \in Terminal => status[r] = shown[r]
                      /\ code[r] = 200 => status[r] = "complete"
                      /\ code[r] = 502 => status[r] = "failed"

\* Each search is counted once, and nothing but searches, time and restarts
\* moves the windows: the limiter inside the API is RateLimiter, and what is
\* proved of RateLimiter holds here.
UsesLimiter == Limiter!Spec

\* A search is answered once.  Whatever of ticker, deadline, failed read and end
\* of the job come together, no second status follows the first one, and only
\* a client that was answered 202 is shown anything more, by its polls.
OneAnswer ==
  [][\A r \in Requests : code[r] # 0 =>
       /\ code'[r] = code[r]
       /\ shown'[r] # shown[r] => code[r] = 202]_vars

\* The client of a waiting search learns how its job ended: from the answer,
\* although the ticker is ready again and again when the deadline fires, or by
\* polling after a 202.  Except when it or the server goes away while it waits,
\* when it is answered 500, or when its key is revoked.
EveryClientLearns ==
  \A r \in Requests :
    pc[r] = "waiting" \/ code[r] = 202
      ~> shown[r] \in Terminal \/ pc[r] = "gone" \/ code[r] = 500 \/ KeyOf[r] \in revoked
=============================================================================
