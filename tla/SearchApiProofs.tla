-------------------------- MODULE SearchApiProofs --------------------------
(* What a client is told, for every number of searches, keys and faults.     *)
EXTENDS SearchApi, TLAPS

Statuses == {"absent", "queued", "running"} \cup Terminal

\* The part of TypeOK that concerns what was shown.
ReplyTypes == /\ status \in [Requests -> Statuses]
              /\ code \in [Requests -> {0, 200, 202, 400, 401, 429, 500, 502}]
              /\ shown \in [Requests -> {"nothing", "queued", "running", "absent"} \cup Terminal]

Told == ReplyTypes /\ OutcomeStands

\* A step that shows nobody anything, and ends no job twice.
JobStep == \/ \E r \in Requests : Job!Start(r, Worker)
           \/ \E r \in Requests : Job!GiveBack({r})
           \/ \E r \in Requests, outcome \in Terminal : Job!End(r, outcome)
           \/ \E r \in Requests : Job!Submit(r)
           \/ UNCHANGED status

\* A job that has ended keeps its outcome.
LEMMA EndedStays ==
  ASSUME ReplyTypes, JobStep
  PROVE  /\ status' \in [Requests -> Statuses]
         /\ \A r \in Requests : status[r] \in Terminal => status'[r] = status[r]
BY DEF ReplyTypes, JobStep, Statuses, Terminal, Job!Terminal,
       Job!Start, Job!GiveBack, Job!End, Job!Submit

\* The answers that show no job.
Refusal == \E r \in Requests, c \in {400, 401, 429, 500} : Refuse(r, c)

LEMMA ToldByRefusal ==
  ASSUME Told, JobStep, Refusal \/ UNCHANGED replies
  PROVE  Told'
<1>1. /\ status' \in [Requests -> Statuses]
      /\ \A r \in Requests : status[r] \in Terminal => status'[r] = status[r]
  BY EndedStays DEF Told
<1>2. shown' = shown
  BY DEF Refusal, Refuse, replies
<1>3. /\ code' \in [Requests -> {0, 200, 202, 400, 401, 429, 500, 502}]
      /\ \A r \in Requests : code'[r] \in {200, 502} => code'[r] = code[r]
  BY DEF Refusal, Refuse, replies, Told, ReplyTypes
<1> QED
  BY <1>1, <1>2, <1>3 DEF Told, ReplyTypes, OutcomeStands, Terminal, Job!Terminal

\* An answer that shows the row as it is, or as it was created.
LEMMA ToldByAnswer ==
  ASSUME Told, NEW r \in Requests, NEW what \in {"queued", status[r]},
         Answer(r, what), JobStep, status'[r] \in Terminal => status[r] = status'[r]
  PROVE  Told'
<1>1. /\ status' \in [Requests -> Statuses]
      /\ \A q \in Requests : status[q] \in Terminal => status'[q] = status[q]
  BY EndedStays DEF Told
<1>2. what \in Statuses
  BY DEF Told, ReplyTypes, Statuses
<1>3. /\ code' \in [Requests -> {0, 200, 202, 400, 401, 429, 500, 502}]
      /\ shown' = [shown EXCEPT ![r] = what]
      /\ shown' \in [Requests -> {"nothing", "queued", "running", "absent"} \cup Terminal]
      /\ \A q \in Requests \ {r} : code'[q] = code[q] /\ shown'[q] = shown[q]
      /\ shown'[r] = what
      /\ code'[r] = 200 => what = "complete"
      /\ code'[r] = 502 => what = "failed"
  BY <1>2 DEF Answer, Show, Told, ReplyTypes, Statuses
<1>4. what \in Terminal => status'[r] = what
  BY <1>1, "queued" \notin Terminal DEF Terminal, Job!Terminal
<1> QED
  BY <1>1, <1>3, <1>4 DEF Told, ReplyTypes, OutcomeStands, Terminal, Job!Terminal

LEMMA ToldInit == Init => Told
BY DEF Init, Job!Init, Told, ReplyTypes, Statuses, OutcomeStands, Terminal, Job!Terminal

\* One step per kind of action: those that refuse or say nothing, those that
\* answer with a job, and the poll.
LEMMA ToldStep == Told /\ [Next]_vars => Told'
<1> SUFFICES ASSUME Told, [Next]_vars PROVE Told'
  OBVIOUS
<1>1. CASE UNCHANGED vars
  BY <1>1, ToldByRefusal DEF vars, jobs, JobStep
<1>2. CASE \/ Tick \/ RestartApi \/ \E k \in Keys : RevokeAPIKey(k)
  BY <1>2, ToldByRefusal DEF Tick, RestartApi, RevokeAPIKey, jobs, JobStep
<1>3. ASSUME NEW r \in Requests, JobStarts(r) \/ JobGivenBack(r) \/ JobEnds(r)
      PROVE  Told'
  <2>1. JobStep
    BY <1>3 DEF JobStarts, JobGivenBack, JobEnds, JobStep
  <2> QED
    BY <1>3, <2>1, ToldByRefusal DEF JobStarts, JobGivenBack, JobEnds
<1>4. ASSUME NEW r \in Requests, Handle(r)
      PROVE  Told'
  <2>1. CASE Authenticate(r) \/ Allow(r) \/ RejectBody(r) \/ History(r)
    <3>1. (\E c \in {400, 401, 429, 500} : Refuse(r, c)) \/ UNCHANGED replies
      BY <2>1 DEF Authenticate, Allow, RejectBody, History
    <3>2. UNCHANGED status
      BY <2>1 DEF Authenticate, Allow, RejectBody, History, jobs
    <3> QED
      BY <3>1, <3>2, ToldByRefusal DEF Refusal, JobStep
  <2>2. CASE CreateJob(r)
    <3>1. Job!Submit(r) /\ JobStep
      BY <2>2 DEF CreateJob, JobStep
    <3>2. status'[r] \notin Terminal
      BY <3>1 DEF Job!Submit, Told, ReplyTypes, Terminal, Job!Terminal
    <3>3. UNCHANGED replies \/ Answer(r, "queued")
      BY <2>2 DEF CreateJob
    <3> QED
      BY <3>1, <3>2, <3>3, ToldByRefusal, ToldByAnswer
  <2>3. CASE CreateJobErrs(r)
    <3>1. JobStep
      BY <2>3 DEF CreateJobErrs, jobs, JobStep
    <3>2. Refusal
      BY <2>3 DEF CreateJobErrs, Refusal
    <3> QED
      BY <3>1, <3>2, ToldByRefusal
  <2> QED
    BY <1>4, <2>1, <2>2, <2>3 DEF Handle
<1>5. ASSUME NEW r \in Requests, Wait(r)
      PROVE  Told'
  <2>1. UNCHANGED status /\ JobStep
    BY <1>5 DEF Wait, DeadlineFires, TickerAnswers, TickerErrs,
                DeadlineAnswers, Disconnect, jobs, JobStep
  <2>2. CASE DeadlineFires(r) \/ Disconnect(r) \/ TickerErrs(r)
    <3>1. Refusal \/ UNCHANGED replies
      BY <2>2 DEF DeadlineFires, Disconnect, TickerErrs, Refusal
    <3> QED
      BY <2>1, <3>1, ToldByRefusal
  <2>3. CASE TickerAnswers(r) \/ DeadlineAnswers(r)
    <3>1. Answer(r, status[r]) \/ Answer(r, "queued") \/ UNCHANGED replies
      BY <2>3 DEF TickerAnswers, DeadlineAnswers
    <3> QED
      BY <2>1, <3>1, ToldByRefusal, ToldByAnswer
  <2> QED
    BY <1>5, <2>2, <2>3 DEF Wait
<1>6. ASSUME NEW r \in Requests, PollJob(r)
      PROVE  Told'
  BY <1>6 DEF PollJob, Show, jobs, Told, ReplyTypes, Statuses, OutcomeStands
<1> QED
  BY <1>1, <1>2, <1>3, <1>4, <1>5, <1>6 DEF Next

\* No client is told an outcome that is not, and stays not, its job's outcome:
\* whatever races between ticker, deadline, poll, requeue and worker
\* (server.go search and job, store.go FailJob and CompleteJob).
THEOREM OutcomesStand == Spec => []OutcomeStands
<1>1. Told => OutcomeStands
  BY DEF Told
<1> QED
  BY ToldInit, ToldStep, <1>1, PTL DEF Spec

-----------------------------------------------------------------------------
(* One answer for each search *)

\* What has been answered is over for its handler.
Over == \A r \in Requests : code[r] # 0 => pc[r] = "answered"

Answered == Told /\ Over /\ pc \in [Requests -> {"new", "authenticated", "admitted",
                                               "waiting", "answered", "gone"}]

\* A search that has been answered is left alone, but for polls.
Once == \A r \in Requests : code[r] # 0 =>
          /\ code'[r] = code[r] /\ pc'[r] = pc[r]
          /\ shown'[r] # shown[r] => code[r] = 202

LEMMA HandlersKeep ==
  ASSUME Answered, NEW r \in Requests, pc[r] # "answered",
         NEW where \in {"authenticated", "admitted", "waiting", "answered", "gone"},
         Goto(r, where),
         \/ UNCHANGED replies
         \/ where = "answered" /\ \A q \in Requests \ {r} : code'[q] = code[q] /\ shown'[q] = shown[q]
  PROVE  /\ Over' /\ Once
         /\ pc' \in [Requests -> {"new", "authenticated", "admitted", "waiting", "answered", "gone"}]
BY DEF Answered, Over, Once, Goto, replies

LEMMA RefuseKeeps ==
  ASSUME Told, NEW r \in Requests, NEW c, Refuse(r, c)
  PROVE  /\ Goto(r, "answered")
         /\ \A q \in Requests \ {r} : code'[q] = code[q] /\ shown'[q] = shown[q]
BY DEF Refuse, Told, ReplyTypes

LEMMA AnswerKeeps ==
  ASSUME Told, NEW r \in Requests, NEW what, Answer(r, what)
  PROVE  /\ Goto(r, "answered")
         /\ \A q \in Requests \ {r} : code'[q] = code[q] /\ shown'[q] = shown[q]
BY DEF Answer, Show, Told, ReplyTypes

LEMMA AnsweredInit == Init => Answered
BY ToldInit DEF Init, Answered, Over

LEMMA AnsweredStep ==
  ASSUME Answered, [Next]_vars
  PROVE  Answered' /\ Once
<1> DEFINE Goal == /\ Over' /\ Once
                   /\ pc' \in [Requests -> {"new", "authenticated", "admitted", "waiting",
                                            "answered", "gone"}]
<1>1. Told /\ Told'
  BY ToldStep DEF Answered
<1>2. ASSUME UNCHANGED <<pc, replies>> PROVE Goal
  BY <1>2 DEF Answered, Over, Once, replies
<1>3. ASSUME RestartApi PROVE Goal
  BY <1>3 DEF RestartApi, Answered, Over, Once, replies
<1>4. ASSUME NEW r \in Requests, Handle(r)
      PROVE  Goal
  <2>1. pc[r] \in {"new", "authenticated", "admitted"}
    BY <1>4 DEF Handle, Authenticate, Allow, RejectBody, CreateJob, CreateJobErrs, History
  <2>2. \/ \E c \in {400, 401, 429, 500} : Refuse(r, c)
        \/ Answer(r, "queued")
        \/ UNCHANGED replies /\ \E where \in {"authenticated", "admitted", "waiting", "answered"} :
                                   Goto(r, where)
    BY <1>4 DEF Handle, Authenticate, Allow, RejectBody, CreateJob, CreateJobErrs, History
  <2> HIDE DEF Goal
  <2>3. ASSUME NEW c, Refuse(r, c) PROVE Goal
    BY <1>1, <2>1, <2>3, RefuseKeeps, HandlersKeep DEF Goal
  <2>4. CASE Answer(r, "queued")
    BY <1>1, <2>1, <2>4, AnswerKeeps, HandlersKeep DEF Goal
  <2>5. ASSUME NEW where \in {"authenticated", "admitted", "waiting", "answered"},
               Goto(r, where), UNCHANGED replies
        PROVE  Goal
    BY <2>1, <2>5, HandlersKeep DEF Goal
  <2> QED
    BY <2>2, <2>3, <2>4, <2>5
<1>5. ASSUME NEW r \in Requests, Wait(r)
      PROVE  Goal
  <2>1. pc[r] = "waiting"
    BY <1>5 DEF Wait, DeadlineFires, TickerAnswers, TickerErrs, DeadlineAnswers, Disconnect
  <2>2. \/ Refuse(r, 500)
        \/ \E what \in {"queued", status[r]} : Answer(r, what)
        \/ UNCHANGED replies /\ Goto(r, "gone")
        \/ UNCHANGED <<pc, replies>>
    BY <1>5 DEF Wait, DeadlineFires, TickerAnswers, TickerErrs, DeadlineAnswers, Disconnect
  <2> HIDE DEF Goal
  <2>3. CASE Refuse(r, 500)
    BY <1>1, <2>1, <2>3, RefuseKeeps, HandlersKeep DEF Goal
  <2>4. ASSUME NEW what, Answer(r, what) PROVE Goal
    BY <1>1, <2>1, <2>4, AnswerKeeps, HandlersKeep DEF Goal
  <2>5. CASE UNCHANGED replies /\ Goto(r, "gone")
    BY <2>1, <2>5, HandlersKeep DEF Goal
  <2>6. CASE UNCHANGED <<pc, replies>>
    BY <1>2, <2>6
  <2> QED
    BY <2>2, <2>3, <2>4, <2>5, <2>6
<1>6. ASSUME NEW r \in Requests, PollJob(r)
      PROVE  Goal
  BY <1>6 DEF PollJob, Show, Answered, Told, ReplyTypes, Over, Once
<1>7. ASSUME NEW r \in Requests, JobStarts(r) \/ JobGivenBack(r) \/ JobEnds(r)
      PROVE  UNCHANGED <<pc, replies>>
  BY <1>7 DEF JobStarts, JobGivenBack, JobEnds
<1>8. ASSUME Tick \/ (\E k \in Keys : RevokeAPIKey(k)) \/ UNCHANGED vars
      PROVE  UNCHANGED <<pc, replies>>
  BY <1>8 DEF Tick, RevokeAPIKey, vars
<1>9. Goal
  <2> HIDE DEF Goal
  <2> QED
    BY <1>2, <1>3, <1>4, <1>5, <1>6, <1>7, <1>8 DEF Next
<1> QED
  BY <1>1, <1>9 DEF Answered

\* A search is answered once, whatever comes together while it waits, and only
\* polls show its client anything more (server.go search).
THEOREM AnsweredOnce == Spec => OneAnswer
<1> DEFINE Single == \A r \in Requests : code[r] # 0 =>
                       /\ code'[r] = code[r]
                       /\ shown'[r] # shown[r] => code[r] = 202
<1>1. Answered /\ [Next]_vars => Answered' /\ [Single]_vars
  BY AnsweredStep DEF Once
<1>2. Spec => [][Single]_vars
  BY <1>1, AnsweredInit, PTL DEF Spec
<1> QED
  BY <1>2 DEF OneAnswer

-----------------------------------------------------------------------------
(* The limiter in the API *)

\* A search is counted when its handler passes the limiter, not before.
Uncounted == /\ granted \in [Requests -> 0..Minute]
             /\ pc \in [Requests -> {"new", "authenticated", "admitted", "waiting", "answered", "gone"}]
             /\ \A r \in Requests : pc[r] \in {"new", "authenticated"} => granted[r] = Minute

LEMMA UncountedInit == Init => Uncounted
BY LimitsAssumption DEF Init, Limiter!Init, Uncounted

\* Away from the limiter, a handler only moves on.
HandlerMoves ==
  /\ UNCHANGED limits
  /\ \E r \in Requests, where \in {"authenticated", "admitted", "waiting", "answered", "gone"} :
       Goto(r, where) /\ (where = "authenticated" => pc[r] = "new")

LEMMA LimitedSteps ==
  ASSUME [Next]_vars
  PROVE  \/ \E r \in Requests : Allow(r)
         \/ Tick \/ RestartApi
         \/ HandlerMoves
         \/ UNCHANGED <<pc, limits>>
<1>1. CASE UNCHANGED vars
  BY <1>1 DEF vars
<1>2. ASSUME NEW r \in Requests, Handle(r), ~Allow(r)
      PROVE  HandlerMoves
  <2>1. CASE Authenticate(r)
    BY <2>1 DEF Authenticate, Refuse, HandlerMoves
  <2>2. CASE RejectBody(r) \/ CreateJob(r) \/ CreateJobErrs(r) \/ History(r)
    BY <2>2 DEF RejectBody, CreateJob, CreateJobErrs, History, Refuse, Answer, HandlerMoves
  <2> QED
    BY <1>2, <2>1, <2>2 DEF Handle
<1>3. ASSUME NEW r \in Requests, Wait(r)
      PROVE  HandlerMoves \/ UNCHANGED <<pc, limits>>
  BY <1>3 DEF Wait, DeadlineFires, TickerAnswers, TickerErrs, DeadlineAnswers, Disconnect,
              Refuse, Answer, HandlerMoves
<1>4. ASSUME NEW r \in Requests, PollJob(r) \/ JobStarts(r) \/ JobGivenBack(r) \/ JobEnds(r)
      PROVE  UNCHANGED <<pc, limits>>
  BY <1>4 DEF PollJob, JobStarts, JobGivenBack, JobEnds
<1>5. ASSUME NEW k \in Keys, RevokeAPIKey(k)
      PROVE  UNCHANGED <<pc, limits>>
  BY <1>5 DEF RevokeAPIKey
<1> QED
  BY <1>1, <1>2, <1>3, <1>4, <1>5 DEF Next

LEMMA UncountedStep == Uncounted /\ [Next]_vars => Uncounted'
<1> SUFFICES ASSUME Uncounted, [Next]_vars PROVE Uncounted'
  OBVIOUS
<1>1. CASE \E r \in Requests : Allow(r)
  BY <1>1, LimitsAssumption DEF Allow, Limiter!Pass, Limiter!TurnAway, Limiter!limits, Refuse, Goto, Uncounted
<1>2. CASE Tick
  BY <1>2, LimitsAssumption DEF Tick, Limiter!Tick, Limiter!Older, Uncounted
<1>3. CASE RestartApi
  BY <1>3, LimitsAssumption DEF RestartApi, Limiter!Forget, Uncounted
<1>4. CASE HandlerMoves
  BY <1>4 DEF HandlerMoves, Goto, limits, Uncounted
<1>5. CASE UNCHANGED <<pc, limits>>
  BY <1>5 DEF limits, Uncounted
<1> QED
  BY <1>1, <1>2, <1>3, <1>4, <1>5, LimitedSteps

\* The limiter in the API is RateLimiter (server.go withAPIKey and allow): its
\* theorems BurstsBounded and RetryAfterHonest are about the API as well.
THEOREM ApiUsesLimiter == Spec => UsesLimiter
<1>1. Init => Limiter!Init
  BY DEF Init
<1>2. Uncounted /\ [Next]_vars => [Limiter!Next]_(Limiter!limits)
  <2> SUFFICES ASSUME Uncounted, [Next]_vars PROVE [Limiter!Next]_(Limiter!limits)
    OBVIOUS
  <2>1. ASSUME NEW r \in Requests, Allow(r)
        PROVE  Limiter!Next
    <3>1. granted[r] >= Minute
      BY <2>1, LimitsAssumption DEF Allow, Uncounted
    <3>2. Limiter!Pass(r) \/ Limiter!TurnAway(r)
      BY <2>1 DEF Allow
    <3> QED
      BY <3>1, <3>2 DEF Limiter!Next
  <2>2. CASE Tick \/ RestartApi
    BY <2>2 DEF Tick, RestartApi, Limiter!Next
  <2>3. CASE UNCHANGED limits
    BY <2>3 DEF limits, Limiter!limits
  <2> QED
    BY <2>1, <2>2, <2>3, LimitedSteps DEF HandlerMoves, limits
<1> QED
  BY <1>1, <1>2, UncountedInit, UncountedStep, PTL DEF Spec, UsesLimiter, Limiter!Spec
=============================================================================
