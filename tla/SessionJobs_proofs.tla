------------------------- MODULE SessionJobs_proofs -------------------------
(***************************************************************************)
(* Proofs about SessionJobs for any number of requests, rows, attempts and *)
(* crashes.  The inductive invariant says what an actor knows at each of   *)
(* its awaits that no other actor takes away: the row it holds, the answer *)
(* it has found, the result its agent has stored.  The lifecycle of the    *)
(* session and its stage are no part of it: nothing that is proved here    *)
(* relies on either.                                                       *)
(***************************************************************************)
EXTENDS SessionJobs, TLAPS

\* Only a request for a job gets beyond the row of the session.
Asking == {"fitting", "misfitting", "touching", "replaying", "staging", "staged"}
Asked == \A h \in Handlers : at[h] \in Asking => ask[h].what \in JobType

\* One row for every job type and key.
UniqueKeys ==
    \A i, j \in Steps :
        /\ job[i] # "none" /\ job[j] # "none"
        /\ type[i] = type[j] /\ key[i] = key[j] /\ key[i] # "none"
        => i = j

\* An answer is the row of what was asked for.
AnswerFits(h) ==
    /\ at[h] \notin {"replaying", "answered"} => answer[h] = 0
    /\ answer[h] # 0 =>
          /\ job[answer[h]] # "none"
          /\ type[answer[h]] = ask[h].what /\ key[answer[h]] = ask[h].key
Answered == \A h \in Handlers : AnswerFits(h)

Working == WorkerAt \ {"down", "recovering", "polling"}
Entered == {"starting", "started", "saving", "recording", "saved", "marking"}

\* The worker's job has its row, its strategy if it is a generation that has
\* begun, and its result once it is stored.
Holding ==
    /\ at[Worker] \in Working => mine \in Steps /\ job[mine] # "none"
    /\ at[Worker] \in Entered => type[mine] = "strategy" \/ strategy
    /\ at[Worker] \in {"recording", "saved", "marking"} =>
          IF type[mine] = "strategy" THEN strategy ELSE notes
    /\ at[Worker] = "deriving" => strategy

\* A job that may be leased again has an attempt left.
AttemptsLeft ==
    \A j \in Steps :
        /\ attempts[j] <= MaxAttempts
        /\ job[j] \in {"none", "queued", "paused", "retrying"} => attempts[j] < MaxAttempts

IInv == SessionTypeOK /\ Asked /\ UniqueKeys /\ Answered /\ Holding
        /\ ResultsAreStored /\ AttemptsLeft

----------------------------------------------------------------------------
(* Types *)

LEMMA Apart == Worker \notin Handlers /\ Actors = Handlers \cup {Worker}
  BY SessionAssumption DEF Actors

\* What an actor's own await leaves of the types of the places.
Places ==
    /\ at \in [Actors -> HandlerAt \cup WorkerAt]
    /\ at[Worker] \in WorkerAt /\ \A h \in Handlers : at[h] \in HandlerAt
    /\ get \in [Actors -> {"row", "count", "write", "done"}]
    /\ verdict \in [Actors -> Life]

LEMMA HandlerAwaits ==
    ASSUME Places, NEW h \in Handlers, NEW place \in HandlerAt, Await(h, place)
    PROVE  Places' /\ at' = [at EXCEPT ![h] = place]
  BY Apart DEF Places, Await, Life

LEMMA WorkerAwaits ==
    ASSUME Places, NEW place \in WorkerAt, Await(Worker, place)
    PROVE  Places' /\ at' = [at EXCEPT ![Worker] = place]
  BY Apart DEF Places, Await, Life

LEMMA GetPlaces ==
    ASSUME Places, NEW a \in Actors, GetSession(a)
    PROVE  Places' /\ UNCHANGED at
  <1>1. Level(idle) \in Life
    BY DEF Level, Life
  <1>2. CASE ReadSession(a)
    BY <1>1, <1>2, Apart DEF ReadSession, Places
  <1>3. CASE CountActiveJobs(a)
    BY <1>3, Apart DEF CountActiveJobs, Places, Life
  <1>4. CASE WriteLifecycle(a)
    BY <1>4, Apart DEF WriteLifecycle, Places, Life
  <1> QED BY <1>2, <1>3, <1>4 DEF GetSession

LEMMA PlacesKept ==
    ASSUME Places, [Next]_vars
    PROVE  Places'
  <1> USE DEF HandlerAt, WorkerAt, Actors
  <1>1. ASSUME NEW h \in Handlers, NEW r \in Requests, Send(h, r) PROVE Places'
    BY <1>1, HandlerAwaits DEF Send
  <1>2. ASSUME NEW h \in Handlers, HandlerStep(h) PROVE Places'
    <2>1. CASE GetSession(h)
      BY <2>1, GetPlaces
    <2>2. CASE Load(h)
      BY <2>2, HandlerAwaits DEF Load, Close, Proceed
    <2>3. CASE LookUp(h)
      BY <2>3, HandlerAwaits DEF LookUp, Close, Proceed
    <2>4. CASE Touch(h) \/ WriteStage(h) \/ EnqueueAsked(h)
      BY <2>4, HandlerAwaits DEF Touch, WriteStage, EnqueueAsked, Answer, Proceed
    <2>5. CASE Revive(h) \/ ResumePaused(h)
      BY <2>5, HandlerAwaits DEF Revive, ResumePaused, Close, Proceed
    <2> QED BY <1>2, <2>1, <2>2, <2>3, <2>4, <2>5 DEF HandlerStep
  <1>3. CASE WorkerStep
    <2>1. CASE GetSession(Worker)
      BY <2>1, GetPlaces
    <2>2. CASE Recover \/ LeaseOne \/ CheckSession \/ Enter \/ Start
      BY <2>2, WorkerAwaits DEF Recover, LeaseOne, CheckSession, Enter, Start, Next1, Go
    <2>3. CASE WriteFailed \/ Outcome \/ SaveData \/ WriteResult
      BY <2>3, WorkerAwaits DEF WriteFailed, Outcome, SaveData, WriteResult, Next1, Go
    <2>4. CASE CheckCancelled \/ Succeed \/ Derive \/ Raise \/ Reschedule \/ Mourn \/ Bury
      BY <2>4, WorkerAwaits
      DEF CheckCancelled, Succeed, Derive, Raise, Reschedule, Mourn, Bury, Next1, Free, Go
    <2> QED BY <1>3, <2>1, <2>2, <2>3, <2>4 DEF WorkerStep
  <1>4. CASE Restart
    BY <1>4, WorkerAwaits DEF Restart, Next1, Go
  <1>5. CASE Crash
    BY <1>5, Apart DEF Crash, Places, Life
  <1>6. ASSUME NEW c \in Commands, CommandSession(c) \/ \E j \in Steps : CommandJob(c, j)
        PROVE Places'
    BY <1>6 DEF CommandSession, CommandJob, actorVars, Places
  <1>7. CASE Tick \/ UNCHANGED vars
    BY <1>7 DEF Tick, vars, actorVars, Places
  <1> QED BY <1>1, <1>2, <1>3, <1>4, <1>5, <1>6, <1>7 DEF Next

\* The types of the rows.
Rows ==
    /\ JobStoreTypeOK
    /\ life \in Life /\ idle \in 0..4 /\ stage \in Stage
    /\ strategy \in BOOLEAN /\ notes \in BOOLEAN
    /\ type \in [Steps -> JobType] /\ key \in [Steps -> KeyValue]

LEMMA JobMoves ==
    ASSUME JobStoreTypeOK
    PROVE  /\ \A from, to : to \in JobStatus /\ JobsFrom(from, to)
                 => job' \in [Steps -> JobStatus]
           /\ \A j \in Steps : Lease(j) => JobStoreTypeOK'
           /\ \A j : MarkSucceeded(j) \/ MarkFailed(j) \/ ScheduleRetry(j) => JobStoreTypeOK'
           /\ \A j : PauseJob(j) \/ ResumeJob(j) \/ CancelJob(j) => JobStoreTypeOK'
           /\ \A E : RecoverExpired(E) => JobStoreTypeOK'
  <1> USE TemplateAssumption DEF JobStoreTypeOK, JobStatus, Terminated, Steps
  <1>1. \A from, to : to \in JobStatus /\ JobsFrom(from, to) => job' \in [Steps -> JobStatus]
    BY DEF JobsFrom
  <1>2. \A j \in Steps : Lease(j) => JobStoreTypeOK'
    BY DEF Lease
  <1>3. \A j : MarkSucceeded(j) \/ MarkFailed(j) \/ ScheduleRetry(j) => JobStoreTypeOK'
    BY DEF MarkSucceeded, MarkFailed, ScheduleRetry
  <1>4. \A j : PauseJob(j) \/ ResumeJob(j) \/ CancelJob(j) => JobStoreTypeOK'
    BY DEF PauseJob, ResumeJob, CancelJob
  <1>5. \A E : RecoverExpired(E) => JobStoreTypeOK'
    BY DEF RecoverExpired
  <1> QED BY <1>1, <1>2, <1>3, <1>4, <1>5

LEMMA InsertTypes ==
    ASSUME Rows, NEW t \in JobType, NEW k \in KeyValue, NEW j, EnqueueJob(t, k, j)
    PROVE  JobStoreTypeOK' /\ type' \in [Steps -> JobType] /\ key' \in [Steps -> KeyValue]
  BY DEF Rows, EnqueueJob, Enqueue, JobStoreTypeOK, JobStatus, tableVars

LEMMA RowsKept ==
    ASSUME SessionTypeOK, Asked, [Next]_vars
    PROVE  Rows'
  <1> USE DEF Rows, sessionVars, tableVars, StageOnly
  <1>0. Rows /\ JobStoreTypeOK
    BY DEF SessionTypeOK
  <1>1. ASSUME NEW h \in Handlers, NEW r \in Requests, Send(h, r) PROVE Rows'
    BY <1>0, <1>1 DEF Send, Read, dbVars, JobStoreTypeOK
  <1>2. ASSUME NEW a \in Actors, GetSession(a) PROVE Rows'
    <2>1. CASE ReadSession(a) \/ CountActiveJobs(a)
      BY <1>0, <2>1 DEF ReadSession, CountActiveJobs, Read, dbVars, JobStoreTypeOK
    <2>2. CASE WriteLifecycle(a)
      <3>1. verdict[a] \in Life
        BY DEF SessionTypeOK
      <3>2. job' \in [Steps -> JobStatus]
        BY <1>0, <2>2, JobMoves DEF WriteLifecycle, JobStatus, Terminated, JobStoreTypeOK
      <3> QED BY <1>0, <2>2, <3>1, <3>2 DEF WriteLifecycle, JobStoreTypeOK
    <2> QED BY <1>2, <2>1, <2>2 DEF GetSession
  <1>3. ASSUME NEW h \in Handlers, HandlerStep(h) PROVE Rows'
    <2>1. CASE GetSession(h)
      BY <1>2, <2>1 DEF Actors
    <2>2. CASE Load(h) \/ LookUp(h)
      BY <1>0, <2>2 DEF Load, LookUp, Read, dbVars, JobStoreTypeOK
    <2>3. CASE Touch(h) \/ WriteStage(h) \/ Revive(h)
      BY <1>0, <2>3 DEF Touch, WriteStage, Revive, NextStage, Stage, Life, JobStoreTypeOK
    <2>4. CASE EnqueueAsked(h)
      <3>1. ask[h].what \in JobType /\ ask[h].key \in KeyValue
        BY <2>4 DEF EnqueueAsked, At, Asked, Asking, SessionTypeOK, Ask, KeyValue
      <3> QED BY <1>0, <2>4, <3>1, InsertTypes DEF EnqueueAsked
    <2>5. CASE ResumePaused(h)
      BY <1>0, <2>5, JobMoves DEF ResumePaused, JobStatus, JobStoreTypeOK
    <2> QED BY <1>3, <2>1, <2>2, <2>3, <2>4, <2>5 DEF HandlerStep
  <1>4. ASSUME NEW c \in Commands PROVE CommandSession(c) => Rows'
    BY <1>0, JobMoves DEF CommandSession, JobStatus, Terminated, JobStoreTypeOK
  <1>5. ASSUME NEW c \in Commands, NEW j \in Steps PROVE CommandJob(c, j) => Rows'
    BY <1>0, JobMoves DEF CommandJob
  <1>6. CASE WorkerStep
    <2>1. CASE GetSession(Worker)
      BY <1>2, <2>1 DEF Actors
    <2>2. CASE Recover \/ LeaseOne
      BY <1>0, <2>2, JobMoves DEF Recover, LeaseOne, LeaseNext
    <2>3. CASE CheckSession \/ Enter \/ Outcome \/ CheckCancelled \/ Raise \/ Mourn
      BY <1>0, <2>3 DEF CheckSession, Enter, Outcome, CheckCancelled, Raise, Mourn,
                        Read, dbVars, JobStoreTypeOK
    <2>4. CASE WriteFailed \/ Start \/ WriteResult
      BY <1>0, <2>4 DEF WriteFailed, Start, WriteResult, NextStage, Stage, JobStoreTypeOK
    <2>5. CASE SaveData
      <3>1. strategy' \in BOOLEAN /\ notes' \in BOOLEAN
        BY <1>0, <2>5 DEF SaveData
      <3> QED BY <1>0, <2>5, <3>1 DEF SaveData, JobStoreTypeOK
    <2>6. CASE Succeed \/ Reschedule \/ Bury
      BY <1>0, <2>6, JobMoves DEF Succeed, Reschedule, Bury
    <2>7. CASE Derive
      BY <1>0, <2>7, InsertTypes DEF Derive, JobType, KeyValue
    <2> QED BY <1>6, <2>1, <2>2, <2>3, <2>4, <2>5, <2>6, <2>7 DEF WorkerStep
  <1>7. CASE Tick
    BY <1>0, <1>7 DEF Tick, JobStoreTypeOK
  <1>8. CASE Crash \/ Restart \/ UNCHANGED vars
    BY <1>0, <1>8 DEF Crash, Restart, Read, dbVars, vars, JobStoreTypeOK
  <1> QED BY <1>1, <1>3, <1>4, <1>5, <1>6, <1>7, <1>8 DEF Next

\* The types of what the actors hold.
Hands ==
    /\ ask \in [Handlers -> Ask] /\ answer \in [Handlers -> 0..N]
    /\ mine \in 0..N /\ crashes \in 0..MaxCrashes

LEMMA HandsKept ==
    ASSUME SessionTypeOK, [Next]_vars
    PROVE  Hands'
  <1> USE TemplateAssumption, SessionAssumption DEF Hands, Steps
  <1>0. Hands
    BY DEF SessionTypeOK
  <1>1. NoAsk \in Ask
    BY DEF NoAsk, Ask, JobType
  <1>2. ASSUME NEW h \in Handlers, NEW r \in Requests, Send(h, r) PROVE Hands'
    BY <1>0, <1>2 DEF Send
  <1>3. ASSUME NEW a \in Actors, GetSession(a) PROVE Hands'
    BY <1>0, <1>3 DEF GetSession, ReadSession, CountActiveJobs, WriteLifecycle
  <1>4. ASSUME NEW h \in Handlers, HandlerStep(h) PROVE Hands'
    <2>1. CASE GetSession(h)
      BY <1>3, <2>1 DEF Actors
    <2>2. CASE Load(h) \/ Touch(h) \/ WriteStage(h) \/ Revive(h) \/ ResumePaused(h)
      BY <1>0, <1>1, <2>2 DEF Load, Touch, WriteStage, Revive, ResumePaused, Proceed, Close
    <2>3. CASE LookUp(h)
      BY <1>0, <1>1, <2>3 DEF LookUp, Existing, Proceed, Close
    <2>4. CASE EnqueueAsked(h)
      BY <1>0, <2>4 DEF EnqueueAsked, Answer
    <2> QED BY <1>4, <2>1, <2>2, <2>3, <2>4 DEF HandlerStep
  <1>5. ASSUME NEW c \in Commands, CommandSession(c) \/ \E j \in Steps : CommandJob(c, j)
        PROVE Hands'
    BY <1>0, <1>5 DEF CommandSession, CommandJob, actorVars
  <1>6. CASE WorkerStep
    <2>1. CASE GetSession(Worker)
      BY <1>3, <2>1 DEF Actors
    <2>2. CASE Recover \/ LeaseOne \/ CheckSession \/ Enter \/ Start
      BY <1>0, <2>2 DEF Recover, LeaseOne, CheckSession, Enter, Start, Next1, Go
    <2>3. CASE WriteFailed \/ Outcome \/ SaveData \/ WriteResult
      BY <1>0, <2>3 DEF WriteFailed, Outcome, SaveData, WriteResult, Next1, Go
    <2>4. CASE CheckCancelled \/ Succeed \/ Derive \/ Raise \/ Reschedule \/ Mourn \/ Bury
      BY <1>0, <2>4
      DEF CheckCancelled, Succeed, Derive, Raise, Reschedule, Mourn, Bury, Next1, Free, Go
    <2> QED BY <1>6, <2>1, <2>2, <2>3, <2>4 DEF WorkerStep
  <1>7. CASE Crash
    BY <1>0, <1>1, <1>7 DEF Crash
  <1>8. CASE Tick \/ Restart \/ UNCHANGED vars
    BY <1>0, <1>8 DEF Tick, Restart, Next1, Go, vars, actorVars
  <1> QED BY <1>2, <1>4, <1>5, <1>6, <1>7, <1>8 DEF Next

LEMMA TypesKept ==
    ASSUME SessionTypeOK, Asked, [Next]_vars
    PROVE  SessionTypeOK'
  <1>1. Places
    BY DEF Places, SessionTypeOK
  <1> QED BY <1>1, PlacesKept, RowsKept, HandsKept DEF SessionTypeOK, Places, Rows, Hands

----------------------------------------------------------------------------
(* The actors *)

\* Whose await an action is: the others stay where they are.
LEMMA OneMoves ==
    ASSUME SessionTypeOK, NEW a \in Actors, NEW place, Await(a, place)
    PROVE  /\ at'[a] = place
           /\ \A b \in Actors : b # a => at'[b] = at[b]
  BY DEF Await, SessionTypeOK

LEMMA WorkerAlone ==
    ASSUME SessionTypeOK, WorkerStep \/ Restart
    PROVE  UNCHANGED <<ask, answer>> /\ \A h \in Handlers : at'[h] = at[h]
  <1> USE Apart, OneMoves
  <1>1. CASE GetSession(Worker)
    BY <1>1 DEF GetSession, ReadSession, CountActiveJobs, WriteLifecycle
  <1>2. CASE Recover \/ LeaseOne \/ CheckSession \/ Enter \/ Start \/ Restart
    BY <1>2 DEF Recover, LeaseOne, CheckSession, Enter, Start, Restart, Next1, Go
  <1>3. CASE WriteFailed \/ Outcome \/ SaveData \/ WriteResult
    BY <1>3 DEF WriteFailed, Outcome, SaveData, WriteResult, Next1, Go
  <1>4. CASE CheckCancelled \/ Succeed \/ Derive \/ Raise \/ Reschedule \/ Mourn \/ Bury
    BY <1>4
    DEF CheckCancelled, Succeed, Derive, Raise, Reschedule, Mourn, Bury, Next1, Free, Go
  <1> QED BY <1>1, <1>2, <1>3, <1>4 DEF WorkerStep

LEMMA HandlersAlone ==
    ASSUME SessionTypeOK, NEW h \in Handlers,
           HandlerStep(h) \/ \E r \in Requests : Send(h, r)
    PROVE  /\ at'[Worker] = at[Worker] /\ mine' = mine
           /\ \A g \in Handlers : g # h =>
                 at'[g] = at[g] /\ ask'[g] = ask[g] /\ answer'[g] = answer[g]
  <1> USE Apart, OneMoves DEF SessionTypeOK
  <1>1. CASE GetSession(h)
    BY <1>1 DEF GetSession, ReadSession, CountActiveJobs, WriteLifecycle
  <1>2. CASE Load(h) \/ LookUp(h)
    BY <1>2 DEF Load, LookUp, Close, Proceed
  <1>3. CASE Touch(h) \/ WriteStage(h) \/ Revive(h) \/ ResumePaused(h)
    BY <1>3 DEF Touch, WriteStage, Revive, ResumePaused, Proceed, Close
  <1>4. CASE EnqueueAsked(h)
    BY <1>4 DEF EnqueueAsked, Answer
  <1>5. ASSUME NEW r \in Requests, Send(h, r)
        PROVE  /\ at'[Worker] = at[Worker] /\ mine' = mine
               /\ \A g \in Handlers : g # h =>
                     at'[g] = at[g] /\ ask'[g] = ask[g] /\ answer'[g] = answer[g]
    BY <1>5 DEF Send
  <1> QED BY <1>1, <1>2, <1>3, <1>4, <1>5 DEF HandlerStep

LEMMA AskedKept ==
    ASSUME SessionTypeOK, Asked, [Next]_vars
    PROVE  Asked'
  <1> USE DEF Asked, Asking
  <1>1. ASSUME NEW h \in Handlers, HandlerStep(h) \/ \E r \in Requests : Send(h, r)
        PROVE  Asked'
    <2>1. at'[h] \in Asking => ask'[h].what \in JobType
      <3> USE Apart, OneMoves DEF Asking
      <3>1. CASE GetSession(h)
        BY <3>1 DEF GetSession, ReadSession, CountActiveJobs, WriteLifecycle
      <3>2. CASE Load(h) \/ LookUp(h)
        BY <3>2 DEF Load, LookUp, Close, Proceed, At
      <3>3. CASE Touch(h) \/ WriteStage(h) \/ Revive(h) \/ ResumePaused(h)
        BY <3>3 DEF Touch, WriteStage, Revive, ResumePaused, Proceed, Close, At
      <3>4. CASE EnqueueAsked(h)
        BY <3>4 DEF EnqueueAsked, Answer, At
      <3>5. ASSUME NEW r \in Requests, Send(h, r)
            PROVE  at'[h] \in Asking => ask'[h].what \in JobType
        BY <3>5 DEF Send
      <3> QED BY <1>1, <3>1, <3>2, <3>3, <3>4, <3>5 DEF HandlerStep
    <2> QED BY <1>1, <2>1, HandlersAlone DEF Asking
  <1>2. CASE WorkerStep \/ Restart
    BY <1>2, WorkerAlone
  <1>3. CASE Crash
    BY <1>3, Apart DEF Crash, SessionTypeOK
  <1>4. ASSUME NEW c \in Commands, CommandSession(c) \/ \E j \in Steps : CommandJob(c, j)
        PROVE Asked'
    BY <1>4 DEF CommandSession, CommandJob, actorVars
  <1>5. CASE Tick \/ UNCHANGED vars
    BY <1>5 DEF Tick, vars, actorVars
  <1> QED BY <1>1, <1>2, <1>3, <1>4, <1>5 DEF Next

----------------------------------------------------------------------------
(* The rows *)

\* What an action that makes no row may do to the jobs.
Kept == /\ UNCHANGED <<type, key>>
        /\ \A j \in Steps : job'[j] = "none" <=> job[j] = "none"
        /\ \A j \in Steps : job'[j] = "succeeded" => job[j] = "succeeded" \/ (Succeed /\ j = mine)

LEMMA Jobs ==
    ASSUME JobStoreTypeOK
    PROVE  /\ \A from, to : JobsFrom(from, to) /\ "none" \notin from /\ to \notin {"none", "succeeded"}
                 => \A j \in Steps : /\ job'[j] = "none" <=> job[j] = "none"
                                     /\ job'[j] = "succeeded" => job[j] = "succeeded"
           /\ \A i \in Steps : PauseJob(i) \/ ResumeJob(i) \/ CancelJob(i) \/ Lease(i)
                 => \A j \in Steps : /\ job'[j] = "none" <=> job[j] = "none"
                                     /\ job'[j] = "succeeded" => job[j] = "succeeded"
           /\ \A i \in Steps : MarkFailed(i) \/ ScheduleRetry(i)
                 => \A j \in Steps : /\ job'[j] = "none" => job[j] = "none"
                                     /\ job[j] = "none" => job'[j] = "none" \/ j = i
                                     /\ job'[j] = "succeeded" => job[j] = "succeeded"
  <1> USE DEF JobStoreTypeOK
  <1>1. \A i \in Steps : PauseJob(i) \/ ResumeJob(i) \/ CancelJob(i) \/ Lease(i)
          => \A j \in Steps : /\ job'[j] = "none" <=> job[j] = "none"
                              /\ job'[j] = "succeeded" => job[j] = "succeeded"
    BY DEF PauseJob, ResumeJob, CancelJob, Lease, Leasable
  <1>2. \A i \in Steps : MarkFailed(i) \/ ScheduleRetry(i)
          => \A j \in Steps : /\ job'[j] = "none" => job[j] = "none"
                              /\ job[j] = "none" => job'[j] = "none" \/ j = i
                              /\ job'[j] = "succeeded" => job[j] = "succeeded"
    BY DEF MarkFailed, ScheduleRetry
  <1> QED BY <1>1, <1>2 DEF JobsFrom

LEMMA RowsOf ==
    ASSUME SessionTypeOK, Holding, [Next]_vars
    PROVE  Derive \/ (\E h \in Handlers : EnqueueAsked(h)) \/ Kept
  <1> USE DEF Kept, sessionVars, tableVars, dbVars
  <1>0. JobStoreTypeOK
    BY DEF SessionTypeOK
  <1>1. ASSUME NEW h \in Handlers, NEW r \in Requests, Send(h, r) PROVE Kept
    BY <1>1 DEF Send, Read
  <1>2. ASSUME NEW a \in Actors, GetSession(a) PROVE Kept
    <2>1. CASE ReadSession(a) \/ CountActiveJobs(a)
      BY <2>1 DEF ReadSession, CountActiveJobs, Read
    <2>2. CASE WriteLifecycle(a)
      BY <1>0, <2>2, Jobs DEF WriteLifecycle, Unfinished
    <2> QED BY <1>2, <2>1, <2>2 DEF GetSession
  <1>3. ASSUME NEW h \in Handlers, HandlerStep(h), ~EnqueueAsked(h) PROVE Kept
    <2>1. CASE GetSession(h)
      BY <1>2, <2>1 DEF Actors
    <2>2. CASE Load(h) \/ LookUp(h) \/ Touch(h) \/ WriteStage(h) \/ Revive(h)
      BY <2>2 DEF Load, LookUp, Touch, WriteStage, Revive, Read
    <2>3. CASE ResumePaused(h)
      BY <1>0, <2>3, Jobs DEF ResumePaused
    <2> QED BY <1>3, <2>1, <2>2, <2>3 DEF HandlerStep
  <1>4. ASSUME NEW c \in Commands PROVE CommandSession(c) => Kept
    BY <1>0, Jobs DEF CommandSession, Unfinished
  <1>5. ASSUME NEW c \in Commands, NEW j \in Steps PROVE CommandJob(c, j) => Kept
    BY <1>0, Jobs DEF CommandJob
  <1>6. CASE WorkerStep /\ ~Derive
    <2>0. at[Worker] \in {"marking", "scheduling", "buried"} => mine \in Steps /\ job[mine] # "none"
      BY DEF Holding, Working, WorkerAt
    <2>1. CASE GetSession(Worker)
      BY <1>2, <2>1 DEF Actors
    <2>2. CASE Recover
      BY <1>0, <2>2 DEF Recover, RecoverExpired, JobStoreTypeOK
    <2>3. CASE LeaseOne
      BY <1>0, <2>3, Jobs DEF LeaseOne, LeaseNext
    <2>4. CASE CheckSession \/ Enter \/ Outcome \/ CheckCancelled \/ Raise \/ Mourn
      BY <2>4 DEF CheckSession, Enter, Outcome, CheckCancelled, Raise, Mourn, Read
    <2>5. CASE WriteFailed \/ Start \/ SaveData \/ WriteResult
      BY <2>5 DEF WriteFailed, Start, SaveData, WriteResult
    <2>6. CASE Reschedule \/ Bury
      BY <1>0, <2>0, <2>6, Jobs DEF Reschedule, Bury, On, At
    <2>7. CASE Succeed
      BY <1>0, <2>0, <2>7 DEF Succeed, MarkSucceeded, JobStoreTypeOK, On, At
    <2> QED BY <1>6, <2>1, <2>2, <2>3, <2>4, <2>5, <2>6, <2>7 DEF WorkerStep
  <1>7. CASE Tick \/ Crash \/ Restart \/ UNCHANGED vars
    BY <1>7 DEF Tick, Crash, Restart, Read, vars
  <1> QED BY <1>1, <1>3, <1>4, <1>5, <1>6, <1>7 DEF Next

\* A row that is there is not made again, and keeps its type and its key.
LEMMA RowsStay ==
    ASSUME SessionTypeOK, Holding, [Next]_vars, NEW j \in Steps, job[j] # "none"
    PROVE  job'[j] # "none" /\ type'[j] = type[j] /\ key'[j] = key[j]
  <1>1. ASSUME NEW t, NEW k, NEW i \in Steps, EnqueueJob(t, k, i)
        PROVE  job'[j] # "none" /\ type'[j] = type[j] /\ key'[j] = key[j]
    BY <1>1 DEF EnqueueJob, Enqueue, tableVars, SessionTypeOK, JobStoreTypeOK
  <1> QED BY <1>1, RowsOf DEF Kept, Derive, EnqueueAsked

LEMMA InsertUnique ==
    ASSUME SessionTypeOK, UniqueKeys, NEW t, NEW k, NEW i \in Steps, EnqueueJob(t, k, i)
    PROVE  UniqueKeys' /\ job'[i] # "none" /\ (k # "none" => type'[i] = t /\ key'[i] = k)
  <1>1. CASE job[i] # "none"
    BY <1>1 DEF EnqueueJob, Insert, NewRow, Existing, tableVars, UniqueKeys
  <1>2. CASE job[i] = "none"
    <2>1. /\ job' = [job EXCEPT ![i] = "queued"]
          /\ type' = [type EXCEPT ![i] = t] /\ key' = [key EXCEPT ![i] = k]
      BY <1>2 DEF EnqueueJob, Enqueue
    <2>2. k = "none" \/ \A j \in Steps : ~(job[j] # "none" /\ type[j] = t /\ key[j] = k)
      BY <1>2 DEF EnqueueJob, Insert, Existing
    <2> QED BY <2>1, <2>2 DEF UniqueKeys, SessionTypeOK, JobStoreTypeOK
  <1> QED BY <1>1, <1>2

LEMMA KeysStayUnique ==
    ASSUME SessionTypeOK, Holding, UniqueKeys, [Next]_vars
    PROVE  UniqueKeys'
  <1>1. ASSUME Kept PROVE UniqueKeys'
    BY <1>1 DEF Kept, UniqueKeys
  <1>2. ASSUME NEW t, NEW k, NEW i \in Steps, EnqueueJob(t, k, i) PROVE UniqueKeys'
    BY <1>2, InsertUnique
  <1> QED BY <1>1, <1>2, RowsOf DEF Derive, EnqueueAsked

----------------------------------------------------------------------------
(* The answers *)

\* An answer stays the row of what was asked for, whatever happens to the rows.
LEMMA AnswersStay ==
    ASSUME SessionTypeOK, Holding, Answered, [Next]_vars, NEW h \in Handlers,
           ask'[h] = ask[h] \/ answer[h] = 0, answer'[h] = answer[h] \/ answer'[h] = 0,
           at'[h] \notin {"replaying", "answered"} => answer'[h] = 0
    PROVE  AnswerFits(h)'
  <1>1. answer[h] # 0 => answer[h] \in Steps
    BY TemplateAssumption DEF SessionTypeOK, Steps
  <1> QED BY <1>1, RowsStay DEF Answered, AnswerFits

LEMMA AnsweredKept ==
    ASSUME SessionTypeOK, Asked, Holding, UniqueKeys, Answered, [Next]_vars
    PROVE  Answered'
  <1> USE DEF Answered
  <1>0. ASSUME NEW h \in Handlers, at'[h] = at[h], ask'[h] = ask[h], answer'[h] = answer[h]
        PROVE  AnswerFits(h)'
    BY <1>0, AnswersStay DEF AnswerFits
  <1>1. ASSUME NEW h \in Handlers, HandlerStep(h) \/ \E r \in Requests : Send(h, r)
        PROVE  AnswerFits(h)'
    <2> USE Apart, OneMoves
    <2>1. CASE GetSession(h)
      BY <1>0, <2>1 DEF GetSession, ReadSession, CountActiveJobs, WriteLifecycle
    <2>2. CASE Load(h) \/ WriteStage(h) \/ Revive(h) \/ ResumePaused(h)
      <3>1. answer[h] = 0 /\ answer'[h] = 0
        BY <2>2 DEF Load, WriteStage, Revive, ResumePaused, Proceed, Close, At, AnswerFits
      <3> QED BY <3>1 DEF AnswerFits
    <2>3. CASE Touch(h)
      <3>1. ask'[h] = ask[h] /\ answer'[h] = answer[h] /\ (at'[h] = "answered" \/ answer[h] = 0)
        BY <2>3 DEF Touch, Proceed, At, AnswerFits
      <3>2. at'[h] \in {"answered", "staging"}
        BY <2>3 DEF Touch, Proceed
      <3> QED BY <3>1, <3>2, AnswersStay DEF AnswerFits
    <2>4. CASE LookUp(h)
      <3>1. answer[h] = 0 /\ UNCHANGED tableVars
        BY <2>4 DEF LookUp, At, AnswerFits, Read, dbVars
      <3>2. ASSUME NEW j \in Existing(ask[h].what, ask[h].key),
                   answer' = [answer EXCEPT ![h] = j], Await(h, "replaying"), UNCHANGED ask
            PROVE  AnswerFits(h)'
        BY <3>1, <3>2 DEF AnswerFits, Existing, tableVars, SessionTypeOK
      <3> QED BY <2>4, <3>1, <3>2 DEF LookUp, Proceed, Close, AnswerFits
    <2>5. CASE EnqueueAsked(h)
      <3>1. PICK j \in Steps : EnqueueJob(ask[h].what, ask[h].key, j) /\ Answer(h, j)
        BY <2>5 DEF EnqueueAsked
      <3>2. at'[h] = "answered" /\ answer'[h] = j /\ ask'[h] = ask[h]
        BY <3>1 DEF Answer, SessionTypeOK
      <3>3. job'[j] # "none" /\ type'[j] = ask[h].what /\ key'[j] = ask[h].key
        BY <3>1 DEF EnqueueJob, Enqueue, Insert, NewRow, Existing, tableVars,
                    SessionTypeOK, JobStoreTypeOK
      <3> QED BY <3>2, <3>3 DEF AnswerFits
    <2>6. ASSUME NEW r \in Requests, Send(h, r) PROVE AnswerFits(h)'
      BY <2>6 DEF Send, At, AnswerFits
    <2> QED BY <1>1, <2>1, <2>2, <2>3, <2>4, <2>5, <2>6 DEF HandlerStep
  <1>2. ASSUME NEW h \in Handlers, HandlerStep(h) \/ \E r \in Requests : Send(h, r)
        PROVE  Answered'
    <2>1. ASSUME NEW g \in Handlers PROVE AnswerFits(g)'
      BY <1>0, <1>1, <1>2, HandlersAlone
    <2> QED BY <2>1
  <1>3. CASE WorkerStep \/ Restart
    BY <1>0, <1>3, WorkerAlone
  <1>4. CASE Crash
    <2>1. ASSUME NEW h \in Handlers PROVE AnswerFits(h)'
      <3>1. at[h] = "answered" => at'[h] = at[h] /\ ask'[h] = ask[h] /\ answer'[h] = answer[h]
        BY <1>4, Apart DEF Crash
      <3>2. at[h] # "answered" => answer'[h] = 0
        BY <1>4 DEF Crash
      <3> QED BY <1>0, <3>1, <3>2 DEF AnswerFits
    <2> QED BY <2>1
  <1>5. ASSUME NEW c \in Commands, CommandSession(c) \/ \E j \in Steps : CommandJob(c, j)
        PROVE Answered'
    BY <1>0, <1>5 DEF CommandSession, CommandJob, actorVars
  <1>6. CASE Tick \/ UNCHANGED vars
    BY <1>0, <1>6 DEF Tick, vars, actorVars
  <1> QED BY <1>2, <1>3, <1>4, <1>5, <1>6 DEF Next

----------------------------------------------------------------------------
(* The worker and its results *)

\* What is stored stays stored.
LEMMA StoredStays ==
    ASSUME SessionTypeOK, [Next]_vars
    PROVE  (strategy => strategy') /\ (notes => notes')
  <1> USE DEF sessionVars, dbVars, Read
  <1>1. ASSUME NEW h \in Handlers, HandlerStep(h) \/ \E r \in Requests : Send(h, r)
        PROVE  (strategy => strategy') /\ (notes => notes')
    BY <1>1 DEF HandlerStep, Send, GetSession, ReadSession, CountActiveJobs, WriteLifecycle,
                Load, LookUp, Touch, WriteStage, StageOnly, EnqueueAsked, Revive, ResumePaused
  <1>2. CASE WorkerStep
    <2>1. CASE SaveData
      BY <2>1 DEF SaveData, SessionTypeOK
    <2>2. CASE GetSession(Worker) \/ Recover \/ LeaseOne \/ CheckSession \/ Enter
      BY <2>2 DEF GetSession, ReadSession, CountActiveJobs, WriteLifecycle,
                  Recover, LeaseOne, CheckSession, Enter
    <2>3. CASE WriteFailed \/ Start \/ Outcome \/ WriteResult \/ CheckCancelled \/ Succeed
      BY <2>3 DEF WriteFailed, StageOnly, Start, Outcome, WriteResult, CheckCancelled, Succeed
    <2>4. CASE Derive \/ Raise \/ Reschedule \/ Mourn \/ Bury
      BY <2>4 DEF Derive, Raise, Reschedule, Mourn, Bury
    <2> QED BY <1>2, <2>1, <2>2, <2>3, <2>4 DEF WorkerStep
  <1>3. ASSUME NEW c \in Commands, CommandSession(c) \/ \E j \in Steps : CommandJob(c, j)
        PROVE  (strategy => strategy') /\ (notes => notes')
    BY <1>3 DEF CommandSession, CommandJob
  <1>4. CASE Tick \/ Crash \/ Restart \/ UNCHANGED vars
    BY <1>4 DEF Tick, Crash, Restart, vars
  <1> QED BY <1>1, <1>2, <1>3, <1>4 DEF Next

\* What the worker knows of its job is not taken from it by a step that leaves
\* the worker where it is.
LEMMA HeldStays ==
    ASSUME SessionTypeOK, Holding, [Next]_vars, at'[Worker] = at[Worker], mine' = mine
    PROVE  Holding'
  <1>1. at[Worker] \in Working => /\ job'[mine] # "none" /\ type'[mine] = type[mine]
    BY RowsStay DEF Holding
  <1>2. Entered \subseteq Working /\ {"recording", "saved", "marking", "deriving"} \subseteq Working
    BY DEF Entered, Working, WorkerAt
  <1> QED BY <1>1, <1>2, StoredStays DEF Holding

LEMMA HoldingKept ==
    ASSUME SessionTypeOK, Holding, [Next]_vars
    PROVE  Holding'
  <1> USE Apart
  <1>0. /\ Entered \subseteq Working /\ {"recording", "saved", "marking", "deriving"} \subseteq Working
        /\ at[Worker] \in Working => /\ mine \in Steps /\ job'[mine] # "none"
                                     /\ type'[mine] = type[mine]
    BY RowsStay DEF Holding, Entered, Working, WorkerAt
  <1>1. ASSUME NEW h \in Handlers, HandlerStep(h) \/ \E r \in Requests : Send(h, r)
        PROVE  Holding'
    BY <1>1, HandlersAlone, HeldStays
  <1>2. ASSUME NEW c \in Commands, CommandSession(c) \/ \E j \in Steps : CommandJob(c, j)
        PROVE  Holding'
    BY <1>2, HeldStays DEF CommandSession, CommandJob, actorVars
  <1>3. CASE Tick \/ UNCHANGED vars
    BY <1>3, HeldStays DEF Tick, vars, actorVars
  <1>4. CASE Crash
    BY <1>4 DEF Crash, Holding, Working, Entered
  <1>5. CASE WorkerStep \/ Restart
    <2> USE OneMoves
    <2>1. CASE GetSession(Worker)
      BY <2>1, HeldStays DEF GetSession, ReadSession, CountActiveJobs, WriteLifecycle
    <2>2. ASSUME at'[Worker] \notin Working PROVE Holding'
      BY <1>0, <2>2 DEF Holding
    <2>3. CASE Recover \/ Restart \/ Derive \/ Reschedule \/ Bury
      <3>1. at'[Worker] \in {"polling", "recovering"}
        BY <2>3 DEF Recover, Restart, Derive, Reschedule, Bury, Free, Next1, Go
      <3> QED BY <2>2, <3>1 DEF Working
    <2>4. CASE LeaseOne
      <3>1. /\ at'[Worker] = "checking" /\ mine' \in Steps /\ job'[mine'] = "running"
        BY <2>4 DEF LeaseOne, LeaseNext, Lease, Go, SessionTypeOK, JobStoreTypeOK
      <3> QED BY <3>1 DEF Holding, Entered
    <2>5. ASSUME at[Worker] \in Working, mine' = mine,
                 at'[Worker] \notin Entered, at'[Worker] # "deriving"
          PROVE  Holding'
      BY <1>0, <2>5 DEF Holding, Entered
    <2>6. CASE CheckSession \/ WriteFailed \/ Raise \/ Mourn
      BY <2>5, <2>6 DEF CheckSession, WriteFailed, Raise, Mourn, On, At, Next1, Go,
                        Working, WorkerAt, Entered
    <2>7. CASE Enter
      <3>1. at[Worker] = "entering" /\ mine' = mine /\ UNCHANGED <<strategy, notes, type>>
        BY <2>7 DEF Enter, On, At, Next1, Go, Read, dbVars, sessionVars, tableVars
      <3>2. \/ at'[Worker] = "rejecting"
            \/ at'[Worker] = "starting" /\ (type[mine] = "strategy" \/ strategy)
        BY <2>7 DEF Enter, Next1, Go, Strategic
      <3>3. at[Worker] \in Working
        BY <3>1 DEF Working, WorkerAt
      <3>4. CASE at'[Worker] = "rejecting"
        BY <2>5, <3>1, <3>3, <3>4 DEF Entered
      <3>5. CASE at'[Worker] = "starting" /\ (type[mine] = "strategy" \/ strategy)
        BY <1>0, <3>1, <3>3, <3>5 DEF Holding
      <3> QED BY <3>2, <3>4, <3>5
    <2>8. CASE Start \/ Outcome
      <3>1. /\ at[Worker] \in {"starting", "started"} /\ mine' = mine
            /\ at'[Worker] \in {"started", "saving", "giving_up", "mourning"}
        BY <2>8 DEF Start, Outcome, On, At, Next1, Go
      <3>2. at[Worker] \in Entered /\ at[Worker] \in Working
        BY <3>1 DEF Entered, Working, WorkerAt
      <3> QED BY <1>0, <3>1, <3>2, StoredStays DEF Holding
    <2>9. CASE SaveData
      <3>1. /\ at[Worker] = "saving" /\ at'[Worker] = "recording" /\ mine' = mine
            /\ strategy' = (strategy \/ type[mine] = "strategy")
            /\ notes' = (notes \/ type[mine] # "strategy")
        BY <2>9 DEF SaveData, On, At, Next1, Go, Strategic
      <3>2. at[Worker] \in Entered /\ at[Worker] \in Working
        BY <3>1 DEF Entered, Working, WorkerAt
      <3> QED BY <1>0, <3>1, <3>2 DEF Holding
    <2>10. CASE WriteResult \/ CheckCancelled
      <3>1. /\ at[Worker] \in {"recording", "saved"} /\ UNCHANGED <<strategy, notes>>
            /\ \/ at'[Worker] \in {"saved", "marking"} /\ mine' = mine
               \/ at'[Worker] = "polling"
        BY <2>10 DEF WriteResult, CheckCancelled, On, At, Next1, Free, Go, StageOnly,
                     Read, dbVars, sessionVars
      <3>2. at[Worker] \in Entered /\ at[Worker] \in Working /\ "polling" \notin Working
        BY <3>1 DEF Entered, Working, WorkerAt
      <3> QED BY <1>0, <2>2, <3>1, <3>2 DEF Holding
    <2>11. CASE Succeed
      <3>1. /\ at[Worker] = "marking" /\ UNCHANGED <<strategy, notes>>
            /\ \/ at'[Worker] = "deriving" /\ mine' = mine /\ type[mine] = "strategy"
               \/ at'[Worker] = "polling"
        BY <2>11 DEF Succeed, On, At, Next1, Free, Go, Strategic, sessionVars
      <3>2. at[Worker] \in Working /\ "polling" \notin Working
        BY <3>1 DEF Working, WorkerAt
      <3>3. CASE at'[Worker] = "deriving" /\ mine' = mine /\ type[mine] = "strategy"
        <4>1. strategy
          BY <3>1, <3>3 DEF Holding
        <4>2. at'[Worker] \notin Entered \cup {"recording", "saved", "marking"}
          BY <3>3 DEF Entered
        <4> QED BY <1>0, <3>1, <3>2, <3>3, <4>1, <4>2 DEF Holding
      <3>4. CASE at'[Worker] = "polling"
        BY <2>2, <3>2, <3>4
      <3> QED BY <3>1, <3>3, <3>4
    <2> QED BY <1>5, <2>1, <2>3, <2>4, <2>6, <2>7, <2>8, <2>9, <2>10, <2>11 DEF WorkerStep
  <1> QED BY <1>1, <1>2, <1>3, <1>4, <1>5 DEF Next

\* Who can make a job succeed, or a row with the worker's key.
LEMMA NewSuccess ==
    ASSUME SessionTypeOK, Holding, [Next]_vars, NEW j \in Steps
    PROVE  /\ job'[j] = "succeeded" => job[j] = "succeeded" \/ (Succeed /\ j = mine)
           /\ job[j] = "none" /\ job'[j] # "none" /\ key'[j] = "auto" => Derive
  <1>1. ASSUME NEW t, NEW k, NEW i \in Steps, EnqueueJob(t, k, i)
        PROVE  job'[j] = job[j] \/ (j = i /\ job'[j] = "queued" /\ key'[j] = k)
    BY <1>1 DEF EnqueueJob, Enqueue, tableVars, SessionTypeOK, JobStoreTypeOK
  <1>2. ASSUME NEW h \in Handlers, EnqueueAsked(h)
        PROVE  job'[j] = job[j] \/ (job'[j] = "queued" /\ key'[j] # "auto")
    <2>1. ask[h].key # "auto"
      BY DEF SessionTypeOK, Ask
    <2> QED BY <1>1, <1>2, <2>1 DEF EnqueueAsked
  <1>3. CASE Derive
    BY <1>1, <1>3 DEF Derive
  <1> QED BY <1>2, <1>3, RowsOf DEF Kept

\* Who can complete the session.
LEMMA Completion ==
    ASSUME [Next]_vars, stage' = "completed"
    PROVE  stage = "completed" \/ (WriteResult /\ ~Strategic)
  <1> USE DEF sessionVars, dbVars, Read
  <1>1. ASSUME NEW h \in Handlers, HandlerStep(h) \/ \E r \in Requests : Send(h, r)
        PROVE  stage = "completed"
    BY <1>1 DEF HandlerStep, Send, GetSession, ReadSession, CountActiveJobs, WriteLifecycle,
                Load, LookUp, Touch, WriteStage, NextStage, EnqueueAsked, Revive, ResumePaused
  <1>2. CASE WorkerStep
    <2>1. CASE WriteFailed \/ Start \/ WriteResult
      BY <2>1 DEF WriteFailed, Start, WriteResult, NextStage
    <2>2. CASE GetSession(Worker) \/ Recover \/ LeaseOne \/ CheckSession \/ Enter \/ SaveData
      BY <2>2 DEF GetSession, ReadSession, CountActiveJobs, WriteLifecycle,
                  Recover, LeaseOne, CheckSession, Enter, SaveData
    <2>3. CASE Outcome \/ CheckCancelled \/ Succeed \/ Derive \/ Raise \/ Reschedule \/ Mourn \/ Bury
      BY <2>3 DEF Outcome, CheckCancelled, Succeed, Derive, Raise, Reschedule, Mourn, Bury
    <2> QED BY <1>2, <2>1, <2>2, <2>3 DEF WorkerStep
  <1>3. ASSUME NEW c \in Commands, CommandSession(c) \/ \E j \in Steps : CommandJob(c, j)
        PROVE  stage = "completed"
    BY <1>3 DEF CommandSession, CommandJob
  <1>4. CASE Tick \/ Crash \/ Restart \/ UNCHANGED vars
    BY <1>4 DEF Tick, Crash, Restart, vars
  <1> QED BY <1>1, <1>2, <1>3, <1>4 DEF Next

LEMMA ResultsKept ==
    ASSUME SessionTypeOK, Holding, ResultsAreStored, [Next]_vars
    PROVE  ResultsAreStored'
  <1>1. ASSUME NEW j \in Steps, job'[j] = "succeeded"
        PROVE  IF type'[j] = "strategy" THEN strategy' ELSE notes'
    <2>1. CASE job[j] = "succeeded"
      BY <2>1, RowsStay, StoredStays DEF ResultsAreStored
    <2>2. CASE Succeed /\ j = mine
      <3>1. at[Worker] = "marking" /\ UNCHANGED <<type, strategy, notes>>
        BY <2>2 DEF Succeed, On, At, sessionVars
      <3> QED BY <2>2, <3>1 DEF Holding
    <2> QED BY <1>1, <2>1, <2>2, NewSuccess
  <1>2. ASSUME NEW j \in Steps, key'[j] = "auto"
        PROVE  strategy'
    <2>1. CASE key[j] = "auto"
      BY <2>1, StoredStays DEF ResultsAreStored
    <2>2. CASE key[j] # "auto"
      <3>1. ASSUME NEW t, NEW k, NEW i \in Steps, EnqueueJob(t, k, i)
            PROVE  job[j] = "none" /\ job'[j] # "none"
        BY <1>2, <2>2, <3>1 DEF EnqueueJob, Enqueue, tableVars, SessionTypeOK, JobStoreTypeOK
      <3>2. Derive
        BY <1>2, <2>2, <3>1, NewSuccess, RowsOf DEF Kept, EnqueueAsked, Derive
      <3>3. at[Worker] = "deriving"
        BY <3>2 DEF Derive, On, At
      <3> QED BY <3>3, StoredStays DEF Holding
    <2> QED BY <2>1, <2>2
  <1>3. ASSUME stage' = "completed" PROVE strategy' /\ notes'
    <2>1. CASE stage = "completed"
      BY <2>1, StoredStays DEF ResultsAreStored
    <2>2. CASE WriteResult /\ ~Strategic
      <3>1. at[Worker] = "recording" /\ type[mine] # "strategy" /\ UNCHANGED <<strategy, notes>>
        BY <2>2 DEF WriteResult, On, At, StageOnly, Strategic
      <3>2. at[Worker] \in Entered
        BY <3>1 DEF Entered
      <3> QED BY <3>1, <3>2 DEF Holding
    <2> QED BY <1>3, <2>1, <2>2, Completion
  <1> QED BY <1>1, <1>2, <1>3 DEF ResultsAreStored

----------------------------------------------------------------------------
(* The retry budget *)

InLine == {"none", "queued", "paused", "retrying"}

\* The statements on the jobs keep it.
LEMMA JobsKeepBudget ==
    ASSUME JobStoreTypeOK, AttemptsLeft
    PROVE  /\ \A from, to : JobsFrom(from, to) /\ UNCHANGED attempts
                 /\ (from \subseteq InLine \/ to = "cancelled") => AttemptsLeft'
           /\ \A j \in Steps : Lease(j) => AttemptsLeft'
           /\ \A j : MarkSucceeded(j) \/ MarkFailed(j) \/ ScheduleRetry(j) => AttemptsLeft'
           /\ \A j : PauseJob(j) \/ ResumeJob(j) \/ CancelJob(j) => AttemptsLeft'
           /\ \A E : RecoverExpired(E) => AttemptsLeft'
  <1> USE TemplateAssumption DEF AttemptsLeft, JobStoreTypeOK, InLine
  <1>1. \A from, to : JobsFrom(from, to) /\ UNCHANGED attempts
            /\ (from \subseteq InLine \/ to = "cancelled") => AttemptsLeft'
    BY DEF JobsFrom
  <1>2. \A j \in Steps : Lease(j) => AttemptsLeft'
    BY DEF Lease, Leasable
  <1>3. \A j : MarkSucceeded(j) \/ MarkFailed(j) \/ ScheduleRetry(j) => AttemptsLeft'
    BY DEF MarkSucceeded, MarkFailed, ScheduleRetry, Spent
  <1>4. \A j : PauseJob(j) \/ ResumeJob(j) \/ CancelJob(j) => AttemptsLeft'
    BY DEF PauseJob, ResumeJob, CancelJob
  <1>5. \A E : RecoverExpired(E) => AttemptsLeft'
    BY DEF RecoverExpired, Spent
  <1> QED BY <1>1, <1>2, <1>3, <1>4, <1>5

LEMMA BudgetKept ==
    ASSUME SessionTypeOK, AttemptsLeft, [Next]_vars
    PROVE  AttemptsLeft'
  <1> USE DEF sessionVars, tableVars, dbVars, Read
  <1>0. JobStoreTypeOK
    BY DEF SessionTypeOK
  <1>1. ASSUME UNCHANGED jobVars PROVE AttemptsLeft'
    BY <1>1 DEF jobVars, AttemptsLeft
  <1>2. ASSUME NEW t, NEW k, NEW i \in Steps, EnqueueJob(t, k, i) PROVE AttemptsLeft'
    BY <1>0, <1>2 DEF EnqueueJob, Enqueue, AttemptsLeft, JobStoreTypeOK
  <1>3. ASSUME NEW a \in Actors, GetSession(a) PROVE AttemptsLeft'
    <2>1. CASE ReadSession(a) \/ CountActiveJobs(a)
      BY <1>1, <2>1 DEF ReadSession, CountActiveJobs, jobVars
    <2>2. CASE WriteLifecycle(a)
      BY <1>0, <1>1, <2>2, JobsKeepBudget DEF WriteLifecycle, jobVars
    <2> QED BY <1>3, <2>1, <2>2 DEF GetSession
  <1>4. ASSUME NEW h \in Handlers, HandlerStep(h) \/ \E r \in Requests : Send(h, r)
        PROVE  AttemptsLeft'
    <2>1. CASE GetSession(h)
      BY <1>3, <2>1 DEF Actors
    <2>2. CASE Load(h) \/ LookUp(h) \/ Touch(h) \/ WriteStage(h) \/ Revive(h)
      BY <1>1, <2>2 DEF Load, LookUp, Touch, WriteStage, Revive, jobVars
    <2>3. CASE EnqueueAsked(h)
      BY <1>2, <2>3 DEF EnqueueAsked
    <2>4. CASE ResumePaused(h)
      BY <1>0, <2>4, JobsKeepBudget DEF ResumePaused, InLine
    <2>5. ASSUME NEW r \in Requests, Send(h, r) PROVE AttemptsLeft'
      BY <1>1, <2>5 DEF Send, jobVars
    <2> QED BY <1>4, <2>1, <2>2, <2>3, <2>4, <2>5 DEF HandlerStep
  <1>5. ASSUME NEW c \in Commands PROVE CommandSession(c) => AttemptsLeft'
    BY <1>0, JobsKeepBudget DEF CommandSession, InLine
  <1>6. ASSUME NEW c \in Commands, NEW j \in Steps PROVE CommandJob(c, j) => AttemptsLeft'
    BY <1>0, JobsKeepBudget DEF CommandJob
  <1>7. CASE WorkerStep
    <2>1. CASE GetSession(Worker)
      BY <1>3, <2>1 DEF Actors
    <2>2. CASE Recover \/ LeaseOne
      BY <1>0, <2>2, JobsKeepBudget DEF Recover, LeaseOne, LeaseNext
    <2>3. CASE CheckSession \/ Enter \/ WriteFailed \/ Start \/ Outcome \/ SaveData \/ WriteResult
      BY <1>1, <2>3 DEF CheckSession, Enter, WriteFailed, Start, Outcome, SaveData,
                        WriteResult, jobVars
    <2>4. CASE CheckCancelled \/ Raise \/ Mourn
      BY <1>1, <2>4 DEF CheckCancelled, Raise, Mourn, jobVars
    <2>5. CASE Succeed \/ Reschedule \/ Bury
      BY <1>0, <2>5, JobsKeepBudget DEF Succeed, Reschedule, Bury
    <2>6. CASE Derive
      BY <1>2, <2>6 DEF Derive
    <2> QED BY <1>7, <2>1, <2>2, <2>3, <2>4, <2>5, <2>6 DEF WorkerStep
  <1>8. CASE Tick \/ Crash \/ Restart \/ UNCHANGED vars
    BY <1>1, <1>8 DEF Tick, Crash, Restart, vars, jobVars
  <1> QED BY <1>4, <1>5, <1>6, <1>7, <1>8 DEF Next

----------------------------------------------------------------------------
(* The theorems *)

LEMMA InitInv == SessionInit => IInv
  <1> SUFFICES ASSUME SessionInit PROVE IInv
    OBVIOUS
  <1> USE TemplateAssumption, SessionAssumption DEF SessionInit, JobStoreInit, Steps
  <1>1. SessionTypeOK
    <2>1. JobStoreTypeOK
      BY DEF JobStoreTypeOK, JobStatus
    <2>2. NoAsk \in Ask
      BY DEF NoAsk, Ask, JobType
    <2>3. Rows
      <3>1. strategy \in BOOLEAN /\ notes \in BOOLEAN
        BY Zenon
      <3>2. type \in [Steps -> JobType] /\ key \in [Steps -> KeyValue]
        BY DEF JobType, KeyValue
      <3>3. life \in Life /\ idle \in 0..4 /\ stage \in Stage
        BY DEF Life, Stage
      <3> QED BY <2>1, <3>1, <3>2, <3>3 DEF Rows
    <2>4. Places
      BY Apart DEF Places, Life, HandlerAt, WorkerAt
    <2>5. Hands
      BY <2>2 DEF Hands
    <2> QED BY <2>3, <2>4, <2>5 DEF SessionTypeOK, Rows, Places, Hands
  <1>2. Asked /\ UniqueKeys /\ Answered /\ ResultsAreStored
    BY Apart DEF Asked, Asking, UniqueKeys, Answered, AnswerFits, ResultsAreStored, Actors
  <1>3. Holding
    BY Apart DEF Holding, Working, Entered
  <1>4. AttemptsLeft
    BY DEF AttemptsLeft
  <1> QED BY <1>1, <1>2, <1>3, <1>4 DEF IInv

LEMMA StepInv == IInv /\ [Next]_vars => IInv'
  BY TypesKept, AskedKept, KeysStayUnique, AnsweredKept, HoldingKept, ResultsKept, BudgetKept
  DEF IInv

LEMMA Invariance == SessionSpec => []IInv
  BY InitInv, StepInv, PTL DEF SessionSpec

\* The rows of session and jobs keep the values their columns know, whatever
\* the routes, the worker, the clock and a crash do between their awaits.
THEOREM SessionTypes == SessionSpec => []SessionTypeOK
<1>1. IInv => SessionTypeOK
  BY DEF IInv
<1> QED BY <1>1, Invariance, PTL

\* Two requests with one key are answered with one job, for any number of
\* requests in any interleaving (_try_replay_idempotent_enqueue, enqueue).
THEOREM RequestsAreIdempotent == SessionSpec => []IdempotentRequests
<1>1. IInv => IdempotentRequests
  <2> SUFFICES ASSUME IInv, NEW g \in Handlers, NEW h \in Handlers,
                      answer[g] # 0, answer[h] # 0, ask[g] = ask[h], ask[g].key # "none"
               PROVE  answer[g] = answer[h]
    BY DEF IdempotentRequests
  <2>1. answer[g] \in Steps /\ answer[h] \in Steps
    BY TemplateAssumption DEF IInv, SessionTypeOK, Steps
  <2> QED BY <2>1 DEF IInv, Answered, AnswerFits, UniqueKeys
<1> QED BY <1>1, Invariance, PTL

\* No success without its result, no derived generation without a strategy, no
\* completed session without both, for any number of jobs and crashes.
THEOREM SuccessesHaveResults == SessionSpec => []ResultsAreStored
<1>1. IInv => ResultsAreStored
  BY DEF IInv
<1> QED BY <1>1, Invariance, PTL

\* Nobody leases a job of a session more often than its budget allows, although
\* lease_one does not look at it.
THEOREM SessionBudgetIsKept == SessionSpec => []SessionBudget
<1>1. IInv => SessionBudget
  BY DEF IInv, AttemptsLeft, SessionBudget
<1> QED BY <1>1, Invariance, PTL
=============================================================================
