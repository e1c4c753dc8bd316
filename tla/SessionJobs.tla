----------------------------- MODULE SessionJobs -----------------------------
(***************************************************************************)
(* One session of the first API and its jobs: the session row and its      *)
(* lifecycle (app/memory/session_state.py, app/memory/session_mutations.py)*)
(* the /sessions and /jobs routes (app/api/routes/router.py), the jobs     *)
(* without a run in the job worker (app/workers/job_worker.py), and what   *)
(* the two agents write to the session.  The lifecycle is not kept by a    *)
(* timer: every get_session reads the row, then the jobs, and writes what  *)
(* it concluded in a third step, whatever has happened in between.         *)
(***************************************************************************)
EXTENDS JobStore, FiniteSets

CONSTANTS
    Handlers,       \* requests to the session's routes, each sent once
    Requests,       \* what they may ask for, and with which Idempotency-Key
    Commands,       \* commands on the jobs: "pause", "resume", "cancel"
    Worker,         \* the task of the job worker
    MaxCrashes      \* bound on the crashes of a behaviour

JobType == {"strategy", "generate"}
Ask == [what : JobType \cup {"resume", "status"}, key : {"none", "client"}]

\* Every request, and the worker once by itself, may need a row.
ASSUME SessionAssumption ==
    /\ Requests \subseteq Ask /\ Commands \subseteq {"pause", "resume", "cancel"}
    /\ Worker \notin Handlers /\ IsFiniteSet(Handlers)
    /\ N > Cardinality(Handlers) /\ MaxCrashes \in Nat

Actors == Handlers \cup {Worker}

VARIABLES
    life,           \* sessions.lifecycle_state
    idle,           \* the time since last_user_activity_at
    stage,          \* sessions.stage
    strategy,       \* a strategy of the session is stored
    notes,          \* generated notes of the session are stored
    type, key,      \* jobs.job_type, jobs.idempotency_key
    at,             \* the await each actor is at
    get,            \* how far the get_session there has come
    verdict,        \* the lifecycle it has concluded
    ask,            \* what the handler was asked
    answer,         \* the job it answered with, 0 for a refusal
    mine,           \* the job the worker holds
    crashes

sessionVars == <<life, idle, stage, strategy, notes>>
tableVars   == <<job, attempts, type, key>>
dbVars      == <<sessionVars, tableVars>>
actorVars   == <<at, get, verdict, ask, answer, mine>>
vars        == <<dbVars, actorVars, crashes>>

Life     == {"alive", "frozen", "purged"}
Stage    == {"init", "strategy", "generation", "completed", "failed"}
KeyValue == {"none", "client", "auto"}

HandlerAt == {"new", "loading", "fitting", "misfitting", "touching", "replaying",
              "staging", "staged", "reviving", "revived", "answered"}
WorkerAt  == {"down", "recovering", "polling", "checking", "entering",
              "rejecting", "rejected", "starting", "started", "saving",
              "recording", "saved", "giving_up", "given_up", "marking",
              "deriving", "scheduling", "mourning", "burying", "buried"}

\* The awaits that begin with a get_session.
Loading == {"loading", "staging", "staged", "revived", "checking", "entering",
            "rejecting", "rejected", "starting", "started", "saving", "saved",
            "giving_up", "given_up", "mourning", "burying", "buried"}

\* The rows hold values their columns know, and every actor is at an await.
SessionTypeOK ==
    /\ JobStoreTypeOK
    /\ life \in Life /\ idle \in 0..4 /\ stage \in Stage
    /\ strategy \in BOOLEAN /\ notes \in BOOLEAN
    /\ type \in [Steps -> JobType] /\ key \in [Steps -> KeyValue]
    /\ at \in [Actors -> HandlerAt \cup WorkerAt]
    /\ at[Worker] \in WorkerAt /\ \A h \in Handlers : at[h] \in HandlerAt
    /\ get \in [Actors -> {"row", "count", "write", "done"}]
    /\ verdict \in [Actors -> Life]
    /\ ask \in [Handlers -> Ask] /\ answer \in [Handlers -> 0..N]
    /\ mine \in 0..N /\ crashes \in 0..MaxCrashes

NoAsk == [what |-> "status", key |-> "none"]

\* A session just created (POST /sessions draws its id), the process just up.
SessionInit ==
    /\ JobStoreInit
    /\ life = "alive" /\ idle = 0 /\ stage = "init"
    /\ strategy = FALSE /\ notes = FALSE
    /\ type = [j \in Steps |-> "strategy"] /\ key = [j \in Steps |-> "none"]
    /\ at = [a \in Actors |-> IF a = Worker THEN "recovering" ELSE "new"]
    /\ get = [a \in Actors |-> "done"] /\ verdict = [a \in Actors |-> "alive"]
    /\ ask = [h \in Handlers |-> NoAsk] /\ answer = [h \in Handlers |-> 0]
    /\ mine = 0 /\ crashes = 0

Up == at[Worker] # "down"

\* The actor goes on to another await.
Await(a, place) ==
    /\ at' = [at EXCEPT ![a] = place]
    /\ get' = [get EXCEPT ![a] = IF place \in Loading THEN "row" ELSE "done"]
    /\ verdict' = [verdict EXCEPT ![a] = "alive"]
At(a, place) == at[a] = place /\ get[a] = "done"
Read == UNCHANGED dbVars
StageOnly == UNCHANGED <<life, idle, strategy, notes>>

----------------------------------------------------------------------------
(* get_session: refresh_lifecycle_state, and then the row *)

\* Time by its two boundaries: 1 is about to be more than a day, 3 about to
\* be more than ten.
Level(time) == CASE time \in {0, 1} -> "alive"
                 [] time \in {2, 3} -> "frozen"
                 [] OTHER -> "purged"

Unfinished == {"queued", "paused", "retrying", "running"}
HasActiveJob == \E j \in Steps : job[j] \in {"queued", "retrying", "running"}

ReadSession(a) ==
    /\ get[a] = "row" /\ Read
    /\ \/ /\ life = "purged"
          /\ get' = [get EXCEPT ![a] = "done"] /\ UNCHANGED verdict
       \/ /\ life # "purged"
          /\ get' = [get EXCEPT ![a] = "count"]
          /\ verdict' = [verdict EXCEPT ![a] = Level(idle)]
    /\ UNCHANGED <<at, ask, answer, mine, crashes>>

CountActiveJobs(a) ==
    /\ get[a] = "count" /\ Read
    /\ get' = [get EXCEPT ![a] = "write"]
    /\ verdict' = [verdict EXCEPT ![a] = IF HasActiveJob THEN "alive" ELSE @]
    /\ UNCHANGED <<at, ask, answer, mine, crashes>>

\* refresh_lifecycle: whatever the row says now; a purge cancels the jobs.
WriteLifecycle(a) ==
    /\ get[a] = "write"
    /\ life' = verdict[a]
    /\ IF verdict[a] = "purged" THEN JobsFrom(Unfinished, "cancelled") ELSE UNCHANGED job
    /\ get' = [get EXCEPT ![a] = "done"]
    /\ verdict' = [verdict EXCEPT ![a] = "alive"]
    /\ UNCHANGED <<idle, stage, strategy, notes, attempts, type, key,
                   at, ask, answer, mine, crashes>>

GetSession(a) == ReadSession(a) \/ CountActiveJobs(a) \/ WriteLifecycle(a)

----------------------------------------------------------------------------
(* The jobs table *)

Existing(t, k) == {j \in Steps : job[j] # "none" /\ type[j] = t /\ key[j] = k}
NewRow(j) == job[j] = "none" /\ \A i \in Steps : i < j => job[i] # "none"

\* Mutant: neither the transaction nor the unique index knows a client's key.
InsertUnseen(t, k, j) ==
    IF k = "auto" /\ Existing(t, k) # {} THEN j \in Existing(t, k) ELSE NewRow(j)
\* enqueue_job: the row of that key if there is one, else a new one.
Insert(t, k, j) ==
    IF k # "none" /\ Existing(t, k) # {} THEN j \in Existing(t, k) ELSE NewRow(j)

EnqueueJob(t, k, j) ==
    /\ j \in Steps /\ Insert(t, k, j)
    /\ IF job[j] # "none" THEN UNCHANGED tableVars
       ELSE /\ Enqueue(j)
            /\ type' = [type EXCEPT ![j] = t]
            /\ key' = [key EXCEPT ![j] = k]

\* lease_one: of an alive session, the first in line; a job that waits for its
\* retry may be passed over.
NextInLine(j) == \A i \in Steps : i < j => job[i] # "queued"
LeaseNext(j) ==
    /\ life = "alive" /\ NextInLine(j)
    /\ Lease(j)
    /\ UNCHANGED <<type, key>>
----------------------------------------------------------------------------
(* The routes of the session *)

Fits(what) == stage = IF what = "strategy" THEN "init" ELSE "strategy"
NextStage(what) == IF what = "strategy" THEN "strategy" ELSE "generation"
Answer(h, j) == /\ Await(h, "answered") /\ answer' = [answer EXCEPT ![h] = j]
                /\ UNCHANGED <<ask, mine, crashes>>
\* Nobody is interested any more in what was asked.
Close(h) == Await(h, "answered") /\ ask' = [ask EXCEPT ![h] = NoAsk]
            /\ UNCHANGED <<answer, mine, crashes>>
Proceed(h, place) == Await(h, place) /\ UNCHANGED <<ask, answer, mine, crashes>>

Send(h, r) ==
    /\ Up /\ At(h, "new") /\ Read
    /\ Await(h, "loading") /\ ask' = [ask EXCEPT ![h] = r]
    /\ UNCHANGED <<answer, mine, crashes>>

\* _load_session_or_error, and with no key to look up _ensure_stage.
Load(h) ==
    LET what == ask[h].what
        keyed == ask[h].key # "none"
        refused == life = "purged" \/ (what \in JobType /\ life = "frozen")
    IN  /\ At(h, "loading") /\ Read
        /\ \/ (refused \/ what = "status") /\ Close(h)
           \/ ~refused /\ what = "resume" /\ Proceed(h, "reviving")
           \/ /\ ~refused /\ what \in JobType
              /\ \/ keyed /\ Proceed(h, IF Fits(what) THEN "fitting" ELSE "misfitting")
                 \/ ~keyed /\ Fits(what) /\ Proceed(h, "touching")
                 \/ ~keyed /\ ~Fits(what) /\ Close(h)

\* _try_replay_idempotent_enqueue, then _ensure_stage on the row read before.
LookUp(h) ==
    LET known == Existing(ask[h].what, ask[h].key)
    IN  /\ At(h, "fitting") \/ At(h, "misfitting")
        /\ Read
        /\ \/ /\ \E j \in known : answer' = [answer EXCEPT ![h] = j]
              /\ Await(h, "replaying") /\ UNCHANGED <<ask, mine, crashes>>
           \/ known = {} /\ at[h] = "fitting" /\ Proceed(h, "touching")
           \/ known = {} /\ at[h] = "misfitting" /\ Close(h)

\* touch_user_activity: the lifecycle state is left alone.
Touch(h) ==
    /\ At(h, "touching") \/ At(h, "replaying")
    /\ idle' = 0 /\ UNCHANGED <<life, stage, strategy, notes, tableVars>>
    /\ Proceed(h, IF at[h] = "touching" THEN "staging" ELSE "answered")

\* update_session(stage): whatever the stage is by now.
WriteStage(h) ==
    /\ At(h, "staging")
    /\ stage' = NextStage(ask[h].what) /\ StageOnly /\ UNCHANGED tableVars
    /\ Proceed(h, "staged")

\* The row that update_session reads again is not used.
EnqueueAsked(h) ==
    /\ At(h, "staged")
    /\ \E j \in Steps : EnqueueJob(ask[h].what, ask[h].key, j) /\ Answer(h, j)
    /\ UNCHANGED sessionVars

\* resume: update_activity asks for no lifecycle state, get_session again,
\* then resume_paused_jobs.
Revive(h) ==
    /\ At(h, "reviving")
    /\ life' = "alive" /\ idle' = 0 /\ UNCHANGED <<stage, strategy, notes, tableVars>>
    /\ Proceed(h, "revived")

ResumePaused(h) ==
    /\ At(h, "revived")
    /\ JobsFrom({"paused"}, "queued") /\ UNCHANGED <<attempts, type, key, sessionVars>>
    /\ Close(h)

HandlerStep(h) ==
    \/ GetSession(h) \/ Load(h) \/ LookUp(h) \/ Touch(h)
    \/ WriteStage(h) \/ EnqueueAsked(h) \/ Revive(h) \/ ResumePaused(h)

\* /jobs/{id}/pause, resume and cancel.
CommandJob(c, j) ==
    /\ Up
    /\ \/ c = "pause" /\ PauseJob(j)
       \/ c = "resume" /\ ResumeJob(j)
       \/ c = "cancel" /\ CancelJob(j)
    /\ UNCHANGED <<type, key, sessionVars, actorVars, crashes>>

\* A message of the thread, or its deletion: every job of the session.
CommandSession(c) ==
    /\ Up
    /\ \/ c = "pause" /\ JobsFrom({"queued", "retrying"}, "paused")
       \/ c = "resume" /\ JobsFrom({"paused"}, "queued")
       \/ c = "cancel" /\ JobsFrom(Unfinished, "cancelled")
    /\ UNCHANGED <<attempts, type, key, sessionVars, actorVars, crashes>>

----------------------------------------------------------------------------
(* The job worker, and the agents it runs *)

Go(place) == Await(Worker, place) /\ UNCHANGED <<ask, answer, crashes>>
Next1(place) == Go(place) /\ UNCHANGED mine
Free == Go("polling") /\ mine' = 0
On(place) == At(Worker, place)
Strategic == type[mine] = "strategy"

Recover ==
    /\ On("recovering")
    /\ \E E \in SUBSET {j \in Steps : job[j] = "running"} : RecoverExpired(E)
    /\ UNCHANGED <<type, key, sessionVars>> /\ Next1("polling")

LeaseOne ==
    /\ On("polling")
    /\ \E j \in Steps : LeaseNext(j) /\ mine' = j
    /\ UNCHANGED sessionVars /\ Go("checking")

\* Orchestrator.run_job: both refusals are final.
CheckSession ==
    /\ On("checking") /\ Read
    /\ Next1(IF life = "alive" THEN "entering" ELSE "mourning")

\* Mutant: generation starts without a strategy.
EnterBlindly == On("entering") /\ Read /\ Next1("starting")
\* execute of the agent: generation needs a stored strategy.
Enter ==
    /\ On("entering") /\ Read
    /\ Next1(IF Strategic \/ strategy THEN "starting" ELSE "rejecting")

\* update_session(stage = FAILED): by the agent that has no strategy, by the
\* agent whose call has failed, by the worker that gives the job up.
WriteFailed ==
    /\ \E place \in {<<"rejecting", "rejected">>, <<"giving_up", "given_up">>,
                    <<"burying", "buried">>} :
          On(place[1]) /\ Next1(place[2])
    /\ stage' = "failed" /\ StageOnly /\ UNCHANGED tableVars

Start ==
    /\ On("starting")
    /\ stage' = NextStage(type[mine]) /\ StageOnly /\ UNCHANGED tableVars
    /\ Next1("started")

\* The searches and models answer, fail, or raise what no agent catches.
Outcome ==
    /\ On("started") /\ Read
    /\ \E place \in {"saving", "giving_up", "mourning"} : Next1(place)

\* The last update_session: save_strategy or save_generated_notes, then the row.
SaveData ==
    /\ On("saving")
    /\ strategy' = (strategy \/ Strategic)
    /\ notes' = (notes \/ ~Strategic)
    /\ UNCHANGED <<life, idle, stage, tableVars>> /\ Next1("recording")

WriteResult ==
    /\ On("recording")
    /\ stage' = IF Strategic THEN "strategy" ELSE "completed"
    /\ StageOnly /\ UNCHANGED tableVars /\ Next1("saved")

\* The cancel guard of the worker.
CheckCancelled ==
    /\ On("saved") /\ Read
    /\ IF job[mine] = "cancelled" THEN Free ELSE Next1("marking")

Succeed ==
    /\ On("marking") /\ MarkSucceeded(mine)
    /\ UNCHANGED <<type, key, sessionVars>>
    /\ IF Strategic THEN Next1("deriving") ELSE Free

\* The generation that follows a strategy, whatever has become of the session.
Derive ==
    /\ On("deriving")
    /\ \E j \in Steps : EnqueueJob("generate", "auto", j)
    /\ UNCHANGED sessionVars /\ Free

\* What the agent raised: only a strategy's search may be tried again.
Raise ==
    /\ On("rejected") \/ On("given_up")
    /\ Read
    /\ \/ at[Worker] = "given_up" /\ Strategic /\ ~Spent(mine) /\ Next1("scheduling")
       \/ Next1("mourning")

Reschedule ==
    /\ On("scheduling") /\ ScheduleRetry(mine)
    /\ UNCHANGED <<type, key, sessionVars>> /\ Free

\* _mark_session_failed: get_session, and the one of its update_session.
Mourn == On("mourning") /\ Read /\ Next1("burying")

\* Mutant: the job itself is left as it is.
BuryAlive == On("buried") /\ Read /\ Free
Bury ==
    /\ On("buried") /\ MarkFailed(mine)
    /\ UNCHANGED <<type, key, sessionVars>> /\ Free

WorkerStep ==
    \/ GetSession(Worker) \/ Recover \/ LeaseOne \/ CheckSession \/ Enter
    \/ WriteFailed \/ Start \/ Outcome \/ SaveData \/ WriteResult
    \/ CheckCancelled \/ Succeed \/ Derive \/ Raise \/ Reschedule
    \/ Mourn \/ Bury

----------------------------------------------------------------------------
(* Time, and the process *)

Quiet == at[Worker] \in {"down", "polling"}
         /\ \A h \in Handlers : at[h] \in {"new", "answered"}

\* A boundary may be passed at any await, a day only between requests.
Tick ==
    /\ idle < 4 /\ (idle \in {1, 3} \/ Quiet)
    /\ idle' = idle + 1
    /\ UNCHANGED <<life, stage, strategy, notes, tableVars, actorVars, crashes>>

\* Every request under way is lost with the process.
Crash ==
    /\ Up /\ crashes < MaxCrashes
    /\ crashes' = crashes + 1
    /\ at' = [a \in Actors |-> IF a = Worker THEN "down"
                              ELSE IF at[a] = "new" THEN "new" ELSE "answered"]
    /\ get' = [a \in Actors |-> "done"] /\ verdict' = [a \in Actors |-> "alive"]
    /\ ask' = [h \in Handlers |-> IF at[h] = "answered" THEN ask[h] ELSE NoAsk]
    /\ answer' = [h \in Handlers |-> IF at[h] = "answered" THEN answer[h] ELSE 0]
    /\ mine' = 0 /\ UNCHANGED dbVars

Restart == On("down") /\ Read /\ Next1("recovering")

Next ==
    \/ \E h \in Handlers, r \in Requests : Send(h, r)
    \/ \E h \in Handlers : HandlerStep(h)
    \/ \E c \in Commands : CommandSession(c) \/ \E j \in Steps : CommandJob(c, j)
    \/ WorkerStep
    \/ Tick \/ Crash \/ Restart

SessionSpec == SessionInit /\ [][Next]_vars
\* The event loop runs every request it has begun and the worker's task.
FairSpec == /\ SessionSpec
            /\ \A h \in Handlers : WF_vars(HandlerStep(h))
            /\ WF_vars(WorkerStep) /\ WF_vars(Restart)

----------------------------------------------------------------------------
(* Properties *)

\* A request sent again under its key is answered with the job the first one
\* made, however the two race (_try_replay_idempotent_enqueue, enqueue).
IdempotentRequests ==
    \A g, h \in Handlers :
        /\ at[g] = "answered" /\ at[h] = "answered" /\ answer[g] # 0 /\ answer[h] # 0
        /\ ask[g] = ask[h] /\ ask[g].key # "none"
        => answer[g] = answer[h]

\* A job that has succeeded left its result behind, a generation derived from
\* a strategy finds it, and a session completes with both stored, whatever
\* the worker, a cancel, a purge or a crash did in between.
ResultsAreStored ==
    /\ \A j \in Steps : job[j] = "succeeded" => IF type[j] = "strategy" THEN strategy ELSE notes
    /\ \A j \in Steps : key[j] = "auto" => strategy
    /\ stage = "completed" => strategy /\ notes

\* No job of a session is leased more often than its budget allows: lease_one
\* does not look at it, so whoever puts a job back in line must have.
SessionBudget == \A j \in Steps : attempts[j] <= MaxAttempts

\* The line of an alive session empties again and again: no job waits for
\* ever behind one that has been given up.  (A crash may leave a running job
\* whose lease outlives the one recovery, and then nothing is leased.)
Waiting(j) == job[j] \in {"queued", "retrying"}
QueuedJobsRun == []<>((\E j \in Steps : Waiting(j)) => life # "alive" \/ crashes > 0)
=============================================================================
