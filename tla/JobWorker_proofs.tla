-------------------------- MODULE JobWorker_proofs --------------------------
(***************************************************************************)
(* Proofs about JobWorker for any number of steps, attempts, crashes, any  *)
(* commands of the user and any errors of the runners.  What WorkflowRun   *)
(* promises for arbitrary callers holds for these callers; the inductive   *)
(* invariant says that a run has one frontier: the step of the only job    *)
(* that is not over, with every earlier step done and no later job.        *)
(***************************************************************************)
EXTENDS JobWorker, WorkflowRun_proofs

Idle == {"down", "dead", "recovering", "syncing", "polling"}
Executing == {"executing", "attaching", "executed", "pause_check", "pausing",
              "completing", "blocked_pause", "blocked_pausing", "retrying",
              "failing", "cancel_check", "cancelling"}
Dispatching == {"dispatching", "enqueueing", "ending", "completing_run"}
Finished == {"marking", "dispatching", "ending", "completing_run"}
Resting == {"down", "recovering", "syncing", "polling", "leased", "rejected"}
HasJob(s) == job[s] # "none"
AnyJob == \E s \in Steps : HasJob(s)

\* A worker that is busy is busy with a step, and with its job unless it is
\* about to enqueue that job.
Control ==
    /\ worker \notin Idle => at \in Steps /\ (worker = "enqueueing" \/ HasJob(at))
    /\ launcher = "enqueueing" => target \in Steps

----------------------------------------------------------------------------
(* Each step of the worker is a transaction of the manager or the store *)

LEMMA ControlInit == WorkerInit => WorkerTypeOK /\ Control
  <1> SUFFICES ASSUME WorkerInit PROVE WorkerTypeOK /\ Control
    OBVIOUS
  <1>1. TypeOK
    BY TypeInit DEF WorkerInit
  <1>2. /\ worker \in WorkerAt /\ at \in 0..N /\ expired \subseteq Steps
        /\ launcher \in LauncherAt /\ target \in 0..N /\ crashes \in 0..MaxCrashes
    BY TemplateAssumption, WorkerAssumption DEF WorkerInit, WorkerAt, LauncherAt
  <1>3. forced \in BOOLEAN /\ excused \subseteq Steps
    BY DEF WorkerInit
  <1>4. Control
    BY DEF WorkerInit, Control, Idle
  <1> QED BY <1>1, <1>2, <1>3, <1>4 DEF WorkerTypeOK

LEMMA Simulates ==
    WorkerTypeOK /\ Control /\ [WorkerNext]_vars => [Next]_dbVars
  <1> SUFFICES ASSUME WorkerTypeOK, Control, [WorkerNext]_vars
               PROVE  [Next]_dbVars
    OBVIOUS
  <1>a. ASSUME NEW s \in Steps, StepStep(s) \/ JobStep(s) PROVE Next
    BY <1>a DEF Next
  <1>b. worker \notin Idle => at \in Steps
    BY DEF Control
  <1>1. CASE \/ Synced \/ Return \/ CheckCommit \/ CheckJob \/ CheckCancel
             \/ CheckPause \/ CheckBlockedPause \/ Dispatch \/ CheckEnd
             \/ Crash \/ Restart \/ UNCHANGED vars
             \/ \E error \in Errors : Raise(error)
    BY <1>1 DEF Synced, Return, CheckCommit, CheckJob, CheckCancel, CheckPause,
                CheckBlockedPause, Dispatch, CheckEnd, Crash, Restart, Raise,
                Read, vars
  <1>2. CASE Recover
    BY <1>2 DEF Recover, JobOnly, Next, ExpireLeases
  <1>3. ASSUME NEW s \in Steps, SyncStep(s) \/ LeaseJob(s)
        PROVE  [Next]_dbVars
    <2>1. StepStep(s) \/ JobStep(s) \/ UNCHANGED dbVars
      BY <1>3 DEF SyncStep, LeaseJob, Read, JobOnly, StepStep, JobStep
    <2> QED BY <2>1, <1>a
  <1>4. CASE \/ Start \/ AcknowledgeCancel \/ AcknowledgePause \/ Complete
             \/ Retry \/ Fail
    <2>1. StepStep(at) \/ UNCHANGED dbVars
      BY <1>4 DEF Start, AcknowledgeCancel, AcknowledgePause, Complete, Retry, Fail,
                  Read, StepStep
    <2>2. worker \notin Idle
      BY <1>4 DEF Start, AcknowledgeCancel, AcknowledgePause, Complete, Retry, Fail, Idle
    <2> QED BY <2>1, <2>2, <1>a, <1>b
  <1>5. CASE \/ Reject \/ Drop \/ Mark \/ Schedule \/ MarkFailing \/ EnqueueNext
    <2>1. JobStep(at) \/ UNCHANGED dbVars
      BY <1>5 DEF Reject, Drop, Mark, Schedule, MarkFailing, EnqueueNext, Read,
                  JobOnly, JobStep
    <2>2. worker \notin Idle
      BY <1>5 DEF Reject, Drop, Mark, Schedule, MarkFailing, EnqueueNext, Idle
    <2> QED BY <2>1, <2>2, <1>a, <1>b
  <1>6. CASE Attach
    <2>1. at \in Steps
      BY <1>6, <1>b DEF Attach, Idle
    <2> QED BY <1>6, <2>1 DEF Attach, Read, Next, RunStep
  <1>7. CASE EndRun
    BY <1>7 DEF EndRun, Read, Next, RunStep
  <1>8. CASE Launch
    <2>1. CASE launcher = "enqueueing" /\ Enqueue(target) /\ JobOnly
      <3>1. target \in Steps
        BY <2>1 DEF Control
      <3>2. JobStep(target)
        BY <2>1 DEF JobStep, JobOnly
      <3> QED BY <3>1, <3>2, <1>a
    <2>2. CASE StartRun \/ InitializeSteps \/ Read
      BY <2>2 DEF Next, RunStep, Read
    <2> QED BY <1>8, <2>1, <2>2 DEF Launch
  <1>9. CASE UserCommand
    <2>1. \/ RunStep
          \/ \E s \in Steps : JobStep(s)
      BY <1>9 DEF UserCommand, RunStep, JobStep, JobOnly
    <2> QED BY <2>1, <1>a DEF Next
  <1> QED BY <1>1, <1>2, <1>3, <1>4, <1>5, <1>6, <1>7, <1>8, <1>9
          DEF WorkerNext, WorkerStep

----------------------------------------------------------------------------
(* Types and control *)

\* No transaction removes a job.
LEMMA JobsStay ==
    ASSUME TypeOK, [Next]_dbVars, NEW s \in Steps, HasJob(s)
    PROVE  HasJob(s)'
  <1> USE DEF HasJob
  <1>0. job \in [Steps -> JobStatus]
    BY DEF TypeOK, JobStoreTypeOK
  <1>1. CASE RunStep
    BY <1>0, <1>1
    DEF RunStep, StartRun, InitializeSteps, PauseRun, ResumeRun, WakeRun, CancelRun,
        CompleteRun, FailRun, BeginReportFinalization, CompleteReportFinalization,
        RetryFailedReport, AttachArtifact, JobsFrom, jobVars
  <1>2. ASSUME NEW t \in Steps, StepStep(t) PROVE HasJob(s)'
    BY <1>0, <1>2
    DEF StepStep, StartStep, CompleteStep, CompleteCancelled, RetryStep, FailStep,
        CancelStep, SkipStep, WaitForUser, RestartStep, AckPause, AckCancel,
        JobsFrom, jobVars
  <1>3. ASSUME NEW t \in Steps, JobStep(t) PROVE HasJob(s)'
    BY <1>0, <1>3
    DEF JobStep, Enqueue, Lease, MarkSucceeded, MarkFailed, ScheduleRetry, PauseJob,
        ResumeJob, CancelJob
  <1>4. CASE ExpireLeases
    BY <1>0, <1>4 DEF ExpireLeases, RecoverExpired
  <1> QED BY <1>1, <1>2, <1>3, <1>4 DEF Next, dbVars

\* What a step of the worker on its way does to the worker itself.
LEMMA MoveTypes ==
    ASSUME WorkerTypeOK, NEW pc \in WorkerAt, Move(pc)
    PROVE  /\ worker' \in WorkerAt /\ at' \in 0..N /\ expired' \subseteq Steps
           /\ launcher' = launcher /\ target' = target
           /\ crashes' = crashes /\ forced' = forced
  BY TemplateAssumption DEF Move, WorkerTypeOK

Going == \E pc \in WorkerAt : Move(pc)

LEMMA WorkerGoes ==
    ASSUME \/ Synced \/ Start \/ Reject \/ Return \/ CheckCommit \/ Attach
           \/ CheckJob \/ CheckCancel \/ AcknowledgeCancel \/ CheckPause
           \/ CheckBlockedPause \/ AcknowledgePause \/ Complete \/ Drop \/ Mark
           \/ Retry \/ Schedule \/ Fail \/ MarkFailing \/ EnqueueNext \/ CheckEnd
           \/ EndRun \/ Restart \/ \E error \in Errors : Raise(error)
    PROVE  Going
  <1> USE DEF Going, WorkerAt, GoTo
  <1>1. CASE Synced \/ Start \/ Reject \/ Return \/ Attach
    BY <1>1 DEF Synced, Start, Reject, Return, Attach
  <1>2. CASE CheckCommit
    BY <1>2 DEF CheckCommit
  <1>3. CASE CheckJob \/ CheckCancel \/ AcknowledgeCancel
    BY <1>3 DEF CheckJob, CheckCancel, AcknowledgeCancel
  <1>4. CASE CheckPause \/ CheckBlockedPause \/ AcknowledgePause
    BY <1>4 DEF CheckPause, CheckBlockedPause, AcknowledgePause
  <1>5. CASE Complete \/ Drop \/ Mark \/ Retry \/ Schedule
    BY <1>5 DEF Complete, Drop, Mark, Retry, Schedule
  <1>6. CASE Fail \/ MarkFailing \/ EnqueueNext \/ CheckEnd \/ EndRun \/ Restart
    BY <1>6 DEF Fail, MarkFailing, EnqueueNext, CheckEnd, EndRun, Restart
  <1>7. CASE \E error \in Errors : Raise(error)
    BY <1>7 DEF Raise
  <1> QED BY <1>1, <1>2, <1>3, <1>4, <1>5, <1>6, <1>7

\* Only an acknowledged pause excuses a step.
LEMMA ExcusesGrow ==
    ASSUME Control, [WorkerNext]_vars
    PROVE  \/ excused' = excused
           \/ at \in Steps /\ excused' = excused \cup {at}
  <1>1. CASE AcknowledgePause
    BY <1>1 DEF AcknowledgePause, GoTo, Control, Idle
  <1>2. CASE \/ Synced \/ Start \/ Reject \/ Return \/ CheckCommit \/ Attach
             \/ CheckJob \/ CheckCancel \/ AcknowledgeCancel \/ CheckPause
    BY <1>2 DEF Synced, Start, Reject, Return, CheckCommit, Attach, CheckJob,
                CheckCancel, AcknowledgeCancel, CheckPause, GoTo
  <1>3. CASE \/ CheckBlockedPause \/ Complete \/ Drop \/ Mark
             \/ Retry \/ Schedule \/ Fail \/ MarkFailing \/ EnqueueNext \/ CheckEnd
             \/ EndRun \/ Restart \/ \E error \in Errors : Raise(error)
    BY <1>3 DEF CheckBlockedPause, Complete, Drop, Mark, Retry, Schedule, Fail,
                MarkFailing, EnqueueNext, CheckEnd, EndRun, Restart, Raise, GoTo
  <1>4. CASE Recover \/ Dispatch \/ Launch \/ UserCommand \/ Crash \/ UNCHANGED vars
    BY <1>4 DEF Recover, Dispatch, Launch, UserCommand, Crash, vars, actorVars
  <1>5. CASE \E s \in Steps : SyncStep(s) \/ LeaseJob(s)
    BY <1>5 DEF SyncStep, LeaseJob
  <1> QED BY <1>1, <1>2, <1>3, <1>4, <1>5 DEF WorkerNext, WorkerStep

LEMMA WorkerTypeStep ==
    WorkerTypeOK /\ Control /\ [WorkerNext]_vars => WorkerTypeOK'
  <1> SUFFICES ASSUME WorkerTypeOK, Control, [WorkerNext]_vars
               PROVE  WorkerTypeOK'
    OBVIOUS
  <1>1. TypeOK'
    BY Simulates, TypeStep DEF WorkerTypeOK
  <1> SUFFICES /\ worker' \in WorkerAt /\ at' \in 0..N /\ expired' \subseteq Steps
               /\ launcher' \in LauncherAt /\ target' \in 0..N
               /\ crashes' \in 0..MaxCrashes /\ forced' \in BOOLEAN
    BY <1>1, ExcusesGrow DEF WorkerTypeOK
  <1>2. CASE Going
    BY <1>2, MoveTypes DEF Going, WorkerTypeOK
  <1>0. /\ worker \in WorkerAt /\ at \in 0..N /\ expired \subseteq Steps
        /\ Steps \subseteq 0..N
    BY TemplateAssumption DEF WorkerTypeOK, Steps
  <1>3. CASE Recover \/ Dispatch
    <2>1. worker' \in WorkerAt
      BY <1>3 DEF Recover, Dispatch, WorkerAt
    <2>2. at' \in 0..N
      BY <1>0, <1>3 DEF Recover, Dispatch
    <2>3. expired' \subseteq Steps
      BY <1>0, <1>3 DEF Recover, Dispatch
    <2>4. UNCHANGED <<launcher, crashes, target, forced>>
      BY <1>3 DEF Recover, Dispatch
    <2> QED BY <2>1, <2>2, <2>3, <2>4 DEF WorkerTypeOK
  <1>4. ASSUME NEW s \in Steps, SyncStep(s) \/ LeaseJob(s)
        PROVE  /\ worker' \in WorkerAt /\ at' \in 0..N /\ expired' \subseteq Steps
               /\ UNCHANGED <<launcher, crashes, target, forced>>
    <2>1. worker' \in WorkerAt
      BY <1>0, <1>4 DEF SyncStep, LeaseJob, WorkerAt
    <2>2. at' \in 0..N
      BY <1>0, <1>4 DEF SyncStep, LeaseJob
    <2>3. expired' \subseteq Steps
      BY <1>0, <1>4 DEF SyncStep, LeaseJob
    <2>4. UNCHANGED <<launcher, crashes, target, forced>>
      BY <1>4 DEF SyncStep, LeaseJob
    <2> QED BY <2>1, <2>2, <2>3, <2>4
  <1>5. CASE Launch
    BY <1>5 DEF Launch, WorkerTypeOK, LauncherAt, Steps
  <1>6. CASE UserCommand
    BY <1>6 DEF UserCommand, WorkerTypeOK
  <1>7. CASE Crash
    <2>1. crashes' \in 0..MaxCrashes
      BY <1>7, WorkerAssumption DEF Crash, WorkerTypeOK
    <2> QED BY <1>7, <2>1, TemplateAssumption
            DEF Crash, WorkerTypeOK, WorkerAt, LauncherAt
  <1>8. CASE UNCHANGED vars
    BY <1>8 DEF vars, actorVars, WorkerTypeOK
  <1> QED BY <1>2, <1>3, <1>4, <1>5, <1>6, <1>7, <1>8, WorkerGoes
          DEF WorkerNext, WorkerStep, WorkerTypeOK

----------------------------------------------------------------------------
(* The inductive invariant *)

\* A step somebody is about to enqueue, or that has a job.
Aimed(s) == \/ HasJob(s)
            \/ worker = "enqueueing" /\ at = s
            \/ launcher = "enqueueing" /\ target = s
Begun == launcher = "enqueueing" \/ worker \notin Idle \/ AnyJob
Open == {"queued", "paused", "retrying", "running"}

\* Before the launcher is done there is no job.
Launching == launcher # "done" => ~AnyJob /\ worker \in Idle

\* Every step before one with a job is done, and no step after the frontier
\* has a job.
EarlierDone == \A s, r \in Steps : Aimed(s) /\ r < s => step[r] = "succeeded"
ActiveHasJob == \A s \in Steps : step[s] \in Active => HasJob(s)
OpenIsLast == \A s, r \in Steps : job[s] \in Open /\ s < r => ~HasJob(r)
BusyIsLast == worker \notin Idle => \A r \in Steps : at < r => ~HasJob(r)
NothingOpen == worker \in Dispatching => \A s \in Steps : job[s] \notin Open
FrontierInv == /\ EarlierDone /\ ActiveHasJob
               /\ OpenIsLast /\ BusyIsLast /\ NothingOpen

\* What the rows of the steps can say, given where run and worker are.
NeverSkipped == \A s \in Steps : step[s] # "skipped"
Initialized == launcher = "dispatching" \/ Begun => \A s \in Steps : step[s] # "none"
CancelledByRun == \A s \in Steps :
    step[s] = "cancelled" => run \in {"cancelling", "cancelled", "succeeded"}
NonePending == run \in {"cancelling", "cancelled"} /\ Begun =>
    \A s \in Steps : step[s] # "pending"
ExecutesIts == worker \in Executing => step[at] \in {"running", "cancelled"}
FinishedIts == worker \in Finished =>
    step[at] = "succeeded"
RowsInv == /\ NeverSkipped /\ Initialized /\ CancelledByRun /\ NonePending
           /\ ExecutesIts /\ FinishedIts

\* Only a worker without an execution is there while the run is paused.
Quiet == run = "paused" =>
    /\ \A s \in Steps : step[s] # "running"
    /\ worker \in Resting

IInv == /\ WorkerTypeOK /\ Control /\ Launching /\ FrontierInv /\ RowsInv
        /\ Quiet /\ CancelledIsSettled

----------------------------------------------------------------------------
(* What one step does to the rows, the jobs and the actors *)

\* The transactions on the run and the steps, and who issues them from where.
LEMMA RowMoves ==
    ASSUME WorkerTypeOK, Control, [WorkerNext]_vars
    PROVE  \/ UNCHANGED <<run, step>>
           \/ launcher = "idle" /\ StartRun /\ UNCHANGED <<worker, at>>
           \/ /\ launcher = "initializing" /\ InitializeSteps
              /\ launcher' = "dispatching" /\ UNCHANGED <<worker, at>>
           \/ /\ \/ PauseRun /\ "pause_run" \in Commands
                 \/ ResumeRun \/ CancelRun \/ CompleteRun
              /\ UNCHANGED <<worker, at, launcher, target>>
           \/ CompleteRun /\ worker' = "polling"
           \/ /\ worker = "syncing" /\ worker' = "syncing"
              /\ \E s \in Steps : FailStep(s) \/ RetryStep(s)
           \/ StartStep(at) /\ worker = "leased" /\ worker' = "executing" /\ at' = at
           \/ AckCancel(at) /\ worker = "cancelling" /\ worker' = "polling"
           \/ AckPause(at) /\ worker \in {"pausing", "blocked_pausing"} /\ worker' = "polling"
           \/ CompleteStep(at) /\ worker = "completing" /\ worker' = "marking" /\ at' = at
           \/ /\ CompleteCancelled(at) /\ worker = "completing" /\ at' = at
              /\ worker' = IF step[at] = "succeeded" THEN "marking" ELSE "dropping"
           \/ RetryStep(at) /\ worker = "retrying" /\ worker' = "scheduling" /\ at' = at
           \/ FailStep(at) /\ worker = "failing" /\ worker' = "mark_failing" /\ at' = at
  <1>1. CASE Start
    BY <1>1 DEF Start, Read, GoTo, Move, dbVars, runVars
  <1>2. CASE AcknowledgeCancel
    BY <1>2 DEF AcknowledgeCancel, Read, GoTo, Move, dbVars
  <1>3. CASE AcknowledgePause
    BY <1>3 DEF AcknowledgePause, Read, GoTo, Move, dbVars
  <1>4. CASE Complete
    BY <1>4 DEF Complete, Read, GoTo, Move, dbVars
  <1>5. CASE Retry \/ Fail
    BY <1>5 DEF Retry, Fail, Read, GoTo, Move, dbVars
  <1>6. CASE EndRun
    BY <1>6 DEF EndRun, Read, GoTo, Move, dbVars
  <1>7. ASSUME NEW s \in Steps, SyncStep(s)
        PROVE  \/ UNCHANGED <<run, step>>
               \/ worker = "syncing" /\ worker' = "syncing" /\ (FailStep(s) \/ RetryStep(s))
    BY <1>7 DEF SyncStep, Read, dbVars
  <1>8. CASE Launch
    BY <1>8 DEF Launch, Read, JobOnly, dbVars, runVars
  <1>9. CASE UserCommand
    BY <1>9 DEF UserCommand, JobOnly, runVars
  <1>10. CASE Attach
    BY <1>10 DEF Attach, AttachArtifact, Read, dbVars
  <1>11. CASE \/ Synced \/ Return \/ CheckCommit \/ CheckJob \/ CheckCancel
              \/ CheckPause \/ CheckBlockedPause \/ Dispatch \/ CheckEnd
              \/ Crash \/ Restart \/ UNCHANGED vars
              \/ \E error \in Errors : Raise(error)
    BY <1>11 DEF Synced, Return, CheckCommit, CheckJob, CheckCancel, CheckPause,
                 CheckBlockedPause, Dispatch, CheckEnd, Crash, Restart, Raise,
                 Read, dbVars, vars
  <1>12. CASE \/ Recover \/ Reject \/ Drop \/ Mark \/ Schedule \/ MarkFailing
              \/ EnqueueNext \/ \E s \in Steps : LeaseJob(s)
    BY <1>12 DEF Recover, Reject, Drop, Mark, Schedule, MarkFailing, EnqueueNext,
                 LeaseJob, Read, JobOnly, dbVars, runVars
  <1> QED BY <1>1, <1>2, <1>3, <1>4, <1>5, <1>6, <1>7, <1>8, <1>9, <1>10, <1>11, <1>12
          DEF WorkerNext, WorkerStep

\* The transactions on the jobs, and who issues them from where.
LEMMA JobMoves ==
    ASSUME WorkerTypeOK, Control, [WorkerNext]_vars
    PROVE  \/ job' = job /\ attempts' = attempts
           \/ /\ PauseRun \/ ResumeRun \/ CancelRun
                 \/ \E s \in Steps : PauseJob(s) \/ ResumeJob(s) \/ CancelJob(s)
              /\ UNCHANGED <<worker, at, launcher, target>>
           \/ /\ worker = "recovering" /\ worker' = "syncing" /\ ExpireLeases
           \/ /\ worker = "polling" /\ worker' = "leased" /\ launcher' = launcher
              /\ at' \in Steps /\ Lease(at')
           \/ /\ worker \notin Idle \cup Dispatching /\ worker' = "polling"
              /\ \/ MarkFailed(at) \/ CancelJob(at) \/ ScheduleRetry(at)
                 \/ AckPause(at) /\ excused' = excused \cup {at}
           \/ worker = "marking" /\ worker' = "dispatching" /\ MarkSucceeded(at) /\ at' = at
           \/ worker = "enqueueing" /\ worker' = "polling" /\ Enqueue(at)
           \/ /\ launcher = "enqueueing" /\ launcher' = "done" /\ Enqueue(target)
              /\ UNCHANGED <<worker, at>>
  <1>1. CASE \/ Synced \/ Return \/ CheckCommit \/ CheckJob \/ CheckCancel
             \/ CheckPause \/ CheckBlockedPause \/ Dispatch \/ CheckEnd
             \/ Crash \/ Restart \/ UNCHANGED vars
             \/ \E error \in Errors : Raise(error)
    BY <1>1 DEF Synced, Return, CheckCommit, CheckJob, CheckCancel, CheckPause,
                CheckBlockedPause, Dispatch, CheckEnd, Crash, Restart, Raise,
                Read, dbVars, vars
  <1>2. CASE \/ Start \/ AcknowledgeCancel \/ Complete \/ Retry \/ Fail \/ EndRun \/ Attach
    BY <1>2 DEF Start, AcknowledgeCancel, Complete, Retry, Fail, EndRun, Attach, StartStep,
                AckCancel, CompleteStep, CompleteCancelled, RetryStep, FailStep,
                CompleteRun, AttachArtifact, Read, dbVars, jobVars
  <1>3. CASE AcknowledgePause
    BY <1>3 DEF AcknowledgePause, GoTo, Move, Read, dbVars, Idle, Dispatching
  <1>4. CASE Recover
    BY <1>4 DEF Recover, ExpireLeases, JobOnly
  <1>5. ASSUME NEW s \in Steps, SyncStep(s)
        PROVE  job' = job /\ attempts' = attempts
    BY <1>5 DEF SyncStep, FailStep, RetryStep, Read, dbVars, jobVars
  <1>6. ASSUME NEW s \in Steps, LeaseJob(s)
        PROVE  /\ worker = "polling" /\ worker' = "leased" /\ launcher' = launcher
               /\ at' \in Steps /\ Lease(at')
    BY <1>6 DEF LeaseJob
  <1>7. CASE Reject \/ Drop \/ Schedule \/ MarkFailing
    BY <1>7 DEF Reject, Drop, Schedule, MarkFailing, GoTo, Move, Read, dbVars, Idle, Dispatching
  <1>8. CASE Mark
    BY <1>8 DEF Mark, GoTo, Move
  <1>9. CASE EnqueueNext
    BY <1>9 DEF EnqueueNext, GoTo, Move
  <1>10. CASE Launch
    BY <1>10 DEF Launch, StartRun, InitializeSteps, Read, dbVars, jobVars
  <1>11. CASE UserCommand
    BY <1>11 DEF UserCommand, CompleteRun, jobVars
  <1> QED BY <1>1, <1>2, <1>3, <1>4, <1>5, <1>6, <1>7, <1>8, <1>9, <1>10, <1>11
          DEF WorkerNext, WorkerStep

\* The worker moves between idling, holding a job and dispatching the next.
LEMMA WorkerMoves ==
    ASSUME WorkerTypeOK, [WorkerNext]_vars
    PROVE  /\ worker' \in Executing =>
                /\ at' = at
                /\ worker \in Executing \/ (worker = "leased" /\ StartStep(at))
           /\ worker' \in Finished =>
                /\ at' = at
                /\ \/ worker \in Finished
                   \/ worker = "completing" /\ CompleteStep(at)
                   \/ worker = "completing" /\ CompleteCancelled(at) /\ step[at] = "succeeded"
           /\ worker' \notin Idle =>
                \/ worker \notin Idle /\ at' = at
                \/ worker = "polling" /\ at' \in Steps /\ Lease(at') /\ worker' = "leased"
                \/ /\ worker = "dispatching" /\ worker' = "enqueueing" /\ Read
                   /\ HasNext /\ at' \in Steps /\ FirstRunnable(at')
           /\ worker' \in Dispatching =>
                worker \in Dispatching \/ (worker = "marking" /\ MarkSucceeded(at))
           /\ worker' = "enqueueing" /\ worker # "enqueueing" =>
                worker = "dispatching" /\ HasNext /\ at' \in Steps /\ FirstRunnable(at')
           /\ worker \in Resting =>
                worker' \in Resting \/ (worker = "leased" /\ StartStep(at))
  <1> USE DEF Executing, Finished, Idle, Dispatching, Resting
  <1>1. CASE \/ Synced \/ Start \/ Reject \/ Return \/ CheckCommit \/ Attach
    BY <1>1 DEF Synced, Start, Reject, Return, CheckCommit, Attach, GoTo, Move
  <1>2. CASE \/ CheckJob \/ CheckCancel \/ AcknowledgeCancel \/ CheckPause
             \/ CheckBlockedPause \/ AcknowledgePause
    BY <1>2 DEF CheckJob, CheckCancel, AcknowledgeCancel, CheckPause,
                CheckBlockedPause, AcknowledgePause, GoTo, Move
  <1>3. CASE \/ Complete \/ Drop \/ Mark
    BY <1>3 DEF Complete, Drop, Mark, GoTo, Move
  <1>4. CASE \/ Retry \/ Schedule \/ Fail \/ MarkFailing \/ EnqueueNext
             \/ CheckEnd \/ EndRun \/ Restart
    BY <1>4 DEF Retry, Schedule, Fail, MarkFailing, EnqueueNext, CheckEnd, EndRun,
                Restart, GoTo, Move
  <1>5. CASE \E error \in Errors : Raise(error)
    BY <1>5 DEF Raise, GoTo, Move
  <1>6. CASE Recover \/ Crash \/ \E s \in Steps : SyncStep(s)
    BY <1>6 DEF Recover, Crash, SyncStep
  <1>7. ASSUME NEW s \in Steps, LeaseJob(s)
        PROVE  worker = "polling" /\ at' \in Steps /\ Lease(at') /\ worker' = "leased"
    BY <1>7 DEF LeaseJob
  <1>8. CASE Dispatch
    BY <1>8 DEF Dispatch
  <1>9. CASE Launch \/ UserCommand \/ UNCHANGED vars
    BY <1>9 DEF Launch, UserCommand, vars, actorVars
  <1> QED BY <1>1, <1>2, <1>3, <1>4, <1>5, <1>6, <1>7, <1>8, <1>9
          DEF WorkerNext, WorkerStep

\* The launcher moves on, or is lost with the process.
LEMMA LauncherMoves ==
    ASSUME WorkerTypeOK, [WorkerNext]_vars
    PROVE  /\ launcher' # "done" => launcher # "done"
           /\ launcher' = "dispatching" =>
                launcher = "dispatching" \/ (launcher = "initializing" /\ InitializeSteps)
           /\ launcher' = "enqueueing" =>
                \/ launcher = "enqueueing" /\ target' = target
                \/ /\ launcher = "dispatching" /\ Read /\ UNCHANGED <<worker, at>>
                   /\ HasNext /\ target' \in Steps /\ FirstRunnable(target')
  <1>1. CASE Going
    BY <1>1 DEF Going, GoTo, Move
  <1>2. CASE Recover \/ Dispatch \/ \E s \in Steps : SyncStep(s) \/ LeaseJob(s)
    BY <1>2 DEF Recover, Dispatch, SyncStep, LeaseJob
  <1>3. CASE Launch
    BY <1>3 DEF Launch
  <1>4. CASE UserCommand \/ Crash \/ UNCHANGED vars
    BY <1>4 DEF UserCommand, Crash, vars, actorVars
  <1> QED BY <1>1, <1>2, <1>3, <1>4, WorkerGoes DEF WorkerNext, WorkerStep

LEMMA EnqueueingMoves ==
    ASSUME [WorkerNext]_vars, worker = "enqueueing"
    PROVE  worker' = "enqueueing" \/ worker' \in Idle
  <1> USE DEF Idle
  <1>1. CASE WorkerStep
    BY <1>1 DEF WorkerStep, Synced, Start, Reject, Return, CheckCommit, Attach, CheckJob,
                CheckCancel, AcknowledgeCancel, CheckPause, CheckBlockedPause,
                AcknowledgePause, Complete, Drop, Mark, Retry, Schedule, Fail,
                MarkFailing, EnqueueNext, CheckEnd, EndRun, Raise, Recover, Dispatch,
                SyncStep, LeaseJob, GoTo, Move
  <1>2. CASE Launch \/ UserCommand \/ Crash \/ Restart \/ UNCHANGED vars
    BY <1>2 DEF Launch, UserCommand, Crash, Restart, GoTo, Move, vars, actorVars
  <1> QED BY <1>1, <1>2 DEF WorkerNext

LEMMA ControlStep ==
    WorkerTypeOK /\ Control /\ [WorkerNext]_vars => Control'
  <1> SUFFICES ASSUME WorkerTypeOK, Control, [WorkerNext]_vars PROVE Control'
    OBVIOUS
  <1>0. TypeOK /\ [Next]_dbVars
    BY Simulates DEF WorkerTypeOK
  <1>1. ASSUME worker' \notin Idle
        PROVE  at' \in Steps /\ (worker' = "enqueueing" \/ HasJob(at)')
    <2>1. CASE worker \notin Idle /\ at' = at /\ worker # "enqueueing"
      <3>1. at \in Steps /\ HasJob(at)
        BY <2>1 DEF Control
      <3>2. job'[at] # "none"
        BY <1>0, <3>1, JobsStay DEF HasJob
      <3> QED BY <2>1, <3>1, <3>2 DEF HasJob
    <2>2. CASE worker = "enqueueing" /\ at' = at
      <3>1. at \in Steps
        BY <2>2 DEF Control, Idle
      <3>2. worker' = "enqueueing" \/ worker' \in Idle
        BY <2>2, EnqueueingMoves
      <3> QED BY <1>1, <2>2, <3>1, <3>2
    <2>3. CASE worker = "polling" /\ at' \in Steps /\ Lease(at') /\ worker' = "leased"
      <3>1. job'[at'] = "running"
        BY <1>0, <2>3 DEF Lease, TypeOK, JobStoreTypeOK
      <3> QED BY <2>3, <3>1 DEF HasJob
    <2>4. CASE worker' = "enqueueing" /\ at' \in Steps
      BY <2>4
    <2> QED BY <1>1, <2>1, <2>2, <2>3, <2>4, WorkerMoves
  <1>2. launcher' = "enqueueing" => target' \in Steps
    BY LauncherMoves DEF Control
  <1> QED BY <1>1, <1>2 DEF Control

----------------------------------------------------------------------------
(* Jobs: who can make one, or open one again *)

\* A job appears only where the launcher or the worker is enqueueing it.
LEMMA NewJobs ==
    ASSUME WorkerTypeOK, Control, [WorkerNext]_vars, NEW s \in Steps, HasJob(s)'
    PROVE  \/ HasJob(s)
           \/ worker = "enqueueing" /\ at = s /\ worker' = "polling"
           \/ launcher = "enqueueing" /\ target = s /\ launcher' = "done"
  <1> USE DEF HasJob
  <1>0. job \in [Steps -> JobStatus]
    BY DEF WorkerTypeOK, TypeOK, JobStoreTypeOK
  <1>1. CASE job' = job
    BY <1>1
  <1>2. CASE PauseRun \/ ResumeRun \/ CancelRun
    BY <1>0, <1>2 DEF PauseRun, ResumeRun, CancelRun, JobsFrom
  <1>3. CASE \E t \in Steps : PauseJob(t) \/ ResumeJob(t) \/ CancelJob(t)
    BY <1>0, <1>3 DEF PauseJob, ResumeJob, CancelJob
  <1>4. CASE ExpireLeases
    BY <1>0, <1>4 DEF ExpireLeases, RecoverExpired
  <1>5. CASE at' \in Steps /\ Lease(at')
    BY <1>0, <1>5 DEF Lease, Leasable
  <1>6. CASE /\ \/ MarkFailed(at) \/ CancelJob(at) \/ ScheduleRetry(at) \/ AckPause(at)
                \/ MarkSucceeded(at)
             /\ worker \notin Idle \cup {"enqueueing"}
    <2>1. at \in Steps /\ HasJob(at)
      BY <1>6 DEF Control
    <2> QED BY <1>0, <1>6, <2>1
            DEF MarkFailed, CancelJob, ScheduleRetry, AckPause, MarkSucceeded
  <1>7. CASE worker = "enqueueing" /\ worker' = "polling" /\ Enqueue(at)
    BY <1>0, <1>7 DEF Enqueue
  <1>8. CASE launcher = "enqueueing" /\ launcher' = "done" /\ Enqueue(target)
    BY <1>0, <1>8 DEF Enqueue
  <1>9. worker \notin Idle \cup Dispatching => worker \notin Idle \cup {"enqueueing"}
    BY DEF Dispatching
  <1>10. worker = "marking" => worker \notin Idle \cup {"enqueueing"}
    BY DEF Idle
  <1> QED BY <1>1, <1>2, <1>3, <1>4, <1>5, <1>6, <1>7, <1>8, <1>9, <1>10, JobMoves

\* A job is open because it was, because its worker gave it back, or because
\* it was just enqueued.
LEMMA OpenJobs ==
    ASSUME WorkerTypeOK, Control, [WorkerNext]_vars, NEW s \in Steps, job'[s] \in Open
    PROVE  \/ job[s] \in Open
           \/ worker \notin Idle /\ at = s /\ worker' = "polling"
           \/ launcher = "enqueueing" /\ target = s /\ launcher' = "done"
  <1> USE DEF Open
  <1>0. job \in [Steps -> JobStatus]
    BY DEF WorkerTypeOK, TypeOK, JobStoreTypeOK
  <1>1. CASE job' = job
    BY <1>1
  <1>2. CASE PauseRun \/ ResumeRun \/ CancelRun
    BY <1>0, <1>2 DEF PauseRun, ResumeRun, CancelRun, JobsFrom
  <1>3. CASE \E t \in Steps : PauseJob(t) \/ ResumeJob(t) \/ CancelJob(t)
    BY <1>0, <1>3 DEF PauseJob, ResumeJob, CancelJob
  <1>4. CASE ExpireLeases
    BY <1>0, <1>4 DEF ExpireLeases, RecoverExpired
  <1>5. CASE at' \in Steps /\ Lease(at')
    BY <1>0, <1>5 DEF Lease, Leasable
  <1>6. CASE /\ \/ MarkFailed(at) \/ CancelJob(at) \/ ScheduleRetry(at) \/ AckPause(at)
             /\ worker \notin Idle /\ worker' = "polling"
    BY <1>0, <1>6 DEF MarkFailed, CancelJob, ScheduleRetry, AckPause
  <1>7. CASE MarkSucceeded(at)
    BY <1>0, <1>7 DEF MarkSucceeded
  <1>8. CASE worker = "enqueueing" /\ worker' = "polling" /\ Enqueue(at)
    BY <1>0, <1>8 DEF Enqueue, Idle
  <1>9. CASE launcher = "enqueueing" /\ launcher' = "done" /\ Enqueue(target)
    BY <1>0, <1>9 DEF Enqueue
  <1> QED BY <1>1, <1>2, <1>3, <1>4, <1>5, <1>6, <1>7, <1>8, <1>9, JobMoves

LEMMA LaunchingStep ==
    ASSUME IInv, [WorkerNext]_vars
    PROVE  Launching'
  <1> USE DEF IInv
  <1> SUFFICES ASSUME launcher' # "done"
               PROVE  (\A s \in Steps : ~HasJob(s)') /\ worker' \in Idle
    BY DEF Launching, AnyJob
  <1>1. ~AnyJob /\ worker \in Idle
    BY LauncherMoves DEF Launching
  <1>2. \A s \in Steps : ~HasJob(s)'
    BY <1>1, NewJobs DEF AnyJob, Idle
  <1>3. worker' \in Idle
    <2>1. ASSUME at' \in Steps, Lease(at') PROVE FALSE
      BY <1>1, <2>1 DEF Lease, Leasable, AnyJob, HasJob
    <2> QED BY <1>1, <2>1, WorkerMoves DEF Idle
  <1> QED BY <1>2, <1>3

----------------------------------------------------------------------------
(* The frontier *)

\* A step that is done stays done, and only its executor activates a step.
LEMMA StepsMove ==
    ASSUME IInv, [WorkerNext]_vars, NEW s \in Steps
    PROVE  /\ step[s] = "succeeded" => step'[s] = "succeeded"
           /\ step'[s] \in Active =>
                step[s] \in Active \/ (worker \notin Idle \cup {"enqueueing"} /\ at = s)
  <1> USE DEF Active
  <1>0. /\ step \in [Steps -> StepStatus]
        /\ WorkerTypeOK /\ Control
    BY DEF IInv, WorkerTypeOK, TypeOK
  <1>1. CASE UNCHANGED <<run, step>> \/ StartRun
    BY <1>1 DEF StartRun
  <1>2. CASE InitializeSteps
    BY <1>0, <1>2 DEF InitializeSteps, StepsFrom
  <1>3. CASE PauseRun \/ ResumeRun
    BY <1>3 DEF PauseRun, ResumeRun
  <1>4. CASE CancelRun
    BY <1>0, <1>4 DEF CancelRun, StepsFrom
  <1>5. CASE CompleteRun
    BY <1>0, <1>5 DEF CompleteRun, Converge, LiveStep
  <1>6. CASE \E t \in Steps : FailStep(t) \/ RetryStep(t)
    BY <1>0, <1>6 DEF FailStep, RetryStep, SetStep
  <1>7. CASE /\ worker \notin Idle \cup {"enqueueing"}
             /\ \/ StartStep(at) \/ AckCancel(at) \/ AckPause(at) \/ CompleteStep(at)
                \/ CompleteCancelled(at) \/ RetryStep(at) \/ FailStep(at)
    BY <1>0, <1>7 DEF StartStep, AckCancel, AckPause, CompleteStep, CompleteCancelled,
                      RetryStep, FailStep, SetStep, LiveStep
  <1>8. worker \in {"leased", "cancelling", "pausing", "blocked_pausing", "completing",
                    "retrying", "failing"} => worker \notin Idle \cup {"enqueueing"}
    BY DEF Idle
  <1> QED BY <1>0, <1>1, <1>2, <1>3, <1>4, <1>5, <1>6, <1>7, <1>8, RowMoves

LEMMA ActiveHasJobStep ==
    ASSUME IInv, [WorkerNext]_vars
    PROVE  ActiveHasJob'
  <1> SUFFICES ASSUME NEW s \in Steps, step'[s] \in Active
               PROVE  HasJob(s)'
    BY DEF ActiveHasJob, Active
  <1>1. HasJob(s)
    BY StepsMove DEF IInv, FrontierInv, ActiveHasJob, Control
  <1> QED BY <1>1, Simulates, JobsStay DEF IInv, WorkerTypeOK

\* A step that is picked to be enqueued has every earlier step done.
LEMMA PickedStep ==
    ASSUME IInv, HasNext, NEW s \in Steps, FirstRunnable(s),
           worker = "dispatching" \/ launcher = "dispatching",
           NEW r \in Steps, r < s
    PROVE  step[r] = "succeeded"
  <1> USE DEF IInv, FrontierInv, RowsInv
  <1>0. step \in [Steps -> StepStatus] /\ run = "running"
    BY DEF WorkerTypeOK, TypeOK, HasNext
  <1>1. step[r] \notin {"pending", "retrying"}
    <2>1. r \notin Runnable
      BY DEF FirstRunnable, Steps
    <2> QED BY <2>1 DEF Runnable
  <1>2. step[r] \notin {"cancelled", "skipped"}
    BY <1>0 DEF CancelledByRun, NeverSkipped
  <1>3. step[r] # "none"
    BY DEF Initialized, Begun, Idle
  <1>4. CASE HasJob(r)
    <2>1. worker = "dispatching"
      BY <1>4 DEF Launching, AnyJob
    <2>2. at \in Steps /\ HasJob(at) /\ step[at] = "succeeded"
      BY <2>1 DEF Control, FinishedIts, Finished, Idle
    <2>3. ~(at < r)
      BY <1>4, <2>1 DEF BusyIsLast, Idle
    <2>4. r < at => step[r] = "succeeded"
      BY <2>2 DEF EarlierDone, Aimed
    <2> QED BY <2>2, <2>3, <2>4 DEF Steps
  <1>5. CASE ~HasJob(r)
    <2>1. step[r] \notin Active
      BY <1>5 DEF ActiveHasJob
    <2> QED BY <1>0, <1>1, <1>2, <1>3, <2>1 DEF Active, StepStatus, LiveStep
  <1> QED BY <1>4, <1>5

LEMMA EarlierDoneStep ==
    ASSUME IInv, [WorkerNext]_vars
    PROVE  EarlierDone'
  <1> USE DEF IInv, FrontierInv
  <1> SUFFICES ASSUME NEW s \in Steps, NEW r \in Steps, Aimed(s)', r < s
               PROVE  step'[r] = "succeeded"
    BY DEF EarlierDone
  <1>1. CASE Aimed(s)
    BY <1>1, StepsMove DEF EarlierDone
  <1>2. CASE ~Aimed(s)
    <2>1. ~HasJob(s)'
      BY <1>2, NewJobs DEF Aimed
    <2>2. \/ worker = "dispatching" /\ HasNext /\ FirstRunnable(s)
          \/ launcher = "dispatching" /\ HasNext /\ FirstRunnable(s)
      <3>1. CASE worker' = "enqueueing" /\ at' = s
        <4>1. CASE worker = "enqueueing"
          BY <1>2, <3>1, <4>1, WorkerMoves DEF Aimed, Idle
        <4>2. CASE worker # "enqueueing"
          BY <3>1, <4>2, WorkerMoves
        <4> QED BY <4>1, <4>2
      <3>2. CASE launcher' = "enqueueing" /\ target' = s
        BY <1>2, <3>2, LauncherMoves DEF Aimed
      <3> QED BY <2>1, <3>1, <3>2 DEF Aimed
    <2>3. step[r] = "succeeded"
      BY <2>2, PickedStep
    <2> QED BY <2>3, StepsMove
  <1> QED BY <1>1, <1>2
LEMMA OpenIsLastStep ==
    ASSUME IInv, [WorkerNext]_vars
    PROVE  OpenIsLast'
  <1> USE DEF IInv, FrontierInv
  <1> SUFFICES ASSUME NEW s \in Steps, NEW r \in Steps, job'[s] \in Open, s < r,
                      HasJob(r)'
               PROVE  FALSE
    BY DEF OpenIsLast, Open
  <1>1. \/ job[s] \in Open
        \/ worker \notin Idle /\ at = s
        \/ launcher = "enqueueing" /\ target = s
    BY OpenJobs
  <1>2. \/ HasJob(r)
        \/ worker = "enqueueing" /\ at = r
        \/ launcher = "enqueueing" /\ target = r
    BY NewJobs
  <1>3. job[s] \in Open => HasJob(s)
    BY DEF Open, HasJob
  <1>4. launcher = "enqueueing" => ~HasJob(s) /\ ~HasJob(r) /\ worker \in Idle
    BY DEF Launching, AnyJob
  <1>5. CASE HasJob(r)
    BY <1>1, <1>4, <1>5 DEF OpenIsLast, BusyIsLast
  <1>6. CASE worker = "enqueueing" /\ at = r
    <2>1. worker \notin Idle /\ worker \in Dispatching
      BY <1>6 DEF Idle, Dispatching
    <2>2. at # s
      BY <1>6 DEF Steps
    <2> QED BY <1>1, <1>4, <2>1, <2>2 DEF NothingOpen
  <1>7. CASE launcher = "enqueueing" /\ target = r
    <2>1. target # s
      BY <1>7 DEF Steps
    <2> QED BY <1>1, <1>3, <1>4, <1>7, <2>1
  <1> QED BY <1>2, <1>5, <1>6, <1>7

LEMMA BusyIsLastStep ==
    ASSUME IInv, [WorkerNext]_vars
    PROVE  BusyIsLast'
  <1> USE DEF IInv, FrontierInv
  <1> SUFFICES ASSUME worker' \notin Idle, NEW r \in Steps, at' < r, HasJob(r)'
               PROVE  FALSE
    BY DEF BusyIsLast, Idle
  <1>1. \/ HasJob(r)
        \/ worker = "enqueueing" /\ at = r
        \/ launcher = "enqueueing" /\ ~AnyJob /\ worker \in Idle
    BY NewJobs DEF Launching
  <1>2. CASE worker \notin Idle /\ at' = at
    <2>1. at # r
      BY <1>2 DEF Steps, WorkerTypeOK
    <2> QED BY <1>1, <1>2, <2>1 DEF BusyIsLast
  <1>3. CASE worker = "polling" /\ at' \in Steps /\ Lease(at')
    <2>1. job[at'] \in Open /\ HasJob(at')
      BY <1>3 DEF Lease, Leasable, Open, HasJob
    <2>2. AnyJob
      BY <1>3, <2>1 DEF AnyJob
    <2> QED BY <1>1, <1>3, <2>1, <2>2 DEF OpenIsLast
  <1>4. CASE worker = "dispatching" /\ at' \in Steps /\ FirstRunnable(at')
    <2>1. HasJob(r)
      BY <1>1, <1>4 DEF Idle
    <2>2. step[at'] = "succeeded"
      BY <1>4, <2>1 DEF EarlierDone, Aimed
    <2> QED BY <1>4, <2>2 DEF FirstRunnable, Runnable
  <1> QED BY <1>2, <1>3, <1>4, WorkerMoves

LEMMA NothingOpenStep ==
    ASSUME IInv, [WorkerNext]_vars
    PROVE  NothingOpen'
  <1> USE DEF IInv, FrontierInv
  <1> SUFFICES ASSUME worker' \in Dispatching, NEW s \in Steps, job'[s] \in Open
               PROVE  FALSE
    BY DEF NothingOpen, Dispatching, Open
  <1>1. worker \in Dispatching \/ (worker = "marking" /\ MarkSucceeded(at))
    BY WorkerMoves
  <1>2. worker \notin Idle
    BY <1>1 DEF Dispatching, Idle
  <1>3. job[s] \in Open
    BY <1>2, OpenJobs DEF Launching, Dispatching
  <1>4. worker = "marking" /\ MarkSucceeded(at)
    BY <1>1, <1>3 DEF NothingOpen
  <1>5. at \in Steps /\ HasJob(at)
    BY <1>2, <1>4 DEF Control
  <1>6. HasJob(s)
    BY <1>3 DEF Open, HasJob
  <1>7. ~(s < at) /\ ~(at < s)
    BY <1>2, <1>3, <1>5, <1>6 DEF OpenIsLast, BusyIsLast
  <1>8. s = at
    BY <1>5, <1>7 DEF Steps
  <1>9. job \in [Steps -> JobStatus]
    BY DEF WorkerTypeOK, TypeOK, JobStoreTypeOK
  <1> QED BY <1>4, <1>8, <1>9 DEF MarkSucceeded, Open

LEMMA FrontierStep ==
    ASSUME IInv, [WorkerNext]_vars
    PROVE  FrontierInv'
  BY EarlierDoneStep, ActiveHasJobStep, OpenIsLastStep, BusyIsLastStep,
     NothingOpenStep DEF FrontierInv
----------------------------------------------------------------------------
(* The rows of the run and of its steps *)

\* How the status of the run can change, and by whom.
LEMMA RunMoves ==
    ASSUME IInv, [WorkerNext]_vars
    PROVE  /\ run \in {"cancelling", "cancelled", "succeeded"} =>
                run' \in {"cancelling", "cancelled", "succeeded"}
           /\ run' = "cancelling" => run = "cancelling" \/ CancelRun
           /\ run' = "cancelled" =>
                \/ run = "cancelled"
                \/ AckCancel(at) /\ worker = "cancelling"
                \/ CompleteCancelled(at) /\ worker = "completing"
           /\ run' = "paused" =>
                \/ run = "paused"
                \/ /\ AckPause(at) /\ worker \in {"pausing", "blocked_pausing"}
                   /\ worker' = "polling"
  <1>1. CASE UNCHANGED <<run, step>> \/ StartRun \/ InitializeSteps
    BY <1>1 DEF StartRun, InitializeSteps
  <1>2. CASE PauseRun \/ ResumeRun \/ CancelRun \/ CompleteRun
    BY <1>2 DEF PauseRun, ResumeRun, CancelRun, CompleteRun
  <1>3. CASE \/ StartStep(at) \/ CompleteStep(at) \/ RetryStep(at) \/ FailStep(at)
             \/ \E s \in Steps : FailStep(s) \/ RetryStep(s)
    BY <1>3 DEF StartStep, CompleteStep, RetryStep, FailStep
  <1>4. CASE AckCancel(at) /\ worker = "cancelling"
    BY <1>4 DEF AckCancel
  <1>5. CASE CompleteCancelled(at) /\ worker = "completing"
    BY <1>5 DEF CompleteCancelled
  <1>6. CASE /\ AckPause(at) /\ worker \in {"pausing", "blocked_pausing"}
             /\ worker' = "polling"
    BY <1>6 DEF AckPause
  <1> QED BY <1>1, <1>2, <1>3, <1>4, <1>5, <1>6, RowMoves DEF IInv

\* How the status of a step can change, given the run.
LEMMA StatusMoves ==
    ASSUME IInv, [WorkerNext]_vars, NEW s \in Steps
    PROVE  /\ step'[s] = "skipped" => step[s] = "skipped"
           /\ step'[s] = "none" => step[s] = "none"
           /\ step'[s] = "cancelled" =>
                step[s] = "cancelled" \/ run' \in {"cancelling", "cancelled", "succeeded"}
           /\ step'[s] = "pending" =>
                \/ step[s] = "pending" /\ (run' = "cancelling" => run = "cancelling")
                \/ launcher = "initializing" /\ launcher' = "dispatching" /\ worker' = worker
           /\ step'[s] = "running" => step[s] = "running" \/ run = "running"
           /\ step'[s] \in LiveStep => step[s] \in LiveStep \/ run \notin TerminalRun
  <1> USE DEF LiveStep
  <1>0. step \in [Steps -> StepStatus] /\ WorkerTypeOK /\ Control
    BY DEF IInv, WorkerTypeOK, TypeOK
  <1>1. CASE UNCHANGED <<run, step>> \/ StartRun
    BY <1>1 DEF StartRun
  <1>2. CASE /\ launcher = "initializing" /\ InitializeSteps
             /\ launcher' = "dispatching" /\ worker' = worker
    BY <1>0, <1>2 DEF InitializeSteps, StepsFrom
  <1>3. CASE PauseRun \/ ResumeRun
    BY <1>3 DEF PauseRun, ResumeRun
  <1>4. CASE CancelRun
    BY <1>0, <1>4 DEF CancelRun, StepsFrom
  <1>5. CASE CompleteRun
    BY <1>0, <1>5 DEF CompleteRun, Converge
  <1>6. CASE \E t \in Steps : FailStep(t) \/ RetryStep(t)
    BY <1>0, <1>6 DEF FailStep, RetryStep, SetStep
  <1>7. CASE \/ StartStep(at) \/ CompleteStep(at) \/ RetryStep(at) \/ FailStep(at)
    BY <1>0, <1>7 DEF StartStep, CompleteStep, RetryStep, FailStep, SetStep
  <1>8. CASE AckCancel(at) \/ AckPause(at) \/ CompleteCancelled(at)
    BY <1>0, <1>8 DEF AckCancel, AckPause, CompleteCancelled, SetStep
  <1> QED BY <1>0, <1>1, <1>2, <1>3, <1>4, <1>5, <1>6, <1>7, <1>8, RowMoves

LEMMA BegunMoves ==
    ASSUME IInv, [WorkerNext]_vars, Begun'
    PROVE  Begun \/ (launcher = "dispatching" /\ Read /\ run = "running")
  <1> USE DEF IInv, Begun
  <1>1. CASE launcher' = "enqueueing"
    BY <1>1, LauncherMoves DEF HasNext
  <1>2. CASE worker' \notin Idle
    <2>1. CASE worker = "polling" /\ at' \in Steps /\ Lease(at')
      BY <2>1 DEF AnyJob, HasJob, Lease, Leasable
    <2> QED BY <1>2, <2>1, WorkerMoves DEF Idle
  <1>3. CASE AnyJob'
    <2>1. PICK s \in Steps : HasJob(s)'
      BY <1>3 DEF AnyJob
    <2> QED BY <2>1, NewJobs DEF AnyJob, Idle
  <1> QED BY <1>1, <1>2, <1>3 DEF Idle

LEMMA RowsStep ==
    ASSUME IInv, [WorkerNext]_vars
    PROVE  RowsInv'
  <1> USE DEF IInv, RowsInv
  <1>0. step \in [Steps -> StepStatus]
    BY DEF WorkerTypeOK, TypeOK
  <1>1. NeverSkipped'
    BY StatusMoves DEF NeverSkipped
  <1>2. Initialized'
    <2> SUFFICES ASSUME launcher' = "dispatching" \/ Begun', NEW s \in Steps
                 PROVE  step'[s] # "none"
      BY DEF Initialized
    <2>1. CASE launcher = "initializing" /\ InitializeSteps
      BY <1>0, <2>1 DEF InitializeSteps, StepsFrom
    <2>2. CASE launcher = "dispatching" \/ Begun
      BY <2>2, StatusMoves DEF Initialized
    <2> QED BY <2>1, <2>2, LauncherMoves, BegunMoves
  <1>3. CancelledByRun'
    BY StatusMoves, RunMoves DEF CancelledByRun
  <1>4. NonePending'
    <2> SUFFICES ASSUME run' \in {"cancelling", "cancelled"}, Begun',
                        NEW s \in Steps, step'[s] = "pending"
                 PROVE  FALSE
      BY DEF NonePending
    <2>1. CASE launcher = "initializing" /\ launcher' = "dispatching" /\ worker' = worker
      BY <2>1, LaunchingStep DEF Launching, Begun
    <2>2. CASE step[s] = "pending" /\ (run' = "cancelling" => run = "cancelling")
      <3>1. run \in {"cancelling", "cancelled"}
        BY <2>2, RunMoves DEF AckCancel, CompleteCancelled
      <3>2. Begun
        BY <3>1, BegunMoves
      <3> QED BY <2>2, <3>1, <3>2 DEF NonePending
    <2> QED BY <2>1, <2>2, StatusMoves
  <1>5. ExecutesIts'
    <2> SUFFICES ASSUME worker' \in Executing
                 PROVE  step'[at'] \in {"running", "cancelled"}
      BY DEF ExecutesIts
    <2>1. /\ at' = at
          /\ worker \in Executing \/ (worker = "leased" /\ StartStep(at))
      BY WorkerMoves
    <2>2. at \in Steps
      BY <2>1 DEF Control, Executing, Idle
    <2>3. CASE StartStep(at)
      BY <1>0, <2>1, <2>2, <2>3 DEF StartStep, SetStep
    <2>4. CASE worker \in Executing
      <3>1. step[at] \in {"running", "cancelled"}
        BY <2>4 DEF ExecutesIts
      <3>2. launcher \notin {"idle", "initializing"}
        BY <2>4 DEF Launching, Executing, Idle
      <3>3. CASE UNCHANGED step
        BY <2>1, <3>1, <3>3
      <3>4. CASE PauseRun \/ ResumeRun \/ CancelRun \/ CompleteRun
        BY <1>0, <2>1, <2>2, <3>1, <3>4 DEF PauseRun, ResumeRun, CancelRun, CompleteRun,
              StepsFrom, Converge, LiveStep
      <3> QED BY <2>4, <3>2, <3>3, <3>4, RowMoves DEF Executing
    <2> QED BY <2>1, <2>3, <2>4
  <1>6. FinishedIts'
    <2> SUFFICES ASSUME worker' \in Finished
                 PROVE  step'[at'] = "succeeded"
      BY DEF FinishedIts
    <2>1. /\ at' = at
          /\ \/ worker \in Finished
             \/ worker = "completing" /\ CompleteStep(at)
             \/ worker = "completing" /\ CompleteCancelled(at) /\ step[at] = "succeeded"
      BY WorkerMoves
    <2>2. at \in Steps
      BY <2>1 DEF Control, Finished, Idle
    <2>3. CASE CompleteStep(at)
      BY <1>0, <2>1, <2>2, <2>3 DEF CompleteStep, SetStep
    <2>4. CASE step[at] = "succeeded"
      BY <2>1, <2>2, <2>4, StepsMove
    <2> QED BY <2>1, <2>3, <2>4 DEF FinishedIts
  <1> QED BY <1>1, <1>2, <1>3, <1>4, <1>5, <1>6

----------------------------------------------------------------------------
(* The boundaries *)

\* Around the step of the worker that acknowledges, nothing else can move.
LEMMA AloneAtBoundary ==
    ASSUME IInv, worker \notin Idle \cup {"enqueueing"}, NEW s \in Steps, s # at
    PROVE  /\ step[s] \notin {"running", "retrying"}
           /\ run \in {"cancelling", "cancelled"} => step[s] \notin LiveStep
  <1> USE DEF IInv, FrontierInv, RowsInv
  <1>0. at \in Steps /\ HasJob(at) /\ Begun
    BY DEF Control, Begun
  <1>1. CASE s < at
    BY <1>0, <1>1 DEF EarlierDone, Aimed, LiveStep
  <1>2. CASE at < s
    <2>1. step[s] \notin Active
      BY <1>0, <1>2 DEF BusyIsLast, ActiveHasJob
    <2> QED BY <1>0, <2>1 DEF NonePending, Active, LiveStep
  <1> QED BY <1>0, <1>1, <1>2 DEF Steps

LEMMA QuietStep ==
    ASSUME IInv, [WorkerNext]_vars
    PROVE  Quiet'
  <1> SUFFICES ASSUME run' = "paused"
               PROVE  (\A s \in Steps : step'[s] # "running") /\ worker' \in Resting
    BY DEF Quiet
  <1>0. step \in [Steps -> StepStatus]
    BY DEF IInv, WorkerTypeOK, TypeOK
  <1>1. CASE run = "paused"
    <2>1. (\A s \in Steps : step[s] # "running") /\ worker \in Resting
      BY <1>1 DEF IInv, Quiet
    <2>2. ~StartStep(at)
      BY <1>1 DEF StartStep
    <2> QED BY <1>1, <2>1, <2>2, StatusMoves, WorkerMoves DEF IInv
  <1>2. CASE /\ AckPause(at) /\ worker \in {"pausing", "blocked_pausing"}
             /\ worker' = "polling"
    <2>1. \A s \in Steps : s # at => step[s] # "running"
      BY <1>2, AloneAtBoundary DEF Idle
    <2>2. \A s \in Steps : step'[s] # "running"
      BY <1>0, <1>2, <2>1 DEF AckPause, SetStep
    <2> QED BY <1>2, <2>2 DEF Resting
  <1> QED BY <1>1, <1>2, RunMoves

LEMMA CancelledStep ==
    ASSUME IInv, [WorkerNext]_vars
    PROVE  CancelledIsSettled'
  <1> SUFFICES ASSUME run' = "cancelled", NEW s \in Steps
               PROVE  step'[s] \notin LiveStep
    BY DEF CancelledIsSettled, LiveStep
  <1>0. step \in [Steps -> StepStatus]
    BY DEF IInv, WorkerTypeOK, TypeOK
  <1>1. CASE run = "cancelled"
    BY <1>1, StatusMoves DEF IInv, CancelledIsSettled, TerminalRun
  <1>2. CASE AckCancel(at) /\ worker = "cancelling"
    <2>1. s # at => step[s] \notin LiveStep
      BY <1>2, AloneAtBoundary DEF AckCancel, Idle
    <2> QED BY <1>0, <1>2, <2>1 DEF AckCancel, SetStep, LiveStep
  <1>3. CASE CompleteCancelled(at) /\ worker = "completing"
    <2>1. s # at => step[s] \notin LiveStep
      BY <1>3, AloneAtBoundary DEF CompleteCancelled, Idle
    <2>2. step[at] \in {"running", "cancelled"}
      BY <1>3 DEF IInv, RowsInv, ExecutesIts, Executing
    <2> QED BY <1>0, <1>3, <2>1, <2>2 DEF CompleteCancelled, SetStep, LiveStep
  <1> QED BY <1>1, <1>2, <1>3, RunMoves

----------------------------------------------------------------------------
(* Theorems *)

LEMMA InvInit == WorkerInit => IInv
  <1> SUFFICES ASSUME WorkerInit PROVE IInv
    OBVIOUS
  <1>1. /\ \A s \in Steps : job[s] = "none" /\ step[s] = "none"
        /\ run = "none" /\ worker = "recovering" /\ launcher = "idle"
    BY DEF WorkerInit, Init, JobStoreInit
  <1>2. \A s \in Steps : ~Aimed(s)
    BY <1>1 DEF Aimed, HasJob
  <1>3. ~Begun /\ Launching
    BY <1>1 DEF Begun, AnyJob, HasJob, Idle, Launching
  <1>4. FrontierInv
    BY <1>1, <1>2 DEF FrontierInv, EarlierDone, ActiveHasJob, OpenIsLast, BusyIsLast,
                      NothingOpen, Active, Open, Idle, Dispatching
  <1>5. RowsInv
    BY <1>1, <1>3 DEF RowsInv, NeverSkipped, Initialized, CancelledByRun, NonePending,
                      ExecutesIts, FinishedIts, Executing, Finished
  <1>6. Quiet /\ CancelledIsSettled
    BY <1>1 DEF Quiet, CancelledIsSettled
  <1> QED BY <1>3, <1>4, <1>5, <1>6, ControlInit DEF IInv

LEMMA InvStep == IInv /\ [WorkerNext]_vars => IInv'
  <1> SUFFICES ASSUME IInv, [WorkerNext]_vars PROVE IInv'
    OBVIOUS
  <1>1. WorkerTypeOK' /\ Control'
    BY WorkerTypeStep, ControlStep DEF IInv
  <1> QED BY <1>1, LaunchingStep, FrontierStep, RowsStep, QuietStep, CancelledStep
          DEF IInv

LEMMA Invariance == WorkerSpec => []IInv
  BY InvInit, InvStep, PTL DEF WorkerSpec

\* The rows, the worker and the launcher stay in their types: whatever races,
\* no transition writes a status the tables do not know.
THEOREM WorkerTypeCorrect == WorkerSpec => []WorkerTypeOK
  <1>1. IInv => WorkerTypeOK
    BY DEF IInv
  <1> QED BY <1>1, Invariance, PTL

\* The callers of a creator run are callers of WorkflowRun: what is proved of
\* its transactions for arbitrary callers holds of the run.
THEOREM WorkerRefinesRun == WorkerSpec => Spec
  <1>1. WorkerInit => Init
    BY DEF WorkerInit
  <1>2. IInv /\ [WorkerNext]_vars => [Next]_dbVars
    BY Simulates DEF IInv
  <1> QED BY <1>1, <1>2, Invariance, PTL DEF WorkerSpec, Spec

\* Steps run in the order of the template, for any commands, crashes and
\* errors: the frontier of the run only moves forward.
THEOREM OrderIsKept == WorkerSpec => []StepsInOrder
  <1>1. IInv => StepsInOrder
    <2> SUFFICES ASSUME IInv, NEW s \in Steps, step[s] \in Active, NEW r \in 1..s - 1
                 PROVE  step[r] \in {"succeeded", "skipped"}
      BY DEF StepsInOrder
    <2>1. r \in Steps /\ r < s
      BY TemplateAssumption DEF Steps
    <2>2. HasJob(s)
      BY DEF IInv, FrontierInv, ActiveHasJob
    <2> QED BY <2>1, <2>2 DEF IInv, FrontierInv, EarlierDone, Aimed
  <1> QED BY <1>1, Invariance, PTL

\* A pause that has been acknowledged is a boundary: no step runs and no
\* executor is past the guard of its commits.
THEOREM PauseIsABoundary == WorkerSpec => []PausedIsQuiet
  <1>1. IInv => PausedIsQuiet
    BY DEF IInv, Quiet, PausedIsQuiet, Resting
  <1> QED BY <1>1, Invariance, PTL

\* A run that has become cancelled has no step left that could still move.
THEOREM CancelSettles == WorkerSpec => []CancelledIsSettled
  <1>1. IInv => CancelledIsSettled
    BY DEF IInv
  <1> QED BY <1>1, Invariance, PTL

\* No execution begins once the user has cancelled: start_step looks at the
\* run in its transaction.
THEOREM CancelIsFinal == WorkerSpec => CancelStopsWork
  <1>1. ASSUME IInv, [WorkerNext]_vars, worker = "leased", worker' = "executing"
        PROVE  run \notin {"cancelling", "cancelled"}
    <2>1. StartStep(at)
      BY <1>1, WorkerMoves DEF IInv, Executing
    <2> QED BY <2>1 DEF StartStep
  <1>2. IInv /\ [WorkerNext]_vars =>
          [worker = "leased" /\ worker' = "executing" =>
              run \notin {"cancelling", "cancelled"}]_vars
    BY <1>1
  <1> QED BY <1>2, Invariance, PTL DEF WorkerSpec, CancelStopsWork

----------------------------------------------------------------------------
(* The retry budget *)

\* Whatever may still be leased has an attempt left, unless a pause of it has
\* been acknowledged, which gives an attempt back unchecked.
Frugal ==
    \A s \in Steps : s \notin excused =>
        /\ attempts[s] <= MaxAttempts
        /\ job[s] \in {"none", "queued", "paused", "retrying"} =>
              attempts[s] < MaxAttempts

LEMMA FrugalStep ==
    ASSUME IInv, [WorkerNext]_vars, Frugal
    PROVE  Frugal'
  <1> SUFFICES ASSUME NEW s \in Steps, s \notin excused'
               PROVE  /\ attempts'[s] <= MaxAttempts
                      /\ job'[s] \in {"none", "queued", "paused", "retrying"} =>
                            attempts'[s] < MaxAttempts
    BY DEF Frugal
  <1>0. /\ job \in [Steps -> JobStatus] /\ attempts \in [Steps -> 0..MaxAttempts + 1]
        /\ MaxAttempts \in Nat
    BY TemplateAssumption DEF IInv, WorkerTypeOK, TypeOK, JobStoreTypeOK
  <1>a. s \notin excused
    BY ExcusesGrow DEF IInv
  <1>1. /\ attempts[s] <= MaxAttempts /\ attempts[s] \in Nat
        /\ job[s] \in {"none", "queued", "paused", "retrying"} =>
              attempts[s] < MaxAttempts
    BY <1>0, <1>a DEF Frugal
  <1>2. CASE job' = job /\ attempts' = attempts
    BY <1>1, <1>2
  <1>3. CASE PauseRun \/ ResumeRun \/ CancelRun
    BY <1>0, <1>1, <1>3 DEF PauseRun, ResumeRun, CancelRun, JobsFrom
  <1>4. CASE \E t \in Steps : PauseJob(t) \/ ResumeJob(t) \/ CancelJob(t)
    BY <1>0, <1>1, <1>4 DEF PauseJob, ResumeJob, CancelJob
  <1>5. CASE ExpireLeases
    BY <1>0, <1>1, <1>5 DEF ExpireLeases, RecoverExpired, Spent
  <1>6. CASE at' \in Steps /\ Lease(at')
    <2>1. CASE s = at'
      BY <1>0, <1>1, <1>6, <2>1 DEF Lease, Leasable
    <2>2. CASE s # at'
      BY <1>0, <1>1, <1>6, <2>2 DEF Lease
    <2> QED BY <2>1, <2>2
  <1>7. CASE MarkFailed(at) \/ CancelJob(at) \/ MarkSucceeded(at)
    BY <1>0, <1>1, <1>7 DEF MarkFailed, CancelJob, MarkSucceeded
  <1>8. CASE ScheduleRetry(at)
    BY <1>0, <1>1, <1>8 DEF ScheduleRetry, Spent
  <1>9. CASE Enqueue(at) \/ Enqueue(target)
    BY <1>0, <1>1, <1>9 DEF Enqueue
  <1>10. CASE AckPause(at) /\ excused' = excused \cup {at}
    BY <1>0, <1>1, <1>10 DEF AckPause
  <1> QED BY <1>2, <1>3, <1>4, <1>5, <1>6, <1>7, <1>8, <1>9, <1>10, JobMoves DEF IInv

\* No job is leased beyond its budget - although lease_one does not look at
\* it: whoever makes a job leasable has, except the acknowledgement of a pause.
THEOREM BudgetIsKept == WorkerSpec => []WithinRetryBudget
  <1>1. WorkerInit => Frugal
    BY TemplateAssumption DEF WorkerInit, Init, JobStoreInit, Frugal
  <1>2. IInv /\ Frugal /\ [WorkerNext]_vars => Frugal'
    BY FrugalStep
  <1>3. IInv /\ Frugal => WithinRetryBudget
    <2> SUFFICES ASSUME IInv, Frugal, NEW s \in Steps, attempts[s] > MaxAttempts
                 PROVE  s \in excused
      BY DEF WithinRetryBudget
    <2>1. attempts[s] \in Nat /\ MaxAttempts \in Nat
      BY TemplateAssumption DEF IInv, WorkerTypeOK, TypeOK, JobStoreTypeOK
    <2> QED BY <2>1 DEF Frugal
  <1> QED BY <1>1, <1>2, <1>3, Invariance, PTL DEF WorkerSpec
=============================================================================
