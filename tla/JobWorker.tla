------------------------------ MODULE JobWorker ------------------------------
(***************************************************************************)
(* A creator run from the message that starts it to its end: the launcher  *)
(* (app/services/conversation_orchestrator.py), the job worker             *)
(* (app/workers/job_worker.py) with the executor of a step                 *)
(* (app/services/step_executors.py), the dispatcher of the next step       *)
(* (app/services/workflow_dispatcher.py), the user's commands on the run   *)
(* and on its jobs, and crashes of the process.  The actors share only the *)
(* database: every read and every transaction is one action, and anything  *)
(* may happen between two of them.                                         *)
(***************************************************************************)
EXTENDS WorkflowRun

CONSTANTS
    Commands,       \* the commands the user may issue
    MaxCrashes,     \* bound on the crashes of a behaviour
    Errors          \* what a runner may raise: "retryable", "permanent"

ASSUME WorkerAssumption ==
    /\ Commands \subseteq {"pause_run", "resume_run", "cancel_run", "complete_run",
                           "pause_job", "resume_job", "cancel_job"}
    /\ MaxCrashes \in Nat
    /\ Errors \subseteq {"retryable", "permanent"}

VARIABLES
    worker,         \* where the worker task is, "down" with the process,
                    \* "dead" once an exception has left run_loop
    at,             \* the step of the job it holds, or of the enqueue it does
    expired,        \* recovered jobs whose steps are not yet synchronised
    launcher,       \* where the handler that starts the run is
    target,         \* the first step, as the launcher read it
    crashes,
    forced,         \* history: complete_run was a command of the user
    excused         \* history: steps whose pause the worker acknowledged

actorVars == <<worker, at, expired, launcher, target, crashes, forced, excused>>
vars == <<dbVars, actorVars>>

WorkerAt == {"down", "dead", "recovering", "syncing", "polling", "leased",
    "rejected", "executing", "attaching", "executed", "pause_check",
    "pausing", "cancel_check", "cancelling", "completing", "dropping",
    "marking", "dispatching", "enqueueing", "ending", "completing_run",
    "blocked_pause", "blocked_pausing", "retrying", "scheduling",
    "failing", "mark_failing"}
LauncherAt == {"idle", "initializing", "dispatching", "enqueueing", "done"}

\* The rows hold statuses their tables know; the worker is where the code has
\* an await, with a step of the template.
WorkerTypeOK ==
    /\ TypeOK
    /\ worker \in WorkerAt /\ at \in 0..N /\ expired \subseteq Steps
    /\ launcher \in LauncherAt /\ target \in 0..N
    /\ crashes \in 0..MaxCrashes /\ forced \in BOOLEAN /\ excused \subseteq Steps

WorkerInit ==
    /\ Init
    /\ worker = "recovering" /\ at = 0 /\ expired = {}
    /\ launcher = "idle" /\ target = 0 /\ crashes = 0 /\ forced = FALSE
    /\ excused = {}

Up == worker # "down"

\* The worker moves on; with a job it keeps at, without one it polls.
Move(pc) ==
    /\ worker' = pc
    /\ at' = IF pc \in {"polling", "dead"} THEN 0 ELSE at
    /\ UNCHANGED <<expired, launcher, target, crashes, forced>>
GoTo(pc) == Move(pc) /\ UNCHANGED excused
Read == UNCHANGED dbVars
JobOnly == UNCHANGED runVars

----------------------------------------------------------------------------
(* run_loop: recovery once, then polling *)

\* recover_expired_running_jobs, the statement.  Which leases have run out
\* by the time the process is back is up to the clock.
Recover ==
    /\ worker = "recovering"
    /\ \E E \in SUBSET {s \in Steps : job[s] = "running"} :
          /\ RecoverExpired(E)
          /\ expired' = E
    /\ worker' = "syncing"
    /\ JobOnly /\ UNCHANGED <<at, launcher, target, crashes, forced, excused>>

\* _sync_expired_workflow_steps: a transition error is ignored.
SyncStep(s) ==
    /\ worker = "syncing" /\ s \in expired
    /\ \/ Spent(s) /\ FailStep(s)
       \/ ~Spent(s) /\ RetryStep(s)
       \/ /\ Spent(s) => step[s] \notin {"running", "retrying"}
          /\ ~Spent(s) => step[s] # "running"
          /\ Read
    /\ expired' = expired \ {s}
    /\ UNCHANGED <<worker, at, launcher, target, crashes, forced, excused>>
Synced == worker = "syncing" /\ expired = {} /\ GoTo("polling") /\ Read

LeaseJob(s) ==
    /\ worker = "polling"
    /\ Lease(s) /\ JobOnly
    /\ worker' = "leased" /\ at' = s
    /\ UNCHANGED <<expired, launcher, target, crashes, forced, excused>>

----------------------------------------------------------------------------
(* _execute_job *)

Start ==
    /\ worker = "leased"
    /\ \/ StartStep(at) /\ GoTo("executing")
       \/ /\ ~(run = "running" /\ step[at] \in {"pending", "retrying"})
          /\ Read /\ GoTo("rejected")
Reject == worker = "rejected" /\ MarkFailed(at) /\ JobOnly /\ GoTo("polling")

\* The runner of the step is external: it may raise, have artifacts to commit
\* - none, one or several - and return.
Raise(error) ==
    /\ worker = "executing" /\ Read
    /\ GoTo(IF error = "retryable" /\ ~Spent(at) THEN "retrying" ELSE "failing")
Return == worker = "executing" /\ Read /\ GoTo("executed")

\* _assert_artifact_commit_allowed: read the run, then commit or be blocked.
\* A status that is neither is raised again, past the other handler.
CheckCommit ==
    /\ worker = "executing" /\ Read
    /\ GoTo(CASE run = "running" -> "attaching"
              [] run \in {"pausing", "paused"} -> "blocked_pause"
              [] run \in {"cancelling", "cancelled"} -> "cancel_check"
              [] OTHER -> "dead")

Attach ==
    /\ worker = "attaching"
    /\ \/ AttachArtifact(at) /\ GoTo("executing")
       \/ ~MayAttach(at) /\ Read /\ GoTo("failing")

\* The cancel guard: the job row, then the run row, then the acknowledgement.
CheckJob ==
    /\ worker = "executed" /\ Read
    /\ GoTo(IF job[at] = "cancelled" THEN "cancel_check" ELSE "pause_check")
\* Mutant: the job is dropped, the run is not told.
CheckCancelForgets == worker = "cancel_check" /\ Read /\ GoTo("polling")
CheckCancel ==
    /\ worker = "cancel_check" /\ Read
    /\ GoTo(IF run = "cancelling" THEN "cancelling" ELSE "polling")
AcknowledgeCancel ==
    /\ worker = "cancelling"
    /\ \/ AckCancel(at)
       \/ run = "cancelled" /\ Read
    /\ GoTo("polling")

\* The pause guard.  An acknowledgement that comes too late raises: the
\* handler of step errors takes it, except after a blocked commit.
\* Mutant: only a run that is paused already is looked for.
CheckPauseLate ==
    /\ worker = "pause_check" /\ Read
    /\ GoTo(IF run = "paused" THEN "pausing" ELSE "completing")
CheckPause ==
    /\ worker = "pause_check" /\ Read
    /\ GoTo(IF run = "pausing" THEN "pausing" ELSE "completing")
CheckBlockedPause ==
    /\ worker = "blocked_pause" /\ Read
    /\ GoTo(IF run = "pausing" THEN "blocked_pausing" ELSE "polling")
AcknowledgePause ==
    /\ worker \in {"pausing", "blocked_pausing"}
    /\ \/ AckPause(at) /\ Move("polling") /\ excused' = excused \cup {at}
       \/ run = "paused" /\ Read /\ GoTo("polling")
       \/ /\ run \notin {"pausing", "paused"} /\ Read
          /\ GoTo(IF worker = "pausing" THEN "failing" ELSE "dead")

Complete ==
    /\ worker = "completing"
    /\ \/ CompleteStep(at) /\ GoTo("marking")
       \/ /\ CompleteCancelled(at)
          /\ GoTo(IF step[at] = "succeeded" THEN "marking" ELSE "dropping")
       \/ /\ run \notin {"cancelling", "cancelled"}
          /\ ~(run = "running" /\ step[at] = "running")
          /\ Read /\ GoTo("failing")
Drop ==
    /\ worker = "dropping"
    /\ \/ CancelJob(at) /\ JobOnly
       \/ job[at] \in Terminated /\ Read
    /\ GoTo("polling")
\* Mutant: nothing is dispatched after the job.
MarkOnly == worker = "marking" /\ MarkSucceeded(at) /\ JobOnly /\ GoTo("polling")
Mark == worker = "marking" /\ MarkSucceeded(at) /\ JobOnly /\ GoTo("dispatching")

\* The handler of errors: step first, job second; an error of its own leaves
\* run_loop.
Retry ==
    /\ worker = "retrying"
    /\ \/ RetryStep(at) /\ GoTo("scheduling")
       \/ step[at] # "running" /\ Read /\ GoTo("dead")
Schedule == worker = "scheduling" /\ ScheduleRetry(at) /\ JobOnly /\ GoTo("polling")
Fail ==
    /\ worker = "failing"
    /\ \/ FailStep(at) /\ GoTo("mark_failing")
       \/ step[at] \notin {"running", "retrying"} /\ Read /\ GoTo("dead")
MarkFailing == worker = "mark_failing" /\ MarkFailed(at) /\ JobOnly /\ GoTo("polling")

----------------------------------------------------------------------------
(* WorkflowStepDispatcher, after a job and from the launcher *)

Runnable == {s \in Steps : step[s] \in {"pending", "retrying"}}
\* Mutant: the last runnable step of the list is taken.
LastRunnable(s) == s \in Runnable /\ \A r \in Runnable : r <= s
FirstRunnable(s) == s \in Runnable /\ \A r \in Runnable : s <= r
\* _enqueue_next_step reads the run and its steps, then enqueues.
HasNext == run = "running" /\ Runnable # {}

Dispatch ==
    /\ worker = "dispatching" /\ Read
    /\ \/ HasNext /\ worker' = "enqueueing" /\ \E s \in Steps : FirstRunnable(s) /\ at' = s
       \/ ~HasNext /\ worker' = "ending" /\ UNCHANGED at
    /\ UNCHANGED <<expired, launcher, target, crashes, forced, excused>>
EnqueueNext == worker = "enqueueing" /\ Enqueue(at) /\ JobOnly /\ GoTo("polling")

\* _all_steps_succeeded_or_skipped
CheckEnd ==
    /\ worker = "ending" /\ Read
    /\ GoTo(IF \A s \in Steps : step[s] \in {"succeeded", "skipped"}
            THEN "completing_run" ELSE "polling")
EndRun ==
    /\ worker = "completing_run"
    /\ \/ CompleteRun
       \/ run # "running" /\ Read
    /\ GoTo("polling")

\* _start_initialized_run: four transactions of one request handler.
Launch ==
    /\ Up /\ UNCHANGED <<worker, at, expired, crashes, forced, excused>>
    /\ \/ /\ launcher = "idle" /\ StartRun
          /\ launcher' = "initializing" /\ UNCHANGED target
       \/ /\ launcher = "initializing" /\ InitializeSteps
          /\ launcher' = "dispatching" /\ UNCHANGED target
       \/ /\ launcher = "initializing" /\ run \in TerminalRun /\ Read
          /\ launcher' = "done" /\ UNCHANGED target
       \/ /\ launcher = "dispatching" /\ HasNext /\ Read
          /\ launcher' = "enqueueing"
          /\ \E s \in Steps : FirstRunnable(s) /\ target' = s
       \/ /\ launcher = "dispatching" /\ ~HasNext /\ Read
          /\ launcher' = "done" /\ UNCHANGED target
       \/ /\ launcher = "enqueueing" /\ Enqueue(target) /\ JobOnly
          /\ launcher' = "done" /\ UNCHANGED target

----------------------------------------------------------------------------
(* The user, and the process *)

\* _dispatch_run_command and the /jobs/{id} routes; refusals change nothing.
UserCommand ==
    /\ Up /\ UNCHANGED <<worker, at, expired, launcher, target, crashes, excused>>
    /\ \/ "pause_run" \in Commands /\ PauseRun /\ UNCHANGED forced
       \/ "resume_run" \in Commands /\ ResumeRun /\ UNCHANGED forced
       \/ "cancel_run" \in Commands /\ CancelRun /\ UNCHANGED forced
       \/ "complete_run" \in Commands /\ CompleteRun /\ forced' = TRUE
       \/ /\ \E s \in Steps : \/ "pause_job" \in Commands /\ PauseJob(s)
                              \/ "resume_job" \in Commands /\ ResumeJob(s)
                              \/ "cancel_job" \in Commands /\ CancelJob(s)
          /\ JobOnly /\ UNCHANGED forced

\* The request handler is lost with the process; it is not resumed.
Crash ==
    /\ Up /\ crashes < MaxCrashes
    /\ crashes' = crashes + 1
    /\ worker' = "down" /\ at' = 0 /\ expired' = {}
    /\ launcher' = IF launcher = "idle" THEN "idle" ELSE "done"
    /\ target' = 0
    /\ Read /\ UNCHANGED <<forced, excused>>
Restart == worker = "down" /\ GoTo("recovering") /\ Read

----------------------------------------------------------------------------
WorkerStep ==
    \/ Recover \/ Synced \/ Start \/ Reject \/ Return \/ CheckCommit \/ Attach
    \/ CheckJob \/ CheckCancel \/ AcknowledgeCancel \/ CheckPause
    \/ CheckBlockedPause \/ AcknowledgePause \/ Complete \/ Drop \/ Mark
    \/ Retry \/ Schedule \/ Fail \/ MarkFailing
    \/ Dispatch \/ EnqueueNext \/ CheckEnd \/ EndRun
    \/ \E s \in Steps : SyncStep(s) \/ LeaseJob(s)
    \/ \E error \in Errors : Raise(error)

WorkerNext == WorkerStep \/ Launch \/ UserCommand \/ Crash \/ Restart

WorkerSpec == WorkerInit /\ [][WorkerNext]_vars

\* The event loop runs the worker task and the handler; the process is
\* restarted; a runner that keeps committing returns in the end.
FairWorkerSpec ==
    /\ WorkerSpec
    /\ WF_vars(WorkerStep) /\ WF_vars(Launch) /\ WF_vars(Restart)
    /\ SF_vars(Return)
----------------------------------------------------------------------------
(* Safety *)

Active == {"running", "retrying", "succeeded", "failed"}

\* Steps are executed in the order of the template: none is started, retried
\* or failed before all earlier ones are done - across the launcher and the
\* dispatcher reading the steps, retries, pauses, crashes and recoveries.
StepsInOrder ==
    \A s \in Steps : step[s] \in Active =>
        \A r \in 1..s - 1 : step[r] \in {"succeeded", "skipped"}

\* While a run is paused no step of it is running and no executor is past the
\* guard that lets it commit: the acknowledgement of the worker really is a
\* safe boundary (ack_pause_at_boundary against _assert_artifact_commit_allowed).
PausedIsQuiet ==
    run = "paused" =>
        /\ \A s \in Steps : step[s] # "running"
        /\ worker \notin {"executing", "attaching", "completing"}

\* A run that has become cancelled has no step left that could still move:
\* the steps cancel_run settled and the one its worker acknowledges are all
\* there are, whatever error or retry raced with the command.
CancelledIsSettled ==
    run = "cancelled" => \A s \in Steps : step[s] \notin LiveStep

\* Nobody leases a job more often than its budget: lease_one does not look at
\* max_attempts, the worker, schedule_retry and the recovery do.  Only a pause
\* that the worker acknowledged puts a job back in line unchecked.
WithinRetryBudget == \A s \in Steps : attempts[s] > MaxAttempts => s \in excused

\* Once the user cancels, no execution begins any more: a job the cancellation
\* missed, or that the retry of a failing step revived after it, is leased
\* again but its start is refused.
CancelStopsWork ==
    [][worker = "leased" /\ worker' = "executing" =>
          run \notin {"cancelling", "cancelled"}]_vars

----------------------------------------------------------------------------
(* Liveness *)

\* A running run does not stand still: it succeeds, one of its steps uses up its
\* attempts, or the user's next command takes effect; and after a resume that
\* holds again.  No step is forgotten between completing a step, marking its job
\* and enqueueing the next, nor between a pause and the resume.  (Until the
\* process ends: the job of a crashed worker may stay as it is.)
EveryRunEnds ==
    run = "running" /\ crashes = 0 ~>
        run # "running" \/ (\E s \in Steps : step[s] = "failed") \/ ~Up

\* A command that meets an executor is acknowledged by it once the external
\* call has returned or its artifacts are refused, whichever of the guards it
\* runs into first: the run does not stay cancelling, or pausing.  Only the end
\* of the process gets in the way; a cancellation overtakes a pause.  (It does
\* not hold of a call that raises: the handler of errors acknowledges nothing;
\* nor of a cancellation that meets an executor already refused for a pause.)
CancelMeetsExecution ==
    run = "cancelling" /\ worker \in {"executed", "cancel_check"} ~>
        run = "cancelled" \/ ~Up
PauseMeetsExecution ==
    run = "pausing" /\ worker \in {"executed", "blocked_pause"} ~>
        run \in {"paused", "cancelling"} \/ ~Up
=============================================================================
