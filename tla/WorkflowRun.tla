----------------------------- MODULE WorkflowRun -----------------------------
(***************************************************************************)
(* app/services/workflow_run_manager.py: the workflow_runs and             *)
(* workflow_steps rows of one run, and the commands and transitions on     *)
(* them.  Each operator is one transaction (BEGIN IMMEDIATE, or one        *)
(* execute_workflow_command mutation of the writer); where the code raises *)
(* WorkflowTransitionError, or returns the row as it is, the operator is   *)
(* not enabled.  Spec lets any caller issue any of them at any time: its   *)
(* properties hold without trusting the callers.  JobWorker has the        *)
(* callers of a creator run.  Child tasks are not modelled.                *)
(***************************************************************************)
EXTENDS JobStore

CONSTANTS
    ResearchStep,   \* the step named "formal_research", 0 if there is none
    Publications,   \* publication ids a report failure can carry
    OtherFailure,   \* a failure that is not report_publication_failed
    NoFailure, FinalResult

ASSUME MarksAssumption ==
    /\ ResearchStep \in 0..N
    /\ FinalResult \notin Steps
    /\ NoFailure # OtherFailure /\ {NoFailure, OtherFailure} \cap Publications = {}

VARIABLES
    run,            \* workflow_runs.status, "none" before the row exists
    failure,        \* workflow_runs.error_code and the publication it names
    step,           \* workflow_steps.status, "none" before initialize_steps
    artifacts       \* steps with an artifact, and the final result

runVars == <<run, failure, step, artifacts>>
dbVars  == <<job, attempts, run, failure, step, artifacts>>

TerminalRun == {"cancelled", "succeeded", "failed"}
RunStatus == {"none", "running", "waiting_user", "pausing", "paused",
              "cancelling", "finalizing_report"} \cup TerminalRun
LiveStep   == {"pending", "running", "retrying"}
StepStatus == {"none", "succeeded", "failed", "cancelled", "skipped"} \cup LiveStep

\* Rows hold only statuses their tables know, whatever the callers do.
TypeOK ==
    /\ JobStoreTypeOK
    /\ run \in RunStatus
    /\ failure \in {NoFailure, OtherFailure} \cup Publications
    /\ step \in [Steps -> StepStatus]
    /\ artifacts \subseteq Steps \cup {FinalResult}

Init ==
    /\ JobStoreInit
    /\ run = "none" /\ failure = NoFailure
    /\ step = [s \in Steps |-> "none"] /\ artifacts = {}

\* UPDATE workflow_steps SET status = to WHERE run_id = ? AND status IN from
StepsFrom(from, to) ==
    step' = [s \in Steps |-> IF step[s] \in from THEN to ELSE step[s]]
SetStep(s, to) == step' = [step EXCEPT ![s] = to]

----------------------------------------------------------------------------
(* Commands on the run *)

StartRun ==
    /\ run = "none" /\ run' = "running"
    /\ UNCHANGED <<jobVars, failure, step, artifacts>>

\* Called once per run; a second call would repeat the template's rows.
InitializeSteps ==
    /\ run \notin TerminalRun \cup {"none"} /\ \A s \in Steps : step[s] = "none"
    /\ StepsFrom({"none"}, "pending")
    /\ UNCHANGED <<jobVars, run, failure, artifacts>>

PauseRun ==
    /\ run = "running" /\ run' = "pausing"
    /\ JobsFrom({"queued", "retrying"}, "paused")
    /\ UNCHANGED <<attempts, failure, step, artifacts>>

\* A running run resumes its jobs after an interactive sign-in of a child.
ResumeRun ==
    /\ run \in {"paused", "waiting_user"} /\ run' = "running"
    /\ JobsFrom({"paused"}, "queued")
    /\ UNCHANGED <<attempts, failure, step, artifacts>>
WakeRun ==
    /\ run = "running"
    /\ JobsFrom({"paused"}, "queued")
    /\ UNCHANGED <<attempts, runVars>>

\* Mutant: a step nobody has started survives the cancellation.
CancelRunForgetsPending ==
    /\ run \in {"running", "pausing", "paused", "finalizing_report"}
    /\ run' = "cancelling"
    /\ JobsFrom({"queued", "paused", "retrying", "running"}, "cancelled")
    /\ StepsFrom({"retrying"}, "cancelled")
    /\ UNCHANGED <<attempts, failure, artifacts>>

CancelRun ==
    /\ run \in {"running", "pausing", "paused", "finalizing_report"}
    /\ run' = "cancelling"
    /\ JobsFrom({"queued", "paused", "retrying", "running"}, "cancelled")
    /\ StepsFrom({"pending", "retrying"}, "cancelled")
    /\ UNCHANGED <<attempts, failure, artifacts>>

\* _converge_descendants_at_terminal_boundary
\* Mutant: a step between two attempts is forgotten.
ConvergeForgetsRetries(outcome) ==
    step' = [s \in Steps |->
               IF step[s] = "running" /\ outcome = "failed" THEN "failed"
               ELSE IF step[s] \in {"pending", "running"} THEN "cancelled"
               ELSE step[s]]

Converge(outcome) ==
    step' = [s \in Steps |->
               IF step[s] \in {"running", "retrying"} /\ outcome = "failed" THEN "failed"
               ELSE IF step[s] \in LiveStep THEN "cancelled" ELSE step[s]]

CompleteRun ==
    /\ run = "running" /\ run' = "succeeded"
    /\ Converge("succeeded")
    /\ UNCHANGED <<jobVars, failure, artifacts>>

FailRun(error) ==
    /\ run \in {"running", "pausing", "finalizing_report"} /\ run' = "failed"
    /\ failure' = error
    /\ Converge("failed")
    /\ UNCHANGED <<jobVars, artifacts>>

BeginReportFinalization ==
    /\ run = "running" /\ run' = "finalizing_report"
    /\ UNCHANGED <<jobVars, failure, step, artifacts>>

CompleteReportFinalization ==
    /\ run = "finalizing_report" /\ run' = "succeeded"
    /\ Converge("succeeded")
    /\ UNCHANGED <<jobVars, failure, artifacts>>

\* The run must have failed on this very publication, after its research.
RetryFailedReport(publication) ==
    /\ run = "failed" /\ failure = publication
    /\ ResearchStep # 0 /\ step[ResearchStep] = "succeeded"
    /\ run' = "finalizing_report" /\ failure' = NoFailure
    /\ UNCHANGED <<jobVars, step, artifacts>>

----------------------------------------------------------------------------
(* Transitions reported by the executor of step s *)

StartStep(s) ==
    /\ run = "running" /\ step[s] \in {"pending", "retrying"}
    /\ SetStep(s, "running")
    /\ UNCHANGED <<jobVars, run, failure, artifacts>>

CompleteStep(s) ==
    /\ run = "running" /\ step[s] = "running"
    /\ SetStep(s, "succeeded")
    /\ UNCHANGED <<jobVars, run, failure, artifacts>>

\* complete_step, the commit guard: the run was cancelled meanwhile.
CompleteCancelled(s) ==
    /\ run \in {"cancelling", "cancelled"} /\ run' = "cancelled" /\ step[s] # "none"
    /\ SetStep(s, IF step[s] = "running" THEN "cancelled" ELSE step[s])
    /\ UNCHANGED <<jobVars, failure, artifacts>>

RetryStep(s) ==
    /\ step[s] = "running"
    /\ SetStep(s, "retrying")
    /\ UNCHANGED <<jobVars, run, failure, artifacts>>

FailStep(s) ==
    /\ step[s] \in {"running", "retrying"}
    /\ SetStep(s, "failed")
    /\ UNCHANGED <<jobVars, run, failure, artifacts>>

CancelStep(s) ==
    /\ step[s] \in LiveStep
    /\ SetStep(s, "cancelled")
    /\ UNCHANGED <<jobVars, run, failure, artifacts>>

SkipStep(s) ==
    /\ step[s] = "pending"
    /\ SetStep(s, "skipped")
    /\ UNCHANGED <<jobVars, run, failure, artifacts>>

\* wait_for_user_recovery and wait_for_user_input
WaitForUser(s) ==
    /\ run = "running" /\ step[s] = "running" /\ run' = "waiting_user"
    /\ SetStep(s, "retrying")
    /\ UNCHANGED <<jobVars, failure, artifacts>>

\* restart_step_and_retry_children(resume_parent=True): reopen the step,
\* resume_run and start_step in one transaction.
RestartStep(s) ==
    /\ run \in {"paused", "waiting_user"} /\ run' = "running"
    /\ step[s] \in {"failed", "pending", "retrying"}
    /\ SetStep(s, "running")
    /\ JobsFrom({"paused"}, "queued")
    /\ UNCHANGED <<attempts, failure, artifacts>>

\* Mutant: the step stays running although its run is paused.
AckPauseKeepsStep(s) ==
    /\ run = "pausing" /\ run' = "paused" /\ step[s] # "none"
    /\ job' = IF job[s] = "running" THEN [job EXCEPT ![s] = "paused"] ELSE job
    /\ UNCHANGED <<attempts, failure, step, artifacts>>

\* Mutant: a status that workflow_steps does not know.
AckPausedStep(s) ==
    /\ run = "pausing" /\ run' = "paused" /\ step[s] # "none"
    /\ SetStep(s, IF step[s] = "running" THEN "pausing" ELSE step[s])
    /\ job' = IF job[s] = "running" THEN [job EXCEPT ![s] = "paused"] ELSE job
    /\ UNCHANGED <<attempts, failure, artifacts>>

AckPause(s) ==
    /\ run = "pausing" /\ run' = "paused" /\ step[s] # "none"
    /\ SetStep(s, IF step[s] = "running" THEN "retrying" ELSE step[s])
    /\ job' = IF job[s] = "running" THEN [job EXCEPT ![s] = "paused"] ELSE job
    /\ UNCHANGED <<attempts, failure, artifacts>>

AckCancel(s) ==
    /\ run = "cancelling" /\ run' = "cancelled" /\ step[s] # "none"
    /\ SetStep(s, IF step[s] \in LiveStep THEN "cancelled" ELSE step[s])
    /\ UNCHANGED <<jobVars, failure, artifacts>>

\* attach_artifact, created by step s or as the final result of the run.
\* Mutant: the transaction does not look at the run again.
AttachUnchecked(o) ==
    /\ artifacts' = artifacts \cup {o}
    /\ UNCHANGED <<jobVars, run, failure, step>>

MayAttach(o) ==
    \/ run \notin TerminalRun \cup {"cancelling", "none"}
    \/ run = "succeeded" /\ o = FinalResult
AttachArtifact(o) ==
    /\ MayAttach(o)
    /\ artifacts' = artifacts \cup {o}
    /\ UNCHANGED <<jobVars, run, failure, step>>

----------------------------------------------------------------------------
RunStep ==
    \/ StartRun \/ InitializeSteps \/ PauseRun \/ ResumeRun \/ WakeRun
    \/ CancelRun \/ CompleteRun \/ BeginReportFinalization
    \/ CompleteReportFinalization
    \/ \E e \in {OtherFailure} \cup Publications : FailRun(e)
    \/ \E p \in Publications : RetryFailedReport(p)
    \/ \E o \in Steps \cup {FinalResult} : AttachArtifact(o)

StepStep(s) ==
    \/ StartStep(s) \/ CompleteStep(s) \/ CompleteCancelled(s)
    \/ RetryStep(s) \/ FailStep(s) \/ CancelStep(s) \/ SkipStep(s)
    \/ WaitForUser(s) \/ RestartStep(s) \/ AckPause(s) \/ AckCancel(s)

JobStep(s) ==
    /\ \/ Enqueue(s) \/ Lease(s) \/ MarkSucceeded(s) \/ MarkFailed(s)
       \/ ScheduleRetry(s) \/ PauseJob(s) \/ ResumeJob(s) \/ CancelJob(s)
    /\ UNCHANGED runVars

ExpireLeases ==
    /\ \E E \in SUBSET {s \in Steps : job[s] = "running"} : RecoverExpired(E)
    /\ UNCHANGED runVars

Next == RunStep \/ ExpireLeases \/ \E s \in Steps : StepStep(s) \/ JobStep(s)

Spec == Init /\ [][Next]_dbVars

----------------------------------------------------------------------------
(* Properties, for arbitrary callers *)

\* A run that has succeeded or failed leaves no step that could still move:
\* one boundary terminates every descendant, and nothing that arrives later -
\* a worker's retry, a second initialize_steps, an attempt to start - revives
\* one (_converge_descendants_at_terminal_boundary with the guards of the
\* step transitions).
EndedRunsAreSettled ==
    run \in {"succeeded", "failed"} => \A s \in Steps : step[s] \notin LiveStep

\* What the run's status, finished steps and outputs do is what RunLifecycle
\* allows, however commands, worker reports and artifact commits interleave.
Lifecycle == INSTANCE RunLifecycle WITH
    StepNames <- Steps,
    status <- IF run = "none" THEN "created" ELSE run,
    done <- {s \in Steps : step[s] = "succeeded"},
    outputs <- artifacts
LifecycleSpec == Lifecycle!Spec

\* A run is reopened only for a publication it failed on, with its research
\* done (retry_failed_report_finalization): no other failure is ever undone.
OnlyReportsReopen ==
    [][run = "failed" /\ run' # "failed" =>
          /\ run' = "finalizing_report" /\ failure \in Publications
          /\ ResearchStep \in Steps /\ step[ResearchStep] = "succeeded"]_dbVars
=============================================================================
