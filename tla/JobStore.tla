------------------------------ MODULE JobStore ------------------------------
(***************************************************************************)
(* app/memory/job_store.py and app/memory/job_mutations.py: the jobs table *)
(* as one creator run uses it.  A step has at most one job, because        *)
(* enqueue() is keyed by "workflow-step:<run>:<step>", so a job is named   *)
(* by its step.  Each operator is one SQL statement: a guard is its WHERE  *)
(* clause, and a statement that matches no row is a stutter.               *)
(***************************************************************************)
EXTENDS Integers

CONSTANTS
    N,              \* steps in the workflow template
    MaxAttempts     \* jobs.max_attempts

ASSUME TemplateAssumption == N \in Nat \ {0} /\ MaxAttempts \in Nat \ {0}

Steps == 1..N

VARIABLES
    job,            \* jobs.status of each step's job, "none" without a row
    attempts        \* jobs.attempts, which the code only compares with the
                    \* budget: it is counted up to one past it
jobVars == <<job, attempts>>

Terminated == {"succeeded", "failed", "cancelled"}
JobStatus  == {"none", "queued", "paused", "running", "retrying"} \cup Terminated

JobStoreTypeOK == /\ job \in [Steps -> JobStatus]
                  /\ attempts \in [Steps -> 0..MaxAttempts + 1]

JobStoreInit == /\ job = [s \in Steps |-> "none"]
                /\ attempts = [s \in Steps |-> 0]

\* UPDATE jobs SET status = to WHERE run_id = ? AND status IN from
JobsFrom(from, to) ==
    job' = [s \in Steps |-> IF job[s] \in from THEN to ELSE job[s]]

\* enqueue: the row of that idempotency key is returned if there is one,
\* whatever its status.
Enqueue(s) ==
    /\ job' = IF job[s] = "none" THEN [job EXCEPT ![s] = "queued"] ELSE job
    /\ UNCHANGED attempts

\* lease_one: session_id is the run, so no job of the run may be running.
\* not_before passes with time and is not modelled.
Leasable(s) == job[s] \in {"queued", "retrying"} /\ \A r \in Steps : job[r] # "running"
Lease(s) ==
    /\ Leasable(s)
    /\ job' = [job EXCEPT ![s] = "running"]
    /\ attempts' = [attempts EXCEPT ![s] = IF @ > MaxAttempts THEN @ ELSE @ + 1]

\* Mutant: one more attempt than the budget.
SpentLate(s) == attempts[s] > MaxAttempts
Spent(s) == attempts[s] >= MaxAttempts

\* recover_expired_running_jobs, the statement: the leases in E have expired.
RecoverExpired(E) ==
    /\ job' = [s \in Steps |->
                 IF s \notin E THEN job[s]
                 ELSE IF Spent(s) THEN "failed" ELSE "retrying"]
    /\ UNCHANGED attempts

\* mark_succeeded, mark_failed, schedule_retry: by id, whatever the status.
MarkSucceeded(s) == job' = [job EXCEPT ![s] = "succeeded"] /\ UNCHANGED attempts
MarkFailed(s)    == job' = [job EXCEPT ![s] = "failed"] /\ UNCHANGED attempts
ScheduleRetry(s) ==
    /\ job' = [job EXCEPT ![s] = IF Spent(s) THEN "failed" ELSE "retrying"]
    /\ UNCHANGED attempts

\* pause_job, resume_job, cancel_job
PauseJob(s) ==
    /\ job[s] \in {"queued", "retrying"}
    /\ job' = [job EXCEPT ![s] = "paused"] /\ UNCHANGED attempts
ResumeJob(s) ==
    /\ job[s] = "paused"
    /\ job' = [job EXCEPT ![s] = "queued"] /\ UNCHANGED attempts
CancelJob(s) ==
    /\ job[s] \in {"queued", "paused", "retrying", "running"}
    /\ job' = [job EXCEPT ![s] = "cancelled"] /\ UNCHANGED attempts
=============================================================================
