----------------------------- MODULE ResearchRun -----------------------------
(***************************************************************************)
(* One content research run (app/content_research), from its presearch to  *)
(* its report: the user's commands, the lanes of the dispatch worker, the  *)
(* analysis worker, and the rows they meet in.  A run's progress is kept   *)
(* twice, by the lifecycle (state) and by the workflow the run manager     *)
(* keeps beside it (status, formal); one transaction of the code is one    *)
(* action here.                                                            *)
(*                                                                         *)
(* A lane executes the formal research of a dispatch job or of an accepted *)
(* coverage decision, the analyst that of an analysis attempt; all three   *)
(* go through the same pipeline.  ScopeExecution has the leases of the     *)
(* decisions' executions in full; here such an execution is lost only by a *)
(* crash or a cancellation.                                                *)
(***************************************************************************)
EXTENDS Naturals, ResearchTransitions

CONSTANTS
    Lanes,          \* the lanes of the dispatch worker
    analyst,        \* the analysis worker
    R,              \* bound: coverage revisions of the run
    MaxFaults       \* bound: crashes, leases that lapse under their holder, retries
                    \* of the retrieval sent again, failures nothing could record

Threads == Lanes \cup {analyst}
Revisions == 1..R
None == 0           \* no decision; also: no lane holds the job

ASSUME ResearchAssumption ==
    R \in Nat \ {0} /\ MaxFaults \in Nat /\ analyst \notin Lanes /\ None \notin Lanes

VARIABLES
    (* workflow_runs, and the formal_research row of workflow_steps *)
    state, status, step, error, formal,
    authChild,      \* a child task failed for want of authentication
    (* content_research_dispatch_jobs *)
    job, owner, jobExpired,
    (* content_research_subagent_tasks and its operation checkpoint *)
    task,
    (* scope coverage, its decisions, their continuations *)
    coverage, decision, cont,
    (* the effective analysis attempt, the decision it serves, its lease *)
    analysis, analysisFor, analysisExpired,
    (* content_research_report_publications, the reports exposed *)
    candidate, reports,
    (* the threads: where each is, which decision it serves, and those that
       loaded the run and nothing has moved it since *)
    pc, serves, fresh,
    (* the user's request with several transactions, a retry that was sent *)
    req, sent,
    faults

runVars == <<state, status, step, error, formal>>
jobVars == <<job, owner, jobExpired>>
scopeVars == <<coverage, decision, cont>>
analysisVars == <<analysis, analysisFor, analysisExpired>>
reportVars == <<candidate, reports>>
threadVars == <<pc, serves>>
userVars == <<req, sent>>
vars == <<runVars, authChild, jobVars, task, scopeVars, analysisVars, reportVars,
          threadVars, fresh, userVars, faults>>

NoError == [action |-> "none", stage |-> "none", preserved |-> FALSE]
Decisions == {"expand_coverage", "generate_limited_report"}
Failures == {"auth", "transient", "failed"}
Recoverable == {"auth", "transient"}
Ending == {"done", "failed", "raised", "closing"}
Working == {"claimed", "entering", "starting", "collecting", "tasking", "calling",
            "collected", "covering", "insufficient", "undecided", "sufficient",
            "preparing", "completing", "analysing"}
Publishing == {"composing", "loading", "committing"}
ThreadAt == {"idle", "unpublished"} \cup Working \cup Publishing \cup Ending

ResearchTypeOK ==
    /\ state \in States /\ formal \in {"pending", "running", "retrying", "succeeded",
                                       "failed", "cancelled"}
    /\ status \in {"running", "waiting_user", "finalizing_report", "succeeded", "failed"}
    /\ step \in {"presearch", "brief_confirm", "scope_confirm", "formal_research",
                 "coverage", "report"}
    /\ error \in [action : {"none", "retry_presearch", "retry_retrieval", "retry_analysis",
                            "retry_report"},
                  stage : States \cup {"none", "presearch", "marketing_analysis"},
                  preserved : BOOLEAN]
    /\ authChild \in BOOLEAN
    /\ job \in {"none", "queued", "running", "completed", "failed"}
    /\ owner \in Lanes \cup {None} /\ jobExpired \in BOOLEAN
    /\ task \in Failures \cup {"queued", "running", "calling", "done", "unknown"}
    /\ coverage \in [Revisions -> {"none", "awaiting", "satisfied"}]
    /\ decision \in [Revisions -> Decisions \cup {"none"}]
    /\ cont \in [Revisions -> {"none", "pending", "running", "completed", "failed"}]
    /\ analysis \in {"none", "queued", "running", "succeeded", "failed", "cancelled"}
    /\ analysisFor \in Revisions \cup {None} /\ analysisExpired \in BOOLEAN
    /\ candidate \in BOOLEAN /\ reports \in Nat
    /\ pc \in [Threads -> ThreadAt] /\ serves \in [Threads -> Revisions \cup {None}]
    /\ fresh \subseteq Threads
    /\ req \in {"idle", "presearch", "requeue", "restart", "dispatch", "enqueue"}
    /\ sent \in BOOLEAN /\ faults \in 0..MaxFaults

ResearchInit ==
    /\ state = "presearch_running" /\ status = "running" /\ step = "presearch"
    /\ error = NoError /\ formal = "pending" /\ authChild = FALSE
    /\ job = "none" /\ owner = None /\ jobExpired = FALSE /\ task = "queued"
    /\ coverage = [r \in Revisions |-> "none"] /\ decision = [r \in Revisions |-> "none"]
    /\ cont = [r \in Revisions |-> "none"]
    /\ analysis = "none" /\ analysisFor = None /\ analysisExpired = FALSE
    /\ candidate = FALSE /\ reports = 0
    /\ pc = [t \in Threads |-> "idle"] /\ serves = [t \in Threads |-> None]
    /\ fresh = {} /\ req = "presearch" /\ sent = FALSE /\ faults = 0

----------------------------------------------------------------------------
(* The lifecycle's own writes *)

StatusOf(to) ==
    CASE to \in {"brief_confirmation_required", "scope_confirmation_required",
                 "coverage_decision_required", "recovery_required"} -> "waiting_user"
      [] to = "cancelled_or_failed" -> "failed"
      [] to = "report_ready" -> "succeeded"
      [] OTHER -> "running"

StepOf(to) ==
    CASE to = "brief_confirmation_required" -> "brief_confirm"
      [] to = "scope_confirmation_required" -> "scope_confirm"
      [] to \in {"retrieval_queued", "retrieval_running", "coverage_evaluating"} ->
            "formal_research"
      [] to = "coverage_decision_required" -> "coverage"
      [] to \in {"report_composing", "report_ready"} -> "report"
      [] OTHER -> step

\* Mutant: the step of a failed run takes the status of the run.
FormalWithRun(event) ==
    CASE event = "fail" /\ step = "formal_research" -> "waiting_user"
      [] event \in {"confirm_scope", "worker_claimed", "expand_coverage"} -> "running"
      [] OTHER -> formal
\* What an event does to the formal_research step.
FormalAfter(event) ==
    CASE event \in {"confirm_scope", "worker_claimed", "expand_coverage"} -> "running"
      [] event = "fail" /\ step = "formal_research" -> "failed"
      [] event = "cancel" /\ formal \in {"pending", "running", "retrying"} -> "cancelled"
      [] OTHER -> formal

\* Mutant: the event decides the new state, wherever the run is.
AdvanceAnywhere(event, why) ==
    \E from \in States : \E to \in States :
        /\ <<from, event, to>> \in Transitions /\ state \notin Terminal
        /\ state' = to /\ status' = StatusOf(to) /\ step' = StepOf(to)
        /\ formal' = FormalAfter(event) /\ error' = why /\ fresh' = {}
\* _advance: the transition and the rows that follow it, in the caller's
\* transaction.  Whoever loaded the run before has an old revision now.
Advance(event, why) ==
    \E to \in States :
        /\ <<state, event, to>> \in Transitions
        /\ state' = to /\ status' = StatusOf(to) /\ step' = StepOf(to)
        /\ formal' = FormalAfter(event) /\ error' = why /\ fresh' = {}

\* _advance_lifecycle_if_current
AdvanceIf(expected, event) ==
    \/ state = expected /\ Advance(event, NoError)
    \/ state # expected /\ UNCHANGED <<runVars, fresh>>

Failed(action, stage, preserved) ==
    Advance("fail", [action |-> action, stage |-> stage, preserved |-> preserved])

\* plan_recovery: the one recovery the run offers, by the stage that failed.
Stages(action) ==
    CASE action = "retry_presearch" -> {"presearch"}
      [] action = "retry_retrieval" -> {"retrieval_queued", "retrieval_running"}
      [] action = "retry_analysis"  -> {"marketing_analysis"}
      [] action = "retry_report"    -> {"report_composing"}
      [] OTHER -> {}
Plan == IF /\ state = "recovery_required" /\ error.stage \in Stages(error.action)
           /\ error.action = "retry_report" => error.preserved /\ analysis = "succeeded"
           /\ error.action = "retry_analysis" => analysis # "none"
        THEN error.action ELSE "none"

----------------------------------------------------------------------------
(* Coverage and authority *)

\* get_coverage_snapshot without a revision: the latest.
LatestCoverage ==
    IF \A r \in Revisions : coverage[r] = "none" THEN "none"
    ELSE coverage[CHOOSE r \in Revisions : /\ coverage[r] # "none"
                                           /\ \A q \in Revisions : q > r => coverage[q] = "none"]

\* _require_scope_execution_authority: a decision, or no coverage that awaits one.
Authority(r) == r # None \/ LatestCoverage # "awaiting"

\* Mutant: an expansion is judged by the coverage it was asked to expand.
CoverageDecided(r) == IF r = None THEN 1 ELSE r
\* The revision whose coverage an execution for decision r evaluates.
CoverageOf(r) == IF r = None THEN 1
                 ELSE IF decision[r] = "generate_limited_report" THEN r ELSE r + 1

\* restart_formal_research_step.  A run that is already running restarts a
\* failed step only for a child that waits for authentication.
Restartable ==
    \/ status = "running" /\ formal \in {"running", "retrying"}
    \/ status = "running" /\ formal = "failed" /\ authChild
    \/ status = "waiting_user" /\ formal \in {"pending", "retrying", "failed"}
RestartFormal ==
    /\ status' = "running" /\ formal' = "running"
    /\ step' = IF status = "running" /\ formal = "running" THEN step ELSE "formal_research"
    /\ UNCHANGED <<state, error>>

\* enqueue with retry_completed: a queued or running job stays as it is.
Enqueue ==
    /\ job' = IF job \in {"none", "completed", "failed"} THEN "queued" ELSE job
    /\ UNCHANGED <<owner, jobExpired>>


----------------------------------------------------------------------------
(* The threads *)

IsCont(t) == serves[t] # None /\ t # analyst
IsDispatch(t) == serves[t] = None /\ t # analyst
HasJob(t) == IsDispatch(t) /\ pc[t] # "idle" /\ owner = t /\ job = "running"

\* dispatch_context_is_live, execution_context_is_live; an analysis runs
\* without a context.
Live(t) ==
    \/ HasJob(t) /\ ~jobExpired
    \/ IsCont(t) /\ cont[serves[t]] = "running" /\ state # "cancelled_or_failed"
    \/ t = analyst

Go(t, at) == pc' = [pc EXCEPT ![t] = at] /\ UNCHANGED serves
Release(t) == pc' = [pc EXCEPT ![t] = "idle"] /\ serves' = [serves EXCEPT ![t] = None]

\* Untouched by an execution between its claim and its report.
Aside == UNCHANGED <<jobVars, scopeVars, analysisVars, reportVars, userVars, faults>>
Still == UNCHANGED <<runVars, authChild, task, fresh>> /\ Aside

ContClaimable(r) == \/ cont[r] = "pending"
                    \/ cont[r] = "running" /\ ~\E t \in Lanes : serves[t] = r

\* run_once: continuations come first.  A unit that was cancelled, or lost
\* during its call, is not claimed and its continuation fails.
ClaimCont(l, r) ==
    /\ pc[l] = "idle" /\ ContClaimable(r)
    /\ \/ /\ state # "cancelled_or_failed"
          /\ cont' = [cont EXCEPT ![r] = "running"]
          /\ pc' = [pc EXCEPT ![l] = "entering"] /\ serves' = [serves EXCEPT ![l] = r]
       \/ /\ cont[r] = "running" \/ state = "cancelled_or_failed"
          /\ cont' = [cont EXCEPT ![r] = "failed"]
          /\ UNCHANGED threadVars
    /\ UNCHANGED <<runVars, authChild, jobVars, task, coverage, decision, analysisVars,
                   reportVars, fresh, userVars, faults>>

\* claim_next
ClaimJob(l) ==
    /\ pc[l] = "idle" /\ ~\E r \in Revisions : ContClaimable(r)
    /\ job = "queued" \/ (job = "running" /\ jobExpired)
    /\ job' = "running" /\ owner' = l /\ jobExpired' = FALSE
    /\ Go(l, "claimed")
    /\ UNCHANGED <<runVars, authChild, task, scopeVars, analysisVars, reportVars, fresh,
                   userVars, faults>>

\* Mutant: an interrupted call is put back with its task.
RecoveredAll == IF task \in {"running", "calling"} THEN "queued" ELSE task
\* recover_interrupted_tasks_atomically: a task marked before its call is put
\* back, one whose call was under way is not.
Recovered == CASE task = "running" -> "queued"
               [] task = "calling" -> "unknown"
               [] OTHER -> task
Recover(l) ==
    /\ pc[l] = "claimed"
    /\ \/ Live(l) /\ task' = Recovered /\ Go(l, "entering")
       \/ ~Live(l) /\ Release(l) /\ UNCHANGED task
    /\ UNCHANGED <<runVars, authChild, fresh>> /\ Aside

\* The lease was read before the lifecycle moves, in another transaction.
Enter(t) ==
    /\ pc[t] = "entering"
    /\ IF serves[t] = None \/ decision[serves[t]] = "expand_coverage"
       THEN AdvanceIf("retrieval_queued", "worker_claimed")
       ELSE UNCHANGED <<runVars, fresh>>
    /\ Go(t, "starting") /\ UNCHANGED <<authChild, task>> /\ Aside

\* restart_formal_research_step, by a thread.
Restart(t, at) ==
    /\ Live(t) /\ Restartable /\ RestartFormal /\ Go(t, at)
    /\ UNCHANGED <<authChild, task, fresh>> /\ Aside

Awaits == status = "waiting_user" \/ (status = "running" /\ formal = "retrying")
StartDispatch(t) ==
    pc[t] = "starting" /\ IsDispatch(t) /\ Authority(None) /\ Go(t, "collecting") /\ Still
StartCont(t) ==
    /\ pc[t] = "starting" /\ IsCont(t)
    /\ \/ Awaits /\ Restart(t, "collecting")
       \/ ~Awaits /\ Go(t, IF status = "succeeded" THEN "done" ELSE "collecting") /\ Still
StartAnalysis(t) == pc[t] = "starting" /\ t = analyst /\ Restart(t, "analysing")

\* An executable task is taken; the others are as their execution left them.
Executable(t) == IsDispatch(t) /\ task \in Failures \cup {"queued"}
StartTask(t) ==
    /\ pc[t] = "collecting"
    /\ \/ /\ Executable(t) /\ Live(t) /\ task' = "running" /\ Go(t, "tasking")
          /\ UNCHANGED <<runVars, authChild, fresh>> /\ Aside
       \/ ~Executable(t) /\ Go(t, "collected") /\ Still

Task(t, next, at) ==
    /\ Live(t) /\ task' = next /\ Go(t, at)
    /\ UNCHANGED <<runVars, authChild, fresh>> /\ Aside
CallProvider(t) == pc[t] = "tasking" /\ Task(t, "calling", "calling")
\* A task may end before its call, by a local failure or from checkpoints.
EndTask(t, outcome) ==
    \/ pc[t] = "tasking" /\ outcome # "unknown" /\ Task(t, outcome, "collected")
    \/ pc[t] = "calling" /\ Task(t, outcome, "collected")

\* wait_for_user_recovery, idempotent.
MayWait == \/ status = "running" /\ formal = "running"
           \/ status = "waiting_user" /\ formal = "retrying"
WaitForUser ==
    /\ status' = "waiting_user" /\ formal' = "retrying"
    /\ UNCHANGED <<state, step, error, fresh>>
\* fail_formal_research: the step first, unless the report was being made.
MayFail == status = "finalizing_report" \/ formal \in {"running", "retrying"}
FailFormal ==
    /\ formal' = IF status = "finalizing_report" THEN formal ELSE "failed"
    /\ status' = IF status \in {"running", "finalizing_report"} THEN "failed" ELSE status
    /\ UNCHANGED <<state, step, error, fresh>>

Judge(t) ==
    /\ pc[t] = "collected"
    /\ \/ /\ task = "done"
          /\ AdvanceIf("retrieval_running", "retrieval_completed")
          /\ Go(t, "covering") /\ UNCHANGED <<authChild, task>> /\ Aside
       \/ /\ task \in Recoverable /\ Live(t) /\ MayWait
          /\ WaitForUser /\ authChild' = (task = "auth")
          /\ Go(t, "failed") /\ UNCHANGED task /\ Aside
       \/ /\ task \in {"failed", "unknown"} /\ Live(t) /\ MayFail
          /\ FailFormal /\ authChild' = FALSE
          /\ Go(t, "failed") /\ UNCHANGED task /\ Aside

\* _persist_scope_coverage: each revision is evaluated once.
Cover(t, value) ==
    LET r == CoverageOf(serves[t])
        found == IF coverage[r] = "none" THEN value ELSE coverage[r]
        limited == decision[r] = "generate_limited_report"
    IN
    /\ pc[t] = "covering" /\ (IsCont(t) => Live(t))
    /\ coverage' = [coverage EXCEPT ![r] = found]
    /\ Go(t, IF found = "awaiting" /\ ~limited THEN "insufficient" ELSE "sufficient")
    /\ UNCHANGED <<runVars, authChild, jobVars, task, decision, cont, analysisVars,
                   reportVars, fresh, userVars, faults>>

Wait(t, at) ==
    Live(t) /\ MayWait /\ WaitForUser /\ Go(t, at) /\ UNCHANGED <<authChild, task>> /\ Aside
Insufficient(t) == pc[t] = "insufficient" /\ Wait(t, "undecided")
Undecided(t) ==
    /\ pc[t] = "undecided"
    /\ AdvanceIf("coverage_evaluating", "coverage_insufficient")
    /\ Go(t, "done") /\ UNCHANGED <<authChild, task>> /\ Aside
Sufficient(t) ==
    /\ pc[t] = "sufficient"
    /\ AdvanceIf("coverage_evaluating", "coverage_satisfied")
    /\ Go(t, "preparing") /\ UNCHANGED <<authChild, task>> /\ Aside

----------------------------------------------------------------------------
(* The analysis *)

\* Mutant: every execution prepares an attempt of its own.
PrepareAnew(t) ==
    /\ pc[t] = "preparing"
    /\ analysis' = "queued" /\ analysisFor' = serves[t]
    /\ Go(t, "done")
    /\ UNCHANGED <<runVars, authChild, jobVars, task, scopeVars, analysisExpired, reportVars,
                   fresh, userVars, faults>>
\* MarketingAnalysisExecutionService.prepare
Prepare(t) ==
    /\ pc[t] = "preparing" /\ analysis = "none"
    /\ analysis' = "queued" /\ analysisFor' = serves[t]
    /\ Go(t, "done")
    /\ UNCHANGED <<runVars, authChild, jobVars, task, scopeVars, analysisExpired, reportVars,
                   fresh, userVars, faults>>

Over == Terminal \cup {"recovery_required"}
Reuse(t) ==
    /\ pc[t] = "preparing"
    /\ \/ analysis \in {"queued", "running"} /\ Go(t, "done") /\ Still
       \/ analysis = "succeeded" /\ Go(t, "completing") /\ Still
       \/ analysis = "succeeded" /\ Wait(t, "done")         \* the conclusions cannot be made
       \/ analysis \in {"failed", "cancelled"} /\ state \in Over /\ Go(t, "done") /\ Still
       \/ /\ analysis \in {"failed", "cancelled"} /\ state \notin Over
          /\ Failed("retry_analysis", "marketing_analysis", FALSE)
          /\ Go(t, "done") /\ UNCHANGED <<authChild, task>> /\ Aside

\* claim_next_analysis_job
ClaimAnalysis(t) ==
    /\ t = analyst /\ pc[t] = "idle" /\ ~(analysis = "running" /\ analysisExpired)
    /\ analysis = "queued" /\ state = "report_composing"
    /\ analysis' = "running"
    /\ pc' = [pc EXCEPT ![t] = "starting"] /\ serves' = [serves EXCEPT ![t] = analysisFor]
    /\ UNCHANGED <<runVars, authChild, jobVars, task, scopeVars, analysisFor, analysisExpired,
                   reportVars, fresh, userVars, faults>>

Succeed(t) ==
    /\ pc[t] = "analysing" /\ analysis = "running" /\ ~analysisExpired
    /\ analysis' = "succeeded" /\ Go(t, "collecting")
    /\ UNCHANGED <<runVars, authChild, jobVars, task, scopeVars, analysisFor,
                   analysisExpired, reportVars, fresh, userVars, faults>>

\* record_analysis_failure of the running attempt: attempt and run together,
\* the attempt alone stays when the run has failed otherwise.
FailAnalysis ==
    \/ /\ analysis = "running" /\ state \notin Over
       /\ Failed("retry_analysis", "marketing_analysis", FALSE)
       /\ analysis' = "failed" /\ analysisExpired' = FALSE
    \/ UNCHANGED <<runVars, fresh, analysis, analysisExpired>> /\ state \in Over

ExpireAnalysis(t) ==
    /\ t = analyst /\ pc[t] = "idle" /\ analysis = "running" /\ analysisExpired
    /\ FailAnalysis
    /\ UNCHANGED <<authChild, jobVars, task, scopeVars, analysisFor, reportVars, threadVars,
                   userVars, faults>>

----------------------------------------------------------------------------
(* The report *)

\* complete_formal_research: the step, then the run's finalization.
Complete(t) ==
    /\ pc[t] = "completing"
    /\ \/ /\ status \in {"finalizing_report", "succeeded"} /\ (IsCont(t) => Live(t))
          /\ Go(t, "composing") /\ Still
       \/ /\ status = "running" /\ formal = "running" /\ Live(t)
          /\ formal' = "succeeded" /\ Go(t, "completing")
          /\ UNCHANGED <<state, status, step, error, authChild, task, fresh>> /\ Aside
       \/ /\ status = "running" /\ formal = "succeeded" /\ Live(t)
          /\ status' = "finalizing_report" /\ Go(t, "composing")
          /\ UNCHANGED <<state, formal, step, error, authChild, task, fresh>> /\ Aside

\* _publish_report_after_workflow_completion: the immutable candidate.
Compose(t) ==
    /\ pc[t] = "composing"
    /\ \/ /\ Authority(serves[t]) /\ status = "finalizing_report" /\ (IsCont(t) => Live(t))
          /\ candidate' = TRUE /\ Go(t, "loading")
          /\ UNCHANGED <<runVars, authChild, jobVars, task, scopeVars, analysisVars, reports,
                         fresh, userVars, faults>>
       \/ Authority(serves[t]) /\ status # "finalizing_report" /\ Go(t, "done") /\ Still

\* commit_publication reads the run ...
Load(t) ==
    /\ pc[t] = "loading" /\ state = "report_composing"
    /\ fresh' = fresh \cup {t} /\ Go(t, "committing")
    /\ UNCHANGED <<runVars, authChild, task>> /\ Aside

Committable(t) == /\ Live(t) /\ t \in fresh /\ status = "finalizing_report"
                  /\ state = "report_composing" /\ analysis = "succeeded"
\* Mutant: the report is exposed, then the run moves if it can.
CommitLate(t) ==
    /\ pc[t] = "committing" /\ Live(t) /\ analysis = "succeeded"
    /\ AdvanceIf("report_composing", "report_published")
    /\ reports' = reports + 1 /\ Go(t, "done")
    /\ UNCHANGED <<authChild, jobVars, task, scopeVars, analysisVars, candidate, userVars,
                   faults>>
\* ... and exposes the report only while nothing has moved it.
Commit(t) ==
    /\ pc[t] = "committing" /\ Committable(t)
    /\ Advance("report_published", NoError) /\ reports' = reports + 1 /\ Go(t, "done")
    /\ UNCHANGED <<authChild, jobVars, task, scopeVars, analysisVars, candidate, userVars,
                   faults>>

Unpublish(t) ==
    /\ pc[t] = "unpublished"
    /\ \/ Live(t) /\ MayFail /\ FailFormal /\ Go(t, "raised")
          /\ UNCHANGED <<authChild, task>> /\ Aside
       \/ ~(Live(t) /\ MayFail) /\ Go(t, "raised") /\ Still

Fault == faults < MaxFaults /\ faults' = faults + 1
Undisturbed == UNCHANGED <<runVars, authChild, jobVars, task, scopeVars, analysisVars,
                           reportVars, fresh, userVars>>

\* Any of it may raise, a provider or a local error; it does so where the
\* guard of a step above is not met.  Before there is an execution it is the
\* database that fails, and nothing records it.
Fail(t) ==
    \/ pc[t] \in Working \ {"claimed"} /\ Go(t, "raised") /\ Still
    \/ pc[t] = "claimed" /\ Go(t, "closing") /\ Fault /\ Undisturbed
    \/ pc[t] \in Publishing /\ Go(t, "unpublished") /\ Still

----------------------------------------------------------------------------
(* The ends of the threads *)

\* Mutant: a report that fails takes the analysis with it.
FailReportAsAnalysis == Failed("retry_analysis", "marketing_analysis", FALSE)
FailReport == Failed("retry_report", "report_composing", analysis = "succeeded")

\* record_dispatch_failure, without a fence; what it raises itself, because
\* the run moved or the database failed, is swallowed.
RecordDispatchFailure(l) ==
    /\ pc[l] \in {"failed", "raised"} /\ IsDispatch(l) /\ Go(l, "closing")
    /\ \/ /\ \/ state = "report_composing" /\ FailReport
             \/ /\ state \notin Over \cup {"report_composing"}
                /\ Failed("retry_retrieval", state, FALSE)
             \/ state \in Over /\ UNCHANGED <<runVars, fresh>>
          /\ UNCHANGED <<authChild, task>> /\ Aside
       \/ Fault /\ Undisturbed

\* complete, fenced by the claim.
CloseJob(l) ==
    /\ pc[l] \in {"done", "closing"} /\ IsDispatch(l)
    /\ \/ /\ HasJob(l)
          /\ job' = IF pc[l] = "done" THEN "completed" ELSE "failed"
          /\ owner' = None /\ jobExpired' = FALSE
       \/ ~HasJob(l) /\ UNCHANGED jobVars
    /\ Release(l)
    /\ UNCHANGED <<runVars, authChild, task, scopeVars, analysisVars, reportVars, fresh,
                   userVars, faults>>

\* The heartbeat saw the lease lost: nothing terminal is written.
Suppress(l) ==
    /\ pc[l] \in {"done", "failed", "raised"} /\ IsDispatch(l) /\ ~HasJob(l)
    /\ Release(l) /\ Still

\* The end of _run_scope_continuation.  A cancelled run's unit is not owned
\* any more and its continuation left as it is.
CloseCont(l) ==
    /\ pc[l] \in {"done", "failed", "raised"} /\ IsCont(l)
    /\ cont' = IF Live(l) THEN [cont EXCEPT ![serves[l]] =
                                   IF pc[l] = "raised" THEN "failed" ELSE "completed"]
               ELSE cont
    /\ Release(l)
    /\ UNCHANGED <<runVars, authChild, jobVars, task, coverage, decision, analysisVars,
                   reportVars, fresh, userVars, faults>>

\* The end of the analysis worker's run_once.  A succeeded attempt stays so.
CloseAnalysis(t) ==
    /\ t = analyst /\ pc[t] \in {"done", "failed", "raised"}
    /\ \/ /\ pc[t] = "raised" /\ analysis = "succeeded" /\ state = "report_composing"
          /\ FailReport /\ UNCHANGED <<analysis, analysisExpired>>
       \/ pc[t] = "raised" /\ analysis = "running" /\ FailAnalysis
       \/ /\ pc[t] # "raised" \/ state \in Over \/ analysis \notin {"running", "succeeded"}
             \/ (analysis = "succeeded" /\ state # "report_composing")
          /\ UNCHANGED <<runVars, fresh, analysis, analysisExpired>>
    /\ Release(t)
    /\ UNCHANGED <<authChild, jobVars, task, scopeVars, analysisFor, reportVars, userVars,
                   faults>>

----------------------------------------------------------------------------
(* Leases and crashes *)

\* renew revives a lease that has run out, as long as nobody claimed the job.
BeatJob(l) ==
    /\ HasJob(l) /\ pc[l] \notin {"closing", "idle"} /\ jobExpired
    /\ jobExpired' = FALSE
    /\ UNCHANGED <<runVars, authChild, job, owner, task, scopeVars, analysisVars, reportVars,
                   threadVars, fresh, userVars, faults>>

\* A lease nobody renews runs out; one a living thread renews, after a stall.
LapseJob ==
    /\ job = "running" /\ ~jobExpired /\ jobExpired' = TRUE
    /\ \/ ~(\E l \in Lanes : HasJob(l)) /\ UNCHANGED faults
       \/ (\E l \in Lanes : HasJob(l)) /\ Fault
    /\ UNCHANGED <<runVars, authChild, job, owner, task, scopeVars, analysisVars, reportVars,
                   threadVars, fresh, userVars>>

LapseAnalysis ==
    /\ analysis = "running" /\ ~analysisExpired /\ analysisExpired' = TRUE
    /\ \/ pc[analyst] = "idle" /\ UNCHANGED faults
       \/ pc[analyst] # "idle" /\ Fault
    /\ UNCHANGED <<runVars, authChild, jobVars, task, scopeVars, analysis, analysisFor,
                   reportVars, threadVars, fresh, userVars>>

\* The process dies with its threads and the user's request; the next one
\* reconciles a presearch that was under way.
Crash ==
    /\ Fault /\ (req # "idle" \/ \E t \in Threads : pc[t] # "idle")
    /\ pc' = [t \in Threads |-> "idle"] /\ serves' = [t \in Threads |-> None]
    /\ owner' = None /\ req' = "idle"
    /\ \/ state = "presearch_running" /\ Failed("retry_presearch", "presearch", FALSE)
       \/ state # "presearch_running" /\ fresh' = {} /\ UNCHANGED runVars
    /\ UNCHANGED <<authChild, job, jobExpired, task, scopeVars, analysisVars, reportVars, sent>>

----------------------------------------------------------------------------
(* The user *)

Request(next) == req' = next /\ UNCHANGED sent
ByUser == UNCHANGED <<authChild, task, threadVars, faults>>
Command(event, next) ==
    /\ req = "idle" /\ Advance(event, NoError) /\ Request(next) /\ ByUser
    /\ UNCHANGED <<analysisVars, reportVars>>

\* _commit_presearch_outcome; a run cancelled meanwhile refuses it.
EndPresearch ==
    /\ req = "presearch" /\ Request("idle")
    /\ \/ state = "presearch_running" /\ Advance("presearch_completed", NoError)
       \/ state = "presearch_running" /\ Failed("retry_presearch", "presearch", FALSE)
       \/ state = "presearch_running" /\ Failed("none", "presearch", FALSE)
       \/ state # "presearch_running" /\ UNCHANGED <<runVars, fresh>>
    /\ ByUser /\ UNCHANGED <<jobVars, scopeVars, analysisVars, reportVars>>

Confirm ==
    /\ \/ Command("revise_subject", "presearch")
       \/ \E event \in {"confirm_brief", "replace_scope_draft"} : Command(event, "idle")
       \/ Plan = "retry_presearch" /\ Command("retry_presearch", "presearch")
    /\ UNCHANGED <<jobVars, scopeVars>>

\* _persist_scope_confirmation_and_dispatch
ConfirmScope ==
    /\ Command("confirm_scope", "idle")
    /\ job' = "queued" /\ UNCHANGED <<owner, jobExpired, scopeVars>>

\* resolve_coverage, with the unit and the continuation it authorizes.
Decide(r, resolution) ==
    /\ coverage[r] = "awaiting" /\ decision[r] = "none"
    /\ resolution = "expand_coverage" => r < R
    /\ Command(resolution, "idle")
    /\ decision' = [decision EXCEPT ![r] = resolution]
    /\ cont' = [cont EXCEPT ![r] = "pending"]
    /\ UNCHANGED <<jobVars, coverage>>

\* Mutant: a cancellation leaves the analysis attempt to its worker.
CancelLeavingAnalysis ==
    /\ ~candidate /\ Advance("cancel", NoError)
    /\ job' = IF job \in {"queued", "running"} THEN "failed" ELSE job
    /\ owner' = None /\ jobExpired' = FALSE
    /\ UNCHANGED <<analysisVars, scopeVars, reportVars, userVars>> /\ ByUser

\* cancel, at any moment before a publication candidate exists.
Cancel ==
    /\ ~candidate /\ Advance("cancel", NoError)
    /\ job' = IF job \in {"queued", "running"} THEN "failed" ELSE job
    /\ owner' = None /\ jobExpired' = FALSE
    /\ analysis' = IF analysis \in {"queued", "running"} THEN "cancelled" ELSE analysis
    /\ analysisExpired' = FALSE
    /\ UNCHANGED <<analysisFor, scopeVars, reportVars, userVars>> /\ ByUser

\* RetryRetrievalHandler: the lifecycle first ...
RetryRetrieval ==
    /\ req = "idle" /\ Plan = "retry_retrieval" /\ task \in Recoverable
    /\ Advance("retry_retrieval", NoError) /\ req' = "requeue" /\ sent' = TRUE
    /\ ByUser /\ UNCHANGED <<jobVars, scopeVars, analysisVars, reportVars>>
\* ... which knows the command when it comes again, whatever the run does.
Resend ==
    /\ req = "idle" /\ sent /\ Fault /\ UNCHANGED <<sent, authChild, task, threadVars>>
    /\ \/ state # "recovery_required" /\ req' = "restart"
       \/ Plan = "retry_retrieval" /\ task \in Recoverable /\ req' = "requeue"
    /\ UNCHANGED <<runVars, fresh, jobVars, scopeVars, analysisVars, reportVars>>

\* _requeue_recoverable_tasks
Requeue ==
    /\ req = "requeue" /\ Request(IF task \in Recoverable THEN "restart" ELSE "idle")
    /\ task' = IF task \in Recoverable THEN "queued" ELSE task
    /\ UNCHANGED <<runVars, authChild, jobVars, scopeVars, analysisVars, reportVars,
                   threadVars, fresh, faults>>
Reopen ==
    /\ req = "restart"
    /\ \/ Restartable /\ RestartFormal /\ authChild' = FALSE /\ Request("dispatch")
       \/ ~Restartable /\ Request("idle") /\ UNCHANGED <<runVars, authChild>>
    /\ UNCHANGED <<jobVars, task, scopeVars, analysisVars, reportVars, threadVars, fresh,
                   faults>>
\* dispatch_formal_research; retry_report enqueues without asking.
Dispatch ==
    /\ Request("idle")
    /\ \/ req = "enqueue" /\ Enqueue
       \/ req = "dispatch" /\ Authority(None) /\ Enqueue
       \/ req = "dispatch" /\ ~Authority(None) /\ UNCHANGED jobVars
    /\ ByUser /\ UNCHANGED <<runVars, fresh, scopeVars, analysisVars, reportVars>>

RetryReport ==
    /\ Plan = "retry_report" /\ Command("retry_report", "enqueue")
    /\ UNCHANGED <<jobVars, scopeVars>>

\* _retry_analysis_once: a new attempt succeeds a failed or cancelled one.
RetryAnalysis ==
    /\ req = "idle" /\ Plan = "retry_analysis" /\ analysis \in {"failed", "cancelled"}
    /\ Advance("retry_analysis", NoError)
    /\ analysis' = "queued" /\ analysisExpired' = FALSE
    /\ UNCHANGED <<analysisFor, jobVars, scopeVars, reportVars, userVars>> /\ ByUser

----------------------------------------------------------------------------
Step(t) ==
    \/ Recover(t) \/ Enter(t) \/ StartDispatch(t) \/ StartCont(t) \/ StartAnalysis(t)
    \/ StartTask(t) \/ CallProvider(t)
    \/ \E outcome \in Failures \cup {"done", "unknown"} : EndTask(t, outcome)
    \/ Judge(t) \/ \E value \in {"awaiting", "satisfied"} : Cover(t, value)
    \/ Insufficient(t) \/ Undecided(t) \/ Sufficient(t) \/ Prepare(t) \/ Reuse(t)
    \/ Succeed(t) \/ Complete(t) \/ Compose(t) \/ Load(t) \/ Commit(t) \/ Unpublish(t)
    \/ Fail(t)
Claim(t) == \/ t \in Lanes /\ (ClaimJob(t) \/ \E r \in Revisions : ClaimCont(t, r))
            \/ ClaimAnalysis(t) \/ ExpireAnalysis(t)
End(t) == \/ t \in Lanes /\ (RecordDispatchFailure(t) \/ CloseJob(t) \/ Suppress(t) \/ CloseCont(t))
          \/ CloseAnalysis(t)
Lapse == LapseJob \/ LapseAnalysis
Requested == EndPresearch \/ Requeue \/ Reopen \/ Dispatch
User == \/ Confirm \/ ConfirmScope \/ Cancel \/ RetryRetrieval \/ Resend
        \/ RetryReport \/ RetryAnalysis
        \/ \E r \in Revisions, resolution \in Decisions : Decide(r, resolution)

ResearchNext ==
    \/ \E t \in Threads : Claim(t) \/ Step(t) \/ End(t)
    \/ \E l \in Lanes : BeatJob(l)
    \/ Lapse \/ Crash \/ Requested \/ User

ResearchSpec == ResearchInit /\ [][ResearchNext]_vars

----------------------------------------------------------------------------
(* Properties *)

\* INV-CR-15: the run is ready exactly when its one report is exposed, and the
\* report rests on a succeeded analysis and on coverage nobody still owes a
\* decision.
ReportIsEarned ==
    /\ reports = IF state = "report_ready" THEN 1 ELSE 0
    /\ state = "report_ready" =>
          /\ status = "succeeded" /\ formal = "succeeded"
          /\ analysis = "succeeded" /\ task = "done"
          /\ \A r \in Revisions : coverage[r] = "awaiting" => decision[r] # "none"

\* The lifecycle's table, by every path through the run.
Lifecycle == INSTANCE ResearchLifecycle
LifecycleSpec == Lifecycle!LifecycleSpec

\* STATE-SQL-05: "A cancelled Run remains terminal; late work cannot restore it
\* or publish a report."  Neither row of the run moves again, no analysis runs.
CancelledIsFinal ==
    state = "cancelled_or_failed" =>
        /\ status = "failed" /\ formal \notin {"pending", "running", "retrying"}
        /\ analysis # "running" /\ reports = 0

\* A call a lane was making when it lost its job is neither made again nor
\* forgotten, and what is known of a finished one stays.
CallsAreNotRepeated ==
    [][/\ task = "calling" => task' \notin {"queued", "running"}
       /\ task \in {"done", "unknown"} => task' = task]_vars

\* What was analysed is kept: no retry, no late lane and no failure of the
\* report opens a succeeded attempt again or replaces it.
AnalysisIsKept == [][analysis = "succeeded" => analysis' = "succeeded"]_vars

\* A run that offers to retry its analysis has an attempt the retry succeeds,
\* whichever thread made the run fail.
RetriesHaveAnAttempt == Plan = "retry_analysis" => analysis \in {"failed", "cancelled"}

\* While no lease was lost, nobody crashed and no old command came again, the
\* user is asked for a decision only while one is owed, and nothing accepted
\* before is still to run.
DecisionsAreOpen ==
    state = "coverage_decision_required" /\ faults = 0 =>
        \E r \in Revisions : /\ coverage[r] = "awaiting" /\ decision[r] = "none"
                             /\ \A q \in Revisions : cont[q] # "pending"

----------------------------------------------------------------------------
(* What the documentation says and the code does not do *)

\* STATE-CR-04: a run in retrieval_queued waits for an execution.
Served == \/ job \in {"queued", "running"} \/ req # "idle"
          \/ \E r \in Revisions : cont[r] \in {"pending", "running"}
QueuedRunsAreServed == state = "retrieval_queued" /\ faults = 0 => Served
=============================================================================
