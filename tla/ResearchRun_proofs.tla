-------------------------- MODULE ResearchRun_proofs --------------------------
(***************************************************************************)
(* Theorems about ResearchRun, for any lanes, any number of coverage       *)
(* revisions and any number of faults.                                     *)
(***************************************************************************)
EXTENDS ResearchRun, TLAPS

USE DEF runVars, jobVars, scopeVars, analysisVars, reportVars, threadVars, userVars

----------------------------------------------------------------------------
(* The table *)

LEMMA StateNames ==
    /\ {"presearch_running", "brief_confirmation_required", "scope_confirmation_required",
        "retrieval_queued", "retrieval_running", "coverage_evaluating",
        "coverage_decision_required", "report_composing", "recovery_required"} \subseteq States
    /\ Terminal \subseteq States
<1> DEFINE Source(s) == \E event, to : <<s, event, to>> \in Forward
<1>1. ASSUME NEW s, Source(s) PROVE s \in States
  <2>1. PICK event, to : <<s, event, to>> \in Forward
    BY <1>1
  <2>2. <<s, event, to>>[1] = s
    OBVIOUS
  <2> QED
    BY <2>1, <2>2 DEF States
<1>2. /\ <<"presearch_running", "presearch_completed", "brief_confirmation_required">> \in Forward
      /\ <<"brief_confirmation_required", "revise_subject", "presearch_running">> \in Forward
      /\ <<"scope_confirmation_required", "confirm_scope", "retrieval_queued">> \in Forward
      /\ <<"retrieval_queued", "worker_claimed", "retrieval_running">> \in Forward
      /\ <<"retrieval_running", "retrieval_completed", "coverage_evaluating">> \in Forward
      /\ <<"coverage_evaluating", "coverage_satisfied", "report_composing">> \in Forward
      /\ <<"coverage_decision_required", "relax_coverage", "retrieval_queued">> \in Forward
      /\ <<"report_composing", "report_published", "report_ready">> \in Forward
      /\ <<"recovery_required", "retry_report", "report_composing">> \in Forward
  BY DEF Forward
<1>3. /\ Source("presearch_running") /\ Source("brief_confirmation_required")
      /\ Source("scope_confirmation_required") /\ Source("retrieval_queued")
      /\ Source("retrieval_running") /\ Source("coverage_evaluating")
      /\ Source("coverage_decision_required") /\ Source("report_composing")
      /\ Source("recovery_required")
  BY <1>2
<1> HIDE DEF Source
<1> QED
  BY <1>1, <1>3 DEF States

\* An edge of the table, by its event.
LEMMA Edges ==
    ASSUME NEW from, NEW event, NEW to, <<from, event, to>> \in Transitions
    PROVE  /\ from \notin Terminal
           /\ to = "report_ready" <=> event = "report_published"
           /\ to = "report_ready" => from = "report_composing"
           /\ to = "cancelled_or_failed" <=> event = "cancel"
           /\ to = "recovery_required" <=> event = "fail"
           /\ to = "report_composing" => event \in {"coverage_satisfied", "retry_report",
                                          "generate_limited_report", "retry_analysis"}
<1>1. CASE <<from, event, to>> \in Forward
  BY <1>1 DEF Forward, Terminal
<1>2. CASE <<from, event, to>> \in {<<s, "fail", "recovery_required">> : s \in States \ Terminal}
  BY <1>2 DEF Terminal
<1>3. CASE <<from, event, to>> \in {<<s, "cancel", "cancelled_or_failed">> : s \in States \ Terminal}
  BY <1>3 DEF Terminal
<1> QED
  BY <1>1, <1>2, <1>3 DEF Transitions

LEMMA Advances ==
    ASSUME NEW event, NEW why, Advance(event, why)
    PROVE  /\ <<state, event, state'>> \in Transitions
           /\ state' \in States /\ status' = StatusOf(state') /\ step' = StepOf(state')
           /\ formal' = FormalAfter(event) /\ error' = why /\ fresh' = {}
BY DEF Advance

----------------------------------------------------------------------------
(* What a step does to the run *)

Offers == [action : {"none", "retry_presearch", "retry_retrieval", "retry_analysis",
                     "retry_report"},
           stage : States \cup {"none", "presearch", "marketing_analysis"},
           preserved : BOOLEAN]

\* The lifecycle moves, without a report, and with a recovery to offer only
\* where there is something to recover.
Moved ==
    \E event, why :
        /\ Advance(event, why) /\ event # "report_published" /\ why \in Offers
        /\ why.action = "retry_analysis" => analysis' \in {"failed", "cancelled"}
        /\ why.action = "retry_report" => state = "report_composing"
        /\ event = "cancel" => analysis' \notin {"queued", "running"}
        /\ event = "coverage_satisfied" => \E t \in Threads : pc[t] = "sufficient"
        /\ event = "generate_limited_report" =>
              \E r \in Revisions : decision'[r] = "generate_limited_report"
        /\ event \in {"retry_report", "retry_analysis"} => error.action = event
Restarted == Restartable /\ RestartFormal
Waited == MayWait /\ WaitForUser
StepFailed == MayFail /\ FailFormal
StepCompleted ==
    /\ status = "running" /\ formal = "running"
    /\ formal' = "succeeded" /\ UNCHANGED <<state, status, step, error>>
Finalizing ==
    /\ status = "running" /\ formal = "succeeded"
    /\ status' = "finalizing_report" /\ UNCHANGED <<state, formal, step, error>>
Published == /\ Advance("report_published", NoError) /\ reports' = reports + 1
             /\ status = "finalizing_report" /\ analysis = "succeeded"
             /\ UNCHANGED <<analysis, task, scopeVars>>

\* Every step moves the run's rows in one of these ways; only a commit
\* exposes a report.
Moves == \/ Published
         \/ /\ UNCHANGED reports
            /\ \/ Moved \/ Restarted \/ Waited \/ StepFailed \/ StepCompleted \/ Finalizing
               \/ UNCHANGED <<state, status, step, error, formal>>

LEMMA PlainMoves ==
    ASSUME NEW event, Advance(event, NoError),
           event \notin {"report_published", "coverage_satisfied", "generate_limited_report",
                         "retry_report", "retry_analysis"},
           event = "cancel" => analysis' \notin {"queued", "running"}
    PROVE  Moved
<1>1. NoError \in Offers /\ NoError.action = "none"
  BY DEF NoError, Offers
<1> QED
  BY <1>1 DEF Moved

LEMMA ReportMoves ==
    ASSUME NEW event \in {"coverage_satisfied", "generate_limited_report", "retry_report",
                           "retry_analysis"},
           Advance(event, NoError),
           event = "coverage_satisfied" => \E t \in Threads : pc[t] = "sufficient",
           event = "generate_limited_report" =>
              \E r \in Revisions : decision'[r] = "generate_limited_report",
           event \in {"retry_report", "retry_analysis"} => error.action = event
    PROVE  Moved
<1>1. NoError \in Offers /\ NoError.action = "none"
  BY DEF NoError, Offers
<1> QED
  BY <1>1 DEF Moved

LEMMA FailureMoves ==
    ASSUME NEW action \in {"none", "retry_presearch", "retry_retrieval", "retry_analysis",
                           "retry_report"},
           NEW stage \in States \cup {"none", "presearch", "marketing_analysis"},
           NEW preserved \in BOOLEAN,
           Failed(action, stage, preserved),
           action = "retry_analysis" => analysis' \in {"failed", "cancelled"},
           action = "retry_report" => state = "report_composing"
    PROVE  Moved
<1> DEFINE why == [action |-> action, stage |-> stage, preserved |-> preserved]
<1>1. why \in Offers /\ why.action = action
  BY DEF Offers
<1>2. Advance("fail", why)
  BY DEF Failed
<1> HIDE DEF why
<1> QED
  BY <1>1, <1>2 DEF Moved

LEMMA ReportFailureMoves == ASSUME FailReport, state = "report_composing" PROVE Moved
BY FailureMoves, StateNames DEF FailReport

LEMMA AnalysisFailureMoves ==
    ASSUME FailAnalysis PROVE Moved \/ UNCHANGED <<state, status, step, error, formal>>
<1>1. CASE UNCHANGED <<runVars, fresh, analysis, analysisExpired>> /\ state \in Over
  BY <1>1
<1>2. CASE Failed("retry_analysis", "marketing_analysis", FALSE) /\ analysis' = "failed"
  BY <1>2, FailureMoves
<1> QED
  BY <1>1, <1>2 DEF FailAnalysis

LEMMA StepMoves == ASSUME ResearchTypeOK, NEW t \in Threads, Step(t) PROVE Moves
<1>1. CASE Recover(t)
  BY <1>1 DEF Recover, Aside, Go, Release, Moves
<1>2. CASE Enter(t)
  BY <1>2, PlainMoves DEF Enter, AdvanceIf, Go, Aside, Moves
<1>3. CASE StartDispatch(t)
  BY <1>3 DEF StartDispatch, Go, Still, Aside, Moves
<1>4. CASE StartCont(t)
  BY <1>4 DEF StartCont, Restart, Go, Still, Aside, Restarted, Moves
<1>5. CASE StartAnalysis(t)
  BY <1>5 DEF StartAnalysis, Restart, Go, Aside, Restarted, Moves
<1>6. CASE StartTask(t)
  BY <1>6 DEF StartTask, Go, Still, Aside, Moves
<1>7. CASE CallProvider(t)
  BY <1>7 DEF CallProvider, Task, Go, Aside, Moves
<1>8. CASE \E outcome \in Failures \cup {"done", "unknown"} : EndTask(t, outcome)
  BY <1>8 DEF EndTask, Task, Go, Aside, Moves
<1>9. CASE Judge(t)
  BY <1>9, PlainMoves DEF Judge, AdvanceIf, Go, Aside, Waited, StepFailed, Moves
<1>10. CASE \E value \in {"awaiting", "satisfied"} : Cover(t, value)
  BY <1>10 DEF Cover, Go, Moves
<1>11. CASE Insufficient(t)
  BY <1>11 DEF Insufficient, Wait, Go, Aside, Waited, Moves
<1>12. CASE Undecided(t)
  BY <1>12, PlainMoves DEF Undecided, AdvanceIf, Go, Aside, Moves
<1>13. CASE Sufficient(t)
  BY <1>13, ReportMoves DEF Sufficient, AdvanceIf, Go, Aside, Moves
<1>14. CASE Prepare(t)
  BY <1>14 DEF Prepare, Go, Moves
<1>15. CASE Reuse(t)
  BY <1>15, FailureMoves DEF Reuse, Go, Still, Aside, Wait, Waited, Moves
<1>16. CASE Succeed(t)
  BY <1>16 DEF Succeed, Go, Moves
<1>17. CASE Complete(t)
  BY <1>17 DEF Complete, Go, Still, Aside, StepCompleted, Finalizing, Moves
<1>18. CASE Compose(t)
  BY <1>18 DEF Compose, Go, Still, Aside, Moves
<1>19. CASE Load(t)
  BY <1>19 DEF Load, Go, Aside, Moves
<1>20. CASE Commit(t)
  BY <1>20 DEF Commit, Go, Published, Committable, Moves
<1>21. CASE Unpublish(t)
  BY <1>21 DEF Unpublish, Go, Still, Aside, StepFailed, Moves
<1>22. CASE Fail(t)
  BY <1>22 DEF Fail, Go, Still, Aside, Fault, Undisturbed, Moves
<1> QED
  BY <1>1, <1>2, <1>3, <1>4, <1>5, <1>6, <1>7, <1>8, <1>9, <1>10, <1>11, <1>12, <1>13,
     <1>14, <1>15, <1>16, <1>17, <1>18, <1>19, <1>20, <1>21, <1>22 DEF Step

LEMMA NextMoves == ASSUME ResearchTypeOK, ResearchNext PROVE Moves
<1>1. ASSUME NEW t \in Threads, Claim(t) PROVE Moves
  <2>1. CASE t \in Lanes /\ ClaimJob(t)
    BY <2>1 DEF ClaimJob, Go, Moves
  <2>2. CASE t \in Lanes /\ (\E r \in Revisions : ClaimCont(t, r))
    BY <2>2 DEF ClaimCont, Moves
  <2>3. CASE ClaimAnalysis(t)
    BY <2>3 DEF ClaimAnalysis, Moves
  <2>4. CASE ExpireAnalysis(t)
    BY <2>4, AnalysisFailureMoves DEF ExpireAnalysis, Moves
  <2> QED
    BY <1>1, <2>1, <2>2, <2>3, <2>4 DEF Claim
<1>2. ASSUME NEW t \in Threads, Step(t) PROVE Moves
  BY <1>2, StepMoves
<1>3. ASSUME NEW t \in Threads, End(t) PROVE Moves
  <2>1. CASE t \in Lanes /\ RecordDispatchFailure(t)
    BY <2>1, FailureMoves, ReportFailureMoves, StateNames DEF RecordDispatchFailure, Go,
       Aside, Fault, Undisturbed, ResearchTypeOK, Moves
  <2>2. CASE t \in Lanes /\ CloseJob(t)
    BY <2>2 DEF CloseJob, Release, Moves
  <2>3. CASE t \in Lanes /\ Suppress(t)
    BY <2>3 DEF Suppress, Release, Still, Aside, Moves
  <2>4. CASE t \in Lanes /\ CloseCont(t)
    BY <2>4 DEF CloseCont, Release, Moves
  <2>5. CASE CloseAnalysis(t)
    BY <2>5, AnalysisFailureMoves, ReportFailureMoves DEF CloseAnalysis, Release, Moves
  <2> QED
    BY <1>3, <2>1, <2>2, <2>3, <2>4, <2>5 DEF End
<1>4. CASE \E l \in Lanes : BeatJob(l)
  BY <1>4 DEF BeatJob, Moves
<1>5. CASE LapseJob
  BY <1>5 DEF LapseJob, Fault, Moves
<1>6. CASE LapseAnalysis
  BY <1>6 DEF LapseAnalysis, Fault, Moves
<1>7. CASE Crash
  BY <1>7, FailureMoves DEF Crash, Fault, Moves
<1>8. CASE EndPresearch
  BY <1>8, PlainMoves, FailureMoves DEF EndPresearch, Request, ByUser, Moves
<1>9. CASE Requeue
  BY <1>9 DEF Requeue, Request, Moves
<1>10. CASE Reopen
  BY <1>10 DEF Reopen, Request, Restarted, Moves
<1>11. CASE Dispatch
  BY <1>11 DEF Dispatch, Request, ByUser, Moves
<1>12. CASE Confirm
  BY <1>12, PlainMoves DEF Confirm, Command, Request, ByUser, Moves
<1>13. CASE ConfirmScope
  BY <1>13, PlainMoves DEF ConfirmScope, Command, Request, ByUser, Moves
<1>14. CASE Cancel
  BY <1>14, PlainMoves DEF Cancel, ByUser, Moves
<1>15. CASE RetryRetrieval
  BY <1>15, PlainMoves DEF RetryRetrieval, ByUser, Moves
<1>16. CASE Resend
  BY <1>16 DEF Resend, Fault, Moves
<1>17. CASE RetryReport
  BY <1>17, ReportMoves DEF RetryReport, Command, Request, ByUser, Plan, Moves
<1>18. CASE RetryAnalysis
  BY <1>18, ReportMoves DEF RetryAnalysis, ByUser, Plan, Moves
<1>19. CASE \E r \in Revisions, resolution \in Decisions : Decide(r, resolution)
  BY <1>19, PlainMoves, ReportMoves DEF Decide, Command, Request, ByUser, Decisions,
     ResearchTypeOK, Moves
<1> QED
  BY <1>1, <1>2, <1>3, <1>4, <1>5, <1>6, <1>7, <1>8, <1>9, <1>10, <1>11, <1>12, <1>13,
     <1>14, <1>15, <1>16, <1>17, <1>18, <1>19 DEF ResearchNext, Lapse, Requested, User

----------------------------------------------------------------------------
(* Types *)

RunTypeOK ==
    /\ state \in States /\ formal \in {"pending", "running", "retrying", "succeeded",
                                       "failed", "cancelled"}
    /\ status \in {"running", "waiting_user", "finalizing_report", "succeeded", "failed"}
    /\ step \in {"presearch", "brief_confirm", "scope_confirm", "formal_research",
                 "coverage", "report"}
    /\ error \in Offers /\ reports \in Nat

FlagsTypeOK == /\ authChild \in BOOLEAN /\ jobExpired \in BOOLEAN
               /\ analysisExpired \in BOOLEAN /\ candidate \in BOOLEAN /\ sent \in BOOLEAN

RowsTypeOK ==
    /\ job \in {"none", "queued", "running", "completed", "failed"}
    /\ owner \in Lanes \cup {None}
    /\ task \in Failures \cup {"queued", "running", "calling", "done", "unknown"}
    /\ coverage \in [Revisions -> {"none", "awaiting", "satisfied"}]
    /\ decision \in [Revisions -> Decisions \cup {"none"}]
    /\ cont \in [Revisions -> {"none", "pending", "running", "completed", "failed"}]
    /\ analysis \in {"none", "queued", "running", "succeeded", "failed", "cancelled"}
    /\ analysisFor \in Revisions \cup {None}
    /\ pc \in [Threads -> ThreadAt] /\ serves \in [Threads -> Revisions \cup {None}]
    /\ fresh \subseteq Threads
    /\ req \in {"idle", "presearch", "requeue", "restart", "dispatch", "enqueue"}
    /\ faults \in 0..MaxFaults

LEMMA TypeParts == ResearchTypeOK <=> RunTypeOK /\ FlagsTypeOK /\ RowsTypeOK
BY DEF ResearchTypeOK, RunTypeOK, FlagsTypeOK, RowsTypeOK, Offers

LEMMA RunTypes == ASSUME RunTypeOK, Moves PROVE RunTypeOK'
<1>1. \A to : /\ StatusOf(to) \in {"running", "waiting_user", "succeeded", "failed"}
             /\ StepOf(to) \in {"presearch", "brief_confirm", "scope_confirm", "coverage",
                               "formal_research", "report"}
  BY DEF StatusOf, StepOf, RunTypeOK
<1>2. \A event : FormalAfter(event) \in {"pending", "running", "retrying", "succeeded",
                                        "failed", "cancelled"}
  BY DEF FormalAfter, RunTypeOK
<1>3. NoError \in Offers
  BY DEF NoError, Offers
<1>4. CASE Published
  <2>1. Advance("report_published", NoError) /\ reports' = reports + 1
    BY <1>4 DEF Published
  <2>2. /\ state' \in States /\ status' = StatusOf(state') /\ step' = StepOf(state')
        /\ formal' = FormalAfter("report_published") /\ error' = NoError
    BY <2>1, Advances
  <2>3. reports' \in Nat
    BY <2>1 DEF RunTypeOK
  <2> QED
    BY <1>1, <1>2, <1>3, <2>2, <2>3 DEF RunTypeOK
<1>5. CASE UNCHANGED reports /\ Moved
  BY <1>1, <1>2, <1>5, Advances DEF Moved, RunTypeOK
<1>6. CASE UNCHANGED reports /\ ~Moved /\ ~Published
  BY <1>6 DEF Moves, Restarted, RestartFormal, Waited, WaitForUser, StepFailed, FailFormal,
              StepCompleted, Finalizing, RunTypeOK
<1> QED
  BY <1>4, <1>5, <1>6 DEF Moves

LEMMA FreshReset == \A event, why : Advance(event, why) => fresh' = {}
BY DEF Advance

LEMMA StepTypes == ASSUME RowsTypeOK, NEW t \in Threads, Step(t) PROVE RowsTypeOK'
<1>1. CASE Recover(t)
  BY <1>1 DEF Recover, Aside, Go, Release, ThreadAt, Working, Publishing, Ending,
     Recovered, RowsTypeOK
<1>2. CASE Enter(t)
  BY <1>2, FreshReset DEF Enter, AdvanceIf, Go, Aside, ThreadAt, Working, Publishing,
     Ending, RowsTypeOK
<1>3. CASE StartDispatch(t)
  BY <1>3 DEF StartDispatch, Go, Still, Aside, ThreadAt, Working, Publishing, Ending,
     RowsTypeOK
<1>4. CASE StartCont(t)
  BY <1>4 DEF StartCont, Restart, Go, Still, Aside, ThreadAt, Working, Publishing, Ending,
     RestartFormal, RowsTypeOK
<1>5. CASE StartAnalysis(t)
  BY <1>5 DEF StartAnalysis, Restart, Go, Aside, ThreadAt, Working, Publishing, Ending,
     RestartFormal, RowsTypeOK
<1>6. CASE StartTask(t)
  BY <1>6 DEF StartTask, Go, Still, Aside, ThreadAt, Working, Publishing, Ending, Failures,
     RowsTypeOK
<1>7. CASE CallProvider(t)
  BY <1>7 DEF CallProvider, Task, Go, Aside, ThreadAt, Working, Publishing, Ending,
     Failures, RowsTypeOK
<1>8. CASE \E outcome \in Failures \cup {"done", "unknown"} : EndTask(t, outcome)
  BY <1>8 DEF EndTask, Task, Go, Aside, ThreadAt, Working, Publishing, Ending, Failures,
     RowsTypeOK
<1>9. CASE Judge(t)
  BY <1>9, FreshReset DEF Judge, AdvanceIf, Go, Aside, ThreadAt, Working, Publishing,
     Ending, WaitForUser, FailFormal, RowsTypeOK
<1>10. CASE \E value \in {"awaiting", "satisfied"} : Cover(t, value)
  <2> PICK value \in {"awaiting", "satisfied"} : Cover(t, value)
    BY <1>10
  <2> DEFINE r == CoverageOf(serves[t])
             found == IF coverage[r] = "none" THEN value ELSE coverage[r]
  <2>1. coverage' = [coverage EXCEPT ![r] = found]
    BY DEF Cover
  <2>2. coverage' \in [Revisions -> {"none", "awaiting", "satisfied"}]
    BY <2>1 DEF RowsTypeOK
  <2>3. \/ Go(t, "insufficient") \/ Go(t, "sufficient")
    BY DEF Cover
  <2>4. pc' \in [Threads -> ThreadAt] /\ UNCHANGED serves
    BY <2>3 DEF Go, ThreadAt, Working, Publishing, Ending, RowsTypeOK
  <2>5. UNCHANGED <<job, owner, task, decision, cont, analysis, analysisFor, fresh, req,
     faults>>
    BY DEF Cover
  <2> QED
    BY <2>2, <2>4, <2>5 DEF RowsTypeOK
<1>11. CASE Insufficient(t)
  BY <1>11 DEF Insufficient, Wait, Go, Aside, ThreadAt, Working, Publishing, Ending,
     WaitForUser, RowsTypeOK
<1>12. CASE Undecided(t)
  BY <1>12, FreshReset DEF Undecided, AdvanceIf, Go, Aside, ThreadAt, Working, Publishing,
     Ending, RowsTypeOK
<1>13. CASE Sufficient(t)
  BY <1>13, FreshReset DEF Sufficient, AdvanceIf, Go, Aside, ThreadAt, Working, Publishing,
     Ending, RowsTypeOK
<1>14. CASE Prepare(t)
  BY <1>14 DEF Prepare, Go, ThreadAt, Working, Publishing, Ending, RowsTypeOK
<1>15. CASE Reuse(t)
  BY <1>15, FreshReset DEF Reuse, Go, Still, Aside, Wait, Failed, ThreadAt, Working,
     Publishing, Ending, WaitForUser, RowsTypeOK
<1>16. CASE Succeed(t)
  BY <1>16 DEF Succeed, Go, ThreadAt, Working, Publishing, Ending, RowsTypeOK
<1>17. CASE Complete(t)
  BY <1>17 DEF Complete, Go, Still, Aside, ThreadAt, Working, Publishing, Ending, RowsTypeOK
<1>18. CASE Compose(t)
  BY <1>18 DEF Compose, Go, Still, Aside, ThreadAt, Working, Publishing, Ending, RowsTypeOK
<1>19. CASE Load(t)
  BY <1>19 DEF Load, Go, Aside, ThreadAt, Working, Publishing, Ending, RowsTypeOK
<1>20. CASE Commit(t)
  BY <1>20, FreshReset DEF Commit, Go, ThreadAt, Working, Publishing, Ending, RowsTypeOK
<1>21. CASE Unpublish(t)
  BY <1>21 DEF Unpublish, Go, Still, Aside, ThreadAt, Working, Publishing, Ending,
     FailFormal, RowsTypeOK
<1>22. CASE Fail(t)
  BY <1>22, ResearchAssumption DEF Fail, Go, Still, Aside, Fault, Undisturbed, ThreadAt,
     Working, Publishing, Ending, RowsTypeOK
<1> QED
  BY <1>1, <1>2, <1>3, <1>4, <1>5, <1>6, <1>7, <1>8, <1>9, <1>10, <1>11, <1>12, <1>13,
     <1>14, <1>15, <1>16, <1>17, <1>18, <1>19, <1>20, <1>21, <1>22 DEF Step

LEMMA RowTypes == ASSUME RowsTypeOK, ResearchNext PROVE RowsTypeOK'
<1>1. ASSUME NEW t \in Threads, Claim(t) PROVE RowsTypeOK'
  <2>1. CASE t \in Lanes /\ ClaimJob(t)
    BY <2>1 DEF ClaimJob, Go, ThreadAt, Working, Publishing, Ending, RowsTypeOK
  <2>2. CASE t \in Lanes /\ (\E r \in Revisions : ClaimCont(t, r))
    BY <2>2 DEF ClaimCont, ThreadAt, Working, Publishing, Ending, RowsTypeOK
  <2>3. CASE ClaimAnalysis(t)
    BY <2>3 DEF ClaimAnalysis, ThreadAt, Working, Publishing, Ending, RowsTypeOK
  <2>4. CASE ExpireAnalysis(t)
    BY <2>4, FreshReset DEF ExpireAnalysis, FailAnalysis, Failed, ThreadAt, Working,
       Publishing, Ending, RowsTypeOK
  <2> QED
    BY <1>1, <2>1, <2>2, <2>3, <2>4 DEF Claim
<1>2. ASSUME NEW t \in Threads, Step(t) PROVE RowsTypeOK'
  BY <1>2, StepTypes
<1>3. ASSUME NEW t \in Threads, End(t) PROVE RowsTypeOK'
  <2>1. CASE t \in Lanes /\ RecordDispatchFailure(t)
    BY <2>1, FreshReset, ResearchAssumption DEF RecordDispatchFailure, Go, Aside,
       FailReport, Failed, Fault, Undisturbed, ThreadAt, Working, Publishing, Ending,
          RowsTypeOK
  <2>2. CASE t \in Lanes /\ CloseJob(t)
    BY <2>2 DEF CloseJob, Release, ThreadAt, Working, Publishing, Ending, RowsTypeOK
  <2>3. CASE t \in Lanes /\ Suppress(t)
    BY <2>3 DEF Suppress, Release, Still, Aside, ThreadAt, Working, Publishing, Ending,
       RowsTypeOK
  <2>4. CASE t \in Lanes /\ CloseCont(t)
    <3> PICK r : \/ cont' = [cont EXCEPT ![r] = "failed"]
                 \/ cont' = [cont EXCEPT ![r] = "completed"]
                 \/ cont' = cont
      BY <2>4, Zenon DEF CloseCont
    <3>1. cont' \in [Revisions -> {"none", "pending", "running", "completed", "failed"}]
      BY DEF RowsTypeOK
    <3>2. /\ Release(t)
          /\ UNCHANGED <<job, owner, task, coverage, decision, analysis, analysisFor, fresh,
                         req, faults>>
      BY <2>4, Zenon DEF CloseCont
    <3> QED
      BY <3>1, <3>2 DEF Release, ThreadAt, Working, Publishing, Ending, RowsTypeOK
  <2>5. CASE CloseAnalysis(t)
    BY <2>5, FreshReset DEF CloseAnalysis, Release, FailReport, FailAnalysis, Failed,
       ThreadAt, Working, Publishing, Ending, RowsTypeOK
  <2> QED
    BY <1>3, <2>1, <2>2, <2>3, <2>4, <2>5 DEF End
<1>4. CASE \E l \in Lanes : BeatJob(l)
  BY <1>4 DEF BeatJob, RowsTypeOK
<1>5. CASE LapseJob
  BY <1>5, ResearchAssumption DEF LapseJob, Fault, RowsTypeOK
<1>6. CASE LapseAnalysis
  BY <1>6, ResearchAssumption DEF LapseAnalysis, Fault, RowsTypeOK
<1>7. CASE Crash
  BY <1>7, FreshReset, ResearchAssumption DEF Crash, Fault, Failed, ThreadAt, Working,
     Publishing, Ending, RowsTypeOK
<1>8. CASE EndPresearch
  BY <1>8, FreshReset DEF EndPresearch, Request, ByUser, Failed, RowsTypeOK
<1>9. CASE Requeue
  BY <1>9 DEF Requeue, Request, Recoverable, RowsTypeOK
<1>10. CASE Reopen
  BY <1>10 DEF Reopen, Request, RestartFormal, RowsTypeOK
<1>11. CASE Dispatch
  BY <1>11 DEF Dispatch, Request, ByUser, Enqueue, RowsTypeOK
<1>12. CASE Confirm
  BY <1>12, FreshReset DEF Confirm, Command, Request, ByUser, RowsTypeOK
<1>13. CASE ConfirmScope
  BY <1>13, FreshReset DEF ConfirmScope, Command, Request, ByUser, RowsTypeOK
<1>14. CASE Cancel
  BY <1>14, FreshReset DEF Cancel, ByUser, RowsTypeOK
<1>15. CASE RetryRetrieval
  BY <1>15, FreshReset DEF RetryRetrieval, ByUser, RowsTypeOK
<1>16. CASE Resend
  BY <1>16, ResearchAssumption DEF Resend, Fault, RowsTypeOK
<1>17. CASE RetryReport
  BY <1>17, FreshReset DEF RetryReport, Command, Request, ByUser, RowsTypeOK
<1>18. CASE RetryAnalysis
  BY <1>18, FreshReset DEF RetryAnalysis, ByUser, RowsTypeOK
<1>19. CASE \E r \in Revisions, resolution \in Decisions : Decide(r, resolution)
  BY <1>19, FreshReset DEF Decide, Command, Request, ByUser, RowsTypeOK
<1> QED
  BY <1>1, <1>2, <1>3, <1>4, <1>5, <1>6, <1>7, <1>8, <1>9, <1>10, <1>11, <1>12, <1>13,
     <1>14, <1>15, <1>16, <1>17, <1>18, <1>19 DEF ResearchNext, Lapse, Requested, User

LEMMA FlagTypes == ASSUME FlagsTypeOK, ResearchNext PROVE FlagsTypeOK'
<1>1. ASSUME NEW t \in Threads, Claim(t) PROVE FlagsTypeOK'
  <2>1. CASE t \in Lanes /\ ClaimJob(t)
    BY <2>1 DEF ClaimJob, Go, FlagsTypeOK
  <2>2. CASE t \in Lanes /\ (\E r \in Revisions : ClaimCont(t, r))
    BY <2>2 DEF ClaimCont, FlagsTypeOK
  <2>3. CASE ClaimAnalysis(t)
    BY <2>3 DEF ClaimAnalysis, FlagsTypeOK
  <2>4. CASE ExpireAnalysis(t)
    BY <2>4 DEF ExpireAnalysis, FailAnalysis, Failed, FlagsTypeOK
  <2> QED
    BY <1>1, <2>1, <2>2, <2>3, <2>4 DEF Claim
<1>2. ASSUME NEW t \in Threads, Step(t) PROVE FlagsTypeOK'
  <2>1. CASE Recover(t)
    BY <2>1 DEF Recover, Aside, Go, Release, FlagsTypeOK
  <2>2. CASE Enter(t)
    BY <2>2 DEF Enter, AdvanceIf, Go, Aside, FlagsTypeOK
  <2>3. CASE StartDispatch(t)
    BY <2>3 DEF StartDispatch, Go, Still, Aside, FlagsTypeOK
  <2>4. CASE StartCont(t)
    BY <2>4 DEF StartCont, Restart, Go, Still, Aside, FlagsTypeOK
  <2>5. CASE StartAnalysis(t)
    BY <2>5 DEF StartAnalysis, Restart, Go, Aside, FlagsTypeOK
  <2>6. CASE StartTask(t)
    BY <2>6 DEF StartTask, Go, Still, Aside, FlagsTypeOK
  <2>7. CASE CallProvider(t)
    BY <2>7 DEF CallProvider, Task, Go, Aside, FlagsTypeOK
  <2>8. CASE \E outcome \in Failures \cup {"done", "unknown"} : EndTask(t, outcome)
    BY <2>8 DEF EndTask, Task, Go, Aside, FlagsTypeOK
  <2>9. CASE Judge(t)
    BY <2>9 DEF Judge, AdvanceIf, Go, Aside, FlagsTypeOK
  <2>10. CASE \E value \in {"awaiting", "satisfied"} : Cover(t, value)
    BY <2>10 DEF Cover, Go, FlagsTypeOK
  <2>11. CASE Insufficient(t)
    BY <2>11 DEF Insufficient, Wait, Go, Aside, FlagsTypeOK
  <2>12. CASE Undecided(t)
    BY <2>12 DEF Undecided, AdvanceIf, Go, Aside, FlagsTypeOK
  <2>13. CASE Sufficient(t)
    BY <2>13 DEF Sufficient, AdvanceIf, Go, Aside, FlagsTypeOK
  <2>14. CASE Prepare(t)
    BY <2>14 DEF Prepare, Go, FlagsTypeOK
  <2>15. CASE Reuse(t)
    BY <2>15 DEF Reuse, Go, Still, Aside, Wait, Failed, FlagsTypeOK
  <2>16. CASE Succeed(t)
    BY <2>16 DEF Succeed, Go, FlagsTypeOK
  <2>17. CASE Complete(t)
    BY <2>17 DEF Complete, Go, Still, Aside, FlagsTypeOK
  <2>18. CASE Compose(t)
    BY <2>18 DEF Compose, Go, Still, Aside, FlagsTypeOK
  <2>19. CASE Load(t)
    BY <2>19 DEF Load, Go, Aside, FlagsTypeOK
  <2>20. CASE Commit(t)
    BY <2>20 DEF Commit, Go, FlagsTypeOK
  <2>21. CASE Unpublish(t)
    BY <2>21 DEF Unpublish, Go, Still, Aside, FlagsTypeOK
  <2>22. CASE Fail(t)
    BY <2>22 DEF Fail, Go, Still, Aside, Fault, Undisturbed, FlagsTypeOK
  <2> QED
    BY <1>2, <2>1, <2>2, <2>3, <2>4, <2>5, <2>6, <2>7, <2>8, <2>9, <2>10, <2>11, <2>12,
       <2>13, <2>14, <2>15, <2>16, <2>17, <2>18, <2>19, <2>20, <2>21, <2>22 DEF Step
<1>3. ASSUME NEW t \in Threads, End(t) PROVE FlagsTypeOK'
  <2>1. CASE t \in Lanes /\ RecordDispatchFailure(t)
    BY <2>1 DEF RecordDispatchFailure, Go, Aside, FailReport, Failed, Fault, Undisturbed,
       FlagsTypeOK
  <2>2. CASE t \in Lanes /\ CloseJob(t)
    BY <2>2 DEF CloseJob, Release, FlagsTypeOK
  <2>3. CASE t \in Lanes /\ Suppress(t)
    BY <2>3 DEF Suppress, Release, Still, Aside, FlagsTypeOK
  <2>4. CASE t \in Lanes /\ CloseCont(t)
    BY <2>4 DEF CloseCont, Release, FlagsTypeOK
  <2>5. CASE CloseAnalysis(t)
    BY <2>5 DEF CloseAnalysis, Release, FailReport, FailAnalysis, Failed, FlagsTypeOK
  <2> QED
    BY <1>3, <2>1, <2>2, <2>3, <2>4, <2>5 DEF End
<1>4. CASE \E l \in Lanes : BeatJob(l)
  BY <1>4 DEF BeatJob, FlagsTypeOK
<1>5. CASE LapseJob
  BY <1>5 DEF LapseJob, Fault, FlagsTypeOK
<1>6. CASE LapseAnalysis
  BY <1>6 DEF LapseAnalysis, Fault, FlagsTypeOK
<1>7. CASE Crash
  BY <1>7 DEF Crash, Fault, Failed, FlagsTypeOK
<1>8. CASE EndPresearch
  BY <1>8 DEF EndPresearch, Request, ByUser, Failed, FlagsTypeOK
<1>9. CASE Requeue
  BY <1>9 DEF Requeue, Request, FlagsTypeOK
<1>10. CASE Reopen
  BY <1>10 DEF Reopen, Request, FlagsTypeOK
<1>11. CASE Dispatch
  BY <1>11 DEF Dispatch, Request, ByUser, Enqueue, FlagsTypeOK
<1>12. CASE Confirm
  BY <1>12 DEF Confirm, Command, Request, ByUser, FlagsTypeOK
<1>13. CASE ConfirmScope
  BY <1>13 DEF ConfirmScope, Command, Request, ByUser, FlagsTypeOK
<1>14. CASE Cancel
  BY <1>14 DEF Cancel, ByUser, FlagsTypeOK
<1>15. CASE RetryRetrieval
  BY <1>15 DEF RetryRetrieval, ByUser, FlagsTypeOK
<1>16. CASE Resend
  BY <1>16 DEF Resend, Fault, FlagsTypeOK
<1>17. CASE RetryReport
  BY <1>17 DEF RetryReport, Command, Request, ByUser, FlagsTypeOK
<1>18. CASE RetryAnalysis
  BY <1>18 DEF RetryAnalysis, ByUser, FlagsTypeOK
<1>19. CASE \E r \in Revisions, resolution \in Decisions : Decide(r, resolution)
  BY <1>19 DEF Decide, Command, Request, ByUser, FlagsTypeOK
<1> QED
  BY <1>1, <1>2, <1>3, <1>4, <1>5, <1>6, <1>7, <1>8, <1>9, <1>10, <1>11, <1>12, <1>13,
     <1>14, <1>15, <1>16, <1>17, <1>18, <1>19 DEF ResearchNext, Lapse, Requested, User

----------------------------------------------------------------------------
(* The analysis *)

AnalysisMoves ==
    \/ analysis' = analysis
    \/ /\ analysis = "none" /\ analysis' = "queued"
       /\ \E t \in Threads : pc[t] = "preparing"
    \/ analysis = "queued" /\ analysis' = "running" /\ state' = "report_composing"
    \/ analysis = "running" /\ analysis' = "succeeded" /\ state' = state
    \/ analysis = "running" /\ analysis' = "failed"
    \/ analysis \in {"queued", "running"} /\ analysis' = "cancelled"
    \/ analysis \in {"failed", "cancelled"} /\ analysis' = "queued" /\ error'.action = "none"

LEMMA RetriedOffer == \A event : Advance(event, NoError) => error'.action = "none"
BY DEF Advance, NoError

LEMMA AnalysisSteps ==
    ASSUME ResearchNext
    PROVE  AnalysisMoves
<1>1. ASSUME NEW t \in Threads, Claim(t) PROVE AnalysisMoves
  <2>1. CASE t \in Lanes /\ ClaimJob(t)
    BY <2>1 DEF ClaimJob, Go, AnalysisMoves
  <2>2. CASE t \in Lanes /\ (\E r \in Revisions : ClaimCont(t, r))
    BY <2>2 DEF ClaimCont, AnalysisMoves
  <2>3. CASE ClaimAnalysis(t)
    BY <2>3 DEF ClaimAnalysis, AnalysisMoves
  <2>4. CASE ExpireAnalysis(t)
    BY <2>4 DEF ExpireAnalysis, FailAnalysis, Failed, AnalysisMoves
  <2> QED
    BY <1>1, <2>1, <2>2, <2>3, <2>4 DEF Claim
<1>2. ASSUME NEW t \in Threads, Step(t) PROVE AnalysisMoves
  <2>1. CASE Recover(t)
    BY <2>1 DEF Recover, Aside, Go, Release, AnalysisMoves
  <2>2. CASE Enter(t)
    BY <2>2 DEF Enter, AdvanceIf, Go, Aside, AnalysisMoves
  <2>3. CASE StartDispatch(t)
    BY <2>3 DEF StartDispatch, Go, Still, Aside, AnalysisMoves
  <2>4. CASE StartCont(t)
    BY <2>4 DEF StartCont, Restart, Go, Still, Aside, AnalysisMoves
  <2>5. CASE StartAnalysis(t)
    BY <2>5 DEF StartAnalysis, Restart, Go, Aside, AnalysisMoves
  <2>6. CASE StartTask(t)
    BY <2>6 DEF StartTask, Go, Still, Aside, AnalysisMoves
  <2>7. CASE CallProvider(t)
    BY <2>7 DEF CallProvider, Task, Go, Aside, AnalysisMoves
  <2>8. CASE \E outcome \in Failures \cup {"done", "unknown"} : EndTask(t, outcome)
    BY <2>8 DEF EndTask, Task, Go, Aside, AnalysisMoves
  <2>9. CASE Judge(t)
    BY <2>9 DEF Judge, AdvanceIf, Go, Aside, AnalysisMoves
  <2>10. CASE \E value \in {"awaiting", "satisfied"} : Cover(t, value)
    BY <2>10 DEF Cover, Go, AnalysisMoves
  <2>11. CASE Insufficient(t)
    BY <2>11 DEF Insufficient, Wait, Go, Aside, AnalysisMoves
  <2>12. CASE Undecided(t)
    BY <2>12 DEF Undecided, AdvanceIf, Go, Aside, AnalysisMoves
  <2>13. CASE Sufficient(t)
    BY <2>13 DEF Sufficient, AdvanceIf, Go, Aside, AnalysisMoves
  <2>14. CASE Prepare(t)
    BY <2>14 DEF Prepare, Go, AnalysisMoves
  <2>15. CASE Reuse(t)
    BY <2>15 DEF Reuse, Go, Still, Aside, Wait, Failed, AnalysisMoves
  <2>16. CASE Succeed(t)
    BY <2>16 DEF Succeed, Go, AnalysisMoves
  <2>17. CASE Complete(t)
    BY <2>17 DEF Complete, Go, Still, Aside, AnalysisMoves
  <2>18. CASE Compose(t)
    BY <2>18 DEF Compose, Go, Still, Aside, AnalysisMoves
  <2>19. CASE Load(t)
    BY <2>19 DEF Load, Go, Aside, AnalysisMoves
  <2>20. CASE Commit(t)
    BY <2>20 DEF Commit, Go, AnalysisMoves
  <2>21. CASE Unpublish(t)
    BY <2>21 DEF Unpublish, Go, Still, Aside, AnalysisMoves
  <2>22. CASE Fail(t)
    BY <2>22 DEF Fail, Go, Still, Aside, Fault, Undisturbed, AnalysisMoves
  <2> QED
    BY <1>2, <2>1, <2>2, <2>3, <2>4, <2>5, <2>6, <2>7, <2>8, <2>9, <2>10, <2>11, <2>12,
       <2>13, <2>14, <2>15, <2>16, <2>17, <2>18, <2>19, <2>20, <2>21, <2>22 DEF Step
<1>3. ASSUME NEW t \in Threads, End(t) PROVE AnalysisMoves
  <2>1. CASE t \in Lanes /\ RecordDispatchFailure(t)
    BY <2>1 DEF RecordDispatchFailure, Go, Aside, FailReport, Failed, Fault, Undisturbed,
       AnalysisMoves
  <2>2. CASE t \in Lanes /\ CloseJob(t)
    BY <2>2 DEF CloseJob, Release, AnalysisMoves
  <2>3. CASE t \in Lanes /\ Suppress(t)
    BY <2>3 DEF Suppress, Release, Still, Aside, AnalysisMoves
  <2>4. CASE t \in Lanes /\ CloseCont(t)
    BY <2>4 DEF CloseCont, Release, AnalysisMoves
  <2>5. CASE CloseAnalysis(t)
    BY <2>5 DEF CloseAnalysis, Release, FailReport, FailAnalysis, Failed, AnalysisMoves
  <2> QED
    BY <1>3, <2>1, <2>2, <2>3, <2>4, <2>5 DEF End
<1>4. CASE \E l \in Lanes : BeatJob(l)
  BY <1>4 DEF BeatJob, AnalysisMoves
<1>5. CASE LapseJob
  BY <1>5 DEF LapseJob, Fault, AnalysisMoves
<1>6. CASE LapseAnalysis
  BY <1>6 DEF LapseAnalysis, Fault, AnalysisMoves
<1>7. CASE Crash
  BY <1>7 DEF Crash, Fault, Failed, AnalysisMoves
<1>8. CASE EndPresearch
  BY <1>8 DEF EndPresearch, Request, ByUser, Failed, AnalysisMoves
<1>9. CASE Requeue
  BY <1>9 DEF Requeue, Request, AnalysisMoves
<1>10. CASE Reopen
  BY <1>10 DEF Reopen, Request, AnalysisMoves
<1>11. CASE Dispatch
  BY <1>11 DEF Dispatch, Request, ByUser, AnalysisMoves
<1>12. CASE Confirm
  BY <1>12 DEF Confirm, Command, Request, ByUser, AnalysisMoves
<1>13. CASE ConfirmScope
  BY <1>13 DEF ConfirmScope, Command, Request, ByUser, AnalysisMoves
<1>14. CASE Cancel
  BY <1>14 DEF Cancel, ByUser, AnalysisMoves
<1>15. CASE RetryRetrieval
  BY <1>15 DEF RetryRetrieval, ByUser, AnalysisMoves
<1>16. CASE Resend
  BY <1>16 DEF Resend, Fault, AnalysisMoves
<1>17. CASE RetryReport
  BY <1>17 DEF RetryReport, Command, Request, ByUser, AnalysisMoves
<1>18. CASE RetryAnalysis
  BY <1>18, RetriedOffer DEF RetryAnalysis, ByUser, AnalysisMoves
<1>19. CASE \E r \in Revisions, resolution \in Decisions : Decide(r, resolution)
  BY <1>19 DEF Decide, Command, Request, ByUser, AnalysisMoves
<1> QED
  BY <1>1, <1>2, <1>3, <1>4, <1>5, <1>6, <1>7, <1>8, <1>9, <1>10, <1>11, <1>12, <1>13,
     <1>14, <1>15, <1>16, <1>17, <1>18, <1>19 DEF ResearchNext, Lapse, Requested, User

(* The rows of the run *)

RunInv ==
    /\ CancelledIsFinal
    /\ reports = IF state = "report_ready" THEN 1 ELSE 0
    /\ state = "report_ready" => /\ status = "succeeded" /\ formal = "succeeded"
                                /\ analysis = "succeeded"
    /\ status = "finalizing_report" => formal = "succeeded"
    /\ error.action = "retry_analysis" => analysis \in {"failed", "cancelled"}

LEMMA RunSteps ==
    ASSUME RunTypeOK, RunInv, Moves, AnalysisMoves
    PROVE  RunInv'
<1>1. CASE Published
  <2>1. Advance("report_published", NoError) /\ reports' = reports + 1 /\ analysis' = analysis
    BY <1>1 DEF Published
  <2>2. state = "report_composing" /\ state' = "report_ready" /\ state' # "cancelled_or_failed"
    BY <2>1, Advances, Edges
  <2>3. status' = "succeeded" /\ formal' = formal /\ formal = "succeeded"
    <3>1. status' = StatusOf("report_ready") /\ formal' = FormalAfter("report_published")
      BY <2>1, <2>2, Advances
    <3>2. formal = "succeeded"
      BY <1>1 DEF Published, RunInv
    <3> QED
      BY <3>1, <3>2 DEF StatusOf, FormalAfter
  <2>4. error'.action = "none"
    BY <2>1, RetriedOffer
  <2>5. reports = 0
    BY <2>2 DEF RunInv
  <2> QED
    BY <1>1, <2>1, <2>2, <2>3, <2>4, <2>5 DEF RunInv, CancelledIsFinal, Published
<1>2. CASE Moved /\ UNCHANGED reports
  <2>1. PICK event, why :
           /\ Advance(event, why) /\ event # "report_published" /\ why \in Offers
           /\ why.action = "retry_analysis" => analysis' \in {"failed", "cancelled"}
           /\ event = "cancel" => analysis' \notin {"queued", "running"}
    BY <1>2 DEF Moved
  <2>2. /\ state \notin Terminal /\ state' # "report_ready"
        /\ state' = "cancelled_or_failed" <=> event = "cancel"
    BY <2>1, Advances, Edges
  <2>3. status' = StatusOf(state') /\ formal' = FormalAfter(event) /\ error' = why
    BY <2>1, Advances
  <2>4. status' # "finalizing_report" /\ (event = "cancel" => status' = "failed")
    BY <2>2, <2>3 DEF StatusOf
  <2>5. event = "cancel" => formal' \notin {"pending", "running", "retrying"}
    BY <2>3 DEF FormalAfter
  <2>6. reports' = 0
    BY <1>2, <2>2 DEF RunInv, Terminal
  <2> QED
    BY <2>1, <2>2, <2>3, <2>4, <2>5, <2>6 DEF RunInv, CancelledIsFinal
<1>3. CASE /\ UNCHANGED <<reports, state, error>>
           /\ \/ Restarted \/ Waited \/ StepFailed \/ StepCompleted \/ Finalizing
              \/ UNCHANGED <<status, formal>>
  <2>1. /\ status' = "finalizing_report" => formal' = "succeeded"
        /\ state = "report_ready" => status' = status /\ formal' = formal
        /\ state = "cancelled_or_failed" => status' = status /\ formal' = formal
    BY <1>3 DEF RunInv, CancelledIsFinal, Restarted, Restartable, RestartFormal, Waited, MayWait,
                WaitForUser, StepFailed, MayFail, FailFormal, StepCompleted, Finalizing
  <2>2. /\ state = "report_ready" => analysis' = analysis
        /\ state = "cancelled_or_failed" => analysis' # "running"
    BY <1>3 DEF RunInv, CancelledIsFinal, AnalysisMoves
  <2>3. error.action = "retry_analysis" => analysis' \in {"failed", "cancelled"}
    BY <1>3 DEF RunInv, AnalysisMoves
  <2> QED
    BY <1>3, <2>1, <2>2, <2>3 DEF RunInv, CancelledIsFinal
<1> QED
  BY <1>1, <1>2, <1>3 DEF Moves, Restarted, RestartFormal, Waited, WaitForUser, StepFailed,
                          FailFormal, StepCompleted, Finalizing

(* The task and its call *)

\* Only the lane that holds the job has a task between its mark and its end.
CallsInv ==
    \A t \in Threads :
        /\ pc[t] = "idle" => serves[t] = None
        /\ pc[t] \in {"claimed", "tasking", "calling"} => IsDispatch(t)
        /\ pc[t] = "tasking" /\ owner = t => task = "running"
        /\ pc[t] = "calling" /\ owner = t => task = "calling"

LEMMA CallSteps ==
    ASSUME RowsTypeOK, CallsInv, ResearchNext
    PROVE  CallsInv'
<1>1. ASSUME NEW t \in Threads, Claim(t) PROVE CallsInv'
  <2>1. CASE t \in Lanes /\ ClaimJob(t)
    BY <2>1, ResearchAssumption DEF ClaimJob, Go, CallsInv, IsDispatch, RowsTypeOK, Threads
  <2>2. CASE t \in Lanes /\ (\E r \in Revisions : ClaimCont(t, r))
    BY <2>2, ResearchAssumption DEF ClaimCont, CallsInv, IsDispatch, RowsTypeOK, Threads
  <2>3. CASE ClaimAnalysis(t)
    BY <2>3, ResearchAssumption DEF ClaimAnalysis, CallsInv, IsDispatch, RowsTypeOK, Threads
  <2>4. CASE ExpireAnalysis(t)
    BY <2>4, ResearchAssumption DEF ExpireAnalysis, FailAnalysis, Failed, CallsInv,
       IsDispatch, RowsTypeOK, Threads
  <2> QED
    BY <1>1, <2>1, <2>2, <2>3, <2>4 DEF Claim
<1>2. ASSUME NEW t \in Threads, Step(t) PROVE CallsInv'
  <2>1. CASE Recover(t)
    BY <2>1, ResearchAssumption DEF Recover, Aside, Go, Release, Live, HasJob, IsCont,
       Recovered, CallsInv, IsDispatch, RowsTypeOK, Threads
  <2>2. CASE Enter(t)
    BY <2>2, ResearchAssumption DEF Enter, AdvanceIf, Go, Aside, CallsInv, IsDispatch,
       RowsTypeOK, Threads
  <2>3. CASE StartDispatch(t)
    BY <2>3, ResearchAssumption DEF StartDispatch, Go, Still, Aside, CallsInv, IsDispatch,
       RowsTypeOK, Threads
  <2>4. CASE StartCont(t)
    BY <2>4, ResearchAssumption DEF StartCont, Restart, Go, Still, Aside, IsCont, CallsInv,
       IsDispatch, RowsTypeOK, Threads
  <2>5. CASE StartAnalysis(t)
    BY <2>5, ResearchAssumption DEF StartAnalysis, Restart, Go, Aside, IsCont, CallsInv,
       IsDispatch, RowsTypeOK, Threads
  <2>6. CASE StartTask(t)
    BY <2>6, ResearchAssumption DEF StartTask, Go, Still, Aside, Live, HasJob, IsCont,
       Executable, CallsInv, IsDispatch, RowsTypeOK, Threads
  <2>7. CASE CallProvider(t)
    BY <2>7, ResearchAssumption DEF CallProvider, Task, Go, Aside, Live, HasJob, IsCont,
       CallsInv, IsDispatch, RowsTypeOK, Threads
  <2>8. CASE \E outcome \in Failures \cup {"done", "unknown"} : EndTask(t, outcome)
    BY <2>8, ResearchAssumption DEF EndTask, Task, Go, Aside, Live, HasJob, IsCont,
       CallsInv, IsDispatch, RowsTypeOK, Threads
  <2>9. CASE Judge(t)
    BY <2>9, ResearchAssumption DEF Judge, AdvanceIf, Go, Aside, WaitForUser, CallsInv,
       IsDispatch, RowsTypeOK, Threads
  <2>10. CASE \E value \in {"awaiting", "satisfied"} : Cover(t, value)
    BY <2>10, ResearchAssumption DEF Cover, Go, CallsInv, IsDispatch, RowsTypeOK, Threads
  <2>11. CASE Insufficient(t)
    BY <2>11, ResearchAssumption DEF Insufficient, Wait, Go, Aside, CallsInv, IsDispatch,
       RowsTypeOK, Threads
  <2>12. CASE Undecided(t)
    BY <2>12, ResearchAssumption DEF Undecided, AdvanceIf, Go, Aside, CallsInv, IsDispatch,
       RowsTypeOK, Threads
  <2>13. CASE Sufficient(t)
    BY <2>13, ResearchAssumption DEF Sufficient, AdvanceIf, Go, Aside, CallsInv,
       IsDispatch, RowsTypeOK, Threads
  <2>14. CASE Prepare(t)
    BY <2>14, ResearchAssumption DEF Prepare, Go, CallsInv, IsDispatch, RowsTypeOK, Threads
  <2>15. CASE Reuse(t)
    BY <2>15, ResearchAssumption DEF Reuse, Go, Still, Aside, Wait, Failed, CallsInv,
       IsDispatch, RowsTypeOK, Threads
  <2>16. CASE Succeed(t)
    BY <2>16, ResearchAssumption DEF Succeed, Go, CallsInv, IsDispatch, RowsTypeOK, Threads
  <2>17. CASE Complete(t)
    BY <2>17, ResearchAssumption DEF Complete, Go, Still, Aside, CallsInv, IsDispatch,
       RowsTypeOK, Threads
  <2>18. CASE Compose(t)
    BY <2>18, ResearchAssumption DEF Compose, Go, Still, Aside, CallsInv, IsDispatch,
       RowsTypeOK, Threads
  <2>19. CASE Load(t)
    BY <2>19, ResearchAssumption DEF Load, Go, Aside, CallsInv, IsDispatch, RowsTypeOK,
       Threads
  <2>20. CASE Commit(t)
    BY <2>20, ResearchAssumption DEF Commit, Go, CallsInv, IsDispatch, RowsTypeOK, Threads
  <2>21. CASE Unpublish(t)
    BY <2>21, ResearchAssumption DEF Unpublish, Go, Still, Aside, CallsInv, IsDispatch,
       RowsTypeOK, Threads
  <2>22. CASE Fail(t)
    BY <2>22, ResearchAssumption DEF Fail, Go, Still, Aside, Fault, Undisturbed, CallsInv,
       IsDispatch, RowsTypeOK, Threads
  <2> QED
    BY <1>2, <2>1, <2>2, <2>3, <2>4, <2>5, <2>6, <2>7, <2>8, <2>9, <2>10, <2>11, <2>12,
       <2>13, <2>14, <2>15, <2>16, <2>17, <2>18, <2>19, <2>20, <2>21, <2>22 DEF Step
<1>3. ASSUME NEW t \in Threads, End(t) PROVE CallsInv'
  <2>1. CASE t \in Lanes /\ RecordDispatchFailure(t)
    BY <2>1, ResearchAssumption DEF RecordDispatchFailure, Go, Aside, FailReport, Failed,
       Fault, Undisturbed, CallsInv, IsDispatch, RowsTypeOK, Threads
  <2>2. CASE t \in Lanes /\ CloseJob(t)
    BY <2>2, ResearchAssumption DEF CloseJob, Release, CallsInv, IsDispatch, RowsTypeOK,
       Threads
  <2>3. CASE t \in Lanes /\ Suppress(t)
    BY <2>3, ResearchAssumption DEF Suppress, Release, Still, Aside, CallsInv, IsDispatch,
       RowsTypeOK, Threads
  <2>4. CASE t \in Lanes /\ CloseCont(t)
    BY <2>4, ResearchAssumption DEF CloseCont, Release, CallsInv, IsDispatch, RowsTypeOK,
       Threads
  <2>5. CASE CloseAnalysis(t)
    BY <2>5, ResearchAssumption DEF CloseAnalysis, Release, FailReport, FailAnalysis,
       Failed, CallsInv, IsDispatch, RowsTypeOK, Threads
  <2> QED
    BY <1>3, <2>1, <2>2, <2>3, <2>4, <2>5 DEF End
<1>4. CASE \E l \in Lanes : BeatJob(l)
  BY <1>4, ResearchAssumption DEF BeatJob, CallsInv, IsDispatch, RowsTypeOK, Threads
<1>5. CASE LapseJob
  BY <1>5, ResearchAssumption DEF LapseJob, Fault, CallsInv, IsDispatch, RowsTypeOK, Threads
<1>6. CASE LapseAnalysis
  BY <1>6, ResearchAssumption DEF LapseAnalysis, Fault, CallsInv, IsDispatch, RowsTypeOK,
     Threads
<1>7. CASE Crash
  BY <1>7, ResearchAssumption DEF Crash, Fault, Failed, CallsInv, IsDispatch, RowsTypeOK,
     Threads
<1>8. CASE EndPresearch
  BY <1>8, ResearchAssumption DEF EndPresearch, Request, ByUser, Failed, CallsInv,
     IsDispatch, RowsTypeOK, Threads
<1>9. CASE Requeue
  BY <1>9, ResearchAssumption DEF Requeue, Request, Recoverable, CallsInv, IsDispatch,
     RowsTypeOK, Threads
<1>10. CASE Reopen
  BY <1>10, ResearchAssumption DEF Reopen, Request, CallsInv, IsDispatch, RowsTypeOK,
     Threads
<1>11. CASE Dispatch
  BY <1>11, ResearchAssumption DEF Dispatch, Request, ByUser, Enqueue, CallsInv,
     IsDispatch, RowsTypeOK, Threads
<1>12. CASE Confirm
  BY <1>12, ResearchAssumption DEF Confirm, Command, Request, ByUser, CallsInv, IsDispatch,
     RowsTypeOK, Threads
<1>13. CASE ConfirmScope
  BY <1>13, ResearchAssumption DEF ConfirmScope, Command, Request, ByUser, CallsInv,
     IsDispatch, RowsTypeOK, Threads
<1>14. CASE Cancel
  BY <1>14, ResearchAssumption DEF Cancel, ByUser, CallsInv, IsDispatch, RowsTypeOK, Threads
<1>15. CASE RetryRetrieval
  BY <1>15, ResearchAssumption DEF RetryRetrieval, ByUser, CallsInv, IsDispatch,
     RowsTypeOK, Threads
<1>16. CASE Resend
  BY <1>16, ResearchAssumption DEF Resend, Fault, CallsInv, IsDispatch, RowsTypeOK, Threads
<1>17. CASE RetryReport
  BY <1>17, ResearchAssumption DEF RetryReport, Command, Request, ByUser, CallsInv,
     IsDispatch, RowsTypeOK, Threads
<1>18. CASE RetryAnalysis
  BY <1>18, ResearchAssumption DEF RetryAnalysis, ByUser, CallsInv, IsDispatch, RowsTypeOK,
     Threads
<1>19. CASE \E r \in Revisions, resolution \in Decisions : Decide(r, resolution)
  BY <1>19, ResearchAssumption DEF Decide, Command, Request, ByUser, CallsInv, IsDispatch,
     RowsTypeOK, Threads
<1> QED
  BY <1>1, <1>2, <1>3, <1>4, <1>5, <1>6, <1>7, <1>8, <1>9, <1>10, <1>11, <1>12, <1>13,
     <1>14, <1>15, <1>16, <1>17, <1>18, <1>19 DEF ResearchNext, Lapse, Requested, User

\* A task that is calling, done or unknown is never taken or put back.
TaskMoves ==
    /\ task \in {"done", "unknown"} => task' = task
    /\ task = "calling" => task' \notin {"queued", "running"}

LEMMA TaskSteps ==
    ASSUME RowsTypeOK, CallsInv, ResearchNext
    PROVE  TaskMoves
<1>1. ASSUME NEW t \in Threads, Claim(t) PROVE TaskMoves
  <2>1. CASE t \in Lanes /\ ClaimJob(t)
    BY <2>1 DEF ClaimJob, Go, TaskMoves
  <2>2. CASE t \in Lanes /\ (\E r \in Revisions : ClaimCont(t, r))
    BY <2>2 DEF ClaimCont, TaskMoves
  <2>3. CASE ClaimAnalysis(t)
    BY <2>3 DEF ClaimAnalysis, TaskMoves
  <2>4. CASE ExpireAnalysis(t)
    BY <2>4 DEF ExpireAnalysis, FailAnalysis, Failed, TaskMoves
  <2> QED
    BY <1>1, <2>1, <2>2, <2>3, <2>4 DEF Claim
<1>2. ASSUME NEW t \in Threads, Step(t) PROVE TaskMoves
  <2>1. CASE Recover(t)
    BY <2>1 DEF Recover, Aside, Go, Release, Recovered, TaskMoves
  <2>2. CASE Enter(t)
    BY <2>2 DEF Enter, AdvanceIf, Go, Aside, TaskMoves
  <2>3. CASE StartDispatch(t)
    BY <2>3 DEF StartDispatch, Go, Still, Aside, TaskMoves
  <2>4. CASE StartCont(t)
    BY <2>4 DEF StartCont, Restart, Go, Still, Aside, TaskMoves
  <2>5. CASE StartAnalysis(t)
    BY <2>5 DEF StartAnalysis, Restart, Go, Aside, TaskMoves
  <2>6. CASE StartTask(t)
    BY <2>6 DEF StartTask, Go, Still, Aside, Executable, Failures, TaskMoves
  <2>7. CASE CallProvider(t)
    BY <2>7 DEF CallProvider, Task, Go, Aside, CallsInv, IsDispatch, Live, HasJob, IsCont,
       TaskMoves
  <2>8. CASE \E outcome \in Failures \cup {"done", "unknown"} : EndTask(t, outcome)
    <3>1. IsDispatch(t) /\ owner = t
      BY <2>8 DEF EndTask, Task, CallsInv, IsDispatch, Live, HasJob, IsCont
    <3>2. CASE pc[t] = "tasking"
      BY <3>1, <3>2 DEF CallsInv, TaskMoves
    <3>3. CASE pc[t] = "calling"
      BY <2>8, <3>1, <3>3 DEF EndTask, Task, Go, Aside, CallsInv, TaskMoves, Failures
    <3> QED
      BY <2>8, <3>2, <3>3 DEF EndTask
  <2>9. CASE Judge(t)
    BY <2>9 DEF Judge, AdvanceIf, Go, Aside, TaskMoves
  <2>10. CASE \E value \in {"awaiting", "satisfied"} : Cover(t, value)
    BY <2>10 DEF Cover, Go, TaskMoves
  <2>11. CASE Insufficient(t)
    BY <2>11 DEF Insufficient, Wait, Go, Aside, TaskMoves
  <2>12. CASE Undecided(t)
    BY <2>12 DEF Undecided, AdvanceIf, Go, Aside, TaskMoves
  <2>13. CASE Sufficient(t)
    BY <2>13 DEF Sufficient, AdvanceIf, Go, Aside, TaskMoves
  <2>14. CASE Prepare(t)
    BY <2>14 DEF Prepare, Go, TaskMoves
  <2>15. CASE Reuse(t)
    BY <2>15 DEF Reuse, Go, Still, Aside, Wait, Failed, TaskMoves
  <2>16. CASE Succeed(t)
    BY <2>16 DEF Succeed, Go, TaskMoves
  <2>17. CASE Complete(t)
    BY <2>17 DEF Complete, Go, Still, Aside, TaskMoves
  <2>18. CASE Compose(t)
    BY <2>18 DEF Compose, Go, Still, Aside, TaskMoves
  <2>19. CASE Load(t)
    BY <2>19 DEF Load, Go, Aside, TaskMoves
  <2>20. CASE Commit(t)
    BY <2>20 DEF Commit, Go, TaskMoves
  <2>21. CASE Unpublish(t)
    BY <2>21 DEF Unpublish, Go, Still, Aside, TaskMoves
  <2>22. CASE Fail(t)
    BY <2>22 DEF Fail, Go, Still, Aside, Fault, Undisturbed, TaskMoves
  <2> QED
    BY <1>2, <2>1, <2>2, <2>3, <2>4, <2>5, <2>6, <2>7, <2>8, <2>9, <2>10, <2>11, <2>12,
       <2>13, <2>14, <2>15, <2>16, <2>17, <2>18, <2>19, <2>20, <2>21, <2>22 DEF Step
<1>3. ASSUME NEW t \in Threads, End(t) PROVE TaskMoves
  <2>1. CASE t \in Lanes /\ RecordDispatchFailure(t)
    BY <2>1 DEF RecordDispatchFailure, Go, Aside, FailReport, Failed, Fault, Undisturbed,
       TaskMoves
  <2>2. CASE t \in Lanes /\ CloseJob(t)
    BY <2>2 DEF CloseJob, Release, TaskMoves
  <2>3. CASE t \in Lanes /\ Suppress(t)
    BY <2>3 DEF Suppress, Release, Still, Aside, TaskMoves
  <2>4. CASE t \in Lanes /\ CloseCont(t)
    BY <2>4 DEF CloseCont, Release, TaskMoves
  <2>5. CASE CloseAnalysis(t)
    BY <2>5 DEF CloseAnalysis, Release, FailReport, FailAnalysis, Failed, TaskMoves
  <2> QED
    BY <1>3, <2>1, <2>2, <2>3, <2>4, <2>5 DEF End
<1>4. CASE \E l \in Lanes : BeatJob(l)
  BY <1>4 DEF BeatJob, TaskMoves
<1>5. CASE LapseJob
  BY <1>5 DEF LapseJob, Fault, TaskMoves
<1>6. CASE LapseAnalysis
  BY <1>6 DEF LapseAnalysis, Fault, TaskMoves
<1>7. CASE Crash
  BY <1>7 DEF Crash, Fault, Failed, TaskMoves
<1>8. CASE EndPresearch
  BY <1>8 DEF EndPresearch, Request, ByUser, Failed, TaskMoves
<1>9. CASE Requeue
  BY <1>9 DEF Requeue, Request, Recoverable, TaskMoves
<1>10. CASE Reopen
  BY <1>10 DEF Reopen, Request, TaskMoves
<1>11. CASE Dispatch
  BY <1>11 DEF Dispatch, Request, ByUser, TaskMoves
<1>12. CASE Confirm
  BY <1>12 DEF Confirm, Command, Request, ByUser, TaskMoves
<1>13. CASE ConfirmScope
  BY <1>13 DEF ConfirmScope, Command, Request, ByUser, TaskMoves
<1>14. CASE Cancel
  BY <1>14 DEF Cancel, ByUser, TaskMoves
<1>15. CASE RetryRetrieval
  BY <1>15 DEF RetryRetrieval, ByUser, TaskMoves
<1>16. CASE Resend
  BY <1>16 DEF Resend, Fault, TaskMoves
<1>17. CASE RetryReport
  BY <1>17 DEF RetryReport, Command, Request, ByUser, TaskMoves
<1>18. CASE RetryAnalysis
  BY <1>18 DEF RetryAnalysis, ByUser, TaskMoves
<1>19. CASE \E r \in Revisions, resolution \in Decisions : Decide(r, resolution)
  BY <1>19 DEF Decide, Command, Request, ByUser, TaskMoves
<1> QED
  BY <1>1, <1>2, <1>3, <1>4, <1>5, <1>6, <1>7, <1>8, <1>9, <1>10, <1>11, <1>12, <1>13,
     <1>14, <1>15, <1>16, <1>17, <1>18, <1>19 DEF ResearchNext, Lapse, Requested, User

(* Coverage and its decisions *)

\* The revisions are a chain: each was reached by expanding every one before.
ScopeInv ==
    /\ \A q \in Revisions : coverage[q] # "none" =>
          \A p \in Revisions : p < q => decision[p] = "expand_coverage"
    /\ \A r \in Revisions : decision[r] # "none" => coverage[r] = "awaiting"
    /\ \A r \in Revisions : decision[r] = "expand_coverage" => r + 1 \in Revisions
    /\ \A r \in Revisions : cont[r] # "none" => decision[r] # "none"
    /\ \A t \in Threads : serves[t] # None => decision[serves[t]] # "none"
    /\ analysisFor # None => decision[analysisFor] # "none"

LEMMA ScopeSteps ==
    ASSUME RowsTypeOK, ScopeInv, ResearchNext
    PROVE  ScopeInv'
<1>1. ASSUME NEW t \in Threads, Claim(t) PROVE ScopeInv'
  <2>1. CASE t \in Lanes /\ ClaimJob(t)
    BY <2>1 DEF ClaimJob, Go, ScopeInv, RowsTypeOK
  <2>2. CASE t \in Lanes /\ (\E r \in Revisions : ClaimCont(t, r))
    <3> PICK r \in Revisions : ClaimCont(t, r)
      BY <2>2
    <3>1. decision[r] # "none"
      BY DEF ClaimCont, ContClaimable, ScopeInv, RowsTypeOK
    <3>2. \A q \in Revisions : q # r => cont'[q] = cont[q]
      BY DEF ClaimCont, RowsTypeOK
    <3>3. \A u \in Threads : serves'[u] \in {serves[u], r}
      BY DEF ClaimCont, RowsTypeOK
    <3>4. UNCHANGED <<coverage, decision, analysisFor>>
      BY DEF ClaimCont
    <3> QED
      BY <3>1, <3>2, <3>3, <3>4 DEF ScopeInv
  <2>3. CASE ClaimAnalysis(t)
    BY <2>3, ResearchAssumption DEF ClaimAnalysis, ScopeInv, RowsTypeOK
  <2>4. CASE ExpireAnalysis(t)
    BY <2>4 DEF ExpireAnalysis, FailAnalysis, Failed, ScopeInv, RowsTypeOK
  <2> QED
    BY <1>1, <2>1, <2>2, <2>3, <2>4 DEF Claim
<1>2. ASSUME NEW t \in Threads, Step(t) PROVE ScopeInv'
  <2>1. CASE Recover(t)
    BY <2>1 DEF Recover, Aside, Go, Release, ScopeInv, RowsTypeOK
  <2>2. CASE Enter(t)
    BY <2>2 DEF Enter, AdvanceIf, Go, Aside, ScopeInv, RowsTypeOK
  <2>3. CASE StartDispatch(t)
    BY <2>3 DEF StartDispatch, Go, Still, Aside, ScopeInv, RowsTypeOK
  <2>4. CASE StartCont(t)
    BY <2>4 DEF StartCont, Restart, Go, Still, Aside, ScopeInv, RowsTypeOK
  <2>5. CASE StartAnalysis(t)
    BY <2>5 DEF StartAnalysis, Restart, Go, Aside, ScopeInv, RowsTypeOK
  <2>6. CASE StartTask(t)
    BY <2>6 DEF StartTask, Go, Still, Aside, ScopeInv, RowsTypeOK
  <2>7. CASE CallProvider(t)
    BY <2>7 DEF CallProvider, Task, Go, Aside, ScopeInv, RowsTypeOK
  <2>8. CASE \E outcome \in Failures \cup {"done", "unknown"} : EndTask(t, outcome)
    BY <2>8 DEF EndTask, Task, Go, Aside, ScopeInv, RowsTypeOK
  <2>9. CASE Judge(t)
    BY <2>9 DEF Judge, AdvanceIf, Go, Aside, ScopeInv, RowsTypeOK
  <2>10. CASE \E value \in {"awaiting", "satisfied"} : Cover(t, value)
    <3> PICK value \in {"awaiting", "satisfied"} : Cover(t, value)
      BY <2>10
    <3> DEFINE r == CoverageOf(serves[t])
    <3>1. /\ coverage' = [coverage EXCEPT ![r] = IF coverage[r] = "none" THEN value ELSE coverage[r]]
          /\ UNCHANGED <<decision, cont, analysisFor, serves>>
      BY DEF Cover, Go
    <3>2. \A q \in Revisions : coverage[q] # "none" => coverage'[q] = coverage[q]
      BY <3>1 DEF RowsTypeOK
    <3>3. \A q \in Revisions : q # r => coverage'[q] = coverage[q]
      BY <3>1 DEF RowsTypeOK
    <3>4. ASSUME r \in Revisions, coverage[r] = "none", NEW q \in Revisions, q < r
          PROVE  decision[q] = "expand_coverage"
      <4>1. serves[t] \in Revisions
        BY <3>4 DEF CoverageOf, RowsTypeOK, Revisions, None
      <4>2. decision[serves[t]] # "none" /\ coverage[serves[t]] = "awaiting"
        BY <4>1, ResearchAssumption DEF ScopeInv, None, Revisions
      <4>3. decision[serves[t]] = "expand_coverage" /\ r = serves[t] + 1
        <5>1. serves[t] # None
          BY <4>1 DEF Revisions, None
        <5>2. r \in {serves[t], serves[t] + 1}
          BY <5>1 DEF CoverageOf
        <5>3. r = serves[t] + 1 /\ decision[serves[t]] # "generate_limited_report"
          BY <3>4, <4>2, <5>1, <5>2 DEF CoverageOf
        <5> QED
          BY <4>1, <4>2, <5>3 DEF RowsTypeOK, Decisions
      <4>4. q < serves[t] \/ q = serves[t]
        BY <3>4, <4>1, <4>3 DEF Revisions
      <4> HIDE DEF r
      <4> QED
        BY <4>1, <4>2, <4>3, <4>4 DEF ScopeInv
    <3>5. \A q \in Revisions : coverage'[q] # "none" =>
             \A p \in Revisions : p < q => decision[p] = "expand_coverage"
      <4> HIDE DEF r
      <4> QED
        BY <3>2, <3>3, <3>4 DEF ScopeInv
    <3>6. \A q \in Revisions : decision[q] # "none" => coverage'[q] = "awaiting"
      BY <3>2 DEF ScopeInv
    <3> HIDE DEF r
    <3> QED
      BY <3>1, <3>5, <3>6 DEF ScopeInv
  <2>11. CASE Insufficient(t)
    BY <2>11 DEF Insufficient, Wait, Go, Aside, ScopeInv, RowsTypeOK
  <2>12. CASE Undecided(t)
    BY <2>12 DEF Undecided, AdvanceIf, Go, Aside, ScopeInv, RowsTypeOK
  <2>13. CASE Sufficient(t)
    BY <2>13 DEF Sufficient, AdvanceIf, Go, Aside, ScopeInv, RowsTypeOK
  <2>14. CASE Prepare(t)
    BY <2>14 DEF Prepare, Go, ScopeInv, RowsTypeOK
  <2>15. CASE Reuse(t)
    BY <2>15 DEF Reuse, Go, Still, Aside, Wait, Failed, ScopeInv, RowsTypeOK
  <2>16. CASE Succeed(t)
    BY <2>16 DEF Succeed, Go, ScopeInv, RowsTypeOK
  <2>17. CASE Complete(t)
    BY <2>17 DEF Complete, Go, Still, Aside, ScopeInv, RowsTypeOK
  <2>18. CASE Compose(t)
    BY <2>18 DEF Compose, Go, Still, Aside, ScopeInv, RowsTypeOK
  <2>19. CASE Load(t)
    BY <2>19 DEF Load, Go, Aside, ScopeInv, RowsTypeOK
  <2>20. CASE Commit(t)
    BY <2>20 DEF Commit, Go, ScopeInv, RowsTypeOK
  <2>21. CASE Unpublish(t)
    BY <2>21 DEF Unpublish, Go, Still, Aside, ScopeInv, RowsTypeOK
  <2>22. CASE Fail(t)
    BY <2>22 DEF Fail, Go, Still, Aside, Fault, Undisturbed, ScopeInv, RowsTypeOK
  <2> QED
    BY <1>2, <2>1, <2>2, <2>3, <2>4, <2>5, <2>6, <2>7, <2>8, <2>9, <2>10, <2>11, <2>12,
       <2>13, <2>14, <2>15, <2>16, <2>17, <2>18, <2>19, <2>20, <2>21, <2>22 DEF Step
<1>3. ASSUME NEW t \in Threads, End(t) PROVE ScopeInv'
  <2>1. CASE t \in Lanes /\ RecordDispatchFailure(t)
    BY <2>1 DEF RecordDispatchFailure, Go, Aside, FailReport, Failed, Fault, Undisturbed,
       ScopeInv, RowsTypeOK
  <2>2. CASE t \in Lanes /\ CloseJob(t)
    BY <2>2 DEF CloseJob, Release, ScopeInv, RowsTypeOK
  <2>3. CASE t \in Lanes /\ Suppress(t)
    BY <2>3 DEF Suppress, Release, Still, Aside, ScopeInv, RowsTypeOK
  <2>4. CASE t \in Lanes /\ CloseCont(t)
    <3>1. \A q \in Revisions : cont'[q] # cont[q] => q = serves[t] /\ serves[t] # None
      <4>1. CASE cont' = cont
        BY <4>1
      <4>2. CASE \E to : cont' = [cont EXCEPT ![serves[t]] = to]
        BY <2>4, <4>2 DEF CloseCont, IsCont, RowsTypeOK
      <4> QED
        BY <2>4, <4>1, <4>2, Zenon DEF CloseCont
    <3>2. \A u \in Threads : serves'[u] \in {serves[u], None}
      BY <2>4 DEF CloseCont, Release, RowsTypeOK
    <3>3. UNCHANGED <<coverage, decision, analysisFor>>
      BY <2>4, Zenon DEF CloseCont
    <3> QED
      BY <3>1, <3>2, <3>3 DEF ScopeInv
  <2>5. CASE CloseAnalysis(t)
    BY <2>5 DEF CloseAnalysis, Release, FailReport, FailAnalysis, Failed, ScopeInv,
       RowsTypeOK
  <2> QED
    BY <1>3, <2>1, <2>2, <2>3, <2>4, <2>5 DEF End
<1>4. CASE \E l \in Lanes : BeatJob(l)
  BY <1>4 DEF BeatJob, ScopeInv, RowsTypeOK
<1>5. CASE LapseJob
  BY <1>5 DEF LapseJob, Fault, ScopeInv, RowsTypeOK
<1>6. CASE LapseAnalysis
  BY <1>6 DEF LapseAnalysis, Fault, ScopeInv, RowsTypeOK
<1>7. CASE Crash
  BY <1>7 DEF Crash, Fault, Failed, ScopeInv, RowsTypeOK
<1>8. CASE EndPresearch
  BY <1>8 DEF EndPresearch, Request, ByUser, Failed, ScopeInv, RowsTypeOK
<1>9. CASE Requeue
  BY <1>9 DEF Requeue, Request, ScopeInv, RowsTypeOK
<1>10. CASE Reopen
  BY <1>10 DEF Reopen, Request, ScopeInv, RowsTypeOK
<1>11. CASE Dispatch
  BY <1>11 DEF Dispatch, Request, ByUser, Enqueue, ScopeInv, RowsTypeOK
<1>12. CASE Confirm
  BY <1>12 DEF Confirm, Command, Request, ByUser, ScopeInv, RowsTypeOK
<1>13. CASE ConfirmScope
  BY <1>13 DEF ConfirmScope, Command, Request, ByUser, ScopeInv, RowsTypeOK
<1>14. CASE Cancel
  BY <1>14 DEF Cancel, ByUser, ScopeInv, RowsTypeOK
<1>15. CASE RetryRetrieval
  BY <1>15 DEF RetryRetrieval, ByUser, ScopeInv, RowsTypeOK
<1>16. CASE Resend
  BY <1>16 DEF Resend, Fault, ScopeInv, RowsTypeOK
<1>17. CASE RetryReport
  BY <1>17 DEF RetryReport, Command, Request, ByUser, ScopeInv, RowsTypeOK
<1>18. CASE RetryAnalysis
  BY <1>18 DEF RetryAnalysis, ByUser, ScopeInv, RowsTypeOK
<1>19. CASE \E r \in Revisions, resolution \in Decisions : Decide(r, resolution)
  <2> PICK r \in Revisions, resolution \in Decisions : Decide(r, resolution)
    BY <1>19
  <2>1. /\ coverage[r] = "awaiting" /\ decision[r] = "none" /\ resolution # "none"
        /\ resolution = "expand_coverage" => r < R
        /\ UNCHANGED <<coverage, analysisFor, serves>>
    BY DEF Decide, Command, ByUser, Decisions
  <2>2. decision'[r] = resolution /\ \A q \in Revisions : q # r => decision'[q] = decision[q]
    BY DEF Decide, RowsTypeOK
  <2>3. \A q \in Revisions : q # r => cont'[q] = cont[q]
    BY DEF Decide, RowsTypeOK
  <2>4. resolution = "expand_coverage" => r + 1 \in Revisions
    BY <2>1, ResearchAssumption DEF Revisions
  <2>5. \A t \in Threads : serves[t] # None => serves[t] \in Revisions
    BY DEF RowsTypeOK
  <2>6. analysisFor # None => analysisFor \in Revisions
    BY DEF RowsTypeOK
  <2> QED
    BY <2>1, <2>2, <2>3, <2>4, <2>5, <2>6 DEF ScopeInv
<1> QED
  BY <1>1, <1>2, <1>3, <1>4, <1>5, <1>6, <1>7, <1>8, <1>9, <1>10, <1>11, <1>12, <1>13,
     <1>14, <1>15, <1>16, <1>17, <1>18, <1>19 DEF ResearchNext, Lapse, Requested, User

(* What coverage an execution rests on *)

\* What was evaluated and what was decided stays.
ScopeKept == \A q \in Revisions : /\ coverage[q] # "none" => coverage'[q] = coverage[q]
                                  /\ decision[q] # "none" => decision'[q] = decision[q]

LEMMA ScopeStays ==
    ASSUME RowsTypeOK, ResearchNext
    PROVE  ScopeKept
<1>1. ASSUME NEW t \in Threads, Claim(t) PROVE ScopeKept
  <2>1. CASE t \in Lanes /\ ClaimJob(t)
    BY <2>1 DEF ClaimJob, Go, ScopeKept, RowsTypeOK
  <2>2. CASE t \in Lanes /\ (\E r \in Revisions : ClaimCont(t, r))
    BY <2>2 DEF ClaimCont, ScopeKept, RowsTypeOK
  <2>3. CASE ClaimAnalysis(t)
    BY <2>3 DEF ClaimAnalysis, ScopeKept, RowsTypeOK
  <2>4. CASE ExpireAnalysis(t)
    BY <2>4 DEF ExpireAnalysis, FailAnalysis, Failed, ScopeKept, RowsTypeOK
  <2> QED
    BY <1>1, <2>1, <2>2, <2>3, <2>4 DEF Claim
<1>2. ASSUME NEW t \in Threads, Step(t) PROVE ScopeKept
  <2>1. CASE Recover(t)
    BY <2>1 DEF Recover, Aside, Go, Release, ScopeKept, RowsTypeOK
  <2>2. CASE Enter(t)
    BY <2>2 DEF Enter, AdvanceIf, Go, Aside, ScopeKept, RowsTypeOK
  <2>3. CASE StartDispatch(t)
    BY <2>3 DEF StartDispatch, Go, Still, Aside, ScopeKept, RowsTypeOK
  <2>4. CASE StartCont(t)
    BY <2>4 DEF StartCont, Restart, Go, Still, Aside, ScopeKept, RowsTypeOK
  <2>5. CASE StartAnalysis(t)
    BY <2>5 DEF StartAnalysis, Restart, Go, Aside, ScopeKept, RowsTypeOK
  <2>6. CASE StartTask(t)
    BY <2>6 DEF StartTask, Go, Still, Aside, ScopeKept, RowsTypeOK
  <2>7. CASE CallProvider(t)
    BY <2>7 DEF CallProvider, Task, Go, Aside, ScopeKept, RowsTypeOK
  <2>8. CASE \E outcome \in Failures \cup {"done", "unknown"} : EndTask(t, outcome)
    BY <2>8 DEF EndTask, Task, Go, Aside, ScopeKept, RowsTypeOK
  <2>9. CASE Judge(t)
    BY <2>9 DEF Judge, AdvanceIf, Go, Aside, ScopeKept, RowsTypeOK
  <2>10. CASE \E value \in {"awaiting", "satisfied"} : Cover(t, value)
    <3> PICK value \in {"awaiting", "satisfied"} : Cover(t, value)
      BY <2>10
    <3> DEFINE r == CoverageOf(serves[t])
    <3>1. /\ coverage' = [coverage EXCEPT ![r] = IF coverage[r] = "none" THEN value ELSE coverage[r]]
          /\ UNCHANGED decision
      BY DEF Cover
    <3> HIDE DEF r
    <3> QED
      BY <3>1 DEF ScopeKept, RowsTypeOK
  <2>11. CASE Insufficient(t)
    BY <2>11 DEF Insufficient, Wait, Go, Aside, ScopeKept, RowsTypeOK
  <2>12. CASE Undecided(t)
    BY <2>12 DEF Undecided, AdvanceIf, Go, Aside, ScopeKept, RowsTypeOK
  <2>13. CASE Sufficient(t)
    BY <2>13 DEF Sufficient, AdvanceIf, Go, Aside, ScopeKept, RowsTypeOK
  <2>14. CASE Prepare(t)
    BY <2>14 DEF Prepare, Go, ScopeKept, RowsTypeOK
  <2>15. CASE Reuse(t)
    BY <2>15 DEF Reuse, Go, Still, Aside, Wait, Failed, ScopeKept, RowsTypeOK
  <2>16. CASE Succeed(t)
    BY <2>16 DEF Succeed, Go, ScopeKept, RowsTypeOK
  <2>17. CASE Complete(t)
    BY <2>17 DEF Complete, Go, Still, Aside, ScopeKept, RowsTypeOK
  <2>18. CASE Compose(t)
    BY <2>18 DEF Compose, Go, Still, Aside, ScopeKept, RowsTypeOK
  <2>19. CASE Load(t)
    BY <2>19 DEF Load, Go, Aside, ScopeKept, RowsTypeOK
  <2>20. CASE Commit(t)
    BY <2>20 DEF Commit, Go, ScopeKept, RowsTypeOK
  <2>21. CASE Unpublish(t)
    BY <2>21 DEF Unpublish, Go, Still, Aside, ScopeKept, RowsTypeOK
  <2>22. CASE Fail(t)
    BY <2>22 DEF Fail, Go, Still, Aside, Fault, Undisturbed, ScopeKept, RowsTypeOK
  <2> QED
    BY <1>2, <2>1, <2>2, <2>3, <2>4, <2>5, <2>6, <2>7, <2>8, <2>9, <2>10, <2>11, <2>12,
       <2>13, <2>14, <2>15, <2>16, <2>17, <2>18, <2>19, <2>20, <2>21, <2>22 DEF Step
<1>3. ASSUME NEW t \in Threads, End(t) PROVE ScopeKept
  <2>1. CASE t \in Lanes /\ RecordDispatchFailure(t)
    BY <2>1 DEF RecordDispatchFailure, Go, Aside, FailReport, Failed, Fault, Undisturbed,
       ScopeKept, RowsTypeOK
  <2>2. CASE t \in Lanes /\ CloseJob(t)
    BY <2>2 DEF CloseJob, Release, ScopeKept, RowsTypeOK
  <2>3. CASE t \in Lanes /\ Suppress(t)
    BY <2>3 DEF Suppress, Release, Still, Aside, ScopeKept, RowsTypeOK
  <2>4. CASE t \in Lanes /\ CloseCont(t)
    BY <2>4 DEF CloseCont, Release, ScopeKept, RowsTypeOK
  <2>5. CASE CloseAnalysis(t)
    BY <2>5 DEF CloseAnalysis, Release, FailReport, FailAnalysis, Failed, ScopeKept,
       RowsTypeOK
  <2> QED
    BY <1>3, <2>1, <2>2, <2>3, <2>4, <2>5 DEF End
<1>4. CASE \E l \in Lanes : BeatJob(l)
  BY <1>4 DEF BeatJob, ScopeKept, RowsTypeOK
<1>5. CASE LapseJob
  BY <1>5 DEF LapseJob, Fault, ScopeKept, RowsTypeOK
<1>6. CASE LapseAnalysis
  BY <1>6 DEF LapseAnalysis, Fault, ScopeKept, RowsTypeOK
<1>7. CASE Crash
  BY <1>7 DEF Crash, Fault, Failed, ScopeKept, RowsTypeOK
<1>8. CASE EndPresearch
  BY <1>8 DEF EndPresearch, Request, ByUser, Failed, ScopeKept, RowsTypeOK
<1>9. CASE Requeue
  BY <1>9 DEF Requeue, Request, ScopeKept, RowsTypeOK
<1>10. CASE Reopen
  BY <1>10 DEF Reopen, Request, ScopeKept, RowsTypeOK
<1>11. CASE Dispatch
  BY <1>11 DEF Dispatch, Request, ByUser, ScopeKept, RowsTypeOK
<1>12. CASE Confirm
  BY <1>12 DEF Confirm, Command, Request, ByUser, ScopeKept, RowsTypeOK
<1>13. CASE ConfirmScope
  BY <1>13 DEF ConfirmScope, Command, Request, ByUser, ScopeKept, RowsTypeOK
<1>14. CASE Cancel
  BY <1>14 DEF Cancel, ByUser, ScopeKept, RowsTypeOK
<1>15. CASE RetryRetrieval
  BY <1>15 DEF RetryRetrieval, ByUser, ScopeKept, RowsTypeOK
<1>16. CASE Resend
  BY <1>16 DEF Resend, Fault, ScopeKept, RowsTypeOK
<1>17. CASE RetryReport
  BY <1>17 DEF RetryReport, Command, Request, ByUser, ScopeKept, RowsTypeOK
<1>18. CASE RetryAnalysis
  BY <1>18 DEF RetryAnalysis, ByUser, ScopeKept, RowsTypeOK
<1>19. CASE \E r \in Revisions, resolution \in Decisions : Decide(r, resolution)
  BY <1>19 DEF Decide, Command, Request, ByUser, ScopeKept, RowsTypeOK
<1> QED
  BY <1>1, <1>2, <1>3, <1>4, <1>5, <1>6, <1>7, <1>8, <1>9, <1>10, <1>11, <1>12, <1>13,
     <1>14, <1>15, <1>16, <1>17, <1>18, <1>19 DEF ResearchNext, Lapse, Requested, User

\* Coverage nobody owes a decision: the last revision is satisfied, or the
\* user takes a limited report of it.
Settled == \E r \in Revisions : \/ coverage[r] = "satisfied"
                                \/ decision[r] = "generate_limited_report"

LEMMA SettledDecides ==
    ASSUME RowsTypeOK, ScopeInv, Settled, NEW q \in Revisions, coverage[q] = "awaiting"
    PROVE  decision[q] # "none"
<1>1. PICK r \in Revisions : coverage[r] = "satisfied" \/ decision[r] = "generate_limited_report"
  BY DEF Settled
<1>2. coverage[r] # "none"
  BY <1>1 DEF ScopeInv
<1>3. q < r \/ q = r \/ r < q
  BY DEF Revisions
<1>4. CASE q < r
  BY <1>2, <1>4 DEF ScopeInv
<1>5. CASE q = r
  BY <1>1, <1>5
<1>6. CASE r < q
  <2>1. decision[r] = "expand_coverage"
    BY <1>6 DEF ScopeInv
  <2> QED
    BY <1>1, <2>1 DEF ScopeInv
<1> QED
  BY <1>3, <1>4, <1>5, <1>6

LEMMA SettledStays == ASSUME ScopeKept, Settled PROVE Settled'
BY DEF ScopeKept, Settled

PlacesInv == \A t \in Threads :
    /\ pc[t] = "covering" => task = "done"
    /\ pc[t] \in {"sufficient", "preparing"} => task = "done" /\ Settled

LEMMA PlaceSteps ==
    ASSUME RowsTypeOK, ScopeInv, ScopeKept, TaskMoves, PlacesInv, ResearchNext
    PROVE  PlacesInv'
<1>1. ASSUME NEW t \in Threads, Claim(t) PROVE PlacesInv'
  <2>1. CASE t \in Lanes /\ ClaimJob(t)
    BY <2>1, TaskMoves, SettledStays DEF ClaimJob, Go, PlacesInv, RowsTypeOK
  <2>2. CASE t \in Lanes /\ (\E r \in Revisions : ClaimCont(t, r))
    BY <2>2, TaskMoves, SettledStays DEF ClaimCont, PlacesInv, RowsTypeOK
  <2>3. CASE ClaimAnalysis(t)
    BY <2>3, TaskMoves, SettledStays DEF ClaimAnalysis, PlacesInv, RowsTypeOK
  <2>4. CASE ExpireAnalysis(t)
    BY <2>4, TaskMoves, SettledStays DEF ExpireAnalysis, FailAnalysis, Failed, PlacesInv,
       RowsTypeOK
  <2> QED
    BY <1>1, <2>1, <2>2, <2>3, <2>4 DEF Claim
<1>2. ASSUME NEW t \in Threads, Step(t) PROVE PlacesInv'
  <2>1. CASE Recover(t)
    BY <2>1, TaskMoves, SettledStays DEF Recover, Aside, Go, Release, TaskMoves, PlacesInv,
       RowsTypeOK
  <2>2. CASE Enter(t)
    BY <2>2, TaskMoves, SettledStays DEF Enter, AdvanceIf, Go, Aside, PlacesInv, RowsTypeOK
  <2>3. CASE StartDispatch(t)
    BY <2>3, TaskMoves, SettledStays DEF StartDispatch, Go, Still, Aside, PlacesInv,
       RowsTypeOK
  <2>4. CASE StartCont(t)
    BY <2>4, TaskMoves, SettledStays DEF StartCont, Restart, Go, Still, Aside, PlacesInv,
       RowsTypeOK
  <2>5. CASE StartAnalysis(t)
    BY <2>5, TaskMoves, SettledStays DEF StartAnalysis, Restart, Go, Aside, PlacesInv,
       RowsTypeOK
  <2>6. CASE StartTask(t)
    BY <2>6, TaskMoves, SettledStays DEF StartTask, Go, Still, Aside, TaskMoves, PlacesInv,
       RowsTypeOK
  <2>7. CASE CallProvider(t)
    BY <2>7, TaskMoves, SettledStays DEF CallProvider, Task, Go, Aside, TaskMoves,
       PlacesInv, RowsTypeOK
  <2>8. CASE \E outcome \in Failures \cup {"done", "unknown"} : EndTask(t, outcome)
    BY <2>8, TaskMoves, SettledStays DEF EndTask, Task, Go, Aside, TaskMoves, PlacesInv,
       RowsTypeOK
  <2>9. CASE Judge(t)
    BY <2>9, TaskMoves, SettledStays DEF Judge, AdvanceIf, Go, Aside, PlacesInv, RowsTypeOK
  <2>10. CASE \E value \in {"awaiting", "satisfied"} : Cover(t, value)
    <3> PICK value \in {"awaiting", "satisfied"} : Cover(t, value)
      BY <2>10
    <3> DEFINE r == CoverageOf(serves[t])
               found == IF coverage[r] = "none" THEN value ELSE coverage[r]
    <3>1. /\ coverage' = [coverage EXCEPT ![r] = found] /\ UNCHANGED <<task, decision>>
          /\ pc[t] = "covering"
          /\ pc' = [pc EXCEPT ![t] =
                IF found = "awaiting" /\ decision[r] # "generate_limited_report"
                THEN "insufficient" ELSE "sufficient"]
      BY DEF Cover, Go
    <3>2. task' = "done"
      BY <3>1 DEF PlacesInv
    <3>3. r \in Revisions
      <4>1. CASE serves[t] = None
        BY <4>1, ResearchAssumption DEF CoverageOf, Revisions
      <4>2. CASE serves[t] # None
        BY <4>2 DEF CoverageOf, ScopeInv, RowsTypeOK, Decisions
      <4> QED
        BY <4>1, <4>2
    <3>4. found \in {"awaiting", "satisfied"}
      BY <3>3 DEF RowsTypeOK
    <3>5. pc'[t] = "sufficient" => Settled'
      <4>1. coverage'[r] = found
        BY <3>1, <3>3 DEF RowsTypeOK
      <4>2. pc'[t] = "sufficient" => found = "satisfied" \/ decision[r] = "generate_limited_report"
        BY <3>1, <3>4 DEF RowsTypeOK
      <4> HIDE DEF r, found
      <4> QED
        BY <3>1, <3>3, <4>1, <4>2 DEF Settled
    <3>6. \A u \in Threads : u # t => pc'[u] = pc[u]
      BY <3>1 DEF RowsTypeOK
    <3>7. pc'[t] \in {"insufficient", "sufficient"}
      BY <3>1 DEF RowsTypeOK
    <3> HIDE DEF r, found
    <3> QED
      BY <3>2, <3>5, <3>6, <3>7, SettledStays DEF PlacesInv
  <2>11. CASE Insufficient(t)
    BY <2>11, TaskMoves, SettledStays DEF Insufficient, Wait, Go, Aside, PlacesInv,
       RowsTypeOK
  <2>12. CASE Undecided(t)
    BY <2>12, TaskMoves, SettledStays DEF Undecided, AdvanceIf, Go, Aside, PlacesInv,
       RowsTypeOK
  <2>13. CASE Sufficient(t)
    BY <2>13, TaskMoves, SettledStays DEF Sufficient, AdvanceIf, Go, Aside, PlacesInv,
       RowsTypeOK
  <2>14. CASE Prepare(t)
    BY <2>14, TaskMoves, SettledStays DEF Prepare, Go, PlacesInv, RowsTypeOK
  <2>15. CASE Reuse(t)
    BY <2>15, TaskMoves, SettledStays DEF Reuse, Go, Still, Aside, Wait, Failed, PlacesInv,
       RowsTypeOK
  <2>16. CASE Succeed(t)
    BY <2>16, TaskMoves, SettledStays DEF Succeed, Go, PlacesInv, RowsTypeOK
  <2>17. CASE Complete(t)
    BY <2>17, TaskMoves, SettledStays DEF Complete, Go, Still, Aside, PlacesInv, RowsTypeOK
  <2>18. CASE Compose(t)
    BY <2>18, TaskMoves, SettledStays DEF Compose, Go, Still, Aside, PlacesInv, RowsTypeOK
  <2>19. CASE Load(t)
    BY <2>19, TaskMoves, SettledStays DEF Load, Go, Aside, PlacesInv, RowsTypeOK
  <2>20. CASE Commit(t)
    BY <2>20, TaskMoves, SettledStays DEF Commit, Go, PlacesInv, RowsTypeOK
  <2>21. CASE Unpublish(t)
    BY <2>21, TaskMoves, SettledStays DEF Unpublish, Go, Still, Aside, PlacesInv, RowsTypeOK
  <2>22. CASE Fail(t)
    BY <2>22, TaskMoves, SettledStays DEF Fail, Go, Still, Aside, Fault, Undisturbed,
       Working, Publishing, PlacesInv, RowsTypeOK
  <2> QED
    BY <1>2, <2>1, <2>2, <2>3, <2>4, <2>5, <2>6, <2>7, <2>8, <2>9, <2>10, <2>11, <2>12,
       <2>13, <2>14, <2>15, <2>16, <2>17, <2>18, <2>19, <2>20, <2>21, <2>22 DEF Step
<1>3. ASSUME NEW t \in Threads, End(t) PROVE PlacesInv'
  <2>1. CASE t \in Lanes /\ RecordDispatchFailure(t)
    BY <2>1, TaskMoves, SettledStays DEF RecordDispatchFailure, Go, Aside, FailReport,
       Failed, Fault, Undisturbed, PlacesInv, RowsTypeOK
  <2>2. CASE t \in Lanes /\ CloseJob(t)
    BY <2>2, TaskMoves, SettledStays DEF CloseJob, Release, PlacesInv, RowsTypeOK
  <2>3. CASE t \in Lanes /\ Suppress(t)
    BY <2>3, TaskMoves, SettledStays DEF Suppress, Release, Still, Aside, PlacesInv,
       RowsTypeOK
  <2>4. CASE t \in Lanes /\ CloseCont(t)
    BY <2>4, TaskMoves, SettledStays DEF CloseCont, Release, PlacesInv, RowsTypeOK
  <2>5. CASE CloseAnalysis(t)
    BY <2>5, TaskMoves, SettledStays DEF CloseAnalysis, Release, FailReport, FailAnalysis,
       Failed, PlacesInv, RowsTypeOK
  <2> QED
    BY <1>3, <2>1, <2>2, <2>3, <2>4, <2>5 DEF End
<1>4. CASE \E l \in Lanes : BeatJob(l)
  BY <1>4, TaskMoves, SettledStays DEF BeatJob, PlacesInv, RowsTypeOK
<1>5. CASE LapseJob
  BY <1>5, TaskMoves, SettledStays DEF LapseJob, Fault, PlacesInv, RowsTypeOK
<1>6. CASE LapseAnalysis
  BY <1>6, TaskMoves, SettledStays DEF LapseAnalysis, Fault, PlacesInv, RowsTypeOK
<1>7. CASE Crash
  BY <1>7, TaskMoves, SettledStays DEF Crash, Fault, Failed, PlacesInv, RowsTypeOK
<1>8. CASE EndPresearch
  BY <1>8, TaskMoves, SettledStays DEF EndPresearch, Request, ByUser, Failed, PlacesInv,
     RowsTypeOK
<1>9. CASE Requeue
  BY <1>9, TaskMoves, SettledStays DEF Requeue, Request, TaskMoves, PlacesInv, RowsTypeOK
<1>10. CASE Reopen
  BY <1>10, TaskMoves, SettledStays DEF Reopen, Request, PlacesInv, RowsTypeOK
<1>11. CASE Dispatch
  BY <1>11, TaskMoves, SettledStays DEF Dispatch, Request, ByUser, PlacesInv, RowsTypeOK
<1>12. CASE Confirm
  BY <1>12, TaskMoves, SettledStays DEF Confirm, Command, Request, ByUser, PlacesInv,
     RowsTypeOK
<1>13. CASE ConfirmScope
  BY <1>13, TaskMoves, SettledStays DEF ConfirmScope, Command, Request, ByUser, PlacesInv,
     RowsTypeOK
<1>14. CASE Cancel
  BY <1>14, TaskMoves, SettledStays DEF Cancel, ByUser, PlacesInv, RowsTypeOK
<1>15. CASE RetryRetrieval
  BY <1>15, TaskMoves, SettledStays DEF RetryRetrieval, ByUser, PlacesInv, RowsTypeOK
<1>16. CASE Resend
  BY <1>16, TaskMoves, SettledStays DEF Resend, Fault, PlacesInv, RowsTypeOK
<1>17. CASE RetryReport
  BY <1>17, TaskMoves, SettledStays DEF RetryReport, Command, Request, ByUser, PlacesInv,
     RowsTypeOK
<1>18. CASE RetryAnalysis
  BY <1>18, TaskMoves, SettledStays DEF RetryAnalysis, ByUser, PlacesInv, RowsTypeOK
<1>19. CASE \E r \in Revisions, resolution \in Decisions : Decide(r, resolution)
  BY <1>19, TaskMoves, SettledStays DEF Decide, Command, Request, ByUser, PlacesInv,
     RowsTypeOK
<1> QED
  BY <1>1, <1>2, <1>3, <1>4, <1>5, <1>6, <1>7, <1>8, <1>9, <1>10, <1>11, <1>12, <1>13,
     <1>14, <1>15, <1>16, <1>17, <1>18, <1>19 DEF ResearchNext, Lapse, Requested, User

ComposeInv ==
    /\ analysis # "none" => task = "done" /\ Settled
    /\ state \in {"report_composing", "report_ready"} => Settled
    /\ error.action \in {"retry_report", "retry_analysis"} => Settled

LEMMA ComposeSteps ==
    ASSUME ScopeKept, TaskMoves, PlacesInv, ComposeInv, AnalysisMoves, Moves
    PROVE  ComposeInv'
<1>1. (task = "done" => task' = "done") /\ (Settled => Settled')
  BY SettledStays DEF TaskMoves
<1>2. analysis' # "none" => task' = "done" /\ Settled'
  BY <1>1 DEF AnalysisMoves, PlacesInv, ComposeInv
<1>3. CASE Published
  <2>1. Advance("report_published", NoError)
    BY <1>3 DEF Published
  <2>2. state = "report_composing" /\ error'.action = "none"
    BY <2>1, Advances, Edges, RetriedOffer
  <2> QED
    BY <1>1, <1>2, <2>2 DEF ComposeInv
<1>4. CASE Moved
  <2>1. PICK event, why :
           /\ Advance(event, why) /\ event # "report_published"
           /\ why.action = "retry_analysis" => analysis' \in {"failed", "cancelled"}
           /\ why.action = "retry_report" => state = "report_composing"
           /\ event = "coverage_satisfied" => \E t \in Threads : pc[t] = "sufficient"
           /\ event = "generate_limited_report" =>
                 \E r \in Revisions : decision'[r] = "generate_limited_report"
           /\ event \in {"retry_report", "retry_analysis"} => error.action = event
    BY <1>4 DEF Moved
  <2>2. /\ state' # "report_ready" /\ error' = why
        /\ state' = "report_composing" => event \in {"coverage_satisfied", "retry_report",
                                          "generate_limited_report", "retry_analysis"}
    BY <2>1, Advances, Edges
  <2>3. state' = "report_composing" => Settled'
    BY <1>1, <2>1, <2>2 DEF Settled, PlacesInv, ComposeInv
  <2>4. error'.action \in {"retry_report", "retry_analysis"} => Settled'
    BY <1>1, <1>2, <2>1, <2>2 DEF ComposeInv
  <2> QED
    BY <1>2, <2>2, <2>3, <2>4 DEF ComposeInv
<1>5. CASE UNCHANGED <<state, error>>
  BY <1>1, <1>2, <1>5 DEF ComposeInv
<1> QED
  BY <1>3, <1>4, <1>5 DEF Moves, Restarted, RestartFormal, Waited, WaitForUser, StepFailed,
                          FailFormal, StepCompleted, Finalizing

----------------------------------------------------------------------------
(* The invariant *)

IInv == ResearchTypeOK /\ RunInv /\ CallsInv /\ ScopeInv /\ PlacesInv /\ ComposeInv

LEMMA InvInit == ResearchInit => IInv
<1> SUFFICES ASSUME ResearchInit PROVE IInv
  OBVIOUS
<1>1. RunTypeOK
  BY StateNames DEF ResearchInit, RunTypeOK, Offers, NoError
<1>2. FlagsTypeOK
  BY DEF ResearchInit, FlagsTypeOK
<1>3. RowsTypeOK
  BY ResearchAssumption DEF ResearchInit, RowsTypeOK, ThreadAt, None
<1>4. RunInv
  BY DEF ResearchInit, RunInv, CancelledIsFinal, NoError
<1>5. CallsInv /\ PlacesInv
  BY DEF ResearchInit, CallsInv, PlacesInv
<1>6. ScopeInv
  BY DEF ResearchInit, ScopeInv
<1>7. ComposeInv
  BY DEF ResearchInit, ComposeInv, NoError
<1> QED
  BY <1>1, <1>2, <1>3, <1>4, <1>5, <1>6, <1>7, TypeParts DEF IInv

\* What every step does under the invariant, for the action properties too.
LEMMA StepFacts ==
    ASSUME IInv, ResearchNext
    PROVE  Moves /\ AnalysisMoves /\ TaskMoves /\ ScopeKept
BY NextMoves, AnalysisSteps, TaskSteps, ScopeStays, TypeParts DEF IInv

LEMMA InvNext == IInv /\ [ResearchNext]_vars => IInv'
<1> SUFFICES ASSUME IInv, [ResearchNext]_vars PROVE IInv'
  OBVIOUS
<1>1. CASE ResearchNext
  <2>1. RunTypeOK /\ FlagsTypeOK /\ RowsTypeOK
    BY TypeParts DEF IInv
  <2>2. Moves /\ AnalysisMoves /\ TaskMoves /\ ScopeKept
    BY <1>1, StepFacts
  <2>3. RunTypeOK' /\ FlagsTypeOK' /\ RowsTypeOK'
    BY <1>1, <2>1, <2>2, RunTypes, FlagTypes, RowTypes
  <2>4. ResearchTypeOK'
    BY <2>3 DEF ResearchTypeOK, RunTypeOK, FlagsTypeOK, RowsTypeOK, Offers
  <2>5. RunInv' /\ CallsInv'
    BY <1>1, <2>1, <2>2, RunSteps, CallSteps DEF IInv
  <2>6. ScopeInv' /\ PlacesInv'
    BY <1>1, <2>1, <2>2, ScopeSteps, PlaceSteps DEF IInv
  <2>7. ComposeInv'
    BY <2>2, ComposeSteps DEF IInv
  <2> QED
    BY <2>4, <2>5, <2>6, <2>7 DEF IInv
<1>2. CASE UNCHANGED vars
  BY <1>2 DEF vars, IInv, ResearchTypeOK, RunInv, CancelledIsFinal, CallsInv, IsDispatch, ScopeInv,
              PlacesInv, ComposeInv, Settled
<1> QED
  BY <1>1, <1>2

\* The invariant of the run: its rows, the holder of its task, the chain of its
\* coverage revisions, and what every execution and every offer rests on.
THEOREM InductiveInvariant == ResearchSpec => []IInv
BY InvInit, InvNext, PTL DEF ResearchSpec

\* Every row keeps to its values, and every thread is where the code can be.
THEOREM TypesHold == ResearchSpec => []ResearchTypeOK
<1>1. IInv => ResearchTypeOK
  BY DEF IInv
<1> QED
  BY <1>1, InductiveInvariant, PTL

\* INV-CR-15: a ready run has one report, which rests on a succeeded analysis,
\* a finished task and coverage nobody owes a decision, whatever lanes and
\* retries were late.
THEOREM ReportsAreEarned == ResearchSpec => []ReportIsEarned
<1>1. ASSUME IInv PROVE ReportIsEarned
  <2>1. reports = IF state = "report_ready" THEN 1 ELSE 0
    BY <1>1 DEF IInv, RunInv
  <2>2. ASSUME state = "report_ready"
        PROVE  /\ status = "succeeded" /\ formal = "succeeded"
               /\ analysis = "succeeded" /\ task = "done" /\ Settled
    BY <1>1, <2>2 DEF IInv, RunInv, ComposeInv
  <2>3. ASSUME state = "report_ready", NEW r \in Revisions, coverage[r] = "awaiting"
        PROVE  decision[r] # "none"
    BY <1>1, <2>2, <2>3, SettledDecides, TypeParts DEF IInv
  <2> QED
    BY <2>1, <2>2, <2>3 DEF ReportIsEarned
<1> QED
  BY <1>1, InductiveInvariant, PTL

\* STATE-SQL-05: once a run is cancelled nothing restarts it, analyses for it
\* or publishes it.
THEOREM CancellationIsFinal == ResearchSpec => []CancelledIsFinal
<1>1. IInv => CancelledIsFinal
  BY DEF IInv, RunInv
<1> QED
  BY <1>1, InductiveInvariant, PTL

\* A run that offers to retry its analysis can.
THEOREM RetriesAreServed == ResearchSpec => []RetriesHaveAnAttempt
<1>1. IInv => RetriesHaveAnAttempt
  BY DEF IInv, RunInv, RetriesHaveAnAttempt, Plan
<1> QED
  BY <1>1, InductiveInvariant, PTL

\* A provider call that was interrupted is neither repeated nor forgotten.
THEOREM CallsAreMadeOnce == ResearchSpec => CallsAreNotRepeated
<1>1. IInv /\ [ResearchNext]_vars =>
         [/\ task = "calling" => task' \notin {"queued", "running"}
          /\ task \in {"done", "unknown"} => task' = task]_vars
  BY StepFacts DEF TaskMoves
<1> QED
  BY <1>1, InductiveInvariant, PTL DEF ResearchSpec, CallsAreNotRepeated

\* A succeeded analysis is never opened again.
THEOREM AnalysesAreKept == ResearchSpec => AnalysisIsKept
<1>1. IInv /\ [ResearchNext]_vars => [analysis = "succeeded" => analysis' = "succeeded"]_vars
  BY StepFacts DEF AnalysisMoves
<1> QED
  BY <1>1, InductiveInvariant, PTL DEF ResearchSpec, AnalysisIsKept

\* The run implements its lifecycle: its state follows the table and a report
\* is exposed by the step that makes it ready.
THEOREM Refinement == ResearchSpec => LifecycleSpec
<1>1. ResearchInit => Lifecycle!LifecycleInit
  BY DEF ResearchInit, Lifecycle!LifecycleInit
<1>2. ASSUME IInv, [ResearchNext]_vars
      PROVE  [Lifecycle!LifecycleNext]_<<state, reports>>
  <2>1. ASSUME NEW event, NEW why, Advance(event, why),
               reports' = IF event = "report_published" THEN reports + 1 ELSE reports
        PROVE  Lifecycle!LifecycleNext
    <3>1. state' \in States /\ <<state, event, state'>> \in Transitions
      BY <2>1, Advances
    <3>2. Lifecycle!Advance(event)
      BY <2>1, <3>1 DEF Lifecycle!Advance, Lifecycle!States, Lifecycle!Transitions,
         Lifecycle!Forward, Lifecycle!Terminal, States, Transitions, Forward, Terminal
    <3>3. <<state, event, state'>>[2] = event
      OBVIOUS
    <3> QED
      BY <3>1, <3>2, <3>3 DEF Lifecycle!LifecycleNext, Lifecycle!Transitions,
         Lifecycle!Forward, Lifecycle!Terminal, Lifecycle!States, Transitions, Forward, Terminal, States
  <2>2. CASE ResearchNext
    <3>1. CASE Published
      BY <2>1, <3>1 DEF Published
    <3>2. CASE Moved /\ UNCHANGED reports
      BY <2>1, <3>2 DEF Moved
    <3>3. CASE UNCHANGED <<state, reports>>
      BY <3>3
    <3> QED
      BY <1>2, <2>2, <3>1, <3>2, <3>3, StepFacts DEF Moves, Restarted, RestartFormal, Waited,
         WaitForUser, StepFailed, FailFormal, StepCompleted, Finalizing
  <2>3. CASE UNCHANGED vars
    BY <2>3 DEF vars
  <2> QED
    BY <1>2, <2>2, <2>3
<1> QED
  BY <1>1, <1>2, InductiveInvariant, PTL DEF ResearchSpec, LifecycleSpec, Lifecycle!LifecycleSpec

----------------------------------------------------------------------------
(* Whose turn it is *)

\* Before the scope is confirmed nothing has been started.
Early ==
    \/ state \in {"presearch_running", "brief_confirmation_required",
                  "scope_confirmation_required"}
    \/ state = "recovery_required" /\ error.action = "retry_presearch"
\* The retrieval can be retried where it stopped.
Recovering ==
    /\ state = "recovery_required" /\ error.action = "retry_retrieval"
    /\ error.stage \in {"retrieval_queued", "retrieval_running"}
Gathering ==
    \/ state \in {"retrieval_queued", "retrieval_running", "coverage_evaluating",
                  "coverage_decision_required"}
    \/ Recovering

Entering   == {"claimed", "entering"}
Retrieving == {"starting", "collecting", "tasking", "calling", "collected"}
Evaluating == {"covering", "insufficient", "undecided", "sufficient"}

\* The thread may still move the run.
Acting(l) == /\ pc[l] \notin {"idle", "done", "closing"}
             /\ IsCont(l) => pc[l] \notin {"failed", "raised"}
Pending(r) == cont[r] = "pending"

\* Neither the job nor a decision is there yet.
Unstarted ==
    /\ \A t \in Threads : pc[t] = "idle"
    /\ job = "none" /\ ~jobExpired
    /\ \A r \in Revisions : cont[r] = "none" /\ decision[r] = "none"
    /\ req \in {"idle", "presearch"}

\* Whoever is at work holds what it works for, and nobody else does.
Holds ==
    /\ pc[analyst] = "idle" /\ ~jobExpired
    /\ \A l \in Lanes : pc[l] \in {"idle"} \cup Entering \cup Retrieving \cup Evaluating \cup Ending
    /\ \A l \in Lanes : IsDispatch(l) /\ pc[l] # "idle" => owner = l /\ job = "running"
    /\ job = "running" => owner \in Lanes /\ IsDispatch(owner) /\ pc[owner] # "idle"
    /\ \A r \in Revisions : cont[r] = "running" => \E l \in Lanes : serves[l] = r
    /\ \A l \in Lanes : serves[l] # None => cont[serves[l]] = "running" /\ pc[l] # "idle"
    /\ \A l, m \in Lanes : serves[l] # None /\ serves[l] = serves[m] => l = m

\* There is one turn: an acting thread's, the job's, an accepted decision's or
\* a retry's.
OneTurn ==
    /\ \A l, m \in Lanes : Acting(l) /\ Acting(m) => l = m
    /\ \A l \in Lanes : Acting(l) =>
          job # "queued" /\ req = "idle" /\ \A r \in Revisions : ~Pending(r)
    /\ job = "queued" => req = "idle" /\ \A r \in Revisions : ~Pending(r)
    /\ \A r \in Revisions : Pending(r) => req = "idle"
    /\ \A q, r \in Revisions : Pending(q) /\ Pending(r) => q = r
    /\ req \in {"idle", "requeue", "restart", "dispatch"}

\* The state of the run is where the one whose turn it is stands.
InStep ==
    /\ job = "queued" \/ req # "idle" \/ (\E r \in Revisions : Pending(r))
          => state = "retrieval_queued"
    /\ \A l \in Lanes : Acting(l) =>
          /\ pc[l] \in Entering => state = "retrieval_queued"
          /\ pc[l] \in Retrieving => state = "retrieval_running"
          /\ pc[l] \in Evaluating => state = "coverage_evaluating"
          /\ state \in {"retrieval_queued", "retrieval_running", "coverage_evaluating"}

\* The turn belongs to the latest decision, and the decision asked for next is
\* one nobody has taken.
Decided ==
    /\ \A r \in Revisions : decision[r] # "generate_limited_report"
    /\ \A r \in Revisions : Pending(r) \/ (\E l \in Lanes : Acting(l) /\ serves[l] = r) =>
          decision[r] = "expand_coverage" /\ \A q \in Revisions : q > r => decision[q] = "none"
    /\ job = "queued" \/ req # "idle" \/ Recovering
          \/ (\E l \in Lanes : Acting(l) /\ serves[l] = None) => decision[1] = "none"
    /\ \A l \in Lanes : pc[l] \in {"insufficient", "undecided"} =>
          coverage[CoverageOf(serves[l])] = "awaiting"
    /\ state = "coverage_decision_required" =>
          \E r \in Revisions : coverage[r] = "awaiting" /\ decision[r] = "none"


\* Where each event leads, and from where.
LEMMA Ways ==
    ASSUME NEW event, NEW why, Advance(event, why)
    PROVE  /\ error' = why /\ state \notin Terminal
           /\ event = "fail" => state' = "recovery_required"
           /\ event = "cancel" => state' = "cancelled_or_failed"
           /\ event = "presearch_completed" => state' = "brief_confirmation_required"
           /\ event = "revise_subject" =>
                 state = "brief_confirmation_required" /\ state' = "presearch_running"
           /\ event = "confirm_brief" =>
                 state = "brief_confirmation_required" /\ state' = "scope_confirmation_required"
           /\ event = "replace_scope_draft" =>
                 state = "scope_confirmation_required" /\ state' = state
           /\ event = "confirm_scope" =>
                 state = "scope_confirmation_required" /\ state' = "retrieval_queued"
           /\ event = "worker_claimed" =>
                 state = "retrieval_queued" /\ state' = "retrieval_running"
           /\ event = "retrieval_completed" =>
                 state = "retrieval_running" /\ state' = "coverage_evaluating"
           /\ event \in {"coverage_satisfied", "generate_limited_report", "retry_report",
                         "retry_analysis"} => state' = "report_composing"
           /\ event = "coverage_insufficient" =>
                 state = "coverage_evaluating" /\ state' = "coverage_decision_required"
           /\ event = "expand_coverage" =>
                 state = "coverage_decision_required" /\ state' = "retrieval_queued"
           /\ event = "generate_limited_report" => state = "coverage_decision_required"
           /\ event = "retry_presearch" =>
                 state = "recovery_required" /\ state' = "presearch_running"
           /\ event = "retry_retrieval" =>
                 state = "recovery_required" /\ state' = "retrieval_queued"
           /\ event \in {"retry_report", "retry_analysis"} => state = "recovery_required"
           /\ event = "report_published" => state' = "report_ready"
<1>1. <<state, event, state'>> \in Transitions /\ error' = why
  BY Advances
<1>2. CASE <<state, event, state'>> \in Forward
  BY <1>1, <1>2 DEF Forward, Terminal
<1>3. CASE <<state, event, state'>> \in {<<s, "fail", "recovery_required">> : s \in States \ Terminal}
  BY <1>1, <1>3 DEF Terminal
<1>4. CASE <<state, event, state'>> \in {<<s, "cancel", "cancelled_or_failed">> : s \in States \ Terminal}
  BY <1>1, <1>4 DEF Terminal
<1> QED
  BY <1>1, <1>2, <1>3, <1>4 DEF Transitions

\* Faults are only counted up.
LEMMA FaultSteps == ASSUME RowsTypeOK, ResearchNext PROVE faults' \in {faults, faults + 1}
<1>1. ASSUME NEW t \in Threads, Claim(t) PROVE faults' \in {faults, faults + 1}
  <2>1. CASE t \in Lanes /\ ClaimJob(t)
    BY <2>1 DEF ClaimJob, Go
  <2>2. CASE t \in Lanes /\ (\E r \in Revisions : ClaimCont(t, r))
    BY <2>2 DEF ClaimCont
  <2>3. CASE ClaimAnalysis(t)
    BY <2>3 DEF ClaimAnalysis
  <2>4. CASE ExpireAnalysis(t)
    BY <2>4 DEF ExpireAnalysis, FailAnalysis, Failed
  <2> QED
    BY <1>1, <2>1, <2>2, <2>3, <2>4 DEF Claim
<1>2. ASSUME NEW t \in Threads, Step(t) PROVE faults' \in {faults, faults + 1}
  <2>1. CASE Recover(t)
    BY <2>1 DEF Recover, Aside, Go, Release
  <2>2. CASE Enter(t)
    BY <2>2 DEF Enter, AdvanceIf, Go, Aside
  <2>3. CASE StartDispatch(t)
    BY <2>3 DEF StartDispatch, Go, Still, Aside
  <2>4. CASE StartCont(t)
    BY <2>4 DEF StartCont, Restart, RestartFormal, Go, Still, Aside
  <2>5. CASE StartAnalysis(t)
    BY <2>5 DEF StartAnalysis, Restart, RestartFormal, Go, Aside
  <2>6. CASE StartTask(t)
    BY <2>6 DEF StartTask, Go, Still, Aside
  <2>7. CASE CallProvider(t)
    BY <2>7 DEF CallProvider, Task, Go, Aside
  <2>8. CASE \E outcome \in Failures \cup {"done", "unknown"} : EndTask(t, outcome)
    BY <2>8 DEF EndTask, Task, Go, Aside
  <2>9. CASE Judge(t)
    BY <2>9 DEF Judge, AdvanceIf, WaitForUser, FailFormal, Go, Aside
  <2>10. CASE \E value \in {"awaiting", "satisfied"} : Cover(t, value)
    BY <2>10 DEF Cover, Go
  <2>11. CASE Insufficient(t)
    BY <2>11 DEF Insufficient, Wait, WaitForUser, Go, Aside
  <2>12. CASE Undecided(t)
    BY <2>12 DEF Undecided, AdvanceIf, Go, Aside
  <2>13. CASE Sufficient(t)
    BY <2>13 DEF Sufficient, AdvanceIf, Go, Aside
  <2>14. CASE Prepare(t)
    BY <2>14 DEF Prepare, Go
  <2>15. CASE Reuse(t)
    BY <2>15 DEF Reuse, Go, Still, Aside, Wait, WaitForUser, Failed
  <2>16. CASE Succeed(t)
    BY <2>16 DEF Succeed, Go
  <2>17. CASE Complete(t)
    BY <2>17 DEF Complete, Go, Still, Aside
  <2>18. CASE Compose(t)
    BY <2>18 DEF Compose, Go, Still, Aside
  <2>19. CASE Load(t)
    BY <2>19 DEF Load, Go, Aside
  <2>20. CASE Commit(t)
    BY <2>20 DEF Commit, Go
  <2>21. CASE Unpublish(t)
    BY <2>21 DEF Unpublish, FailFormal, Go, Still, Aside
  <2>22. CASE Fail(t)
    BY <2>22 DEF Fail, Go, Still, Aside, Fault, Undisturbed
  <2> QED
    BY <1>2, <2>1, <2>2, <2>3, <2>4, <2>5, <2>6, <2>7, <2>8, <2>9, <2>10, <2>11, <2>12,
       <2>13, <2>14, <2>15, <2>16, <2>17, <2>18, <2>19, <2>20, <2>21, <2>22 DEF Step
<1>3. ASSUME NEW t \in Threads, End(t) PROVE faults' \in {faults, faults + 1}
  <2>1. CASE t \in Lanes /\ RecordDispatchFailure(t)
    BY <2>1 DEF RecordDispatchFailure, Go, Aside, FailReport, Failed, Fault, Undisturbed
  <2>2. CASE t \in Lanes /\ CloseJob(t)
    BY <2>2 DEF CloseJob, Release
  <2>3. CASE t \in Lanes /\ Suppress(t)
    BY <2>3 DEF Suppress, Release, Still, Aside
  <2>4. CASE t \in Lanes /\ CloseCont(t)
    BY <2>4 DEF CloseCont, Release
  <2>5. CASE CloseAnalysis(t)
    BY <2>5 DEF CloseAnalysis, Release, FailReport, FailAnalysis, Failed
  <2> QED
    BY <1>3, <2>1, <2>2, <2>3, <2>4, <2>5 DEF End
<1>4. CASE \E l \in Lanes : BeatJob(l)
  BY <1>4 DEF BeatJob
<1>5. CASE LapseJob
  BY <1>5 DEF LapseJob, Fault
<1>6. CASE LapseAnalysis
  BY <1>6 DEF LapseAnalysis, Fault
<1>7. CASE Crash
  BY <1>7 DEF Crash, Fault, Failed
<1>8. CASE EndPresearch
  BY <1>8 DEF EndPresearch, Request, ByUser, Failed
<1>9. CASE Requeue
  BY <1>9 DEF Requeue, Request
<1>10. CASE Reopen
  BY <1>10 DEF Reopen, Request, RestartFormal
<1>11. CASE Dispatch
  BY <1>11 DEF Dispatch, Request, ByUser, Enqueue
<1>12. CASE Confirm
  BY <1>12 DEF Confirm, Command, Request, ByUser
<1>13. CASE ConfirmScope
  BY <1>13 DEF ConfirmScope, Command, Request, ByUser
<1>14. CASE Cancel
  BY <1>14 DEF Cancel, ByUser
<1>15. CASE RetryRetrieval
  BY <1>15 DEF RetryRetrieval, ByUser
<1>16. CASE Resend
  BY <1>16 DEF Resend, Fault
<1>17. CASE RetryReport
  BY <1>17 DEF RetryReport, Command, Request, ByUser
<1>18. CASE RetryAnalysis
  BY <1>18 DEF RetryAnalysis, ByUser
<1>19. CASE \E r \in Revisions, resolution \in Decisions : Decide(r, resolution)
  BY <1>19 DEF Decide, Command, Request, ByUser
<1> QED
  BY <1>1, <1>2, <1>3, <1>4, <1>5, <1>6, <1>7, <1>8, <1>9, <1>10, <1>11, <1>12, <1>13,
     <1>14, <1>15, <1>16, <1>17, <1>18, <1>19 DEF ResearchNext, Lapse, Requested, User

\* A run that is past gathering evidence never gathers again.
LEMMA LateStays ==
    ASSUME RowsTypeOK, ResearchNext, faults' = faults, faults \in Nat, ~Early, ~Gathering
    PROVE  ~Early' /\ ~Gathering'
<1>1. ASSUME NEW t \in Threads, Claim(t) PROVE ~Early' /\ ~Gathering'
  <2>1. CASE t \in Lanes /\ ClaimJob(t)
    BY <2>1, Ways DEF ClaimJob, Go, Early, Gathering, Recovering
  <2>2. CASE t \in Lanes /\ (\E r \in Revisions : ClaimCont(t, r))
    BY <2>2, Ways DEF ClaimCont, Early, Gathering, Recovering
  <2>3. CASE ClaimAnalysis(t)
    BY <2>3, Ways DEF ClaimAnalysis, Early, Gathering, Recovering
  <2>4. CASE ExpireAnalysis(t)
    <3>1. CASE Failed("retry_analysis", "marketing_analysis", FALSE)
      BY <3>1, Ways DEF Failed, Early, Gathering, Recovering
    <3>2. CASE UNCHANGED <<runVars, fresh, analysis, analysisExpired>>
      BY <3>2 DEF Early, Gathering, Recovering
    <3> QED
      BY <2>4, <3>1, <3>2 DEF ExpireAnalysis, FailAnalysis
  <2> QED
    BY <1>1, <2>1, <2>2, <2>3, <2>4 DEF Claim
<1>2. ASSUME NEW t \in Threads, Step(t) PROVE ~Early' /\ ~Gathering'
  <2>1. CASE Recover(t)
    BY <2>1, Ways DEF Recover, Aside, Go, Release, Early, Gathering, Recovering
  <2>2. CASE Enter(t)
    BY <2>2, Ways DEF Enter, AdvanceIf, Go, Aside, NoError, Early, Gathering, Recovering
  <2>3. CASE StartDispatch(t)
    BY <2>3, Ways DEF StartDispatch, Go, Still, Aside, Early, Gathering, Recovering
  <2>4. CASE StartCont(t)
    BY <2>4, Ways DEF StartCont, Restart, RestartFormal, Go, Still, Aside, Early,
       Gathering, Recovering
  <2>5. CASE StartAnalysis(t)
    BY <2>5, Ways DEF StartAnalysis, Restart, RestartFormal, Go, Aside, Early, Gathering,
       Recovering
  <2>6. CASE StartTask(t)
    BY <2>6, Ways DEF StartTask, Go, Still, Aside, Early, Gathering, Recovering
  <2>7. CASE CallProvider(t)
    BY <2>7, Ways DEF CallProvider, Task, Go, Aside, Early, Gathering, Recovering
  <2>8. CASE \E outcome \in Failures \cup {"done", "unknown"} : EndTask(t, outcome)
    BY <2>8, Ways DEF EndTask, Task, Go, Aside, Early, Gathering, Recovering
  <2>9. CASE Judge(t)
    BY <2>9, Ways DEF Judge, AdvanceIf, WaitForUser, FailFormal, Go, Aside, NoError,
       Early, Gathering, Recovering
  <2>10. CASE \E value \in {"awaiting", "satisfied"} : Cover(t, value)
    BY <2>10, Ways DEF Cover, Go, Early, Gathering, Recovering
  <2>11. CASE Insufficient(t)
    BY <2>11, Ways DEF Insufficient, Wait, WaitForUser, Go, Aside, Early, Gathering,
       Recovering
  <2>12. CASE Undecided(t)
    BY <2>12, Ways DEF Undecided, AdvanceIf, Go, Aside, NoError, Early, Gathering,
       Recovering
  <2>13. CASE Sufficient(t)
    BY <2>13, Ways DEF Sufficient, AdvanceIf, Go, Aside, NoError, Early, Gathering,
       Recovering
  <2>14. CASE Prepare(t)
    BY <2>14, Ways DEF Prepare, Go, Early, Gathering, Recovering
  <2>15. CASE Reuse(t)
    BY <2>15, Ways DEF Reuse, Go, Still, Aside, Wait, WaitForUser, Failed, Early,
       Gathering, Recovering
  <2>16. CASE Succeed(t)
    BY <2>16, Ways DEF Succeed, Go, Early, Gathering, Recovering
  <2>17. CASE Complete(t)
    BY <2>17, Ways DEF Complete, Go, Still, Aside, Early, Gathering, Recovering
  <2>18. CASE Compose(t)
    BY <2>18, Ways DEF Compose, Go, Still, Aside, Early, Gathering, Recovering
  <2>19. CASE Load(t)
    BY <2>19, Ways DEF Load, Go, Aside, Early, Gathering, Recovering
  <2>20. CASE Commit(t)
    BY <2>20, Ways DEF Commit, Go, NoError, Early, Gathering, Recovering
  <2>21. CASE Unpublish(t)
    BY <2>21, Ways DEF Unpublish, FailFormal, Go, Still, Aside, Early, Gathering,
       Recovering
  <2>22. CASE Fail(t)
    BY <2>22, Ways DEF Fail, Go, Still, Aside, Fault, Undisturbed, Early, Gathering,
       Recovering
  <2> QED
    BY <1>2, <2>1, <2>2, <2>3, <2>4, <2>5, <2>6, <2>7, <2>8, <2>9, <2>10, <2>11, <2>12,
       <2>13, <2>14, <2>15, <2>16, <2>17, <2>18, <2>19, <2>20, <2>21, <2>22 DEF Step
<1>3. ASSUME NEW t \in Threads, End(t) PROVE ~Early' /\ ~Gathering'
  <2>1. CASE t \in Lanes /\ RecordDispatchFailure(t)
    BY <2>1, Ways DEF RecordDispatchFailure, Go, Aside, FailReport, Failed, Fault,
       Undisturbed, Over, Terminal, Early, Gathering, Recovering
  <2>2. CASE t \in Lanes /\ CloseJob(t)
    BY <2>2, Ways DEF CloseJob, Release, Early, Gathering, Recovering
  <2>3. CASE t \in Lanes /\ Suppress(t)
    BY <2>3, Ways DEF Suppress, Release, Still, Aside, Early, Gathering, Recovering
  <2>4. CASE t \in Lanes /\ CloseCont(t)
    BY <2>4, Ways DEF CloseCont, Release, Early, Gathering, Recovering
  <2>5. CASE CloseAnalysis(t)
    BY <2>5, Ways DEF CloseAnalysis, Release, FailReport, FailAnalysis, Failed, Early,
       Gathering, Recovering
  <2> QED
    BY <1>3, <2>1, <2>2, <2>3, <2>4, <2>5 DEF End
<1>4. CASE \E l \in Lanes : BeatJob(l)
  BY <1>4, Ways DEF BeatJob, Early, Gathering, Recovering
<1>5. CASE LapseJob
  BY <1>5, Ways DEF LapseJob, Fault, Early, Gathering, Recovering
<1>6. CASE LapseAnalysis
  BY <1>6, Ways DEF LapseAnalysis, Fault, Early, Gathering, Recovering
<1>7. CASE Crash
  BY <1>7, Ways DEF Crash, Fault, Failed, Early, Gathering, Recovering
<1>8. CASE EndPresearch
  BY <1>8, Ways DEF EndPresearch, Request, ByUser, Failed, NoError, Early, Gathering,
     Recovering
<1>9. CASE Requeue
  BY <1>9, Ways DEF Requeue, Request, Early, Gathering, Recovering
<1>10. CASE Reopen
  BY <1>10, Ways DEF Reopen, Request, RestartFormal, Early, Gathering, Recovering
<1>11. CASE Dispatch
  BY <1>11, Ways DEF Dispatch, Request, ByUser, Enqueue, Early, Gathering, Recovering
<1>12. CASE Confirm
  BY <1>12, Ways DEF Confirm, Command, Request, ByUser, NoError, Plan, Stages, Early,
     Gathering, Recovering
<1>13. CASE ConfirmScope
  BY <1>13, Ways DEF ConfirmScope, Command, Request, ByUser, NoError, Early, Gathering,
     Recovering
<1>14. CASE Cancel
  BY <1>14, Ways DEF Cancel, ByUser, NoError, Early, Gathering, Recovering
<1>15. CASE RetryRetrieval
  BY <1>15, Ways DEF RetryRetrieval, ByUser, NoError, Plan, Stages, Early, Gathering,
     Recovering
<1>16. CASE Resend
  BY <1>16, Ways DEF Resend, Fault, Early, Gathering, Recovering
<1>17. CASE RetryReport
  BY <1>17, Ways DEF RetryReport, Command, Request, ByUser, NoError, Early, Gathering,
     Recovering
<1>18. CASE RetryAnalysis
  BY <1>18, Ways DEF RetryAnalysis, ByUser, NoError, Early, Gathering, Recovering
<1>19. CASE \E r \in Revisions, resolution \in Decisions : Decide(r, resolution)
  BY <1>19, Ways DEF Decide, Command, Request, ByUser, NoError, Decisions, Early,
     Gathering, Recovering
<1> QED
  BY <1>1, <1>2, <1>3, <1>4, <1>5, <1>6, <1>7, <1>8, <1>9, <1>10, <1>11, <1>12, <1>13,
     <1>14, <1>15, <1>16, <1>17, <1>18, <1>19 DEF ResearchNext, Lapse, Requested, User

\* Before the scope is confirmed only the presearch moves the run; the
\* confirmation puts the job in line.
LEMMA EarlySteps ==
    ASSUME RowsTypeOK, ResearchNext, faults' = faults, faults \in Nat, Early, Unstarted
    PROVE  /\ Early' => Unstarted'
           /\ Gathering' => ConfirmScope
<1>1. ASSUME NEW t \in Threads, Claim(t) PROVE (Early' => Unstarted') /\ (Gathering' => ConfirmScope)
  <2>1. CASE t \in Lanes /\ ClaimJob(t)
    BY <2>1, Ways DEF ClaimJob, Go, Early, Gathering, Recovering, Unstarted
  <2>2. CASE t \in Lanes /\ (\E r \in Revisions : ClaimCont(t, r))
    BY <2>2, Ways DEF ClaimCont, ContClaimable, Early, Gathering, Recovering, Unstarted
  <2>3. CASE ClaimAnalysis(t)
    BY <2>3, Ways DEF ClaimAnalysis, Early, Gathering, Recovering, Unstarted
  <2>4. CASE ExpireAnalysis(t)
    <3>1. CASE Failed("retry_analysis", "marketing_analysis", FALSE)
      BY <3>1, Ways DEF Failed, Early, Gathering, Recovering
    <3>2. CASE UNCHANGED <<runVars, fresh, analysis, analysisExpired>>
      BY <2>4, <3>2 DEF ExpireAnalysis, Early, Gathering, Recovering, Unstarted
    <3> QED
      BY <2>4, <3>1, <3>2 DEF ExpireAnalysis, FailAnalysis
  <2> QED
    BY <1>1, <2>1, <2>2, <2>3, <2>4 DEF Claim
<1>2. ASSUME NEW t \in Threads, Step(t) PROVE (Early' => Unstarted') /\ (Gathering' => ConfirmScope)
  <2>1. CASE Recover(t)
    BY <2>1, Ways DEF Recover, Aside, Go, Release, Early, Gathering, Recovering, Unstarted
  <2>2. CASE Enter(t)
    BY <2>2, Ways DEF Enter, AdvanceIf, Go, Aside, NoError, Early, Gathering, Recovering,
       Unstarted
  <2>3. CASE StartDispatch(t)
    BY <2>3, Ways DEF StartDispatch, Go, Still, Aside, Early, Gathering, Recovering,
       Unstarted
  <2>4. CASE StartCont(t)
    BY <2>4, Ways DEF StartCont, Restart, RestartFormal, Go, Still, Aside, Early,
       Gathering, Recovering, Unstarted
  <2>5. CASE StartAnalysis(t)
    BY <2>5, Ways DEF StartAnalysis, Restart, RestartFormal, Go, Aside, Early, Gathering,
       Recovering, Unstarted
  <2>6. CASE StartTask(t)
    BY <2>6, Ways DEF StartTask, Go, Still, Aside, Early, Gathering, Recovering, Unstarted
  <2>7. CASE CallProvider(t)
    BY <2>7, Ways DEF CallProvider, Task, Go, Aside, Early, Gathering, Recovering,
       Unstarted
  <2>8. CASE \E outcome \in Failures \cup {"done", "unknown"} : EndTask(t, outcome)
    BY <2>8, Ways DEF EndTask, Task, Go, Aside, Early, Gathering, Recovering, Unstarted
  <2>9. CASE Judge(t)
    BY <2>9, Ways DEF Judge, AdvanceIf, WaitForUser, FailFormal, Go, Aside, NoError,
       Early, Gathering, Recovering, Unstarted
  <2>10. CASE \E value \in {"awaiting", "satisfied"} : Cover(t, value)
    BY <2>10, Ways DEF Cover, Go, Early, Gathering, Recovering, Unstarted
  <2>11. CASE Insufficient(t)
    BY <2>11, Ways DEF Insufficient, Wait, WaitForUser, Go, Aside, Early, Gathering,
       Recovering, Unstarted
  <2>12. CASE Undecided(t)
    BY <2>12, Ways DEF Undecided, AdvanceIf, Go, Aside, NoError, Early, Gathering,
       Recovering, Unstarted
  <2>13. CASE Sufficient(t)
    BY <2>13, Ways DEF Sufficient, AdvanceIf, Go, Aside, NoError, Early, Gathering,
       Recovering, Unstarted
  <2>14. CASE Prepare(t)
    BY <2>14, Ways DEF Prepare, Go, Early, Gathering, Recovering, Unstarted
  <2>15. CASE Reuse(t)
    BY <2>15, Ways DEF Reuse, Go, Still, Aside, Wait, WaitForUser, Failed, Early,
       Gathering, Recovering, Unstarted
  <2>16. CASE Succeed(t)
    BY <2>16, Ways DEF Succeed, Go, Early, Gathering, Recovering, Unstarted
  <2>17. CASE Complete(t)
    BY <2>17, Ways DEF Complete, Go, Still, Aside, Early, Gathering, Recovering, Unstarted
  <2>18. CASE Compose(t)
    BY <2>18, Ways DEF Compose, Go, Still, Aside, Early, Gathering, Recovering, Unstarted
  <2>19. CASE Load(t)
    BY <2>19, Ways DEF Load, Go, Aside, Early, Gathering, Recovering, Unstarted
  <2>20. CASE Commit(t)
    BY <2>20, Ways DEF Commit, Go, NoError, Early, Gathering, Recovering, Unstarted
  <2>21. CASE Unpublish(t)
    BY <2>21, Ways DEF Unpublish, FailFormal, Go, Still, Aside, Early, Gathering,
       Recovering, Unstarted
  <2>22. CASE Fail(t)
    <3>1. pc[t] = "idle"
      BY DEF Unstarted
    <3> QED
      BY <2>22, <3>1 DEF Fail, Working, Publishing
  <2> QED
    BY <1>2, <2>1, <2>2, <2>3, <2>4, <2>5, <2>6, <2>7, <2>8, <2>9, <2>10, <2>11, <2>12,
       <2>13, <2>14, <2>15, <2>16, <2>17, <2>18, <2>19, <2>20, <2>21, <2>22 DEF Step
<1>3. ASSUME NEW t \in Threads, End(t) PROVE (Early' => Unstarted') /\ (Gathering' => ConfirmScope)
  <2>1. CASE t \in Lanes /\ RecordDispatchFailure(t)
    BY <2>1, Ways DEF RecordDispatchFailure, Go, Aside, FailReport, Failed, Fault,
       Undisturbed, Early, Gathering, Recovering, Unstarted
  <2>2. CASE t \in Lanes /\ CloseJob(t)
    BY <2>2, Ways DEF CloseJob, Release, Early, Gathering, Recovering, Unstarted
  <2>3. CASE t \in Lanes /\ Suppress(t)
    BY <2>3, Ways DEF Suppress, Release, Still, Aside, Early, Gathering, Recovering,
       Unstarted
  <2>4. CASE t \in Lanes /\ CloseCont(t)
    BY <2>4, Ways DEF CloseCont, Release, Early, Gathering, Recovering, Unstarted
  <2>5. CASE CloseAnalysis(t)
    BY <2>5, Ways DEF CloseAnalysis, Release, FailReport, FailAnalysis, Failed, Early,
       Gathering, Recovering, Unstarted
  <2> QED
    BY <1>3, <2>1, <2>2, <2>3, <2>4, <2>5 DEF End
<1>4. CASE \E l \in Lanes : BeatJob(l)
  BY <1>4, Ways DEF BeatJob, Early, Gathering, Recovering, Unstarted
<1>5. CASE LapseJob
  BY <1>5, Ways DEF LapseJob, Fault, Early, Gathering, Recovering, Unstarted
<1>6. CASE LapseAnalysis
  BY <1>6, Ways DEF LapseAnalysis, Fault, Early, Gathering, Recovering, Unstarted
<1>7. CASE Crash
  BY <1>7, Ways DEF Crash, Fault, Failed, Early, Gathering, Recovering, Unstarted
<1>8. CASE EndPresearch
  BY <1>8, Ways DEF EndPresearch, Request, ByUser, Failed, Early, Gathering, Recovering,
     Unstarted
<1>9. CASE Requeue
  BY <1>9, Ways DEF Requeue, Request, Early, Gathering, Recovering, Unstarted
<1>10. CASE Reopen
  BY <1>10, Ways DEF Reopen, Request, RestartFormal, Early, Gathering, Recovering,
     Unstarted
<1>11. CASE Dispatch
  BY <1>11, Ways DEF Dispatch, Request, ByUser, Enqueue, Early, Gathering, Recovering,
     Unstarted
<1>12. CASE Confirm
  BY <1>12, Ways DEF Confirm, Command, Request, ByUser, NoError, Plan, Stages, Early,
     Gathering, Recovering, Unstarted
<1>13. CASE ConfirmScope
  BY <1>13, Ways DEF ConfirmScope, Command, Request, ByUser, NoError, Early, Gathering,
     Recovering, Unstarted
<1>14. CASE Cancel
  BY <1>14, Ways DEF Cancel, ByUser, NoError, Early, Gathering, Recovering, Unstarted
<1>15. CASE RetryRetrieval
  BY <1>15, Ways DEF RetryRetrieval, ByUser, NoError, Plan, Stages, Early, Gathering,
     Recovering, Unstarted
<1>16. CASE Resend
  BY <1>16, Ways DEF Resend, Fault, Early, Gathering, Recovering, Unstarted
<1>17. CASE RetryReport
  BY <1>17, Ways DEF RetryReport, Command, Request, ByUser, NoError, Early, Gathering,
     Recovering, Unstarted
<1>18. CASE RetryAnalysis
  BY <1>18, Ways DEF RetryAnalysis, ByUser, NoError, Early, Gathering, Recovering,
     Unstarted
<1>19. CASE \E r \in Revisions, resolution \in Decisions : Decide(r, resolution)
  BY <1>19, Ways DEF Decide, Command, Request, ByUser, NoError, Decisions, Early,
     Gathering, Recovering, Unstarted
<1> QED
  BY <1>1, <1>2, <1>3, <1>4, <1>5, <1>6, <1>7, <1>8, <1>9, <1>10, <1>11, <1>12, <1>13,
     <1>14, <1>15, <1>16, <1>17, <1>18, <1>19 DEF ResearchNext, Lapse, Requested, User

\* A lane takes its turn: it stays in its part of the run, or moves the run on.
TakesTurn(l, at) ==
    /\ Acting(l) /\ UNCHANGED <<jobVars, cont, decision, serves, req>>
    /\ pc' = [pc EXCEPT ![l] = at]
    /\ \/ /\ UNCHANGED <<state, error>>
          /\ \/ pc[l] \in Entering /\ at \in Entering
             \/ pc[l] \in Retrieving /\ at \in Retrieving
             \/ pc[l] \in Evaluating /\ at \in Evaluating
             \/ at \in {"done", "failed", "raised"}
       \/ state = "retrieval_queued" /\ state' = "retrieval_running" /\ at = "starting"
       \/ state = "retrieval_running" /\ state' = "coverage_evaluating" /\ at = "covering"
       \/ /\ pc[l] = "undecided" /\ at = "done" /\ UNCHANGED coverage
          /\ state = "coverage_evaluating" /\ state' = "coverage_decision_required"
       \/ at = "closing" /\ Recovering' /\ serves[l] = None
    /\ at \in {"insufficient", "undecided"} => coverage'[CoverageOf(serves[l])] = "awaiting"
\* A lane whose turn is over lets go.
LetsGo(l) ==
    /\ ~Acting(l) /\ pc[l] # "idle"
    /\ Release(l) /\ UNCHANGED <<state, error, coverage, decision, req>> /\ ~jobExpired'
    /\ \/ /\ serves[l] = None /\ UNCHANGED cont
          /\ job' \in {"completed", "failed"} /\ owner' = None
       \/ /\ serves[l] # None /\ UNCHANGED <<job, owner>>
          /\ \E s \in {"completed", "failed"} : cont' = [cont EXCEPT ![serves[l]] = s]
TakesJob(l) ==
    /\ pc[l] = "idle" /\ job = "queued" /\ job' = "running" /\ owner' = l /\ ~jobExpired'
    /\ Go(l, "claimed") /\ UNCHANGED <<state, error, scopeVars, req>>
TakesCont(l, r) ==
    /\ pc[l] = "idle" /\ Pending(r) /\ cont' = [cont EXCEPT ![r] = "running"]
    /\ pc' = [pc EXCEPT ![l] = "entering"] /\ serves' = [serves EXCEPT ![l] = r]
    /\ UNCHANGED <<state, error, jobVars, coverage, decision, req>>
Expands(r) ==
    /\ coverage[r] = "awaiting" /\ decision[r] = "none"
    /\ state = "coverage_decision_required" /\ state' = "retrieval_queued"
    /\ req = "idle" /\ req' = "idle"
    /\ decision' = [decision EXCEPT ![r] = "expand_coverage"]
    /\ cont' = [cont EXCEPT ![r] = "pending"]
    /\ UNCHANGED <<jobVars, coverage, threadVars>>
Retries ==
    /\ Recovering /\ state' = "retrieval_queued" /\ req = "idle" /\ req' = "requeue"
    /\ UNCHANGED <<jobVars, scopeVars, threadVars>>
RetryGoesOn ==
    /\ req \in {"requeue", "restart", "dispatch"}
    /\ req' \in {"idle", "restart", "dispatch"}
    /\ job' = job \/ (req' = "idle" /\ job # "running" /\ job' = "queued")
    /\ UNCHANGED <<state, error, owner, jobExpired, scopeVars, threadVars>>
Stays == UNCHANGED <<state, error, jobVars, scopeVars, threadVars, req>>

Turns ==
    \/ Stays \/ Retries \/ RetryGoesOn
    \/ \E l \in Lanes : \/ \E at \in ThreadAt : TakesTurn(l, at)
                        \/ LetsGo(l) \/ TakesJob(l) \/ \E r \in Revisions : TakesCont(l, r)
    \/ \E r \in Revisions : Expands(r)

\* While nothing is lost a step of a gathering run is one of these turns.
LEMMA GatherSteps ==
    ASSUME RowsTypeOK, CallsInv, ScopeInv, ResearchNext, faults' = faults, faults \in Nat,
           Gathering, Gathering', Holds, OneTurn, InStep, Decided
    PROVE  Turns
<1>1. \A t \in Threads : pc[t] # "idle" =>
         /\ t \in Lanes /\ t # analyst
         /\ pc[t] \in Entering \cup Retrieving \cup Evaluating \cup Ending
  BY ResearchAssumption DEF Threads, Holds
<1>2. \A t \in Lanes : pc[t] # "idle" => HasJob(t) \/ (IsCont(t) /\ cont[serves[t]] = "running")
  BY ResearchAssumption DEF Holds, HasJob, IsDispatch, IsCont
<1>3. /\ ~jobExpired
      /\ state \in {"retrieval_queued", "retrieval_running", "coverage_evaluating",
                    "coverage_decision_required", "recovery_required"}
      /\ state = "recovery_required" => Recovering
  BY DEF Holds, Gathering, Recovering
<1>4. \A t \in Lanes : pc[t] # "idle" => Live(t)
  BY <1>2, <1>3 DEF Live, HasJob
<1>5. \A l \in Lanes : Acting(l) =>
         /\ state \in {"retrieval_queued", "retrieval_running", "coverage_evaluating"}
         /\ pc[l] \in Entering => state = "retrieval_queued"
         /\ pc[l] \in Retrieving => state = "retrieval_running"
         /\ pc[l] \in Evaluating => state = "coverage_evaluating"
  BY DEF InStep
<1>6. \A l \in Lanes : Acting(l) /\ serves[l] # None =>
         decision[serves[l]] = "expand_coverage" /\ serves[l] + 1 \in Revisions
  BY DEF Decided, ScopeInv, RowsTypeOK, Threads
<1>7. \A l \in Lanes : pc[l] \in Entering \cup Retrieving \cup Evaluating => Acting(l)
  BY DEF Acting, Entering, Retrieving, Evaluating
<1>8. ASSUME NEW t \in Threads, Claim(t) PROVE Turns
  <2>1. CASE t \in Lanes /\ ClaimJob(t)
    BY <2>1, <1>3 DEF ClaimJob, Go, TakesJob, Turns
  <2>2. CASE t \in Lanes /\ (\E r \in Revisions : ClaimCont(t, r))
    <3>1. PICK r \in Revisions : ClaimCont(t, r)
      BY <2>2
    <3>2. Pending(r) /\ state # "cancelled_or_failed"
      BY <3>1, <1>3 DEF ClaimCont, ContClaimable, Pending, Holds
    <3>3. TakesCont(t, r)
      BY <3>1, <3>2 DEF ClaimCont, TakesCont, Pending
    <3> QED
      BY <2>2, <3>3 DEF Turns
  <2>3. CASE ClaimAnalysis(t)
    BY <2>3, <1>3 DEF ClaimAnalysis
  <2>4. CASE ExpireAnalysis(t)
    <3>1. CASE Failed("retry_analysis", "marketing_analysis", FALSE)
      BY <3>1, Ways DEF Failed, Gathering, Recovering
    <3>2. CASE UNCHANGED <<runVars, fresh, analysis, analysisExpired>>
      BY <2>4, <3>2 DEF ExpireAnalysis, Stays, Turns
    <3> QED
      BY <2>4, <3>1, <3>2 DEF ExpireAnalysis, FailAnalysis
  <2> QED
    BY <1>8, <2>1, <2>2, <2>3, <2>4 DEF Claim
<1>9. ASSUME NEW t \in Threads, Step(t) PROVE Turns
  <2>1. CASE Recover(t)
    <3>1. TakesTurn(t, "entering")
      BY <2>1, <1>1, <1>4, <1>7 DEF Recover, Aside, Go, Release, TakesTurn, Entering,
         Retrieving, Evaluating
    <3> QED
      BY <1>9, <3>1, <1>1 DEF Turns, TakesTurn, Acting, ThreadAt, Working, Ending
  <2>2. CASE Enter(t)
    <3>1. TakesTurn(t, "starting")
      BY <2>2, <1>1, <1>3, <1>5, <1>6, <1>7, Ways DEF Enter, AdvanceIf, Go, Aside,
         TakesTurn, Entering, Retrieving, Evaluating
    <3> QED
      BY <1>9, <3>1, <1>1 DEF Turns, TakesTurn, Acting, ThreadAt, Working, Ending
  <2>3. CASE StartDispatch(t)
    <3>1. TakesTurn(t, "collecting")
      BY <2>3, <1>1, <1>7 DEF StartDispatch, Go, Still, Aside, TakesTurn, Entering,
         Retrieving, Evaluating
    <3> QED
      BY <1>9, <3>1, <1>1 DEF Turns, TakesTurn, Acting, ThreadAt, Working, Ending
  <2>4. CASE StartCont(t)
    <3>1. TakesTurn(t, "collecting") \/ TakesTurn(t, "done")
      BY <2>4, <1>1, <1>7 DEF StartCont, Restart, RestartFormal, Go, Still, Aside,
         TakesTurn, Entering, Retrieving, Evaluating
    <3> QED
      BY <1>9, <3>1, <1>1 DEF Turns, TakesTurn, Acting, ThreadAt, Working, Ending
  <2>5. CASE StartAnalysis(t)
    BY <2>5, <1>1 DEF StartAnalysis, Restart, RestartFormal, Go, Aside
  <2>6. CASE StartTask(t)
    <3>1. TakesTurn(t, "tasking") \/ TakesTurn(t, "collected")
      BY <2>6, <1>1, <1>7 DEF StartTask, Go, Still, Aside, TakesTurn, Entering,
         Retrieving, Evaluating
    <3> QED
      BY <1>9, <3>1, <1>1 DEF Turns, TakesTurn, Acting, ThreadAt, Working, Ending
  <2>7. CASE CallProvider(t)
    <3>1. TakesTurn(t, "calling")
      BY <2>7, <1>1, <1>7 DEF CallProvider, Task, Go, Aside, TakesTurn, Entering,
         Retrieving, Evaluating
    <3> QED
      BY <1>9, <3>1, <1>1 DEF Turns, TakesTurn, Acting, ThreadAt, Working, Ending
  <2>8. CASE \E outcome \in Failures \cup {"done", "unknown"} : EndTask(t, outcome)
    <3>1. TakesTurn(t, "collected")
      BY <2>8, <1>1, <1>7 DEF EndTask, Task, Go, Aside, TakesTurn, Entering, Retrieving,
         Evaluating
    <3> QED
      BY <1>9, <3>1, <1>1 DEF Turns, TakesTurn, Acting, ThreadAt, Working, Ending
  <2>9. CASE Judge(t)
    <3>1. TakesTurn(t, "covering") \/ TakesTurn(t, "failed")
      BY <2>9, <1>1, <1>3, <1>5, <1>7, Ways DEF Judge, AdvanceIf, WaitForUser, FailFormal,
         Go, Aside, TakesTurn, Entering, Retrieving, Evaluating
    <3> QED
      BY <1>9, <3>1, <1>1 DEF Turns, TakesTurn, Acting, ThreadAt, Working, Ending
  <2>10. CASE \E value \in {"awaiting", "satisfied"} : Cover(t, value)
    <3>1. PICK value \in {"awaiting", "satisfied"} : Cover(t, value)
      BY <2>10
    <3>2. CoverageOf(serves[t]) \in Revisions /\ ~(decision[serves[t]] = "generate_limited_report" /\ serves[t] # None)
      BY <3>1, <1>1, <1>6, <1>7, ResearchAssumption DEF Cover, CoverageOf, Evaluating, Revisions
    <3>3. TakesTurn(t, "insufficient") \/ TakesTurn(t, "sufficient")
      BY <3>1, <3>2, <1>1, <1>7 DEF Cover, Go, TakesTurn, Entering, Retrieving, Evaluating, RowsTypeOK
    <3> QED
      BY <3>3, <1>1 DEF Turns, TakesTurn, Acting, ThreadAt, Working, Ending
  <2>11. CASE Insufficient(t)
    <3>1. TakesTurn(t, "undecided")
      BY <2>11, <1>1, <1>7 DEF Insufficient, Wait, WaitForUser, Go, Aside, TakesTurn,
         Entering, Retrieving, Evaluating, Decided
    <3> QED
      BY <1>9, <3>1, <1>1 DEF Turns, TakesTurn, Acting, ThreadAt, Working, Ending
  <2>12. CASE Undecided(t)
    <3>1. TakesTurn(t, "done")
      BY <2>12, <1>1, <1>3, <1>5, <1>7, Ways DEF Undecided, AdvanceIf, Go, Aside,
         TakesTurn, Entering, Retrieving, Evaluating
    <3> QED
      BY <1>9, <3>1, <1>1 DEF Turns, TakesTurn, Acting, ThreadAt, Working, Ending
  <2>13. CASE Sufficient(t)
    BY <2>13, <1>1, <1>5, <1>7, Ways DEF Sufficient, AdvanceIf, Go, Aside, Evaluating,
       Gathering, Recovering
  <2>14. CASE Prepare(t)
    BY <2>14, <1>1 DEF Prepare, Entering, Retrieving, Evaluating, Ending
  <2>15. CASE Reuse(t)
    BY <2>15, <1>1 DEF Reuse, Entering, Retrieving, Evaluating, Ending
  <2>16. CASE Succeed(t)
    BY <2>16, <1>1 DEF Succeed, Entering, Retrieving, Evaluating, Ending
  <2>17. CASE Complete(t)
    BY <2>17, <1>1 DEF Complete, Entering, Retrieving, Evaluating, Ending
  <2>18. CASE Compose(t)
    BY <2>18, <1>1 DEF Compose, Entering, Retrieving, Evaluating, Ending
  <2>19. CASE Load(t)
    BY <2>19, <1>1 DEF Load, Entering, Retrieving, Evaluating, Ending
  <2>20. CASE Commit(t)
    BY <2>20, <1>1 DEF Commit, Entering, Retrieving, Evaluating, Ending
  <2>21. CASE Unpublish(t)
    BY <2>21, <1>1 DEF Unpublish, Entering, Retrieving, Evaluating, Ending
  <2>22. CASE Fail(t)
    <3>1. TakesTurn(t, "raised")
      BY <2>22, <1>1, <1>7 DEF Fail, Go, Still, Aside, Fault, Undisturbed, TakesTurn,
         Entering, Retrieving, Evaluating, Working, Publishing, Ending
    <3> QED
      BY <1>9, <3>1, <1>1 DEF Turns, TakesTurn, Acting, ThreadAt, Working, Ending
  <2> QED
    BY <1>9, <2>1, <2>2, <2>3, <2>4, <2>5, <2>6, <2>7, <2>8, <2>9, <2>10, <2>11, <2>12,
       <2>13, <2>14, <2>15, <2>16, <2>17, <2>18, <2>19, <2>20, <2>21, <2>22 DEF Step
<1>10. ASSUME NEW t \in Threads, End(t) PROVE Turns
  <2>1. CASE t \in Lanes /\ RecordDispatchFailure(t)
    <3>1. Acting(t) /\ serves[t] = None /\ t \in Lanes
      BY <2>1 DEF RecordDispatchFailure, Acting, IsDispatch, IsCont
    <3>2. state \in {"retrieval_queued", "retrieval_running", "coverage_evaluating"}
      BY <3>1, <1>5
    <3>3. Failed("retry_retrieval", state, FALSE)
      <4>1. ~Fault
        BY DEF Fault
      <4> QED
        BY <2>1, <3>2, <4>1 DEF RecordDispatchFailure, Over, Terminal
    <3>4. Recovering'
      BY <3>2, <3>3, Ways DEF Failed, Gathering, Recovering
    <3>5. TakesTurn(t, "closing")
      BY <2>1, <3>1, <3>4 DEF RecordDispatchFailure, Go, Aside, Fault, Undisturbed, TakesTurn
    <3> QED
      BY <3>1, <3>5 DEF Turns, ThreadAt, Ending
  <2>2. CASE t \in Lanes /\ CloseJob(t)
    <3>1. HasJob(t)
      BY <2>2, <1>2 DEF CloseJob, IsDispatch, IsCont
    <3>2. ~Acting(t)
      BY <2>2 DEF CloseJob, Acting
    <3>3. LetsGo(t)
      BY <2>2, <3>1, <3>2 DEF CloseJob, LetsGo, IsDispatch
    <3> QED
      BY <2>2, <3>3 DEF Turns
  <2>3. CASE t \in Lanes /\ Suppress(t)
    BY <2>3, <1>2 DEF Suppress, IsDispatch, IsCont
  <2>4. CASE t \in Lanes /\ CloseCont(t)
    <3>1. Live(t) /\ ~Acting(t)
      BY <2>4, <1>4 DEF CloseCont, Acting
    <3>2. LetsGo(t)
      BY <2>4, <3>1, <1>3 DEF CloseCont, LetsGo, IsCont
    <3> QED
      BY <2>4, <3>2 DEF Turns
  <2>5. CASE CloseAnalysis(t)
    BY <2>5, <1>1 DEF CloseAnalysis
  <2> QED
    BY <1>10, <2>1, <2>2, <2>3, <2>4, <2>5 DEF End
<1>11. CASE \E l \in Lanes : BeatJob(l)
  BY <1>11, <1>3 DEF BeatJob
<1>12. CASE LapseJob
  BY <1>12, ResearchAssumption DEF LapseJob, Fault, Holds, HasJob
<1>13. CASE LapseAnalysis
  BY <1>13 DEF LapseAnalysis, Stays, Turns, Fault
<1>14. CASE Crash
  BY <1>14 DEF Crash, Fault
<1>15. CASE EndPresearch
  BY <1>15 DEF EndPresearch, OneTurn
<1>16. CASE Requeue
  BY <1>16 DEF Requeue, Request, RetryGoesOn, Turns
<1>17. CASE Reopen
  BY <1>17 DEF Reopen, Request, RestartFormal, RetryGoesOn, Turns
<1>18. CASE Dispatch
  BY <1>18 DEF Dispatch, Request, ByUser, Enqueue, OneTurn, RetryGoesOn, Turns
<1>19. CASE Confirm
  BY <1>19, <1>3, Ways DEF Confirm, Command, Plan, Recovering
<1>20. CASE ConfirmScope
  BY <1>20, <1>3, Ways DEF ConfirmScope, Command
<1>21. CASE Cancel
  BY <1>21, Ways DEF Cancel, Gathering, Recovering
<1>22. CASE RetryRetrieval
  BY <1>22, <1>3, Ways DEF RetryRetrieval, Plan, ByUser, Retries, Turns
<1>23. CASE Resend
  BY <1>23 DEF Resend, Fault
<1>24. CASE RetryReport
  BY <1>24, Ways DEF RetryReport, Command, Gathering, Recovering
<1>25. CASE RetryAnalysis
  BY <1>25, Ways DEF RetryAnalysis, Gathering, Recovering
<1>26. CASE \E r \in Revisions, resolution \in Decisions : Decide(r, resolution)
  <2>1. PICK r \in Revisions, resolution \in Decisions : Decide(r, resolution)
    BY <1>26
  <2>2. resolution = "expand_coverage"
    BY <2>1, Ways DEF Decide, Command, Decisions, Gathering, Recovering
  <2>3. Expands(r)
    BY <2>1, <2>2, Ways DEF Decide, Command, Request, ByUser, Expands
  <2> QED
    BY <2>3 DEF Turns
<1> QED
  BY <1>8, <1>9, <1>10, <1>11, <1>12, <1>13, <1>14, <1>15, <1>16, <1>17, <1>18, <1>19,
     <1>20, <1>21, <1>22, <1>23, <1>24, <1>25, <1>26 DEF ResearchNext, Lapse, Requested,
     User

\* A run that gathers evidence does not go back to its presearch.
LEMMA NotEarlyAgain ==
    ASSUME RowsTypeOK, ResearchNext, faults' = faults, faults \in Nat, Gathering, OneTurn
    PROVE  ~Early'
<1>1. ASSUME NEW t \in Threads, Claim(t) PROVE ~Early'
  <2>1. CASE t \in Lanes /\ ClaimJob(t)
    BY <2>1, Ways DEF ClaimJob, Go, Early, Gathering, Recovering
  <2>2. CASE t \in Lanes /\ (\E r \in Revisions : ClaimCont(t, r))
    BY <2>2, Ways DEF ClaimCont, Early, Gathering, Recovering
  <2>3. CASE ClaimAnalysis(t)
    BY <2>3, Ways DEF ClaimAnalysis, Early, Gathering, Recovering
  <2>4. CASE ExpireAnalysis(t)
    <3>1. CASE Failed("retry_analysis", "marketing_analysis", FALSE)
      BY <3>1, Ways DEF Failed, Early, Gathering, Recovering
    <3>2. CASE UNCHANGED <<runVars, fresh, analysis, analysisExpired>>
      BY <3>2 DEF Early, Gathering, Recovering
    <3> QED
      BY <2>4, <3>1, <3>2 DEF ExpireAnalysis, FailAnalysis
  <2> QED
    BY <1>1, <2>1, <2>2, <2>3, <2>4 DEF Claim
<1>2. ASSUME NEW t \in Threads, Step(t) PROVE ~Early'
  <2>1. CASE Recover(t)
    BY <2>1, Ways DEF Recover, Aside, Go, Release, Early, Gathering, Recovering
  <2>2. CASE Enter(t)
    BY <2>2, Ways DEF Enter, AdvanceIf, Go, Aside, NoError, Early, Gathering, Recovering
  <2>3. CASE StartDispatch(t)
    BY <2>3, Ways DEF StartDispatch, Go, Still, Aside, Early, Gathering, Recovering
  <2>4. CASE StartCont(t)
    BY <2>4, Ways DEF StartCont, Restart, RestartFormal, Go, Still, Aside, Early,
       Gathering, Recovering
  <2>5. CASE StartAnalysis(t)
    BY <2>5, Ways DEF StartAnalysis, Restart, RestartFormal, Go, Aside, Early, Gathering,
       Recovering
  <2>6. CASE StartTask(t)
    BY <2>6, Ways DEF StartTask, Go, Still, Aside, Early, Gathering, Recovering
  <2>7. CASE CallProvider(t)
    BY <2>7, Ways DEF CallProvider, Task, Go, Aside, Early, Gathering, Recovering
  <2>8. CASE \E outcome \in Failures \cup {"done", "unknown"} : EndTask(t, outcome)
    BY <2>8, Ways DEF EndTask, Task, Go, Aside, Early, Gathering, Recovering
  <2>9. CASE Judge(t)
    BY <2>9, Ways DEF Judge, AdvanceIf, WaitForUser, FailFormal, Go, Aside, NoError,
       Early, Gathering, Recovering
  <2>10. CASE \E value \in {"awaiting", "satisfied"} : Cover(t, value)
    BY <2>10, Ways DEF Cover, Go, Early, Gathering, Recovering
  <2>11. CASE Insufficient(t)
    BY <2>11, Ways DEF Insufficient, Wait, WaitForUser, Go, Aside, Early, Gathering,
       Recovering
  <2>12. CASE Undecided(t)
    BY <2>12, Ways DEF Undecided, AdvanceIf, Go, Aside, NoError, Early, Gathering,
       Recovering
  <2>13. CASE Sufficient(t)
    BY <2>13, Ways DEF Sufficient, AdvanceIf, Go, Aside, NoError, Early, Gathering,
       Recovering
  <2>14. CASE Prepare(t)
    BY <2>14, Ways DEF Prepare, Go, Early, Gathering, Recovering
  <2>15. CASE Reuse(t)
    BY <2>15, Ways DEF Reuse, Go, Still, Aside, Wait, WaitForUser, Failed, Early,
       Gathering, Recovering
  <2>16. CASE Succeed(t)
    BY <2>16, Ways DEF Succeed, Go, Early, Gathering, Recovering
  <2>17. CASE Complete(t)
    BY <2>17, Ways DEF Complete, Go, Still, Aside, Early, Gathering, Recovering
  <2>18. CASE Compose(t)
    BY <2>18, Ways DEF Compose, Go, Still, Aside, Early, Gathering, Recovering
  <2>19. CASE Load(t)
    BY <2>19, Ways DEF Load, Go, Aside, Early, Gathering, Recovering
  <2>20. CASE Commit(t)
    BY <2>20, Ways DEF Commit, Go, NoError, Early, Gathering, Recovering
  <2>21. CASE Unpublish(t)
    BY <2>21, Ways DEF Unpublish, FailFormal, Go, Still, Aside, Early, Gathering,
       Recovering
  <2>22. CASE Fail(t)
    BY <2>22, Ways DEF Fail, Go, Still, Aside, Fault, Undisturbed, Early, Gathering,
       Recovering
  <2> QED
    BY <1>2, <2>1, <2>2, <2>3, <2>4, <2>5, <2>6, <2>7, <2>8, <2>9, <2>10, <2>11, <2>12,
       <2>13, <2>14, <2>15, <2>16, <2>17, <2>18, <2>19, <2>20, <2>21, <2>22 DEF Step
<1>3. ASSUME NEW t \in Threads, End(t) PROVE ~Early'
  <2>1. CASE t \in Lanes /\ RecordDispatchFailure(t)
    BY <2>1, Ways DEF RecordDispatchFailure, Go, Aside, FailReport, Failed, Fault,
       Undisturbed, Over, Terminal, Early, Gathering, Recovering
  <2>2. CASE t \in Lanes /\ CloseJob(t)
    BY <2>2, Ways DEF CloseJob, Release, Early, Gathering, Recovering
  <2>3. CASE t \in Lanes /\ Suppress(t)
    BY <2>3, Ways DEF Suppress, Release, Still, Aside, Early, Gathering, Recovering
  <2>4. CASE t \in Lanes /\ CloseCont(t)
    BY <2>4, Ways DEF CloseCont, Release, Early, Gathering, Recovering
  <2>5. CASE CloseAnalysis(t)
    BY <2>5, Ways DEF CloseAnalysis, Release, FailReport, FailAnalysis, Failed, Early,
       Gathering, Recovering
  <2> QED
    BY <1>3, <2>1, <2>2, <2>3, <2>4, <2>5 DEF End
<1>4. CASE \E l \in Lanes : BeatJob(l)
  BY <1>4, Ways DEF BeatJob, Early, Gathering, Recovering
<1>5. CASE LapseJob
  BY <1>5, Ways DEF LapseJob, Fault, Early, Gathering, Recovering
<1>6. CASE LapseAnalysis
  BY <1>6, Ways DEF LapseAnalysis, Fault, Early, Gathering, Recovering
<1>7. CASE Crash
  BY <1>7, Ways DEF Crash, Fault, Failed, Early, Gathering, Recovering
<1>8. CASE EndPresearch
  BY <1>8, Ways DEF EndPresearch, Request, ByUser, Failed, OneTurn, Early, Gathering,
     Recovering
<1>9. CASE Requeue
  BY <1>9, Ways DEF Requeue, Request, Early, Gathering, Recovering
<1>10. CASE Reopen
  BY <1>10, Ways DEF Reopen, Request, RestartFormal, Early, Gathering, Recovering
<1>11. CASE Dispatch
  BY <1>11, Ways DEF Dispatch, Request, ByUser, Enqueue, Early, Gathering, Recovering
<1>12. CASE Confirm
  BY <1>12, Ways DEF Confirm, Command, Request, ByUser, NoError, Plan, Stages, Early,
     Gathering, Recovering
<1>13. CASE ConfirmScope
  BY <1>13, Ways DEF ConfirmScope, Command, Request, ByUser, NoError, Early, Gathering,
     Recovering
<1>14. CASE Cancel
  BY <1>14, Ways DEF Cancel, ByUser, NoError, Early, Gathering, Recovering
<1>15. CASE RetryRetrieval
  BY <1>15, Ways DEF RetryRetrieval, ByUser, NoError, Early, Gathering, Recovering
<1>16. CASE Resend
  BY <1>16, Ways DEF Resend, Fault, Early, Gathering, Recovering
<1>17. CASE RetryReport
  BY <1>17, Ways DEF RetryReport, Command, Request, ByUser, NoError, Early, Gathering,
     Recovering
<1>18. CASE RetryAnalysis
  BY <1>18, Ways DEF RetryAnalysis, ByUser, NoError, Early, Gathering, Recovering
<1>19. CASE \E r \in Revisions, resolution \in Decisions : Decide(r, resolution)
  BY <1>19, Ways DEF Decide, Command, Request, ByUser, NoError, Decisions, Early,
     Gathering, Recovering
<1> QED
  BY <1>1, <1>2, <1>3, <1>4, <1>5, <1>6, <1>7, <1>8, <1>9, <1>10, <1>11, <1>12, <1>13,
     <1>14, <1>15, <1>16, <1>17, <1>18, <1>19 DEF ResearchNext, Lapse, Requested, User

Turned == Holds /\ OneTurn /\ InStep /\ Decided

\* The confirmation of the scope gives the first turn.
LEMMA FirstTurn ==
    ASSUME RowsTypeOK, CallsInv, Unstarted, ConfirmScope
    PROVE  Turned'
<1>1. /\ state' = "retrieval_queued" /\ job' = "queued" /\ req' = "idle" /\ jobExpired' = FALSE
      /\ UNCHANGED <<scopeVars, threadVars>>
  BY Ways DEF ConfirmScope, Command, Request, ByUser, Unstarted
<1>2. /\ \A t \in Threads : pc[t] = "idle" /\ serves[t] = None
      /\ \A r \in Revisions : cont[r] = "none" /\ decision[r] = "none"
      /\ 1 \in Revisions /\ Lanes \subseteq Threads /\ analyst \in Threads
  BY ResearchAssumption DEF Unstarted, CallsInv, Revisions, Threads
<1>3. \A l \in Lanes : ~Acting(l)'
  BY <1>1, <1>2 DEF Acting
<1>4. Holds'
  BY <1>1, <1>2 DEF Holds
<1>5. OneTurn'
  BY <1>1, <1>2, <1>3 DEF OneTurn, Pending
<1>6. InStep'
  BY <1>1, <1>2, <1>3 DEF InStep, Pending
<1>7. Decided'
  BY <1>1, <1>2, <1>3 DEF Decided, Pending
<1> QED
  BY <1>4, <1>5, <1>6, <1>7 DEF Turned

\* The thread whose turn it is keeps it, or it is over.
LEMMA TurnTaken ==
    ASSUME RowsTypeOK, ScopeInv, Turned, NEW l \in Lanes, NEW at, TakesTurn(l, at)
    PROVE  Turned'
<1>1. /\ l \in Threads /\ Lanes \subseteq Threads /\ analyst \in Threads /\ l # analyst
      /\ 1 \in Revisions
  BY ResearchAssumption DEF Threads, Revisions
<1>2. Acting(l) /\ job # "queued" /\ req = "idle" /\ \A r \in Revisions : ~Pending(r)
  BY DEF TakesTurn, Turned, OneTurn
<1>3. /\ UNCHANGED <<jobVars, cont, decision, serves, req>>
      /\ pc'[l] = at /\ \A t \in Threads : t # l => pc'[t] = pc[t]
  BY <1>1 DEF TakesTurn, RowsTypeOK
<1>4. at \in Entering \cup Retrieving \cup Evaluating \cup Ending
  BY DEF TakesTurn, Ending, Retrieving, Evaluating
<1>5. at # "idle" /\ pc[l] # "idle"
  BY <1>2, <1>4 DEF Entering, Retrieving, Evaluating, Ending, Acting
<1>6. \A m \in Lanes : Acting(m)' => m = l
  <2> SUFFICES ASSUME NEW m \in Lanes, Acting(m)', m # l PROVE FALSE
    OBVIOUS
  <2>1. Acting(m)
    BY <1>1, <1>3 DEF Acting, IsCont
  <2> QED
    BY <1>2, <2>1 DEF Turned, OneTurn
<1>7. state \in {"retrieval_queued", "retrieval_running", "coverage_evaluating"}
  BY <1>2 DEF Turned, InStep
<1>8. Holds'
  BY <1>1, <1>3, <1>4, <1>5 DEF Turned, Holds, IsDispatch
<1>9. OneTurn'
  BY <1>2, <1>3, <1>6 DEF OneTurn, Pending, Turned
<1>10. InStep'
  <2>1. ASSUME Acting(l)'
        PROVE  /\ at \in Entering => state' = "retrieval_queued"
               /\ at \in Retrieving => state' = "retrieval_running"
               /\ at \in Evaluating => state' = "coverage_evaluating"
               /\ state' \in {"retrieval_queued", "retrieval_running", "coverage_evaluating"}
    <3>1. at \notin {"done", "closing"}
      BY <2>1, <1>3 DEF Acting
    <3>2. /\ pc[l] \in Entering => state = "retrieval_queued"
          /\ pc[l] \in Retrieving => state = "retrieval_running"
          /\ pc[l] \in Evaluating => state = "coverage_evaluating"
      BY <1>2 DEF Turned, InStep
    <3> QED
      BY <1>7, <3>1, <3>2 DEF TakesTurn, Entering, Retrieving, Evaluating
  <2> QED
    BY <1>2, <1>3, <1>6, <2>1 DEF InStep, Pending
<1>11. Decided'
  <2>1. \A r \in Revisions : decision'[r] # "generate_limited_report"
    BY <1>3 DEF Turned, Decided
  <2>2. \A r \in Revisions : Pending(r)' \/ (\E m \in Lanes : Acting(m)' /\ serves'[m] = r) =>
          decision'[r] = "expand_coverage" /\ \A q \in Revisions : q > r => decision'[q] = "none"
    BY <1>2, <1>3, <1>6 DEF Turned, Decided, Pending
  <2>3. job' = "queued" \/ req' # "idle" \/ Recovering'
          \/ (\E m \in Lanes : Acting(m)' /\ serves'[m] = None) => decision'[1] = "none"
    <3>1. Recovering' => serves[l] = None
      BY <1>7 DEF TakesTurn, Recovering
    <3> QED
      BY <1>2, <1>3, <1>6, <3>1 DEF Turned, Decided
  <2>4. ASSUME NEW m \in Lanes, pc'[m] \in {"insufficient", "undecided"}
        PROVE  (coverage[CoverageOf(serves[m])] = "awaiting")'
    <3>1. Acting(m)'
      BY <2>4 DEF Acting
    <3>2. m = l
      BY <1>6, <3>1
    <3> QED
      BY <2>4, <3>2, <1>3 DEF TakesTurn, CoverageOf
  <2>5. ASSUME state' = "coverage_decision_required"
        PROVE  \E r \in Revisions : coverage'[r] = "awaiting" /\ decision'[r] = "none"
    <3>1. pc[l] = "undecided" /\ UNCHANGED coverage
      BY <1>7, <2>5 DEF TakesTurn, Recovering
    <3>2. coverage[CoverageOf(serves[l])] = "awaiting"
      BY <3>1 DEF Turned, Decided
    <3>3. CASE serves[l] = None
      <4>1. decision[1] = "none" /\ CoverageOf(serves[l]) = 1
        BY <1>2, <3>3 DEF Turned, Decided, CoverageOf
      <4> QED
        BY <1>1, <1>3, <3>1, <3>2, <4>1
    <3>4. CASE serves[l] # None
      <4>1. serves[l] \in Revisions /\ serves[l] \in Nat
        BY <1>1, <3>4 DEF RowsTypeOK, Revisions
      <4>2. /\ decision[serves[l]] = "expand_coverage"
            /\ \A q \in Revisions : q > serves[l] => decision[q] = "none"
        BY <1>2, <4>1 DEF Turned, Decided
      <4>3. serves[l] + 1 \in Revisions /\ serves[l] + 1 > serves[l]
        BY <4>1, <4>2 DEF ScopeInv
      <4>4. CoverageOf(serves[l]) = serves[l] + 1
        BY <3>4, <4>2 DEF CoverageOf
      <4> QED
        BY <1>3, <3>1, <3>2, <4>2, <4>3, <4>4
    <3> QED
      BY <3>3, <3>4
  <2> QED
    BY <2>1, <2>2, <2>3, <2>4, <2>5 DEF Decided
<1> QED
  BY <1>8, <1>9, <1>10, <1>11 DEF Turned

\* A thread without the turn ends.
LEMMA TurnLeft ==
    ASSUME RowsTypeOK, Turned, NEW l \in Lanes, LetsGo(l)
    PROVE  Turned'
<1>1. /\ l \in Threads /\ Lanes \subseteq Threads /\ analyst \in Threads /\ l # analyst
      /\ \A m \in Lanes : m # analyst
  BY ResearchAssumption DEF Threads
<1>2. /\ pc'[l] = "idle" /\ serves'[l] = None /\ pc[l] # "idle" /\ ~jobExpired'
      /\ \A t \in Threads : t # l => pc'[t] = pc[t] /\ serves'[t] = serves[t]
      /\ UNCHANGED <<state, error, coverage, decision, req>>
  BY <1>1 DEF LetsGo, Release, RowsTypeOK
<1>3. \A m \in Lanes : Acting(m)' => Acting(m) /\ m # l
  BY <1>1, <1>2 DEF Acting, IsCont
<1>4. job' = "queued" => job = "queued"
  BY DEF LetsGo
<1>5. \A r \in Revisions : Pending(r)' => Pending(r)
  BY DEF LetsGo, RowsTypeOK, Pending
<1>6. Holds'
  <2>1. CASE serves[l] = None
    <3>1. /\ UNCHANGED cont /\ job' \in {"completed", "failed"} /\ owner' = None
          /\ owner = l
      BY <2>1, <1>1, <1>2 DEF LetsGo, Turned, Holds, IsDispatch
    <3>2. \A m \in Lanes : m # l => ~(IsDispatch(m) /\ pc[m] # "idle")
      BY <3>1 DEF Turned, Holds
    <3> QED
      BY <1>1, <1>2, <2>1, <3>1, <3>2 DEF Turned, Holds, IsDispatch
  <2>2. CASE serves[l] # None
    <3>1. PICK s \in {"completed", "failed"} : cont' = [cont EXCEPT ![serves[l]] = s]
      BY <2>2 DEF LetsGo
    <3>2. UNCHANGED <<job, owner>>
      BY <2>2 DEF LetsGo
    <3>3. serves[l] \in Revisions
      BY <1>1, <2>2 DEF RowsTypeOK
    <3>4. /\ cont'[serves[l]] \in {"completed", "failed"}
          /\ \A r \in Revisions : r # serves[l] => cont'[r] = cont[r]
      BY <3>1, <3>3 DEF RowsTypeOK
    <3>5. \A m \in Lanes : serves'[m] # None =>
             cont'[serves'[m]] = "running" /\ pc'[m] # "idle"
      <4> SUFFICES ASSUME NEW m \in Lanes, serves'[m] # None
                   PROVE  cont'[serves'[m]] = "running" /\ pc'[m] # "idle"
        OBVIOUS
      <4>1. m # l /\ serves[m] = serves'[m] /\ pc'[m] = pc[m] /\ serves[m] \in Revisions
        BY <1>1, <1>2 DEF RowsTypeOK
      <4>2. serves[m] # serves[l]
        BY <4>1 DEF Turned, Holds
      <4> QED
        BY <3>4, <4>1, <4>2 DEF Turned, Holds
    <3>6. \A r \in Revisions : cont'[r] = "running" => \E m \in Lanes : serves'[m] = r
      <4> SUFFICES ASSUME NEW r \in Revisions, cont'[r] = "running"
                   PROVE  \E m \in Lanes : serves'[m] = r
        OBVIOUS
      <4>1. r # serves[l] /\ cont[r] = "running"
        BY <3>4
      <4>2. PICK m \in Lanes : serves[m] = r
        BY <4>1 DEF Turned, Holds
      <4> QED
        BY <4>1, <4>2, <1>1, <1>2
    <3>7. job' = "running" => owner' \in Lanes /\ IsDispatch(owner)' /\ pc'[owner'] # "idle"
      BY <1>1, <1>2, <2>2, <3>2 DEF Turned, Holds, IsDispatch
    <3> QED
      BY <1>1, <1>2, <3>2, <3>5, <3>6, <3>7 DEF Turned, Holds, IsDispatch
  <2> QED
    BY <2>1, <2>2
<1>7. OneTurn'
  BY <1>2, <1>3, <1>4, <1>5 DEF Turned, OneTurn
<1>8. InStep'
  BY <1>1, <1>2, <1>3, <1>4, <1>5 DEF Turned, InStep
<1>9. Decided'
  <2>1. \A r \in Revisions : Pending(r)' \/ (\E m \in Lanes : Acting(m)' /\ serves'[m] = r) =>
          Pending(r) \/ (\E m \in Lanes : Acting(m) /\ serves[m] = r)
    BY <1>1, <1>2, <1>3, <1>5
  <2>2. (\E m \in Lanes : Acting(m)' /\ serves'[m] = None) =>
           \E m \in Lanes : Acting(m) /\ serves[m] = None
    BY <1>1, <1>2, <1>3
  <2>3. Recovering' => Recovering
    BY <1>2 DEF Recovering
  <2>4. \A m \in Lanes : pc'[m] \in {"insufficient", "undecided"} =>
          (coverage[CoverageOf(serves[m])] = "awaiting")'
    BY <1>1, <1>2 DEF Turned, Decided, CoverageOf
  <2> QED
    BY <1>2, <1>4, <2>1, <2>2, <2>3, <2>4 DEF Turned, Decided
<1> QED
  BY <1>6, <1>7, <1>8, <1>9 DEF Turned

\* A thread takes the job in line, whose turn it is then.
LEMMA JobTaken ==
    ASSUME RowsTypeOK, CallsInv, Turned, NEW l \in Lanes, TakesJob(l)
    PROVE  Turned'
<1>1. /\ l \in Threads /\ Lanes \subseteq Threads /\ analyst \in Threads /\ l # analyst
      /\ \A m \in Lanes : m # analyst
  BY ResearchAssumption DEF Threads
<1>2. /\ job = "queued" /\ job' = "running" /\ owner' = l /\ ~jobExpired'
      /\ pc[l] = "idle" /\ serves[l] = None
      /\ pc'[l] = "claimed" /\ \A t \in Threads : t # l => pc'[t] = pc[t]
      /\ UNCHANGED <<state, error, scopeVars, req, serves>>
  BY <1>1 DEF TakesJob, Go, RowsTypeOK, CallsInv
<1>3. /\ \A m \in Lanes : ~Acting(m) /\ ~(IsDispatch(m) /\ pc[m] # "idle")
      /\ req = "idle" /\ \A r \in Revisions : ~Pending(r)
      /\ state = "retrieval_queued" /\ decision[1] = "none"
  BY <1>2 DEF Turned, OneTurn, Holds, InStep, Decided
<1>4. \A m \in Lanes : Acting(m)' => m = l
  BY <1>1, <1>2, <1>3 DEF Acting, IsCont
<1>5. Holds'
  BY <1>1, <1>2, <1>3 DEF Turned, Holds, IsDispatch, Entering
<1>6. OneTurn'
  BY <1>2, <1>3, <1>4 DEF OneTurn, Pending
<1>7. InStep'
  BY <1>2, <1>3, <1>4 DEF InStep, Pending, Entering, Retrieving, Evaluating
<1>8. Decided'
  <2>1. \A m \in Lanes : pc'[m] \in {"insufficient", "undecided"} =>
          (coverage[CoverageOf(serves[m])] = "awaiting")'
    BY <1>1, <1>2 DEF Turned, Decided, CoverageOf
  <2>2. \A r \in Revisions : ~Pending(r)'
    BY <1>2, <1>3 DEF Pending
  <2>3. \A m \in Lanes, r \in Revisions : Acting(m)' => serves'[m] # r
    BY <1>2, <1>4 DEF Revisions, None
  <2> QED
    BY <1>2, <1>3, <2>1, <2>2, <2>3 DEF Turned, Decided
<1> QED
  BY <1>5, <1>6, <1>7, <1>8 DEF Turned

\* A thread takes the accepted decision, whose turn it is then.
LEMMA ContTaken ==
    ASSUME RowsTypeOK, CallsInv, Turned, NEW l \in Lanes, NEW r \in Revisions, TakesCont(l, r)
    PROVE  Turned'
<1>1. /\ l \in Threads /\ Lanes \subseteq Threads /\ analyst \in Threads /\ l # analyst
      /\ \A m \in Lanes : m # analyst
      /\ r # None
  BY ResearchAssumption DEF Threads, Revisions, None
<1>2. /\ Pending(r) /\ cont[r] = "pending" /\ cont'[r] = "running"
      /\ \A q \in Revisions : q # r => cont'[q] = cont[q]
      /\ pc[l] = "idle" /\ serves[l] = None /\ pc'[l] = "entering" /\ serves'[l] = r
      /\ \A t \in Threads : t # l => pc'[t] = pc[t] /\ serves'[t] = serves[t]
      /\ UNCHANGED <<state, error, jobVars, coverage, decision, req>>
  BY <1>1 DEF TakesCont, RowsTypeOK, CallsInv, Pending
<1>3. /\ \A m \in Lanes : ~Acting(m) /\ serves[m] # r
      /\ req = "idle" /\ job # "queued"
      /\ \A q \in Revisions : q # r => ~Pending(q)
      /\ state = "retrieval_queued"
      /\ decision[r] = "expand_coverage" /\ \A q \in Revisions : q > r => decision[q] = "none"
  BY <1>1, <1>2 DEF Turned, OneTurn, Holds, InStep, Decided
<1>4. \A m \in Lanes : Acting(m)' => m = l
  BY <1>1, <1>2, <1>3 DEF Acting, IsCont
<1>5. \A q \in Revisions : ~Pending(q)'
  BY <1>2, <1>3 DEF Pending
<1>6. Holds'
  <2>1. \A q \in Revisions : cont'[q] = "running" => \E m \in Lanes : serves'[m] = q
    <3> SUFFICES ASSUME NEW q \in Revisions, cont'[q] = "running", q # r
                 PROVE  \E m \in Lanes : serves'[m] = q
      BY <1>2
    <3>1. PICK m \in Lanes : serves[m] = q
      BY <1>2 DEF Turned, Holds
    <3>2. m # l
      BY <1>2, <3>1 DEF Revisions, None
    <3> QED
      BY <1>1, <1>2, <3>1, <3>2
  <2>2. \A m \in Lanes : serves'[m] # None => cont'[serves'[m]] = "running" /\ pc'[m] # "idle"
    <3> SUFFICES ASSUME NEW m \in Lanes, serves'[m] # None, m # l
                 PROVE  cont'[serves'[m]] = "running" /\ pc'[m] # "idle"
      BY <1>2
    <3>1. serves'[m] = serves[m] /\ serves[m] \in Revisions /\ serves[m] # r /\ pc'[m] = pc[m]
      BY <1>1, <1>2, <1>3 DEF RowsTypeOK
    <3> QED
      BY <1>2, <3>1 DEF Turned, Holds
  <2>3. job' = "running" => owner' \in Lanes /\ IsDispatch(owner)' /\ pc'[owner'] # "idle"
    BY <1>1, <1>2 DEF Turned, Holds, IsDispatch
  <2> QED
    BY <1>1, <1>2, <1>3, <2>1, <2>2, <2>3 DEF Turned, Holds, IsDispatch, Entering
<1>7. OneTurn'
  BY <1>2, <1>3, <1>4, <1>5 DEF OneTurn
<1>8. InStep'
  BY <1>2, <1>3, <1>4, <1>5 DEF InStep, Entering, Retrieving, Evaluating
<1>9. Decided'
  <2>1. \A m \in Lanes : pc'[m] \in {"insufficient", "undecided"} =>
          (coverage[CoverageOf(serves[m])] = "awaiting")'
    BY <1>1, <1>2 DEF Turned, Decided, CoverageOf
  <2> QED
    BY <1>1, <1>2, <1>3, <1>4, <1>5, <2>1 DEF Turned, Decided, Recovering
<1> QED
  BY <1>6, <1>7, <1>8, <1>9 DEF Turned

\* A decision to expand the coverage gives the turn to its execution.
LEMMA TurnGiven ==
    ASSUME RowsTypeOK, ScopeInv, Turned, NEW r \in Revisions, Expands(r)
    PROVE  Turned'
<1>1. /\ cont[r] = "none" /\ cont'[r] = "pending"
      /\ \A q \in Revisions : q # r => cont'[q] = cont[q] /\ decision'[q] = decision[q]
      /\ decision[r] = "none" /\ decision'[r] = "expand_coverage"
      /\ state = "coverage_decision_required" /\ state' = "retrieval_queued"
      /\ req = "idle" /\ req' = "idle"
      /\ UNCHANGED <<jobVars, coverage, threadVars>>
  BY DEF Expands, ScopeInv, RowsTypeOK
<1>2. /\ \A l \in Lanes : ~Acting(l)
      /\ job # "queued" /\ \A q \in Revisions : ~Pending(q)
  BY <1>1 DEF Turned, InStep
<1>3. /\ \A l \in Lanes : ~Acting(l)'
      /\ \A q \in Revisions : Pending(q)' => q = r
  BY <1>1, <1>2 DEF Acting, IsCont, Pending
<1>4. \A q \in Revisions : q > r => decision'[q] = "none"
  BY <1>1 DEF ScopeInv, Revisions
<1>5. Holds'
  <2>1. \A l \in Lanes : serves[l] # None => cont'[serves[l]] = "running" /\ pc[l] # "idle"
    <3> SUFFICES ASSUME NEW l \in Lanes, serves[l] # None
                 PROVE  cont'[serves[l]] = "running" /\ pc[l] # "idle"
      OBVIOUS
    <3>1. serves[l] \in Revisions /\ serves[l] # r
      BY <1>1 DEF Turned, Holds, RowsTypeOK, Threads
    <3> QED
      BY <1>1, <3>1 DEF Turned, Holds
  <2>2. \A q \in Revisions : cont'[q] = "running" => \E l \in Lanes : serves[l] = q
    BY <1>1 DEF Turned, Holds
  <2> QED
    BY <1>1, <2>1, <2>2 DEF Turned, Holds, IsDispatch
<1>6. OneTurn'
  BY <1>1, <1>2, <1>3 DEF OneTurn
<1>7. InStep'
  BY <1>1, <1>3 DEF InStep
<1>8. Decided'
  <2>1. \A l \in Lanes : pc'[l] \notin {"insufficient", "undecided"}
    BY <1>3 DEF Acting
  <2>2. \A q \in Revisions : decision'[q] # "generate_limited_report"
    BY <1>1 DEF Turned, Decided
  <2> QED
    BY <1>1, <1>2, <1>3, <1>4, <2>1, <2>2 DEF Decided, Recovering
<1> QED
  BY <1>5, <1>6, <1>7, <1>8 DEF Turned

\* The retry of a retrieval takes the turn until its job is in line.
LEMMA TurnRetried ==
    ASSUME RowsTypeOK, Turned, Retries \/ RetryGoesOn
    PROVE  Turned'
<1>1. CASE Retries
  <2>1. /\ \A l \in Lanes : ~Acting(l)
        /\ job # "queued" /\ \A q \in Revisions : ~Pending(q)
        /\ decision[1] = "none"
    BY <1>1 DEF Retries, Recovering, Turned, InStep, Decided
  <2>2. /\ state' = "retrieval_queued" /\ req' = "requeue"
        /\ UNCHANGED <<jobVars, scopeVars, threadVars>>
    BY <1>1 DEF Retries
  <2>3. /\ \A l \in Lanes : ~Acting(l)'
        /\ \A q \in Revisions : ~Pending(q)'
    BY <2>1, <2>2 DEF Acting, IsCont, Pending
  <2>4. Holds'
    BY <2>2 DEF Turned, Holds, IsDispatch
  <2>5. OneTurn' /\ InStep'
    BY <2>1, <2>2, <2>3 DEF OneTurn, InStep
  <2>6. Decided'
    BY <2>1, <2>2, <2>3 DEF Turned, Decided, CoverageOf
  <2> QED
    BY <2>4, <2>5, <2>6 DEF Turned
<1>2. CASE RetryGoesOn
  <2>1. /\ \A l \in Lanes : ~Acting(l)
        /\ job # "queued" /\ \A q \in Revisions : ~Pending(q)
        /\ decision[1] = "none" /\ state = "retrieval_queued"
    BY <1>2 DEF RetryGoesOn, Turned, OneTurn, InStep, Decided
  <2>2. /\ req' \in {"idle", "restart", "dispatch"}
        /\ job' = job \/ (req' = "idle" /\ job # "running" /\ job' = "queued")
        /\ UNCHANGED <<state, error, owner, jobExpired, scopeVars, threadVars>>
    BY <1>2 DEF RetryGoesOn
  <2>3. /\ \A l \in Lanes : ~Acting(l)'
        /\ \A q \in Revisions : ~Pending(q)'
    BY <2>1, <2>2 DEF Acting, IsCont, Pending
  <2>4. Holds'
    BY <2>2 DEF Turned, Holds, IsDispatch
  <2>5. OneTurn' /\ InStep'
    BY <2>1, <2>2, <2>3 DEF OneTurn, InStep
  <2>6. Decided'
    BY <2>1, <2>2, <2>3 DEF Turned, Decided, CoverageOf
  <2> QED
    BY <2>4, <2>5, <2>6 DEF Turned
<1> QED
  BY <1>1, <1>2

LEMMA TurnStays == ASSUME Turned, Stays PROVE Turned'
<1>1. /\ UNCHANGED <<Holds, InStep>>
      /\ UNCHANGED <<OneTurn, Decided>>
  BY DEF Stays, Holds, OneTurn, InStep, Decided, Acting, Pending, IsCont, IsDispatch,
         Recovering, CoverageOf
<1> QED
  BY <1>1 DEF Turned

LEMMA TurnsKeep ==
    ASSUME RowsTypeOK, CallsInv, ScopeInv, Turned, Turns
    PROVE  Turned'
BY TurnTaken, TurnLeft, JobTaken, ContTaken, TurnGiven, TurnRetried, TurnStays DEF Turns

\* While nothing was lost: nothing has started before the scope is confirmed,
\* and while evidence is gathered at most one of the job, an accepted decision, a
\* thread that executes one of them and a retry has the turn to move the run.
TurnInv == faults = 0 => /\ Early => Unstarted
                         /\ Gathering => Turned

LEMMA TurnSteps ==
    ASSUME IInv, TurnInv, ResearchNext
    PROVE  TurnInv'
<1> SUFFICES ASSUME faults' = 0
             PROVE  (Early' => Unstarted') /\ (Gathering' => Turned')
  BY DEF TurnInv
<1>1. RowsTypeOK /\ CallsInv /\ ScopeInv
  BY TypeParts DEF IInv
<1>2. faults = 0 /\ faults' = faults /\ faults \in Nat
  BY <1>1, FaultSteps, ResearchAssumption DEF RowsTypeOK
<1>3. CASE Early /\ ~Gathering
  BY <1>1, <1>2, <1>3, EarlySteps, FirstTurn DEF TurnInv
<1>4. CASE Gathering
  <2>1. Turned
    BY <1>2, <1>4 DEF TurnInv
  <2>2. ~Early'
    BY <1>1, <1>2, <1>4, <2>1, NotEarlyAgain DEF Turned
  <2>3. Gathering' => Turns
    BY <1>1, <1>2, <1>4, <2>1, GatherSteps DEF Turned
  <2> QED
    BY <1>1, <2>1, <2>2, <2>3, TurnsKeep
<1>5. CASE ~Early /\ ~Gathering
  BY <1>1, <1>2, <1>5, LateStays
<1> QED
  BY <1>3, <1>4, <1>5

LEMMA TurnInit == ResearchInit => TurnInv
BY DEF ResearchInit, TurnInv, Unstarted, Gathering, Recovering

\* While nothing was lost, a run whose user is asked for a decision owes one, and
\* nothing accepted before is still to run, for any lanes and any number of
\* revisions.
THEOREM DecisionsStayOpen == ResearchSpec => []DecisionsAreOpen
<1>1. IInv /\ TurnInv /\ [ResearchNext]_vars => TurnInv'
  <2>1. ASSUME TurnInv, UNCHANGED vars PROVE TurnInv'
    <3>1. Turned => Turned'
      BY <2>1, TurnStays DEF vars, Stays
    <3> QED
      BY <2>1, <3>1 DEF vars, TurnInv, Early, Gathering, Recovering, Unstarted
  <2> QED
    BY <2>1, TurnSteps
<1>2. TurnInv => DecisionsAreOpen
  <2> SUFFICES ASSUME TurnInv, state = "coverage_decision_required", faults = 0
               PROVE  \E r \in Revisions : /\ coverage[r] = "awaiting" /\ decision[r] = "none"
                                           /\ \A q \in Revisions : cont[q] # "pending"
    BY DEF DecisionsAreOpen
  <2>1. Turned
    BY DEF TurnInv, Gathering
  <2> QED
    BY <2>1 DEF Turned, InStep, Decided, Pending
<1> QED
  BY <1>1, <1>2, TurnInit, InductiveInvariant, PTL DEF ResearchSpec
=============================================================================
