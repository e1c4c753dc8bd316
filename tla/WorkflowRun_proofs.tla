------------------------- MODULE WorkflowRun_proofs -------------------------
(***************************************************************************)
(* Proofs about WorkflowRun for any template, budget, set of publications  *)
(* and callers: what its transactions keep true whoever issues them.       *)
(***************************************************************************)
EXTENDS WorkflowRun, TLAPS

\* Bulk updates of the jobs and the steps stay in their tables' domains.
LEMMA BulkTypes ==
    ASSUME TypeOK
    PROVE  /\ \A from, to : JobsFrom(from, to) /\ to \in JobStatus
                              => job' \in [Steps -> JobStatus]
           /\ \A from, to : StepsFrom(from, to) /\ to \in StepStatus
                              => step' \in [Steps -> StepStatus]
           /\ \A s, to : SetStep(s, to) /\ to \in StepStatus
                              => step' \in [Steps -> StepStatus]
           /\ \A o : Converge(o) => step' \in [Steps -> StepStatus]
  <1>1. /\ job \in [Steps -> JobStatus]
        /\ step \in [Steps -> StepStatus]
    BY DEF TypeOK, JobStoreTypeOK
  <1>2. "cancelled" \in StepStatus /\ "failed" \in StepStatus
    BY DEF StepStatus
  <1>3. \A from, to : JobsFrom(from, to) /\ to \in JobStatus
                         => job' \in [Steps -> JobStatus]
    BY <1>1 DEF JobsFrom
  <1>4. \A from, to : StepsFrom(from, to) /\ to \in StepStatus
                         => step' \in [Steps -> StepStatus]
    BY <1>1 DEF StepsFrom
  <1>5. \A s, to : SetStep(s, to) /\ to \in StepStatus
                         => step' \in [Steps -> StepStatus]
    BY <1>1 DEF SetStep
  <1>6. \A o : Converge(o) => step' \in [Steps -> StepStatus]
    BY <1>1, <1>2 DEF Converge
  <1> QED BY <1>3, <1>4, <1>5, <1>6

LEMMA JobTypes ==
    ASSUME TypeOK, NEW s \in Steps, JobStep(s)
    PROVE  JobStoreTypeOK'
  <1>1. /\ job \in [Steps -> JobStatus]
        /\ attempts \in [Steps -> 0..MaxAttempts + 1]
        /\ MaxAttempts \in Nat
    BY TemplateAssumption DEF TypeOK, JobStoreTypeOK
  <1>2. CASE Lease(s)
    <2>1. job' \in [Steps -> JobStatus]
      BY <1>1, <1>2 DEF Lease, JobStatus
    <2>2. attempts' = [attempts EXCEPT ![s] = IF @ > MaxAttempts THEN @ ELSE @ + 1]
      BY <1>2 DEF Lease
    <2>3. attempts[s] \in 0..MaxAttempts + 1
      BY <1>1
    <2>4. (IF attempts[s] > MaxAttempts THEN attempts[s] ELSE attempts[s] + 1)
             \in 0..MaxAttempts + 1
      BY <1>1, <2>3
    <2>5. attempts' \in [Steps -> 0..MaxAttempts + 1]
      BY <1>1, <2>2, <2>4
    <2> QED BY <2>1, <2>5 DEF JobStoreTypeOK
  <1>3. CASE \/ Enqueue(s) \/ MarkSucceeded(s) \/ MarkFailed(s)
             \/ ScheduleRetry(s) \/ PauseJob(s) \/ ResumeJob(s) \/ CancelJob(s)
    <2>1. job' \in [Steps -> JobStatus]
      BY <1>1, <1>3
      DEF Enqueue, MarkSucceeded, MarkFailed, ScheduleRetry, PauseJob, ResumeJob,
          CancelJob, JobStatus, Terminated
    <2>2. attempts' = attempts
      BY <1>3
      DEF Enqueue, MarkSucceeded, MarkFailed, ScheduleRetry, PauseJob, ResumeJob,
          CancelJob
    <2> QED BY <1>1, <2>1, <2>2 DEF JobStoreTypeOK
  <1> QED BY <1>2, <1>3 DEF JobStep

LEMMA ExpiryTypes ==
    ASSUME TypeOK, ExpireLeases
    PROVE  TypeOK'
  <1>1. PICK E \in SUBSET {s \in Steps : job[s] = "running"} : RecoverExpired(E)
    BY DEF ExpireLeases
  <1>2. JobStoreTypeOK'
    BY <1>1 DEF RecoverExpired, TypeOK, JobStoreTypeOK, JobStatus, Terminated
  <1>3. UNCHANGED runVars
    BY DEF ExpireLeases
  <1> QED BY <1>2, <1>3 DEF TypeOK, runVars

LEMMA StepTypes ==
    ASSUME TypeOK, NEW s \in Steps, StepStep(s)
    PROVE  TypeOK'
  <1>1. step \in [Steps -> StepStatus] /\ job \in [Steps -> JobStatus]
    BY DEF TypeOK, JobStoreTypeOK
  <1>2. step[s] \in StepStatus
    BY <1>1
  <1>3. attempts' = attempts /\ failure' = failure /\ artifacts' = artifacts
    BY DEF StepStep, StartStep, CompleteStep, CompleteCancelled, RetryStep, FailStep,
           CancelStep, SkipStep, WaitForUser, RestartStep, AckPause, AckCancel, jobVars
  <1>4. run' \in RunStatus
    BY DEF StepStep, StartStep, CompleteStep, CompleteCancelled, RetryStep, FailStep,
           CancelStep, SkipStep, WaitForUser, RestartStep, AckPause, AckCancel,
           TypeOK, RunStatus, TerminalRun
  <1>5. step' \in [Steps -> StepStatus]
    <2>1. \E to \in StepStatus : SetStep(s, to)
      <3> USE <1>2 DEF StepStatus, LiveStep
      <3>1. CASE StartStep(s) BY <3>1 DEF StartStep
      <3>2. CASE CompleteStep(s) BY <3>2 DEF CompleteStep
      <3>3. CASE CompleteCancelled(s) BY <3>3 DEF CompleteCancelled
      <3>4. CASE RetryStep(s) BY <3>4 DEF RetryStep
      <3>5. CASE FailStep(s) BY <3>5 DEF FailStep
      <3>6. CASE CancelStep(s) BY <3>6 DEF CancelStep
      <3>7. CASE SkipStep(s) BY <3>7 DEF SkipStep
      <3>8. CASE WaitForUser(s) BY <3>8 DEF WaitForUser
      <3>9. CASE RestartStep(s) BY <3>9 DEF RestartStep
      <3>10. CASE AckPause(s) BY <3>10 DEF AckPause
      <3>11. CASE AckCancel(s) BY <3>11 DEF AckCancel
      <3> QED BY <3>1, <3>2, <3>3, <3>4, <3>5, <3>6, <3>7, <3>8, <3>9, <3>10, <3>11
              DEF StepStep
    <2> QED BY <2>1, BulkTypes
  <1>6. job' \in [Steps -> JobStatus]
    <2>1. CASE AckPause(s)
      BY <1>1, <2>1 DEF AckPause, JobStatus
    <2>2. CASE RestartStep(s)
      <3>1. JobsFrom({"paused"}, "queued") BY <2>2 DEF RestartStep
      <3>2. "queued" \in JobStatus BY DEF JobStatus
      <3> QED BY <3>1, <3>2, BulkTypes
    <2>3. CASE ~AckPause(s) /\ ~RestartStep(s)
      BY <1>1, <2>3
      DEF StepStep, StartStep, CompleteStep, CompleteCancelled, RetryStep, FailStep,
          CancelStep, SkipStep, WaitForUser, AckCancel, jobVars
    <2> QED BY <2>1, <2>2, <2>3
  <1> QED BY <1>3, <1>4, <1>5, <1>6 DEF TypeOK, JobStoreTypeOK

LEMMA RunTypes ==
    ASSUME TypeOK, RunStep
    PROVE  TypeOK'
  <1>0. /\ "queued" \in JobStatus /\ "paused" \in JobStatus /\ "cancelled" \in JobStatus
        /\ "pending" \in StepStatus /\ "cancelled" \in StepStatus
    BY DEF JobStatus, Terminated, StepStatus, LiveStep
  <1>1. CASE StartRun
    BY <1>1 DEF StartRun, TypeOK, JobStoreTypeOK, RunStatus, jobVars
  <1>2. CASE InitializeSteps
    <2>1. StepsFrom({"none"}, "pending") BY <1>2 DEF InitializeSteps
    <2> QED BY <1>0, <1>2, <2>1, BulkTypes
            DEF InitializeSteps, TypeOK, JobStoreTypeOK, jobVars
  <1>3. CASE PauseRun
    <2>1. JobsFrom({"queued", "retrying"}, "paused") BY <1>3 DEF PauseRun
    <2> QED BY <1>0, <1>3, <2>1, BulkTypes DEF PauseRun, TypeOK, JobStoreTypeOK, RunStatus
  <1>4. CASE ResumeRun
    <2>1. JobsFrom({"paused"}, "queued") BY <1>4 DEF ResumeRun
    <2> QED BY <1>0, <1>4, <2>1, BulkTypes DEF ResumeRun, TypeOK, JobStoreTypeOK, RunStatus
  <1>5. CASE WakeRun
    <2>1. JobsFrom({"paused"}, "queued") BY <1>5 DEF WakeRun
    <2> QED BY <1>0, <1>5, <2>1, BulkTypes DEF WakeRun, TypeOK, JobStoreTypeOK, runVars
  <1>6. CASE CancelRun
    <2>1. /\ JobsFrom({"queued", "paused", "retrying", "running"}, "cancelled")
          /\ StepsFrom({"pending", "retrying"}, "cancelled")
      BY <1>6 DEF CancelRun
    <2> QED BY <1>0, <1>6, <2>1, BulkTypes DEF CancelRun, TypeOK, JobStoreTypeOK, RunStatus
  <1>7. CASE CompleteRun
    <2>1. step' \in [Steps -> StepStatus]
      BY <1>7, BulkTypes DEF CompleteRun
    <2> QED BY <1>7, <2>1
            DEF CompleteRun, TypeOK, JobStoreTypeOK, RunStatus, TerminalRun, jobVars
  <1>8. CASE CompleteReportFinalization
    <2>1. step' \in [Steps -> StepStatus]
      BY <1>8, BulkTypes DEF CompleteReportFinalization
    <2> QED BY <1>8, <2>1 DEF CompleteReportFinalization, TypeOK, JobStoreTypeOK,
                              RunStatus, TerminalRun, jobVars
  <1>9. ASSUME NEW e \in {OtherFailure} \cup Publications, FailRun(e)
        PROVE  TypeOK'
    <2>1. step' \in [Steps -> StepStatus]
      BY <1>9, BulkTypes DEF FailRun
    <2> QED BY <1>9, <2>1
            DEF FailRun, TypeOK, JobStoreTypeOK, RunStatus, TerminalRun, jobVars
  <1>10. CASE BeginReportFinalization
    BY <1>10 DEF BeginReportFinalization, TypeOK, JobStoreTypeOK, RunStatus, jobVars
  <1>11. ASSUME NEW p \in Publications, RetryFailedReport(p)
         PROVE  TypeOK'
    BY <1>11 DEF RetryFailedReport, TypeOK, JobStoreTypeOK, RunStatus, jobVars
  <1>12. ASSUME NEW o \in Steps \cup {FinalResult}, AttachArtifact(o)
         PROVE  TypeOK'
    BY <1>12 DEF AttachArtifact, TypeOK, JobStoreTypeOK, jobVars
  <1> QED BY <1>1, <1>2, <1>3, <1>4, <1>5, <1>6, <1>7, <1>8, <1>9, <1>10, <1>11, <1>12
          DEF RunStep

LEMMA TypeStep == TypeOK /\ [Next]_dbVars => TypeOK'
  <1> SUFFICES ASSUME TypeOK, [Next]_dbVars PROVE TypeOK'
    OBVIOUS
  <1>1. CASE RunStep BY <1>1, RunTypes
  <1>2. ASSUME NEW s \in Steps, StepStep(s) PROVE TypeOK'
    BY <1>2, StepTypes
  <1>3. ASSUME NEW s \in Steps, JobStep(s) PROVE TypeOK'
    <2>1. JobStoreTypeOK' BY <1>3, JobTypes
    <2>2. UNCHANGED runVars BY <1>3 DEF JobStep
    <2> QED BY <2>1, <2>2 DEF TypeOK, runVars
  <1>4. CASE ExpireLeases BY <1>4, ExpiryTypes
  <1>5. CASE UNCHANGED dbVars
    BY <1>5 DEF dbVars, TypeOK, JobStoreTypeOK
  <1> QED BY <1>1, <1>2, <1>3, <1>4, <1>5 DEF Next

LEMMA TypeInit == Init => TypeOK
  BY TemplateAssumption
  DEF Init, JobStoreInit, TypeOK, JobStoreTypeOK, JobStatus, Terminated, RunStatus,
      TerminalRun, StepStatus, LiveStep

\* The rows keep to their statuses, whoever calls the manager and the store.
THEOREM RunTypeCorrect == Spec => []TypeOK
  <1> QED BY TypeInit, TypeStep, PTL DEF Spec

----------------------------------------------------------------------------
(* Settling *)

\* Whatever the outcome of the run, the boundary leaves no step that can move.
LEMMA BoundarySettles ==
    ASSUME NEW outcome, Converge(outcome)
    PROVE  \A s \in Steps : step'[s] \notin LiveStep
  BY DEF Converge, LiveStep

LEMMA SettledStep ==
    TypeOK /\ EndedRunsAreSettled /\ [Next]_dbVars => EndedRunsAreSettled'
  <1> SUFFICES ASSUME TypeOK, EndedRunsAreSettled, [Next]_dbVars,
                      run' \in {"succeeded", "failed"}
               PROVE  \A s \in Steps : step'[s] \notin LiveStep
    BY DEF EndedRunsAreSettled
  <1>0. step \in [Steps -> StepStatus]
    BY DEF TypeOK
  <1>1. CASE UNCHANGED <<run, step>>
    BY <1>1 DEF EndedRunsAreSettled
  <1>2. CASE CompleteRun \/ CompleteReportFinalization
    <2>1. Converge("succeeded")
      BY <1>2 DEF CompleteRun, CompleteReportFinalization
    <2> QED BY <2>1, BoundarySettles
  <1>3. ASSUME NEW e \in {OtherFailure} \cup Publications, FailRun(e)
        PROVE  \A s \in Steps : step'[s] \notin LiveStep
    <2>1. Converge("failed")
      BY <1>3 DEF FailRun
    <2> QED BY <2>1, BoundarySettles
  <1>4. ASSUME RunStep PROVE \A s \in Steps : step'[s] \notin LiveStep
    <2>1. CASE \/ StartRun \/ PauseRun \/ ResumeRun \/ WakeRun \/ CancelRun
               \/ InitializeSteps \/ BeginReportFinalization
               \/ \E p \in Publications : RetryFailedReport(p)
      BY <2>1 DEF StartRun, PauseRun, ResumeRun, WakeRun, CancelRun, InitializeSteps,
                  BeginReportFinalization, RetryFailedReport, TerminalRun, runVars
    <2>2. CASE \E o \in Steps \cup {FinalResult} : AttachArtifact(o)
      BY <1>1, <2>2 DEF AttachArtifact
    <2> QED BY <1>2, <1>3, <1>4, <2>1, <2>2 DEF RunStep
  <1>5. ASSUME NEW s \in Steps, StepStep(s)
        PROVE  \A t \in Steps : step'[t] \notin LiveStep
    <2>1. run' = run
      BY <1>5 DEF StepStep, StartStep, CompleteStep, CompleteCancelled, RetryStep,
                  FailStep, CancelStep, SkipStep, WaitForUser, RestartStep, AckPause,
                  AckCancel
    <2>2. \A t \in Steps : step[t] \notin LiveStep
      BY <2>1 DEF EndedRunsAreSettled
    <2>3. SetStep(s, "failed") /\ step[s] \in {"running", "retrying"}
      BY <1>5, <2>1, <2>2
      DEF StepStep, StartStep, CompleteStep, CompleteCancelled, RetryStep, FailStep,
          CancelStep, SkipStep, WaitForUser, RestartStep, AckPause, AckCancel, LiveStep
    <2> QED BY <2>2, <2>3 DEF LiveStep
  <1>6. ASSUME NEW s \in Steps, JobStep(s)
        PROVE  \A t \in Steps : step'[t] \notin LiveStep
    BY <1>1, <1>6 DEF JobStep, runVars
  <1>7. CASE ExpireLeases \/ UNCHANGED dbVars
    BY <1>1, <1>7 DEF ExpireLeases, dbVars, runVars
  <1> QED BY <1>4, <1>5, <1>6, <1>7 DEF Next

\* Nothing that happens after a run has succeeded or failed revives a step.
THEOREM EndIsFinal == Spec => []EndedRunsAreSettled
  <1>1. Init => EndedRunsAreSettled
    BY DEF Init, EndedRunsAreSettled
  <1> QED BY <1>1, SettledStep, RunTypeCorrect, PTL DEF Spec

----------------------------------------------------------------------------
(* Reopening *)

LEMMA FailedStays ==
    ASSUME run = "failed", [Next]_dbVars, run' # "failed"
    PROVE  \E p \in Publications : RetryFailedReport(p)
  <1>1. CASE RunStep
    BY <1>1 DEF RunStep, StartRun, PauseRun, ResumeRun, WakeRun, CancelRun,
                InitializeSteps, CompleteRun, BeginReportFinalization,
                CompleteReportFinalization, FailRun, AttachArtifact, TerminalRun, runVars
  <1>2. ASSUME NEW s \in Steps, StepStep(s) PROVE FALSE
    BY <1>2 DEF StepStep, StartStep, CompleteStep, CompleteCancelled, RetryStep,
                FailStep, CancelStep, SkipStep, WaitForUser, RestartStep, AckPause,
                AckCancel
  <1>3. ASSUME NEW s \in Steps, JobStep(s) PROVE FALSE
    BY <1>3 DEF JobStep, runVars
  <1>4. CASE ExpireLeases
    BY <1>4 DEF ExpireLeases, runVars
  <1> QED BY <1>1, <1>2, <1>3, <1>4 DEF Next, dbVars

\* A failed run is reopened only by its own publication, its research done.
THEOREM FailuresAreKept == Spec => OnlyReportsReopen
  <1>1. [Next]_dbVars =>
          (run = "failed" /\ run' # "failed" =>
             /\ run' = "finalizing_report" /\ failure \in Publications
             /\ ResearchStep \in Steps /\ step[ResearchStep] = "succeeded")
    <2> SUFFICES ASSUME [Next]_dbVars, run = "failed", run' # "failed"
                 PROVE  /\ run' = "finalizing_report" /\ failure \in Publications
                        /\ ResearchStep \in Steps /\ step[ResearchStep] = "succeeded"
      OBVIOUS
    <2>1. PICK p \in Publications : RetryFailedReport(p)
      BY FailedStays
    <2>2. ResearchStep \in Steps
      BY <2>1, MarksAssumption, TemplateAssumption DEF RetryFailedReport, Steps
    <2> QED BY <2>1, <2>2 DEF RetryFailedReport
  <1> QED BY <1>1, PTL DEF Spec, OnlyReportsReopen

----------------------------------------------------------------------------
(* Refinement of the documented lifecycle *)

Done == {s \in Steps : step[s] = "succeeded"}

LEMMA BulkKeepsDone ==
    ASSUME TypeOK
    PROVE  /\ \A from, to : StepsFrom(from, to) /\ "succeeded" \notin from
                              /\ to # "succeeded" => Done' = Done
           /\ \A o : Converge(o) => Done' = Done
           /\ \A s \in Steps : \A to :
                SetStep(s, to) /\ (to = "succeeded" <=> step[s] = "succeeded")
                  => Done' = Done
  <1> USE DEF Done
  <1>0. step \in [Steps -> StepStatus]
    BY DEF TypeOK
  <1>1. \A from, to : StepsFrom(from, to) /\ "succeeded" \notin from
                              /\ to # "succeeded" => Done' = Done
    BY <1>0 DEF StepsFrom
  <1>2. \A o : Converge(o) => Done' = Done
    BY <1>0 DEF Converge, LiveStep
  <1>3. ASSUME NEW s \in Steps, NEW to,
               SetStep(s, to), to = "succeeded" <=> step[s] = "succeeded"
        PROVE  Done' = Done
    <2>1. \A t \in Steps : step'[t] = IF t = s THEN to ELSE step[t]
      BY <1>0, <1>3 DEF SetStep
    <2> QED BY <1>3, <2>1
  <1> QED BY <1>1, <1>2, <1>3

Status == IF run = "none" THEN "created" ELSE run

\* A move of the run along an edge, with nothing finished or delivered.
LEMMA EdgeMoves ==
    ASSUME <<Status, Status'>> \in Lifecycle!Edges, Done' = Done, artifacts' = artifacts
    PROVE  Lifecycle!Next
  <1>1. Status' \in {e[2] : e \in {x \in Lifecycle!Edges : x[1] = Status}}
    <2>1. <<Status, Status'>>[1] = Status /\ <<Status, Status'>>[2] = Status'
      OBVIOUS
    <2> QED BY <2>1
  <1>2. Lifecycle!Move
    BY <1>1 DEF Lifecycle!Move, Status, Done
  <1> QED BY <1>2 DEF Lifecycle!Next

\* Same status, finished steps and outputs: a stutter of the lifecycle.
LEMMA QuietStutters ==
    ASSUME run' = run, Done' = Done, artifacts' = artifacts
    PROVE  UNCHANGED Lifecycle!view
  BY DEF Lifecycle!view, Done

LEMMA DeliveryIsAllowed ==
    ASSUME NEW o \in Steps \cup {FinalResult}, AttachArtifact(o), TypeOK
    PROVE  Lifecycle!Next
  <1>1. /\ artifacts' = artifacts \cup {o} /\ run' = run /\ step' = step
    BY DEF AttachArtifact
  <1>2. \/ Status \in Lifecycle!Open
        \/ Status = "succeeded" /\ o = FinalResult
    BY DEF AttachArtifact, MayAttach, Status, Lifecycle!Open, TypeOK, RunStatus,
           TerminalRun
  <1>3. Lifecycle!Deliver(o)
    BY <1>1, <1>2 DEF Lifecycle!Deliver, Status
  <1> QED BY <1>3 DEF Lifecycle!Next

LEMMA RunImplements ==
    ASSUME TypeOK, RunStep
    PROVE  [Lifecycle!Next]_Lifecycle!view
  <1>1. CASE StartRun
    <2>1. /\ <<Status, Status'>> \in Lifecycle!Edges
          /\ Done' = Done /\ artifacts' = artifacts
      BY <1>1 DEF StartRun, Status, Lifecycle!Edges, Done
    <2> QED BY <2>1, EdgeMoves
  <1>2. CASE InitializeSteps
    <2>1. StepsFrom({"none"}, "pending") /\ run' = run /\ artifacts' = artifacts
      BY <1>2 DEF InitializeSteps
    <2>2. Done' = Done
      BY <2>1, BulkKeepsDone
    <2> QED BY <2>1, <2>2, QuietStutters
  <1>3. CASE PauseRun \/ ResumeRun \/ BeginReportFinalization
             \/ \E p \in Publications : RetryFailedReport(p)
    <2>1. Done' = Done /\ artifacts' = artifacts
      BY <1>3 DEF PauseRun, ResumeRun, BeginReportFinalization, RetryFailedReport, Done
    <2>2. <<Status, Status'>> \in Lifecycle!Edges
      BY <1>3 DEF PauseRun, ResumeRun, BeginReportFinalization, RetryFailedReport,
                  Status, Lifecycle!Edges
    <2> QED BY <2>1, <2>2, EdgeMoves
  <1>4. CASE WakeRun
    <2>1. run' = run /\ Done' = Done /\ artifacts' = artifacts
      BY <1>4 DEF WakeRun, runVars, Done
    <2> QED BY <2>1, QuietStutters
  <1>5. CASE CancelRun
    <2>1. StepsFrom({"pending", "retrying"}, "cancelled") /\ artifacts' = artifacts
      BY <1>5 DEF CancelRun
    <2>2. Done' = Done
      BY <2>1, BulkKeepsDone
    <2>3. <<Status, Status'>> \in Lifecycle!Edges
      BY <1>5 DEF CancelRun, Status, Lifecycle!Edges
    <2> QED BY <2>1, <2>2, <2>3, EdgeMoves
  <1>6. CASE CompleteRun \/ CompleteReportFinalization
             \/ \E e \in {OtherFailure} \cup Publications : FailRun(e)
    <2>1. /\ \E o : Converge(o)
          /\ artifacts' = artifacts
      BY <1>6 DEF CompleteRun, CompleteReportFinalization, FailRun
    <2>2. Done' = Done
      BY <2>1, BulkKeepsDone
    <2>3. <<Status, Status'>> \in Lifecycle!Edges
      BY <1>6 DEF CompleteRun, CompleteReportFinalization, FailRun, Status,
                  Lifecycle!Edges
    <2> QED BY <2>1, <2>2, <2>3, EdgeMoves
  <1>7. ASSUME NEW o \in Steps \cup {FinalResult}, AttachArtifact(o)
        PROVE  [Lifecycle!Next]_Lifecycle!view
    BY <1>7, DeliveryIsAllowed
  <1> QED BY <1>1, <1>2, <1>3, <1>4, <1>5, <1>6, <1>7 DEF RunStep

LEMMA StepImplements ==
    ASSUME TypeOK, NEW s \in Steps, StepStep(s)
    PROVE  [Lifecycle!Next]_Lifecycle!view
  <1>0. step \in [Steps -> StepStatus] /\ step[s] \in StepStatus
    BY DEF TypeOK
  <1>1. artifacts' = artifacts
    BY DEF StepStep, StartStep, CompleteStep, CompleteCancelled, RetryStep, FailStep,
           CancelStep, SkipStep, WaitForUser, RestartStep, AckPause, AckCancel
  <1>2. CASE CompleteStep(s)
    <2>1. /\ run = "running" /\ run' = run /\ s \notin Done
      BY <1>2 DEF CompleteStep, Done
    <2>2. \A t \in Steps : step'[t] = IF t = s THEN "succeeded" ELSE step[t]
      BY <1>0, <1>2 DEF CompleteStep, SetStep
    <2>3. Done' = Done \cup {s}
      BY <2>2 DEF Done
    <2>4. Lifecycle!FinishStep(s)
      BY <1>1, <2>1, <2>3 DEF Lifecycle!FinishStep, Done
    <2> QED BY <2>4 DEF Lifecycle!Next
  <1>3. CASE ~CompleteStep(s)
    <2>1. \E to : SetStep(s, to) /\ (to = "succeeded" <=> step[s] = "succeeded")
      <3>1. CASE StartStep(s) \/ RetryStep(s) \/ FailStep(s)
        BY <3>1 DEF StartStep, RetryStep, FailStep
      <3>2. CASE CancelStep(s) \/ SkipStep(s) \/ WaitForUser(s) \/ RestartStep(s)
        BY <3>2 DEF CancelStep, SkipStep, WaitForUser, RestartStep, LiveStep
      <3>3. CASE CompleteCancelled(s)
        BY <3>3 DEF CompleteCancelled
      <3>4. CASE AckPause(s)
        BY <3>4 DEF AckPause
      <3>5. CASE AckCancel(s)
        BY <3>5 DEF AckCancel, LiveStep
      <3> QED BY <1>3, <3>1, <3>2, <3>3, <3>4, <3>5 DEF StepStep
    <2>2. Done' = Done
      BY <2>1, BulkKeepsDone
    <2>3. run' = run \/ <<Status, Status'>> \in Lifecycle!Edges
      BY <1>3
      DEF StepStep, StartStep, CompleteCancelled, RetryStep, FailStep, CancelStep,
          SkipStep, WaitForUser, RestartStep, AckPause, AckCancel, Status,
          Lifecycle!Edges
    <2> QED BY <1>1, <2>2, <2>3, QuietStutters, EdgeMoves
  <1> QED BY <1>2, <1>3

\* Every transaction on the run is a step of the documented lifecycle.
THEOREM ImplementsLifecycle == Spec => LifecycleSpec
  <1>1. Init => Lifecycle!Init
    BY DEF Init, Lifecycle!Init
  <1>2. TypeOK /\ [Next]_dbVars => [Lifecycle!Next]_Lifecycle!view
    <2> SUFFICES ASSUME TypeOK, [Next]_dbVars
                 PROVE  [Lifecycle!Next]_Lifecycle!view
      OBVIOUS
    <2>1. ASSUME NEW s \in Steps, JobStep(s)
          PROVE  UNCHANGED Lifecycle!view
      BY <2>1, QuietStutters DEF JobStep, runVars, Done
    <2>2. CASE ExpireLeases \/ UNCHANGED dbVars
      BY <2>2, QuietStutters DEF ExpireLeases, dbVars, runVars, Done
    <2> QED BY <2>1, <2>2, RunImplements, StepImplements DEF Next
  <1> QED BY <1>1, <1>2, RunTypeCorrect, PTL DEF Spec, LifecycleSpec, Lifecycle!Spec
=============================================================================
