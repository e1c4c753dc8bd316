------------------------ MODULE ScopeExecution_proofs ------------------------
(***************************************************************************)
(* Proofs about ScopeExecution for any number of lanes, decisions, calls   *)
(* and faults.  The inductive invariant says what the rows of a unit look  *)
(* like - every attempt before the latest failed, none after it, the unit  *)
(* in the state of the latest - and that an attempt belongs to one lane at *)
(* most, which is in a provider call only while the attempt is the latest  *)
(* and its record still says "requested".                                  *)
(***************************************************************************)
EXTENDS ScopeExecution, TLAPS

Started == Beating \cup {"ending", "closing"}
MidCall == {"flushing", "calling", "answered"}
Spoken == {"running", "outcome_unknown", "cancelled"}

Rows ==
    \A u \in Units :
        /\ unit[u] = attempt[u][last[u]]
        /\ \A n \in Attempts : /\ n < last[u] => attempt[u][n] = "failed"
                               /\ n > last[u] => attempt[u][n] = "none"
        /\ cont[u] = "none" => last[u] = 1 /\ unit[u] = "none"

Control ==
    \A l \in Lanes :
        /\ pc[l] # "idle" => held[l] \in Units
        /\ pc[l] \in Started =>
              /\ no[l] \in Attempts /\ no[l] <= last[held[l]]
              /\ attempt[held[l]][no[l]] \notin {"none", "pending"}
        /\ pc[l] \notin Started => no[l] = None

Exclusive ==
    \A l, m \in Lanes :
        l # m /\ no[l] # None /\ held[l] = held[m] => no[l] # no[m]

CallRows ==
    \A l \in Lanes : pc[l] \in MidCall =>
        /\ no[l] = last[held[l]]
        /\ provider[held[l]][no[l]] = "requested"
        /\ attempt[held[l]][no[l]] \in Spoken

\* A call in doubt: nobody may write the attempt's record any more.
Doubt ==
    \A u \in Units, n \in Attempts : <<u, n>> \in inDoubt =>
        /\ n = last[u] /\ provider[u][n] = "requested" /\ attempt[u][n] \in Spoken
        /\ attempt[u][n] = "running" =>
              unitExpired[u] \/ ~\E l \in Lanes : held[l] = u /\ no[l] = n

Earned ==
    /\ CompletionIsEarned
    /\ \A l \in Lanes : verdict[l] = "completed" =>
          /\ pc[l] = "ending" => product[held[l]]
          /\ pc[l] = "closing" => unit[held[l]] = "completed"

IInv == ScopeTypeOK /\ Rows /\ Control /\ Exclusive /\ CallRows /\ Doubt /\ Earned

----------------------------------------------------------------------------
(* What a lane holds *)

LEMMA Bounds == MaxAttempts \in Nat /\ 1 \in Attempts /\ None \notin Attempts
                /\ \A n \in Attempts : n \in Nat
  BY ScopeAssumption DEF Attempts, MaxAttempts, None

LEMMA HeldTypes ==
    ASSUME IInv, NEW l \in Lanes, pc[l] # "idle"
    PROVE  /\ held[l] \in Units /\ last[held[l]] \in Attempts
           /\ pc[l] \in Started => no[l] \in Attempts
           /\ Owns(l) /\ pc[l] \in Started => no[l] = last[held[l]]
  <1>1. held[l] \in Units /\ (pc[l] \in Started => no[l] \in Attempts /\ no[l] <= last[held[l]])
    BY DEF IInv, Control
  <1>2. last[held[l]] \in Attempts
    BY <1>1 DEF IInv, ScopeTypeOK
  <1>3. ASSUME Owns(l), pc[l] \in Started PROVE no[l] = last[held[l]]
    <2>1. ~(no[l] < last[held[l]])
      BY <1>1, <1>3 DEF Owns, IInv, Rows
    <2> QED BY <1>1, <1>2, <1>3, <2>1, Bounds
  <1> QED BY <1>1, <1>2, <1>3

States == Verdicts \cup {"none", "pending", "running", "cancelled"}
Facts == Outcomes \cup {"none", "requested"}

\* One attempt's row, one attempt's provider record.
LEMMA RowTypes ==
    ASSUME ScopeTypeOK, NEW u \in Units, NEW n \in Attempts, NEW s \in States
    PROVE  [attempt EXCEPT ![u][n] = s] \in [Units -> [Attempts -> States]]
  BY DEF ScopeTypeOK, States

LEMMA ProviderTypes ==
    ASSUME ScopeTypeOK, NEW u \in Units, NEW n \in Attempts, NEW s \in Facts
    PROVE  [provider EXCEPT ![u][n] = s] \in [Units -> [Attempts -> Facts]]
  BY DEF ScopeTypeOK, Facts

LEMMA TakeTypes ==
    ASSUME ScopeTypeOK, NEW l \in Lanes, NEW u \in Units, NEW n \in Attempts,
           NEW rows \in [Attempts -> States],
           TakeAttempt(l, u, n, rows), UNCHANGED <<contVars, faultVars>>
    PROVE  ScopeTypeOK'
  <1>1. attempt' \in [Units -> [Attempts -> States]]
    BY DEF TakeAttempt, ScopeTypeOK, States
  <1>2. /\ unit' \in [Units -> Verdicts \cup {"none", "pending", "running", "cancelled"}]
        /\ last' \in [Units -> Attempts] /\ unitExpired' \in [Units -> BOOLEAN]
        /\ no' \in [Lanes -> Attempts \cup {None}] /\ pc' \in [Lanes -> LaneAt]
    BY DEF TakeAttempt, Go, ScopeTypeOK, LaneAt, Beating
  <1> QED
    BY <1>1, <1>2 DEF TakeAttempt, ScopeTypeOK, States, contVars, faultVars

LEMMA ReleaseTypes ==
    ASSUME ScopeTypeOK, NEW l \in Lanes, Release(l)
    PROVE  /\ pc' \in [Lanes -> LaneAt] /\ held' \in [Lanes -> Units \cup {None}]
           /\ token' \in [Lanes -> Nat] /\ no' \in [Lanes -> Attempts \cup {None}]
           /\ calls' \in [Lanes -> 0..MaxCalls] /\ verdict' \in [Lanes -> Verdicts]
           /\ lost' \in [Lanes -> BOOLEAN]
  BY ScopeAssumption DEF Release, Go, ScopeTypeOK, LaneAt, Beating, Verdicts, None


LEMMA TypeStep ==
    ASSUME IInv, [ScopeNext]_vars
    PROVE  ScopeTypeOK'
  <1>a. ScopeTypeOK
    BY DEF IInv
  <1>b. \A l \in Lanes : pc[l] # "idle" =>
           held[l] \in Units /\ last[held[l]] \in Attempts
           /\ (pc[l] \in Started => no[l] \in Attempts)
    BY HeldTypes
  <1>1. ASSUME NEW u \in Units, Decide(u) PROVE ScopeTypeOK'
    BY <1>1, <1>a, <1>b, Bounds, ScopeAssumption
    DEF Decide, contVars, unitVars, laneVars, faultVars, ScopeTypeOK, None,
        Outcomes, Verdicts, Beating, InCall, LaneAt, Started
  <1>2. ASSUME NEW u \in Units, Replay(u) PROVE ScopeTypeOK'
    BY <1>2, <1>a, <1>b, Bounds, ScopeAssumption
    DEF Replay, Replayable, Fault, contVars, unitVars, laneVars, faultVars,
        ScopeTypeOK, None, Outcomes, Verdicts, Beating, InCall, LaneAt,
        Started
  <1>4. ASSUME NEW u \in Units, CancelUnit(u) PROVE ScopeTypeOK'
    BY <1>4, <1>a, <1>b, Bounds, ScopeAssumption
    DEF CancelUnit, contVars, unitVars, laneVars, faultVars, ScopeTypeOK,
        None, Outcomes, Verdicts, Beating, InCall, LaneAt, Started
  <1>5. ASSUME NEW l \in Lanes, NEW u \in Units, ClaimContinuation(l, u) PROVE ScopeTypeOK'
    BY <1>5, <1>a, <1>b, Bounds, ScopeAssumption
    DEF ClaimContinuation, Claimable, Go, contVars, unitVars, laneVars,
        faultVars, ScopeTypeOK, None, Outcomes, Verdicts, Beating, InCall,
        LaneAt, Started
  <1>6. ASSUME NEW l \in Lanes, ClaimUnit(l) PROVE ScopeTypeOK'
    <2>1. held[l] \in Units /\ last[held[l]] \in Attempts
      BY <1>6, <1>b DEF ClaimUnit
    <2>2. attempt[held[l]] \in [Attempts -> States]
      BY <2>1, <1>a DEF ScopeTypeOK, States
    <2>3. CASE TakeAttempt(l, held[l], last[held[l]], attempt[held[l]])
      BY <1>6, <1>a, <2>1, <2>2, <2>3, TakeTypes DEF ClaimUnit
    <2>4. CASE /\ last[held[l]] < MaxAttempts
               /\ TakeAttempt(l, held[l], last[held[l]] + 1,
                              [attempt[held[l]] EXCEPT ![last[held[l]]] = "failed"])
      <3>1. last[held[l]] + 1 \in Attempts
        BY <2>1, <2>4, Bounds DEF Attempts
      <3>2. [attempt[held[l]] EXCEPT ![last[held[l]]] = "failed"] \in [Attempts -> States]
        BY <2>2 DEF States, Verdicts
      <3> QED
        BY <1>6, <1>a, <2>1, <2>4, <3>1, <3>2, TakeTypes DEF ClaimUnit
    <2> QED
      BY <1>6, <2>3, <2>4 DEF ClaimUnit
  <1>7. ASSUME NEW l \in Lanes, ClaimInDoubt(l) PROVE ScopeTypeOK'
    BY <1>7, <1>a, <1>b, Bounds, ScopeAssumption
    DEF ClaimInDoubt, TakenOver, LatestState, LatestProvider, Go, Stay,
        contVars, unitVars, laneVars, faultVars, ScopeTypeOK, None, Outcomes,
        Verdicts, Beating, InCall, LaneAt, Started
  <1>8. ASSUME NEW l \in Lanes, ClaimRefused(l) PROVE ScopeTypeOK'
    BY <1>8, <1>a, <1>b, Bounds, ScopeAssumption
    DEF ClaimRefused, Go, Stay, contVars, unitVars, laneVars, faultVars,
        ScopeTypeOK, None, Outcomes, Verdicts, Beating, InCall, LaneAt,
        Started
  <1>9. ASSUME NEW l \in Lanes, Refuse(l) PROVE ScopeTypeOK'
    BY <1>9, <1>a, <1>b, Bounds, ScopeAssumption
    DEF Refuse, CompleteContinuation, Release, Go, contVars, unitVars,
        laneVars, faultVars, ScopeTypeOK, None, Outcomes, Verdicts, Beating,
        InCall, LaneAt, Started
  <1>10. ASSUME NEW l \in Lanes, Start(l) PROVE ScopeTypeOK'
    BY <1>10, <1>a, <1>b, Bounds, ScopeAssumption
    DEF Start, Raise, Go, Stay, contVars, unitVars, laneVars, faultVars,
        ScopeTypeOK, None, Outcomes, Verdicts, Beating, InCall, LaneAt,
        Started
  <1>11. ASSUME NEW l \in Lanes, Request(l) PROVE ScopeTypeOK'
    <2>1. held[l] \in Units /\ no[l] \in Attempts
      BY <1>11, <1>b DEF Request, Started, Beating
    <2>2. CASE SetProvider(l, "requested") /\ pc' = [pc EXCEPT ![l] = "flushing"]
               /\ calls' = [calls EXCEPT ![l] = @ + 1]
               /\ UNCHANGED <<held, token, no, verdict, lost>>
      <3>1. provider' \in [Units -> [Attempts -> Facts]]
        BY <1>a, <2>1, <2>2, ProviderTypes DEF SetProvider, Facts
      <3>2. calls' \in [Lanes -> 0..MaxCalls] /\ pc' \in [Lanes -> LaneAt]
        BY <1>11, <1>a, <2>2, ScopeAssumption DEF Request, ScopeTypeOK, LaneAt, Beating
      <3> QED
        BY <1>a, <2>2, <3>1, <3>2
        DEF SetProvider, contVars, faultVars, ScopeTypeOK, Facts
    <2>3. CASE Raise(l)
      BY <1>a, <2>3 DEF Raise, Go, Stay, contVars, unitVars, faultVars,
         ScopeTypeOK, LaneAt, Beating
    <2> QED
      BY <1>11, <2>2, <2>3 DEF Request, Go
  <1>12. ASSUME NEW l \in Lanes, Flush(l) PROVE ScopeTypeOK'
    BY <1>12, <1>a, <1>b, Bounds, ScopeAssumption
    DEF Flush, Raise, Go, Stay, contVars, unitVars, laneVars, faultVars,
        ScopeTypeOK, None, Outcomes, Verdicts, Beating, InCall, LaneAt,
        Started
  <1>13. ASSUME NEW l \in Lanes, Answer(l) PROVE ScopeTypeOK'
    BY <1>13, <1>a, <1>b, Bounds, ScopeAssumption
    DEF Answer, Go, Stay, contVars, unitVars, laneVars, faultVars,
        ScopeTypeOK, None, Outcomes, Verdicts, Beating, InCall, LaneAt,
        Started
  <1>14. ASSUME NEW l \in Lanes, NEW outcome \in Outcomes, RecordOutcome(l, outcome) PROVE ScopeTypeOK'
    <2>1. held[l] \in Units /\ no[l] \in Attempts
      BY <1>14, <1>b DEF RecordOutcome, Started, Beating
    <2>2. CASE SetProvider(l, outcome) /\ Stay
               /\ Go(l, IF outcome = "outcome_unknown" THEN "raised" ELSE "working")
      <3>1. provider' \in [Units -> [Attempts -> Facts]]
        BY <1>a, <2>1, <2>2, ProviderTypes DEF SetProvider, Facts
      <3>2. pc' \in [Lanes -> LaneAt]
        BY <1>a, <2>2 DEF Go, ScopeTypeOK, LaneAt, Beating
      <3> QED
        BY <1>a, <2>2, <3>1, <3>2
        DEF SetProvider, Stay, contVars, faultVars, ScopeTypeOK, Facts
    <2>3. CASE Raise(l)
      BY <1>a, <2>3 DEF Raise, Go, Stay, contVars, unitVars, faultVars,
         ScopeTypeOK, LaneAt, Beating
    <2> QED
      BY <1>14, <2>2, <2>3 DEF RecordOutcome
  <1>15. ASSUME NEW l \in Lanes, Fail(l) PROVE ScopeTypeOK'
    BY <1>15, <1>a, <1>b, Bounds, ScopeAssumption
    DEF Fail, Raise, Go, Stay, contVars, unitVars, laneVars, faultVars,
        ScopeTypeOK, None, Outcomes, Verdicts, Beating, InCall, LaneAt,
        Started
  <1>16. ASSUME NEW l \in Lanes, Produce(l) PROVE ScopeTypeOK'
    BY <1>16, <1>a, <1>b, Bounds, ScopeAssumption
    DEF Produce, Raise, Go, Stay, contVars, unitVars, laneVars, faultVars,
        ScopeTypeOK, None, Outcomes, Verdicts, Beating, InCall, LaneAt,
        Started
  <1>17. ASSUME NEW l \in Lanes, ReturnEarly(l) PROVE ScopeTypeOK'
    BY <1>17, <1>a, <1>b, Bounds, ScopeAssumption
    DEF ReturnEarly, Go, Stay, contVars, unitVars, laneVars, faultVars,
        ScopeTypeOK, None, Outcomes, Verdicts, Beating, InCall, LaneAt,
        Started
  <1>18. ASSUME NEW l \in Lanes, Check(l) PROVE ScopeTypeOK'
    BY <1>18, <1>a, <1>b, Bounds, ScopeAssumption
    DEF Check, Raise, Go, Stay, contVars, unitVars, laneVars, faultVars,
        ScopeTypeOK, None, Outcomes, Verdicts, Beating, InCall, LaneAt,
        Started
  <1>19. ASSUME NEW l \in Lanes, Judge(l) PROVE ScopeTypeOK'
    <2>1. CASE Release(l)
      BY <1>19, <1>a, <2>1, ReleaseTypes
      DEF Judge, contVars, unitVars, faultVars, ScopeTypeOK
    <2>2. CASE /\ Go(l, "ending") /\ UNCHANGED <<held, token, no, calls, lost>>
               /\ verdict' = [verdict EXCEPT ![l] =
                     IF provider[held[l]][no[l]] = "outcome_unknown"
                     THEN "outcome_unknown" ELSE "failed"]
      BY <1>19, <1>a, <2>2
      DEF Judge, Go, contVars, unitVars, faultVars, ScopeTypeOK, LaneAt, Verdicts
    <2> QED
      BY <1>19, <2>1, <2>2 DEF Judge
  <1>20. ASSUME NEW l \in Lanes, CompleteUnit(l) PROVE ScopeTypeOK'
    <2>1. CASE Release(l) /\ UNCHANGED <<contVars, unitVars, faultVars>>
      BY <1>a, <2>1, ReleaseTypes DEF contVars, unitVars, faultVars, ScopeTypeOK
    <2>2. CASE ~(Release(l) /\ UNCHANGED <<contVars, unitVars, faultVars>>)
      <3>1. held[l] \in Units /\ no[l] \in Attempts /\ verdict[l] \in Verdicts
        BY <1>20, <1>a, <1>b DEF CompleteUnit, Started, ScopeTypeOK
      <3>2. attempt' \in [Units -> [Attempts -> States]]
        <4>1. attempt' = [attempt EXCEPT ![held[l]][no[l]] = verdict[l]]
          BY <1>20, <2>2 DEF CompleteUnit
        <4> QED BY <1>a, <3>1, <4>1, RowTypes DEF States
      <3>3. /\ unit' \in [Units -> Verdicts \cup {"none", "pending", "running", "cancelled"}]
            /\ pc' \in [Lanes -> LaneAt]
        BY <1>20, <1>a, <2>2, <3>1 DEF CompleteUnit, Go, ScopeTypeOK, LaneAt
      <3> QED
        BY <1>20, <1>a, <2>2, <3>2, <3>3
        DEF CompleteUnit, Stay, contVars, faultVars, ScopeTypeOK, States
    <2> QED
      BY <2>1, <2>2
  <1>21. ASSUME NEW l \in Lanes, Close(l) PROVE ScopeTypeOK'
    BY <1>21, <1>a, <1>b, Bounds, ScopeAssumption
    DEF Close, CompleteContinuation, Go, Release, contVars, unitVars,
        laneVars, faultVars, ScopeTypeOK, None, Outcomes, Verdicts, Beating,
        InCall, LaneAt, Started
  <1>22. ASSUME NEW l \in Lanes, Beat(l) PROVE ScopeTypeOK'
    BY <1>22, <1>a, <1>b, Bounds, ScopeAssumption
    DEF Beat, BeatContinuation, BeatUnit, contVars, unitVars, laneVars,
        faultVars, ScopeTypeOK, None, Outcomes, Verdicts, Beating, InCall,
        LaneAt, Started
  <1>23. ASSUME NEW u \in Units, LapseContinuation(u) PROVE ScopeTypeOK'
    BY <1>23, <1>a, <1>b, Bounds, ScopeAssumption
    DEF LapseContinuation, Fault, contVars, unitVars, laneVars, faultVars,
        ScopeTypeOK, None, Outcomes, Verdicts, Beating, InCall, LaneAt,
        Started
  <1>24. ASSUME NEW u \in Units, LapseUnit(u) PROVE ScopeTypeOK'
    BY <1>24, <1>a, <1>b, Bounds, ScopeAssumption
    DEF LapseUnit, LatestState, CallsLost, Fault, contVars, unitVars,
        laneVars, faultVars, ScopeTypeOK, None, Outcomes, Verdicts, Beating,
        InCall, LaneAt, Started
  <1>25. ASSUME Crash PROVE ScopeTypeOK'
    BY <1>25, <1>a, <1>b, Bounds, ScopeAssumption
    DEF Crash, CallsLost, Fault, contVars, unitVars, laneVars, faultVars,
        ScopeTypeOK, None, Outcomes, Verdicts, Beating, InCall, LaneAt,
        Started
  <1>26. ASSUME UNCHANGED vars PROVE ScopeTypeOK'
    BY <1>26, <1>a, <1>b, Bounds, ScopeAssumption
    DEF vars, contVars, unitVars, laneVars, faultVars, ScopeTypeOK, None,
        Outcomes, Verdicts, Beating, InCall, LaneAt, Started
  <1> QED
    BY <1>1, <1>2, <1>4, <1>5, <1>6, <1>7, <1>8, <1>9, <1>10, <1>11, <1>12, <1>13, <1>14, <1>15, <1>16, <1>17, <1>18, <1>19, <1>20, <1>21, <1>22, <1>23, <1>24, <1>25, <1>26
    DEF ScopeNext, LaneStep, Lapse, User

----------------------------------------------------------------------------
(* Who writes what *)

\* Five actions write the rows of a unit and its attempts.
LEMMA RowFrame ==
    ASSUME [ScopeNext]_vars
    PROVE  \/ UNCHANGED <<unit, last, attempt>>
           \/ \E u \in Units : Decide(u) \/ CancelUnit(u)
           \/ \E l \in Lanes : ClaimUnit(l) \/ ClaimInDoubt(l) \/ CompleteUnit(l)
  <1>1. ASSUME NEW u \in Units, Replay(u) \/ LapseContinuation(u) \/ LapseUnit(u)
        PROVE  UNCHANGED <<unit, last, attempt>>
    BY <1>1
    DEF Replay, Replayable, Fault, LapseContinuation,
        LapseUnit, LatestState, CallsLost, contVars, unitVars, laneVars,
        faultVars
  <1>2. ASSUME NEW l \in Lanes, ClaimRefused(l) \/ Refuse(l) \/ Start(l) \/ Request(l)
        PROVE  UNCHANGED <<unit, last, attempt>>
    BY <1>2
    DEF ClaimRefused, Go, Stay, Refuse, CompleteContinuation, Release, Start,
        Raise, Request, SetProvider, contVars, unitVars, laneVars, faultVars
  <1>3. ASSUME NEW l \in Lanes, Flush(l) \/ Answer(l) \/ Fail(l) \/ Produce(l)
        PROVE  UNCHANGED <<unit, last, attempt>>
    BY <1>3
    DEF Flush, Raise, Go, Stay, Answer, Fail, Produce, contVars, unitVars,
        laneVars, faultVars
  <1>4. ASSUME NEW l \in Lanes, ReturnEarly(l) \/ Check(l) \/ Judge(l) \/ Close(l)
        PROVE  UNCHANGED <<unit, last, attempt>>
    BY <1>4
    DEF ReturnEarly, Go, Stay, Check, Raise, Judge, Release, Close,
        CompleteContinuation, contVars, unitVars, laneVars, faultVars
  <1>5. ASSUME NEW l \in Lanes, Beat(l)
        PROVE  UNCHANGED <<unit, last, attempt>>
    BY <1>5
    DEF Beat, BeatContinuation, BeatUnit, contVars, unitVars, laneVars,
        faultVars
  <1>6. ASSUME NEW l \in Lanes, NEW u \in Units, ClaimContinuation(l, u)
        PROVE  UNCHANGED <<unit, last, attempt>>
    BY <1>6
    DEF ClaimContinuation, Claimable, Go, contVars, unitVars, laneVars,
        faultVars
  <1>7. ASSUME NEW l \in Lanes, NEW outcome \in Outcomes, RecordOutcome(l, outcome)
        PROVE  UNCHANGED <<unit, last, attempt>>
    BY <1>7
    DEF RecordOutcome, SetProvider, Raise, Go, Stay, contVars, unitVars,
        laneVars, faultVars
  <1>8. ASSUME Crash \/ UNCHANGED vars
        PROVE  UNCHANGED <<unit, last, attempt>>
    BY <1>8
    DEF Crash, CallsLost, Fault, vars, contVars, unitVars, laneVars, faultVars
  <1> QED
    BY <1>1, <1>2, <1>3, <1>4, <1>5, <1>6, <1>7, <1>8
    DEF ScopeNext, LaneStep, Lapse, User

\* Two actions write the provider's facts.
LEMMA ProviderFrame ==
    ASSUME [ScopeNext]_vars
    PROVE  \/ UNCHANGED provider
           \/ \E l \in Lanes : Request(l)
           \/ \E l \in Lanes, outcome \in Outcomes : RecordOutcome(l, outcome)
  <1>1. ASSUME NEW u \in Units, Decide(u) \/ Replay(u) \/ CancelUnit(u)
        PROVE  UNCHANGED provider
    BY <1>1
    DEF Decide, Replay, Replayable, Fault, CancelUnit,
        contVars, unitVars, laneVars, faultVars
  <1>2. ASSUME NEW u \in Units, LapseContinuation(u) \/ LapseUnit(u)
        PROVE  UNCHANGED provider
    BY <1>2
    DEF LapseContinuation, Fault, LapseUnit, LatestState, CallsLost,
        contVars, unitVars, laneVars, faultVars
  <1>3. ASSUME NEW l \in Lanes, ClaimUnit(l) \/ ClaimInDoubt(l) \/ ClaimRefused(l) \/ Refuse(l)
        PROVE  UNCHANGED provider
    BY <1>3
    DEF ClaimUnit, TakeAttempt, Repeatable, TakenOver, LatestState,
        LatestProvider, Go, ClaimInDoubt, Stay, ClaimRefused, Refuse,
        CompleteContinuation, Release, contVars, unitVars, laneVars, faultVars
  <1>4. ASSUME NEW l \in Lanes, Start(l) \/ Flush(l) \/ Answer(l) \/ Fail(l)
        PROVE  UNCHANGED provider
    BY <1>4
    DEF Start, Raise, Go, Stay, Flush, Answer, Fail, contVars, unitVars,
        laneVars, faultVars
  <1>5. ASSUME NEW l \in Lanes, Produce(l) \/ ReturnEarly(l) \/ Check(l) \/ Judge(l)
        PROVE  UNCHANGED provider
    BY <1>5
    DEF Produce, Raise, Go, Stay, ReturnEarly, Check, Judge, Release,
        contVars, unitVars, laneVars, faultVars
  <1>6. ASSUME NEW l \in Lanes, CompleteUnit(l) \/ Close(l) \/ Beat(l)
        PROVE  UNCHANGED provider
    BY <1>6
    DEF CompleteUnit, Go, Stay, Release, Close, CompleteContinuation, Beat,
        BeatContinuation, BeatUnit, contVars, unitVars, laneVars, faultVars
  <1>7. ASSUME NEW l \in Lanes, NEW u \in Units, ClaimContinuation(l, u)
        PROVE  UNCHANGED provider
    BY <1>7
    DEF ClaimContinuation, Claimable, Go, contVars, unitVars, laneVars,
        faultVars
  <1>8. ASSUME Crash \/ UNCHANGED vars
        PROVE  UNCHANGED provider
    BY <1>8
    DEF Crash, CallsLost, Fault, vars, contVars, unitVars, laneVars, faultVars
  <1> QED
    BY <1>1, <1>2, <1>3, <1>4, <1>5, <1>6, <1>7, <1>8
    DEF ScopeNext, LaneStep, Lapse, User

\* Five actions write the continuations.
LEMMA ContFrame ==
    ASSUME [ScopeNext]_vars
    PROVE  \/ UNCHANGED cont
           \/ \E u \in Units : Decide(u) \/ Replay(u)
           \/ \E l \in Lanes : Refuse(l) \/ Close(l)
           \/ \E l \in Lanes, u \in Units : ClaimContinuation(l, u)
  <1>1. ASSUME NEW u \in Units, CancelUnit(u) \/ LapseContinuation(u) \/ LapseUnit(u)
        PROVE  UNCHANGED cont
    BY <1>1
    DEF CancelUnit, LapseContinuation, Fault,
        LapseUnit, LatestState, CallsLost, contVars, unitVars, laneVars,
        faultVars
  <1>2. ASSUME NEW l \in Lanes, ClaimUnit(l) \/ ClaimInDoubt(l) \/ ClaimRefused(l) \/ Start(l)
        PROVE  UNCHANGED cont
    BY <1>2
    DEF ClaimUnit, TakeAttempt, Repeatable, TakenOver, LatestState,
        LatestProvider, Go, ClaimInDoubt, Stay, ClaimRefused, Start, Raise,
        contVars, unitVars, laneVars, faultVars
  <1>3. ASSUME NEW l \in Lanes, Request(l) \/ Flush(l) \/ Answer(l) \/ Fail(l)
        PROVE  UNCHANGED cont
    BY <1>3
    DEF Request, SetProvider, Raise, Go, Stay, Flush, Answer, Fail, contVars,
        unitVars, laneVars, faultVars
  <1>4. ASSUME NEW l \in Lanes, Produce(l) \/ ReturnEarly(l) \/ Check(l) \/ Judge(l)
        PROVE  UNCHANGED cont
    BY <1>4
    DEF Produce, Raise, Go, Stay, ReturnEarly, Check, Judge, Release,
        contVars, unitVars, laneVars, faultVars
  <1>5. ASSUME NEW l \in Lanes, CompleteUnit(l) \/ Beat(l)
        PROVE  UNCHANGED cont
    BY <1>5
    DEF CompleteUnit, Go, Stay, Release, Beat, BeatContinuation, BeatUnit,
        contVars, unitVars, laneVars, faultVars
  <1>6. ASSUME NEW l \in Lanes, NEW outcome \in Outcomes, RecordOutcome(l, outcome)
        PROVE  UNCHANGED cont
    BY <1>6
    DEF RecordOutcome, SetProvider, Raise, Go, Stay, contVars, unitVars,
        laneVars, faultVars
  <1>7. ASSUME Crash \/ UNCHANGED vars
        PROVE  UNCHANGED cont
    BY <1>7
    DEF Crash, CallsLost, Fault, vars, contVars, unitVars, laneVars, faultVars
  <1> QED
    BY <1>1, <1>2, <1>3, <1>4, <1>5, <1>6, <1>7
    DEF ScopeNext, LaneStep, Lapse, User

\* Seven actions change what a lane holds.
LEMMA LaneFrame ==
    ASSUME [ScopeNext]_vars
    PROVE  \/ UNCHANGED <<held, no>>
           \/ \E l \in Lanes : ClaimUnit(l) \/ Refuse(l) \/ Judge(l) \/ CompleteUnit(l) \/ Close(l)
           \/ \E l \in Lanes, u \in Units : ClaimContinuation(l, u)
           \/ Crash
  <1>1. ASSUME NEW u \in Units, Decide(u) \/ Replay(u) \/ CancelUnit(u)
        PROVE  UNCHANGED <<held, no>>
    BY <1>1
    DEF Decide, Replay, Replayable, Fault, CancelUnit,
        contVars, unitVars, laneVars, faultVars
  <1>2. ASSUME NEW u \in Units, LapseContinuation(u) \/ LapseUnit(u)
        PROVE  UNCHANGED <<held, no>>
    BY <1>2
    DEF LapseContinuation, Fault, LapseUnit, LatestState, CallsLost,
        contVars, unitVars, laneVars, faultVars
  <1>3. ASSUME NEW l \in Lanes, ClaimInDoubt(l) \/ ClaimRefused(l) \/ Start(l) \/ Request(l)
        PROVE  UNCHANGED <<held, no>>
    BY <1>3
    DEF ClaimInDoubt, TakenOver, LatestState, LatestProvider, Go, Stay,
        ClaimRefused, Start, Raise, Request, SetProvider, contVars, unitVars,
        laneVars, faultVars
  <1>4. ASSUME NEW l \in Lanes, Flush(l) \/ Answer(l) \/ Fail(l) \/ Produce(l)
        PROVE  UNCHANGED <<held, no>>
    BY <1>4
    DEF Flush, Raise, Go, Stay, Answer, Fail, Produce, contVars, unitVars,
        laneVars, faultVars
  <1>5. ASSUME NEW l \in Lanes, ReturnEarly(l) \/ Check(l) \/ Beat(l)
        PROVE  UNCHANGED <<held, no>>
    BY <1>5
    DEF ReturnEarly, Go, Stay, Check, Raise, Beat, BeatContinuation,
        BeatUnit, contVars, unitVars, laneVars, faultVars
  <1>6. ASSUME NEW l \in Lanes, NEW outcome \in Outcomes, RecordOutcome(l, outcome)
        PROVE  UNCHANGED <<held, no>>
    BY <1>6
    DEF RecordOutcome, SetProvider, Raise, Go, Stay, contVars, unitVars,
        laneVars, faultVars
  <1>7. ASSUME UNCHANGED vars
        PROVE  UNCHANGED <<held, no>>
    BY <1>7
    DEF vars, contVars, unitVars, laneVars, faultVars
  <1> QED
    BY <1>1, <1>2, <1>3, <1>4, <1>5, <1>6, <1>7
    DEF ScopeNext, LaneStep, Lapse, User

\* Two actions put calls in doubt.
LEMMA DoubtFrame ==
    ASSUME [ScopeNext]_vars
    PROVE  \/ UNCHANGED inDoubt
           \/ \E u \in Units : LapseUnit(u)
           \/ Crash
  <1>1. ASSUME NEW u \in Units, Decide(u) \/ Replay(u) \/ CancelUnit(u)
        PROVE  UNCHANGED inDoubt
    BY <1>1
    DEF Decide, Replay, Replayable, Fault, CancelUnit,
        contVars, unitVars, laneVars, faultVars
  <1>2. ASSUME NEW u \in Units, LapseContinuation(u)
        PROVE  UNCHANGED inDoubt
    BY <1>2
    DEF LapseContinuation, Fault, contVars, unitVars, laneVars, faultVars
  <1>3. ASSUME NEW l \in Lanes, ClaimUnit(l) \/ ClaimInDoubt(l) \/ ClaimRefused(l) \/ Refuse(l)
        PROVE  UNCHANGED inDoubt
    BY <1>3
    DEF ClaimUnit, TakeAttempt, Repeatable, TakenOver, LatestState,
        LatestProvider, Go, ClaimInDoubt, Stay, ClaimRefused, Refuse,
        CompleteContinuation, Release, contVars, unitVars, laneVars, faultVars
  <1>4. ASSUME NEW l \in Lanes, Start(l) \/ Request(l) \/ Flush(l) \/ Answer(l)
        PROVE  UNCHANGED inDoubt
    BY <1>4
    DEF Start, Raise, Go, Stay, Request, SetProvider, Flush, Answer,
        contVars, unitVars, laneVars, faultVars
  <1>5. ASSUME NEW l \in Lanes, Fail(l) \/ Produce(l) \/ ReturnEarly(l) \/ Check(l)
        PROVE  UNCHANGED inDoubt
    BY <1>5
    DEF Fail, Raise, Go, Stay, Produce, ReturnEarly, Check, contVars,
        unitVars, laneVars, faultVars
  <1>6. ASSUME NEW l \in Lanes, Judge(l) \/ CompleteUnit(l) \/ Close(l) \/ Beat(l)
        PROVE  UNCHANGED inDoubt
    BY <1>6
    DEF Judge, Go, Release, CompleteUnit, Stay, Close, CompleteContinuation,
        Beat, BeatContinuation, BeatUnit, contVars, unitVars, laneVars,
        faultVars
  <1>7. ASSUME NEW l \in Lanes, NEW u \in Units, ClaimContinuation(l, u)
        PROVE  UNCHANGED inDoubt
    BY <1>7
    DEF ClaimContinuation, Claimable, Go, contVars, unitVars, laneVars,
        faultVars
  <1>8. ASSUME NEW l \in Lanes, NEW outcome \in Outcomes, RecordOutcome(l, outcome)
        PROVE  UNCHANGED inDoubt
    BY <1>8
    DEF RecordOutcome, SetProvider, Raise, Go, Stay, contVars, unitVars,
        laneVars, faultVars
  <1>9. ASSUME UNCHANGED vars
        PROVE  UNCHANGED inDoubt
    BY <1>9
    DEF vars, contVars, unitVars, laneVars, faultVars
  <1> QED
    BY <1>1, <1>2, <1>3, <1>4, <1>5, <1>6, <1>7, <1>8, <1>9
    DEF ScopeNext, LaneStep, Lapse, User

\* Two actions write the lease of an attempt.
LEMMA LeaseFrame ==
    ASSUME [ScopeNext]_vars
    PROVE  \/ UNCHANGED unitExpired
           \/ \E u \in Units : LapseUnit(u)
           \/ \E l \in Lanes : ClaimUnit(l)
  <1>1. ASSUME NEW u \in Units, Decide(u) \/ Replay(u) \/ CancelUnit(u)
        PROVE  UNCHANGED unitExpired
    BY <1>1
    DEF Decide, Replay, Replayable, Fault, CancelUnit,
        contVars, unitVars, laneVars, faultVars
  <1>2. ASSUME NEW u \in Units, LapseContinuation(u)
        PROVE  UNCHANGED unitExpired
    BY <1>2
    DEF LapseContinuation, Fault, contVars, unitVars, laneVars, faultVars
  <1>3. ASSUME NEW l \in Lanes, ClaimInDoubt(l) \/ ClaimRefused(l) \/ Refuse(l) \/ Start(l)
        PROVE  UNCHANGED unitExpired
    BY <1>3
    DEF ClaimInDoubt, TakenOver, LatestState, LatestProvider, Go, Stay,
        ClaimRefused, Refuse, CompleteContinuation, Release, Start, Raise,
        contVars, unitVars, laneVars, faultVars
  <1>4. ASSUME NEW l \in Lanes, Request(l) \/ Flush(l) \/ Answer(l) \/ Fail(l)
        PROVE  UNCHANGED unitExpired
    BY <1>4
    DEF Request, SetProvider, Raise, Go, Stay, Flush, Answer, Fail, contVars,
        unitVars, laneVars, faultVars
  <1>5. ASSUME NEW l \in Lanes, Produce(l) \/ ReturnEarly(l) \/ Check(l) \/ Judge(l)
        PROVE  UNCHANGED unitExpired
    BY <1>5
    DEF Produce, Raise, Go, Stay, ReturnEarly, Check, Judge, Release,
        contVars, unitVars, laneVars, faultVars
  <1>6. ASSUME NEW l \in Lanes, CompleteUnit(l) \/ Close(l) \/ Beat(l)
        PROVE  UNCHANGED unitExpired
    BY <1>6
    DEF CompleteUnit, Go, Stay, Release, Close, CompleteContinuation, Beat,
        BeatContinuation, BeatUnit, contVars, unitVars, laneVars, faultVars
  <1>7. ASSUME NEW l \in Lanes, NEW u \in Units, ClaimContinuation(l, u)
        PROVE  UNCHANGED unitExpired
    BY <1>7
    DEF ClaimContinuation, Claimable, Go, contVars, unitVars, laneVars,
        faultVars
  <1>8. ASSUME NEW l \in Lanes, NEW outcome \in Outcomes, RecordOutcome(l, outcome)
        PROVE  UNCHANGED unitExpired
    BY <1>8
    DEF RecordOutcome, SetProvider, Raise, Go, Stay, contVars, unitVars,
        laneVars, faultVars
  <1>9. ASSUME Crash \/ UNCHANGED vars
        PROVE  UNCHANGED unitExpired
    BY <1>9
    DEF Crash, CallsLost, Fault, vars, contVars, unitVars, laneVars, faultVars
  <1> QED
    BY <1>1, <1>2, <1>3, <1>4, <1>5, <1>6, <1>7, <1>8, <1>9
    DEF ScopeNext, LaneStep, Lapse, User

\* One action saves a unit's terminal fact.
LEMMA ProductFrame ==
    ASSUME [ScopeNext]_vars
    PROVE  \/ UNCHANGED product
           \/ \E l \in Lanes : Produce(l)
  <1>1. ASSUME NEW u \in Units, Decide(u) \/ Replay(u) \/ CancelUnit(u)
        PROVE  UNCHANGED product
    BY <1>1
    DEF Decide, Replay, Replayable, Fault, CancelUnit,
        contVars, unitVars, laneVars, faultVars
  <1>2. ASSUME NEW u \in Units, LapseContinuation(u) \/ LapseUnit(u)
        PROVE  UNCHANGED product
    BY <1>2
    DEF LapseContinuation, Fault, LapseUnit, LatestState, CallsLost,
        contVars, unitVars, laneVars, faultVars
  <1>3. ASSUME NEW l \in Lanes, ClaimUnit(l) \/ ClaimInDoubt(l) \/ ClaimRefused(l) \/ Refuse(l)
        PROVE  UNCHANGED product
    BY <1>3
    DEF ClaimUnit, TakeAttempt, Repeatable, TakenOver, LatestState,
        LatestProvider, Go, ClaimInDoubt, Stay, ClaimRefused, Refuse,
        CompleteContinuation, Release, contVars, unitVars, laneVars, faultVars
  <1>4. ASSUME NEW l \in Lanes, Start(l) \/ Request(l) \/ Flush(l) \/ Answer(l)
        PROVE  UNCHANGED product
    BY <1>4
    DEF Start, Raise, Go, Stay, Request, SetProvider, Flush, Answer,
        contVars, unitVars, laneVars, faultVars
  <1>5. ASSUME NEW l \in Lanes, Fail(l) \/ ReturnEarly(l) \/ Check(l) \/ Judge(l)
        PROVE  UNCHANGED product
    BY <1>5
    DEF Fail, Raise, Go, Stay, ReturnEarly, Check, Judge, Release, contVars,
        unitVars, laneVars, faultVars
  <1>6. ASSUME NEW l \in Lanes, CompleteUnit(l) \/ Close(l) \/ Beat(l)
        PROVE  UNCHANGED product
    BY <1>6
    DEF CompleteUnit, Go, Stay, Release, Close, CompleteContinuation, Beat,
        BeatContinuation, BeatUnit, contVars, unitVars, laneVars, faultVars
  <1>7. ASSUME NEW l \in Lanes, NEW u \in Units, ClaimContinuation(l, u)
        PROVE  UNCHANGED product
    BY <1>7
    DEF ClaimContinuation, Claimable, Go, contVars, unitVars, laneVars,
        faultVars
  <1>8. ASSUME NEW l \in Lanes, NEW outcome \in Outcomes, RecordOutcome(l, outcome)
        PROVE  UNCHANGED product
    BY <1>8
    DEF RecordOutcome, SetProvider, Raise, Go, Stay, contVars, unitVars,
        laneVars, faultVars
  <1>9. ASSUME Crash \/ UNCHANGED vars
        PROVE  UNCHANGED product
    BY <1>9
    DEF Crash, CallsLost, Fault, vars, contVars, unitVars, laneVars, faultVars
  <1> QED
    BY <1>1, <1>2, <1>3, <1>4, <1>5, <1>6, <1>7, <1>8, <1>9
    DEF ScopeNext, LaneStep, Lapse, User

\* What decides or forgets a verdict.
LEMMA VerdictFrame ==
    ASSUME [ScopeNext]_vars
    PROVE  \/ UNCHANGED verdict
           \/ \E l \in Lanes : Check(l) \/ Refuse(l) \/ Judge(l) \/ CompleteUnit(l) \/ Close(l)
           \/ Crash
  <1>1. ASSUME NEW u \in Units, Decide(u) \/ Replay(u) \/ CancelUnit(u)
        PROVE  UNCHANGED verdict
    BY <1>1
    DEF Decide, Replay, Replayable, Fault, CancelUnit,
        contVars, unitVars, laneVars, faultVars
  <1>2. ASSUME NEW u \in Units, LapseContinuation(u) \/ LapseUnit(u)
        PROVE  UNCHANGED verdict
    BY <1>2
    DEF LapseContinuation, Fault, LapseUnit, LatestState, CallsLost,
        contVars, unitVars, laneVars, faultVars
  <1>3. ASSUME NEW l \in Lanes, ClaimUnit(l) \/ ClaimInDoubt(l) \/ ClaimRefused(l) \/ Start(l)
        PROVE  UNCHANGED verdict
    BY <1>3
    DEF ClaimUnit, TakeAttempt, Repeatable, TakenOver, LatestState,
        LatestProvider, Go, ClaimInDoubt, Stay, ClaimRefused, Start, Raise,
        contVars, unitVars, laneVars, faultVars
  <1>4. ASSUME NEW l \in Lanes, Request(l) \/ Flush(l) \/ Answer(l) \/ Fail(l)
        PROVE  UNCHANGED verdict
    BY <1>4
    DEF Request, SetProvider, Raise, Go, Stay, Flush, Answer, Fail, contVars,
        unitVars, laneVars, faultVars
  <1>5. ASSUME NEW l \in Lanes, Produce(l) \/ ReturnEarly(l) \/ Beat(l)
        PROVE  UNCHANGED verdict
    BY <1>5
    DEF Produce, Raise, Go, Stay, ReturnEarly, Beat, BeatContinuation,
        BeatUnit, contVars, unitVars, laneVars, faultVars
  <1>6. ASSUME NEW l \in Lanes, NEW u \in Units, ClaimContinuation(l, u)
        PROVE  UNCHANGED verdict
    BY <1>6
    DEF ClaimContinuation, Claimable, Go, contVars, unitVars, laneVars,
        faultVars
  <1>7. ASSUME NEW l \in Lanes, NEW outcome \in Outcomes, RecordOutcome(l, outcome)
        PROVE  UNCHANGED verdict
    BY <1>7
    DEF RecordOutcome, SetProvider, Raise, Go, Stay, contVars, unitVars,
        laneVars, faultVars
  <1>8. ASSUME UNCHANGED vars
        PROVE  UNCHANGED verdict
    BY <1>8
    DEF vars, contVars, unitVars, laneVars, faultVars
  <1> QED
    BY <1>1, <1>2, <1>3, <1>4, <1>5, <1>6, <1>7, <1>8
    DEF ScopeNext, LaneStep, Lapse, User

\* A continuation, once there, is there for good.
LEMMA ContStays ==
    ASSUME IInv, [ScopeNext]_vars, NEW u \in Units, cont'[u] = "none"
    PROVE  cont[u] = "none"
  <1>a. ScopeTypeOK
    BY DEF IInv
  <1>1. CASE UNCHANGED cont
    BY <1>1
  <1>2. ASSUME NEW v \in Units, Decide(v) \/ Replay(v) PROVE cont[u] = "none"
    BY <1>2, <1>a DEF Decide, Replay, ScopeTypeOK
  <1>3. ASSUME NEW l \in Lanes, NEW v \in Units, ClaimContinuation(l, v) PROVE cont[u] = "none"
    BY <1>3, <1>a DEF ClaimContinuation, ScopeTypeOK
  <1>4. ASSUME NEW l \in Lanes, Refuse(l) \/ Close(l) PROVE cont[u] = "none"
    <2>1. held[l] \in Units
      BY <1>4 DEF IInv, Control, Refuse, Close
    <2> QED
      BY <1>4, <1>a, <2>1 DEF Refuse, Close, CompleteContinuation, ScopeTypeOK
  <1> QED
    BY <1>1, <1>2, <1>3, <1>4, ContFrame

\* A claim that takes an attempt takes the latest one, pending, or the one
\* after it, the latest having failed or been abandoned.
Takes(l, u, n) ==
    /\ u = held[l] /\ pc[l] = "claimed" /\ no[l] = None
    /\ \/ /\ n = last[u] /\ attempt[u][last[u]] = "pending"
          /\ attempt' = [attempt EXCEPT ![u] = [attempt[u] EXCEPT ![n] = "running"]]
       \/ /\ n = last[u] + 1
          /\ attempt' = [attempt EXCEPT ![u] =
                [[attempt[u] EXCEPT ![last[u]] = "failed"] EXCEPT ![n] = "running"]]
          /\ \/ attempt[u][last[u]] = "failed"
             \/ /\ attempt[u][last[u]] = "running" /\ unitExpired[u]
                /\ provider[u][last[u]] # "requested"
    /\ last' = [last EXCEPT ![u] = n] /\ unit' = [unit EXCEPT ![u] = "running"]
    /\ unitExpired' = [unitExpired EXCEPT ![u] = FALSE]
    /\ no' = [no EXCEPT ![l] = n] /\ pc' = [pc EXCEPT ![l] = "starting"]
    /\ UNCHANGED <<cont, provider, product, held, verdict, inDoubt>>

LEMMA Taken ==
    ASSUME IInv, NEW l \in Lanes, ClaimUnit(l)
    PROVE  \E u \in Units, n \in Attempts : Takes(l, u, n)
  <1>1. held[l] \in Units /\ last[held[l]] \in Attempts /\ no[l] = None
    BY HeldTypes DEF ClaimUnit, IInv, Control, Started, Beating
  <1>2. CASE LatestState(held[l]) = "pending" /\ TakeAttempt(l, held[l], last[held[l]], attempt[held[l]])
    BY <1>1, <1>2 DEF Takes, ClaimUnit, TakeAttempt, LatestState, Go, contVars, faultVars
  <1>3. CASE /\ Repeatable(held[l]) /\ last[held[l]] < MaxAttempts
             /\ TakeAttempt(l, held[l], last[held[l]] + 1,
                            [attempt[held[l]] EXCEPT ![last[held[l]]] = "failed"])
    <2>1. last[held[l]] + 1 \in Attempts
      BY <1>1, <1>3, Bounds DEF Attempts
    <2> QED
      BY <1>1, <1>3, <2>1
      DEF Takes, ClaimUnit, TakeAttempt, Repeatable, TakenOver, LatestState, LatestProvider,
          Go, contVars, faultVars
  <1> QED
    BY <1>2, <1>3 DEF ClaimUnit

\* A verdict is written by the lane that owns the latest attempt.
LEMMA Written ==
    ASSUME IInv, NEW l \in Lanes, CompleteUnit(l), ~Release(l)
    PROVE  /\ pc[l] = "ending" /\ held[l] \in Units /\ no[l] \in Attempts
           /\ no[l] = last[held[l]] /\ verdict[l] \in Verdicts /\ Owns(l)
           /\ attempt' = [attempt EXCEPT ![held[l]][no[l]] = verdict[l]]
           /\ unit' = [unit EXCEPT ![held[l]] = verdict[l]]
           /\ pc' = [pc EXCEPT ![l] = "closing"]
           /\ UNCHANGED <<cont, last, provider, unitExpired, product, held, no, verdict, inDoubt>>
  <1>1. pc[l] = "ending" /\ Owns(l)
    BY DEF CompleteUnit
  <1>2. held[l] \in Units /\ no[l] \in Attempts /\ no[l] = last[held[l]]
    BY <1>1, HeldTypes DEF Started
  <1> QED
    BY <1>1, <1>2 DEF CompleteUnit, Go, Stay, contVars, faultVars, IInv, ScopeTypeOK

\* A provider fact is written by the lane that owns the latest attempt.
LEMMA Recorded ==
    ASSUME IInv, NEW l \in Lanes, NEW outcome \in Outcomes,
           Request(l) \/ RecordOutcome(l, outcome), ~Raise(l)
    PROVE  /\ held[l] \in Units /\ no[l] \in Attempts /\ no[l] = last[held[l]] /\ Owns(l)
           /\ \E state \in Facts :
                 provider' = [provider EXCEPT ![held[l]][no[l]] = state]
           /\ UNCHANGED <<cont, unit, last, attempt, unitExpired, product, held, no, verdict, inDoubt>>
  <1>1. pc[l] \in Started /\ pc[l] # "idle" /\ Owns(l)
    BY DEF Request, RecordOutcome, Started, Beating
  <1>2. held[l] \in Units /\ no[l] \in Attempts /\ no[l] = last[held[l]]
    BY <1>1, HeldTypes
  <1>3. CASE Request(l)
    BY <1>1, <1>2, <1>3 DEF Request, SetProvider, Facts, contVars, faultVars
  <1>4. CASE RecordOutcome(l, outcome)
    BY <1>1, <1>2, <1>4 DEF RecordOutcome, SetProvider, Stay, Facts, contVars, faultVars
  <1> QED BY <1>3, <1>4

----------------------------------------------------------------------------
(* One part of the invariant at a time *)

LEMMA RowsStep ==
    ASSUME IInv, [ScopeNext]_vars
    PROVE  Rows'
  <1>a. ScopeTypeOK /\ Rows
    BY DEF IInv
  <1>b. \A u \in Units : cont'[u] = "none" => cont[u] = "none"
    BY ContStays
  <1>1. CASE UNCHANGED <<unit, last, attempt>>
    BY <1>1, <1>a, <1>b DEF Rows
  <1>2. ASSUME NEW u \in Units, Decide(u) PROVE Rows'
    <2>1. last[u] = 1 /\ unit[u] = "none" /\ 1 \in Attempts
      BY <1>2, <1>a, Bounds DEF Decide, Rows
    <2>2. attempt'[u] = [attempt[u] EXCEPT ![1] = "pending"]
      BY <1>2, <1>a DEF Decide, ScopeTypeOK
    <2>3. attempt'[u][1] = "pending" /\ \A n \in Attempts : n # 1 => attempt'[u][n] = attempt[u][n]
      BY <2>1, <2>2, <1>a DEF ScopeTypeOK
    <2>4. unit'[u] = "pending" /\ cont'[u] = "pending" /\ last' = last
      BY <1>2, <1>a DEF Decide, ScopeTypeOK
    <2>5. \A v \in Units : v # u => unit'[v] = unit[v] /\ attempt'[v] = attempt[v]
      BY <1>2, <1>a DEF Decide, ScopeTypeOK
    <2>6. \A n \in Attempts : n \in Nat
      BY Bounds
    <2> QED
      BY <1>a, <1>b, <2>1, <2>3, <2>4, <2>5, <2>6 DEF Rows
  <1>3. ASSUME NEW u \in Units, CancelUnit(u) PROVE Rows'
    <2>1. last[u] \in Attempts /\ unit[u] \in {"pending", "running"} /\ last' = last
          /\ cont' = cont
      BY <1>3, <1>a DEF CancelUnit, contVars, ScopeTypeOK
    <2>2. \A n \in Attempts : attempt'[u][n] =
             IF attempt[u][n] \in {"pending", "running"} THEN "cancelled" ELSE attempt[u][n]
      BY <1>3, <1>a DEF CancelUnit, ScopeTypeOK
    <2>3. unit'[u] = "cancelled" /\ \A v \in Units : v # u => unit'[v] = unit[v] /\ attempt'[v] = attempt[v]
      BY <1>3, <1>a DEF CancelUnit, ScopeTypeOK
    <2> QED
      BY <1>a, <2>1, <2>2, <2>3 DEF Rows
  <1>4. ASSUME NEW l \in Lanes, ClaimUnit(l) PROVE Rows'
    <2>1. PICK u \in Units, n \in Attempts : Takes(l, u, n)
      BY <1>4, Taken
    <2>2. last'[u] = n /\ unit'[u] = "running" /\ attempt'[u][n] = "running" /\ cont[u] # "none"
      BY <1>a, <2>1 DEF Takes, ScopeTypeOK, Rows
    <2>3. \A m \in Attempts : m # n =>
             attempt'[u][m] = IF n = last[u] + 1 /\ m = last[u] THEN "failed" ELSE attempt[u][m]
      BY <1>a, <2>1, Bounds DEF Takes, ScopeTypeOK
    <2>4. \A v \in Units : v # u =>
             unit'[v] = unit[v] /\ attempt'[v] = attempt[v] /\ last'[v] = last[v]
      BY <1>a, <2>1 DEF Takes, ScopeTypeOK
    <2>5. n = last[u] \/ n = last[u] + 1
      BY <2>1 DEF Takes
    <2>6. \A m \in Attempts : (m < n => attempt'[u][m] = "failed") /\ (m > n => attempt'[u][m] = "none")
      <3>1. last[u] \in Nat /\ \A m \in Attempts : m \in Nat
        BY <1>a, Bounds DEF ScopeTypeOK
      <3> QED BY <1>a, <2>3, <2>5, <3>1 DEF Rows
    <2> QED
      BY <1>a, <1>b, <2>1, <2>2, <2>4, <2>6 DEF Takes, Rows
  <1>5. ASSUME NEW l \in Lanes, ClaimInDoubt(l) PROVE Rows'
    <2>1. held[l] \in Units /\ last[held[l]] \in Attempts
      BY <1>5, HeldTypes DEF ClaimInDoubt
    <2>2. attempt[held[l]][last[held[l]]] = "running" /\ last' = last
      BY <1>5 DEF ClaimInDoubt, TakenOver, LatestState
    <2>3. /\ attempt'[held[l]][last[held[l]]] = "outcome_unknown"
          /\ unit'[held[l]] = "outcome_unknown"
          /\ \A m \in Attempts : m # last[held[l]] => attempt'[held[l]][m] = attempt[held[l]][m]
          /\ \A v \in Units : v # held[l] => unit'[v] = unit[v] /\ attempt'[v] = attempt[v]
      BY <1>5, <1>a, <2>1 DEF ClaimInDoubt, ScopeTypeOK
    <2>4. \A m \in Attempts : m \in Nat
      BY Bounds
    <2> QED
      BY <1>a, <1>b, <2>1, <2>2, <2>3, <2>4 DEF Rows
  <1>6. ASSUME NEW l \in Lanes, CompleteUnit(l), ~Release(l) PROVE Rows'
    <2>1. held[l] \in Units /\ no[l] = last[held[l]] /\ no[l] \in Attempts /\ last' = last /\ Owns(l)
      BY <1>6, Written
    <2>2. /\ attempt'[held[l]][no[l]] = verdict[l] /\ unit'[held[l]] = verdict[l]
          /\ \A m \in Attempts : m # no[l] => attempt'[held[l]][m] = attempt[held[l]][m]
          /\ \A v \in Units : v # held[l] => unit'[v] = unit[v] /\ attempt'[v] = attempt[v]
      BY <1>6, <1>a, <2>1, Written DEF ScopeTypeOK
    <2>3. \A m \in Attempts : m \in Nat
      BY Bounds
    <2> QED
      BY <1>a, <1>b, <2>1, <2>2, <2>3 DEF Rows, Owns
  <1>7. ASSUME NEW l \in Lanes, CompleteUnit(l), Release(l) PROVE UNCHANGED <<unit, last, attempt>>
    BY <1>7, HeldTypes DEF CompleteUnit, Release, Go, unitVars, IInv, ScopeTypeOK
  <1> QED
    BY <1>1, <1>2, <1>3, <1>4, <1>5, <1>6, <1>7, RowFrame

\* A row, once claimed, is never unclaimed again, and attempts only follow.
RowGrows(u) ==
    /\ last[u] <= last'[u]
    /\ \A n \in Attempts : attempt[u][n] \notin {"none", "pending"} =>
          attempt'[u][n] \notin {"none", "pending"}

LEMMA RowsGrow ==
    ASSUME IInv, [ScopeNext]_vars, NEW u \in Units
    PROVE  RowGrows(u)
  <1>a. ScopeTypeOK /\ Rows /\ last[u] \in Nat /\ \A n \in Attempts : n \in Nat
    BY Bounds DEF IInv, ScopeTypeOK
  <1>1. CASE UNCHANGED <<unit, last, attempt>>
    BY <1>1, <1>a DEF RowGrows
  <1>2. ASSUME NEW v \in Units, Decide(v) PROVE RowGrows(u)
    <2>1. last' = last /\ (v # u => attempt'[u] = attempt[u])
          /\ (v = u => attempt'[u] = [attempt[u] EXCEPT ![1] = "pending"])
      BY <1>2, <1>a DEF Decide, ScopeTypeOK
    <2>2. v = u => last[u] = 1 /\ attempt[u][1] = "none"
      BY <1>2, <1>a DEF Decide, Rows
    <2> QED
      BY <1>a, <2>1, <2>2 DEF RowGrows, ScopeTypeOK
  <1>3. ASSUME NEW v \in Units, CancelUnit(v) PROVE RowGrows(u)
    BY <1>3, <1>a DEF CancelUnit, ScopeTypeOK, RowGrows
  <1>4. ASSUME NEW l \in Lanes, ClaimUnit(l) PROVE RowGrows(u)
    <2>1. PICK v \in Units, n \in Attempts : Takes(l, v, n)
      BY <1>4, Taken
    <2>2. v # u => last'[u] = last[u] /\ attempt'[u] = attempt[u]
      BY <1>a, <2>1 DEF Takes, ScopeTypeOK
    <2>3. CASE v = u /\ n = last[u]
          /\ attempt' = [attempt EXCEPT ![u] = [attempt[u] EXCEPT ![n] = "running"]]
      BY <1>a, <2>1, <2>3 DEF Takes, ScopeTypeOK, RowGrows
    <2>4. CASE v = u /\ n = last[u] + 1
          /\ attempt' = [attempt EXCEPT ![u] =
                [[attempt[u] EXCEPT ![last[u]] = "failed"] EXCEPT ![n] = "running"]]
      BY <1>a, <2>1, <2>4 DEF Takes, ScopeTypeOK, RowGrows
    <2> QED
      BY <1>a, <2>1, <2>2, <2>3, <2>4 DEF Takes, RowGrows
  <1>5. ASSUME NEW l \in Lanes, ClaimInDoubt(l) PROVE RowGrows(u)
    <2>1. held[l] \in Units /\ last[held[l]] \in Attempts
      BY <1>5, HeldTypes DEF ClaimInDoubt
    <2>2. /\ last' = last
          /\ attempt' = [attempt EXCEPT ![held[l]][last[held[l]]] = "outcome_unknown"]
      BY <1>5 DEF ClaimInDoubt
    <2>3. \A n \in Attempts : attempt'[u][n] \in {attempt[u][n], "outcome_unknown"}
      BY <1>a, <2>1, <2>2 DEF ScopeTypeOK
    <2> QED
      BY <1>a, <2>2, <2>3 DEF RowGrows
  <1>6. ASSUME NEW l \in Lanes, CompleteUnit(l) PROVE RowGrows(u)
    <2>1. CASE ~Release(l)
      <3>1. /\ held[l] \in Units /\ no[l] \in Attempts /\ verdict[l] \in Verdicts /\ last' = last
            /\ attempt' = [attempt EXCEPT ![held[l]][no[l]] = verdict[l]]
        BY <1>6, <2>1, Written
      <3>2. \A n \in Attempts : attempt'[u][n] \in {attempt[u][n], verdict[l]}
        BY <1>a, <3>1 DEF ScopeTypeOK
      <3> QED BY <1>a, <3>1, <3>2 DEF Verdicts, RowGrows
    <2>2. CASE Release(l)
      <3>1. UNCHANGED <<last, attempt>>
        BY <1>6, <2>2, HeldTypes DEF CompleteUnit, Release, Go, unitVars, IInv, ScopeTypeOK
      <3> QED BY <1>a, <3>1 DEF RowGrows
    <2> QED BY <2>1, <2>2
  <1> QED
    BY <1>1, <1>2, <1>3, <1>4, <1>5, <1>6, RowFrame

\* Where the lanes go.
Moves(l) ==
    /\ pc[l] \in Started /\ UNCHANGED <<held, no>>
    /\ \E at \in Started : /\ pc' = [pc EXCEPT ![l] = at]
                           /\ at \in MidCall => pc[l] \in MidCall \/ Request(l)
                           /\ at = "ending" => Check(l) \/ Judge(l)
                           /\ at = "closing" => CompleteUnit(l)
Gives(l) ==
    /\ pc[l] = "claimed" /\ UNCHANGED <<held, no>>
    /\ pc' = [pc EXCEPT ![l] = "refused"]

LEMMA LaneSteps ==
    ASSUME IInv, [ScopeNext]_vars
    PROVE  \/ UNCHANGED <<pc, held, no>> \/ Crash
           \/ \E l \in Lanes : Moves(l) \/ Release(l) \/ Gives(l) \/ ClaimUnit(l)
           \/ \E l \in Lanes, u \in Units : ClaimContinuation(l, u)
  <1>1. ASSUME NEW u \in Units, Decide(u) \/ Replay(u) \/ CancelUnit(u) \/ LapseContinuation(u) \/ LapseUnit(u)
        PROVE  UNCHANGED <<pc, held, no>>
    BY <1>1
    DEF Decide, Replay, Replayable, Fault, CancelUnit,
        LapseContinuation, LapseUnit, LatestState, CallsLost, contVars,
        unitVars, laneVars, faultVars
  <1>2. ASSUME NEW l \in Lanes, Start(l) \/ Flush(l) \/ Answer(l) \/ Fail(l)
        PROVE  Moves(l)
    BY <1>2
    DEF Start, Raise, Go, Stay, Flush, Answer, Fail, contVars, unitVars,
        laneVars, faultVars, Moves, Started, Beating, MidCall
  <1>3. ASSUME NEW l \in Lanes, Produce(l) \/ ReturnEarly(l) \/ Check(l)
        PROVE  Moves(l)
    BY <1>3
    DEF Produce, Raise, Go, Stay, ReturnEarly, Check, contVars, unitVars,
        laneVars, faultVars, Moves, Started, Beating, MidCall
  <1>4. ASSUME NEW l \in Lanes, Request(l)
        PROVE  Moves(l)
    BY <1>4
    DEF Request, SetProvider, Raise, Go, Stay, contVars, unitVars, laneVars,
        faultVars, Moves, Started, Beating, MidCall
  <1>5. ASSUME NEW l \in Lanes, NEW outcome \in Outcomes, RecordOutcome(l, outcome)
        PROVE  Moves(l)
    BY <1>5
    DEF RecordOutcome, SetProvider, Raise, Go, Stay, contVars, unitVars,
        laneVars, faultVars, Moves, Started, Beating, MidCall
  <1>6. ASSUME NEW l \in Lanes, Judge(l)
        PROVE  Moves(l) \/ Release(l)
    BY <1>6
    DEF Judge, Go, Release, contVars, unitVars, laneVars, faultVars, Moves,
        Started, Beating, MidCall
  <1>7. ASSUME NEW l \in Lanes, CompleteUnit(l)
        PROVE  Moves(l) \/ Release(l)
    BY <1>7
    DEF CompleteUnit, Go, Stay, Release, contVars, unitVars, laneVars,
        faultVars, Moves, Started, Beating, MidCall
  <1>8. ASSUME NEW l \in Lanes, Refuse(l) \/ Close(l)
        PROVE  Release(l)
    BY <1>8
    DEF Refuse, CompleteContinuation, Release, Go, Close, contVars, unitVars,
        laneVars, faultVars
  <1>9. ASSUME NEW l \in Lanes, ClaimInDoubt(l) \/ ClaimRefused(l)
        PROVE  Gives(l)
    BY <1>9
    DEF ClaimInDoubt, TakenOver, LatestState, LatestProvider, Go, Stay,
        ClaimRefused, contVars, unitVars, laneVars, faultVars, Gives
  <1>10. ASSUME NEW l \in Lanes, Beat(l)
        PROVE  UNCHANGED <<pc, held, no>>
    BY <1>10
    DEF Beat, BeatContinuation, BeatUnit, contVars, unitVars, laneVars,
        faultVars
  <1>11. ASSUME UNCHANGED vars
        PROVE  UNCHANGED <<pc, held, no>>
    BY <1>11
    DEF vars, contVars, unitVars, laneVars, faultVars
  <1> QED
    BY <1>1, <1>2, <1>3, <1>4, <1>5, <1>6, <1>7, <1>8, <1>9, <1>10, <1>11
    DEF ScopeNext, LaneStep, Lapse, User

LEMMA ControlStep ==
    ASSUME IInv, [ScopeNext]_vars
    PROVE  Control'
  <1>a. ScopeTypeOK /\ Control /\ \A n \in Attempts : n \in Nat
    BY Bounds DEF IInv
  <1>b. \A l \in Lanes : pc[l] \in Started =>
           held[l] \in Units /\ last[held[l]] \in Nat /\ last'[held[l]] \in Nat /\ RowGrows(held[l])
    BY <1>a, RowsGrow, TypeStep DEF Control, Started, Beating, ScopeTypeOK
  <1>c. \A l \in Lanes : pc[l] \in Started =>
           /\ no[l] \in Attempts /\ no[l] <= last'[held[l]]
           /\ attempt'[held[l]][no[l]] \notin {"none", "pending"}
    BY <1>a, <1>b DEF Control, RowGrows
  <1>1. CASE UNCHANGED <<pc, held, no>>
    BY <1>1, <1>a, <1>c DEF Control
  <1>2. CASE Crash
    BY <1>2 DEF Crash, Control, Started, Beating
  <1>3. ASSUME NEW l \in Lanes, Moves(l) PROVE Control'
    BY <1>3, <1>a, <1>c DEF Moves, Control, Started, Beating, ScopeTypeOK
  <1>4. ASSUME NEW l \in Lanes, Release(l) PROVE Control'
    BY <1>4, <1>a, <1>c DEF Release, Go, Control, Started, Beating, ScopeTypeOK
  <1>5. ASSUME NEW l \in Lanes, Gives(l) PROVE Control'
    BY <1>5, <1>a, <1>c DEF Gives, Control, Started, Beating, ScopeTypeOK
  <1>6. ASSUME NEW l \in Lanes, ClaimUnit(l) PROVE Control'
    <2>1. PICK u \in Units, n \in Attempts : Takes(l, u, n)
      BY <1>6, Taken
    <2>2. held' = held /\ held[l] = u /\ no' = [no EXCEPT ![l] = n]
          /\ pc' = [pc EXCEPT ![l] = "starting"] /\ last'[u] = n
      BY <1>a, <2>1 DEF Takes, ScopeTypeOK
    <2>3. attempt'[u][n] = "running"
      BY <1>a, <2>1 DEF Takes, ScopeTypeOK
    <2> QED
      BY <1>a, <1>c, <2>2, <2>3 DEF Control, Started, Beating, ScopeTypeOK
  <1>7. ASSUME NEW l \in Lanes, NEW u \in Units, ClaimContinuation(l, u) PROVE Control'
    BY <1>7, <1>a, <1>c DEF ClaimContinuation, Go, Control, Started, Beating, ScopeTypeOK
  <1> QED
    BY <1>1, <1>2, <1>3, <1>4, <1>5, <1>6, <1>7, LaneSteps

LEMMA ExclusiveStep ==
    ASSUME IInv, [ScopeNext]_vars
    PROVE  Exclusive'
  <1>a. ScopeTypeOK /\ Exclusive /\ Control /\ None \notin Attempts
        /\ \A n \in Attempts : n \in Nat
    BY Bounds DEF IInv
  <1>1. CASE UNCHANGED <<pc, held, no>>
    BY <1>1, <1>a DEF Exclusive
  <1>2. CASE Crash
    BY <1>2 DEF Crash, Exclusive
  <1>3. ASSUME NEW l \in Lanes, Moves(l) \/ Gives(l) PROVE Exclusive'
    BY <1>3, <1>a DEF Moves, Gives, Exclusive
  <1>4. ASSUME NEW l \in Lanes, Release(l) PROVE Exclusive'
    BY <1>4, <1>a DEF Release, Go, Exclusive, ScopeTypeOK
  <1>6. ASSUME NEW l \in Lanes, ClaimUnit(l) PROVE Exclusive'
    <2>1. PICK u \in Units, n \in Attempts : Takes(l, u, n)
      BY <1>6, Taken
    <2>2. held' = held /\ held[l] = u /\ no' = [no EXCEPT ![l] = n]
      BY <2>1 DEF Takes
    <2>3. ASSUME NEW m \in Lanes, m # l, held[m] = u PROVE no[m] # n
      <3>1. pc[m] \notin Started => no[m] = None
        BY <1>a DEF Control
      <3>2. pc[m] \in Started => /\ no[m] <= last[u] /\ no[m] \in Nat /\ last[u] \in Nat
                                 /\ attempt[u][no[m]] # "pending"
        BY <1>a, <2>3 DEF Control, ScopeTypeOK
      <3> QED
        BY <1>a, <2>1, <3>1, <3>2 DEF Takes
    <2> QED
      BY <1>a, <2>2, <2>3 DEF Exclusive, ScopeTypeOK
  <1>7. ASSUME NEW l \in Lanes, NEW u \in Units, ClaimContinuation(l, u) PROVE Exclusive'
    <2>1. no' = no /\ no[l] = None /\ held' = [held EXCEPT ![l] = u]
      BY <1>7, <1>a DEF ClaimContinuation, Control, Started, Beating
    <2> QED
      BY <1>a, <2>1 DEF Exclusive, ScopeTypeOK
  <1> QED
    BY <1>1, <1>2, <1>3, <1>4, <1>6, <1>7, LaneSteps

\* What a claim or a verdict of another lane leaves alone: the row of an
\* attempt that is the latest, in doubt or in a call.
Held(u, n) ==
    /\ n = last[u] /\ provider[u][n] = "requested" /\ attempt[u][n] \in Spoken

LEMMA HeldRow ==
    ASSUME IInv, [ScopeNext]_vars, NEW u \in Units, NEW n \in Attempts, Held(u, n),
           \A l \in Lanes : held[l] = u /\ no[l] = n /\ Owns(l) =>
               pc[l] # "ending" /\ ~Request(l)
               /\ \A outcome \in Outcomes : ~RecordOutcome(l, outcome)
    PROVE  n = last'[u] /\ provider'[u][n] = "requested" /\ attempt'[u][n] \in Spoken
  <1>a. ScopeTypeOK /\ Rows /\ Control
    BY DEF IInv
  <1>b. n = last[u] /\ provider[u][n] = "requested" /\ attempt[u][n] \in Spoken
    BY DEF Held
  <1>1. n = last'[u] /\ attempt'[u][n] \in Spoken
    <2>1. CASE UNCHANGED <<unit, last, attempt>>
      BY <1>b, <2>1
    <2>2. ASSUME NEW v \in Units, Decide(v) PROVE n = last'[u] /\ attempt'[u][n] \in Spoken
      <3>1. v # u
        BY <1>a, <1>b, <2>2 DEF Decide, Rows, Spoken
      <3> QED
        BY <1>a, <1>b, <2>2, <3>1 DEF Decide, ScopeTypeOK
    <2>3. ASSUME NEW v \in Units, CancelUnit(v) PROVE n = last'[u] /\ attempt'[u][n] \in Spoken
      BY <1>a, <1>b, <2>3 DEF CancelUnit, ScopeTypeOK, Spoken
    <2>4. ASSUME NEW l \in Lanes, ClaimUnit(l) PROVE n = last'[u] /\ attempt'[u][n] \in Spoken
      <3>1. PICK v \in Units, m \in Attempts : Takes(l, v, m)
        BY <2>4, Taken
      <3>2. v # u
        BY <1>b, <3>1 DEF Takes, Spoken
      <3> QED
        BY <1>a, <1>b, <3>1, <3>2 DEF Takes, ScopeTypeOK
    <2>5. ASSUME NEW l \in Lanes, ClaimInDoubt(l) PROVE n = last'[u] /\ attempt'[u][n] \in Spoken
      <3>1. held[l] \in Units /\ last[held[l]] \in Attempts
        BY <2>5, HeldTypes DEF ClaimInDoubt
      <3>2. /\ last' = last
            /\ attempt' = [attempt EXCEPT ![held[l]][last[held[l]]] = "outcome_unknown"]
        BY <2>5 DEF ClaimInDoubt
      <3>3. attempt'[u][n] \in {attempt[u][n], "outcome_unknown"}
        BY <1>a, <3>1, <3>2 DEF ScopeTypeOK
      <3> QED
        BY <1>b, <3>2, <3>3 DEF Spoken
    <2>6. ASSUME NEW l \in Lanes, CompleteUnit(l) PROVE n = last'[u] /\ attempt'[u][n] \in Spoken
      <3>1. CASE Release(l)
        <4>1. UNCHANGED <<last, attempt>>
          BY <2>6, <3>1, HeldTypes DEF CompleteUnit, Release, Go, unitVars, IInv, ScopeTypeOK
        <4> QED BY <1>b, <4>1
      <3>2. CASE ~Release(l)
        <4>1. /\ pc[l] = "ending" /\ held[l] \in Units /\ no[l] = last[held[l]] /\ Owns(l)
              /\ attempt' = [attempt EXCEPT ![held[l]][no[l]] = verdict[l]] /\ last' = last
          BY <2>6, <3>2, Written
        <4>2. held[l] # u
          BY <1>b, <4>1
        <4> QED BY <1>a, <1>b, <4>1, <4>2 DEF ScopeTypeOK
      <3> QED BY <3>1, <3>2
    <2> QED
      BY <2>1, <2>2, <2>3, <2>4, <2>5, <2>6, RowFrame
  <1>2. provider'[u][n] = "requested"
    <2>1. CASE UNCHANGED provider
      BY <1>b, <2>1
    <2>2. ASSUME NEW l \in Lanes, NEW outcome \in Outcomes, Request(l) \/ RecordOutcome(l, outcome)
          PROVE  provider'[u][n] = "requested"
      <3>1. CASE Raise(l)
        BY <1>b, <3>1 DEF Raise, unitVars
      <3>2. CASE ~Raise(l)
        <4>1. PICK state \in Facts : provider' = [provider EXCEPT ![held[l]][no[l]] = state]
          BY <2>2, <3>2, Recorded
        <4>2. held[l] \in Units /\ no[l] \in Attempts /\ no[l] = last[held[l]] /\ Owns(l)
          BY <2>2, <3>2, Recorded
        <4>3. held[l] # u
          BY <1>b, <2>2, <4>2
        <4> QED BY <1>a, <1>b, <4>1, <4>2, <4>3 DEF ScopeTypeOK
      <3> QED BY <3>1, <3>2
    <2> QED
      BY <2>1, <2>2, ProviderFrame DEF Outcomes
  <1> QED BY <1>1, <1>2

LEMMA CallStep ==
    ASSUME IInv, [ScopeNext]_vars
    PROVE  CallRows'
  <1>a. ScopeTypeOK /\ CallRows /\ Control /\ Exclusive /\ None \notin Attempts
    BY Bounds DEF IInv
  <1>b. \A l \in Lanes : pc[l] \in MidCall =>
           held[l] \in Units /\ no[l] \in Attempts /\ Held(held[l], no[l])
    BY <1>a DEF Control, MidCall, Started, Beating, CallRows, Held
  \* A call is begun by a request and goes on until its outcome.
  <1>c. ASSUME NEW l \in Lanes, pc'[l] \in MidCall
        PROVE  \/ Request(l) /\ ~Raise(l)
               \/ /\ pc[l] \in MidCall /\ UNCHANGED <<held[l], no[l]>>
                  /\ ~Request(l) /\ \A outcome \in Outcomes : ~RecordOutcome(l, outcome)
    <2>1. ASSUME Request(l) PROVE ~Raise(l)
      BY <1>a, <1>c, <2>1 DEF Request, Raise, Go, ScopeTypeOK, MidCall
    <2>2. \A outcome \in Outcomes : ~RecordOutcome(l, outcome)
      BY <1>a, <1>c DEF RecordOutcome, Raise, Go, ScopeTypeOK, MidCall
    <2>3. \/ Request(l)
          \/ pc[l] \in MidCall /\ UNCHANGED <<held[l], no[l]>>
      <3>1. CASE UNCHANGED <<pc, held, no>>
        BY <1>c, <3>1
      <3>2. CASE Crash
        BY <1>c, <3>2 DEF Crash, MidCall
      <3>3. ASSUME NEW m \in Lanes, Moves(m) PROVE Request(l) \/ (pc[l] \in MidCall /\ UNCHANGED <<held[l], no[l]>>)
        BY <1>a, <1>c, <3>3 DEF Moves, ScopeTypeOK
      <3>4. ASSUME NEW m \in Lanes, Release(m) \/ Gives(m) PROVE Request(l) \/ (pc[l] \in MidCall /\ UNCHANGED <<held[l], no[l]>>)
        BY <1>a, <1>c, <3>4 DEF Release, Gives, Go, ScopeTypeOK, MidCall
      <3>5. ASSUME NEW m \in Lanes, ClaimUnit(m) PROVE Request(l) \/ (pc[l] \in MidCall /\ UNCHANGED <<held[l], no[l]>>)
        <4>1. PICK v \in Units, n \in Attempts : Takes(m, v, n)
          BY <3>5, Taken
        <4> QED BY <1>a, <1>c, <4>1 DEF Takes, ScopeTypeOK, MidCall
      <3>6. ASSUME NEW m \in Lanes, NEW v \in Units, ClaimContinuation(m, v) PROVE Request(l) \/ (pc[l] \in MidCall /\ UNCHANGED <<held[l], no[l]>>)
        BY <1>a, <1>c, <3>6 DEF ClaimContinuation, Go, ScopeTypeOK, MidCall
      <3> QED BY <3>1, <3>2, <3>3, <3>4, <3>5, <3>6, LaneSteps
    <2> QED BY <2>1, <2>2, <2>3 DEF Request, MidCall
  <1>1. ASSUME NEW l \in Lanes, Request(l), ~Raise(l)
        PROVE  /\ no'[l] = last'[held'[l]] /\ provider'[held'[l]][no'[l]] = "requested"
               /\ attempt'[held'[l]][no'[l]] \in Spoken
    <2>1. held[l] \in Units /\ no[l] \in Attempts /\ no[l] = last[held[l]] /\ Owns(l)
          /\ UNCHANGED <<last, attempt, held, no>>
      BY <1>1, Recorded DEF Outcomes
    <2>2. provider'[held[l]][no[l]] = "requested"
      BY <1>1, <1>a, <2>1 DEF Request, SetProvider, ScopeTypeOK
    <2> QED BY <2>1, <2>2 DEF Owns, Spoken
  <1>2. ASSUME NEW l \in Lanes, pc[l] \in MidCall, UNCHANGED <<held[l], no[l]>>,
               ~Request(l), \A outcome \in Outcomes : ~RecordOutcome(l, outcome)
        PROVE  /\ no'[l] = last'[held'[l]] /\ provider'[held'[l]][no'[l]] = "requested"
               /\ attempt'[held'[l]][no'[l]] \in Spoken
    <2>1. held[l] \in Units /\ no[l] \in Attempts /\ Held(held[l], no[l])
      BY <1>2, <1>b
    <2>2. \A m \in Lanes : held[m] = held[l] /\ no[m] = no[l] => m = l
      BY <1>a, <2>1 DEF Exclusive
    <2>3. pc[l] # "ending"
      BY <1>2 DEF MidCall
    <2>4. /\ no[l] = last'[held[l]] /\ provider'[held[l]][no[l]] = "requested"
          /\ attempt'[held[l]][no[l]] \in Spoken
      BY <1>2, <2>1, <2>2, <2>3, HeldRow
    <2> QED BY <1>2, <2>4
  <1> QED
    BY <1>c, <1>1, <1>2 DEF CallRows

LEMMA DoubtStep ==
    ASSUME IInv, [ScopeNext]_vars
    PROVE  Doubt'
  <1>a. ScopeTypeOK /\ Doubt /\ CallRows /\ Control /\ None \notin Attempts
    BY Bounds DEF IInv
  \* Calls already in doubt.
  <1>1. ASSUME NEW u \in Units, NEW n \in Attempts, <<u, n>> \in inDoubt
        PROVE  /\ n = last'[u] /\ provider'[u][n] = "requested" /\ attempt'[u][n] \in Spoken
               /\ attempt'[u][n] = "running" =>
                     unitExpired'[u] \/ ~\E l \in Lanes : held'[l] = u /\ no'[l] = n
    <2>a. Held(u, n) /\ \A l \in Lanes : held[l] = u /\ no[l] = n => ~Owns(l)
      BY <1>1, <1>a DEF Doubt, Held, Owns
    <2>1. n = last'[u] /\ provider'[u][n] = "requested" /\ attempt'[u][n] \in Spoken
      BY <2>a, HeldRow
    <2>2. ASSUME attempt'[u][n] = "running" PROVE attempt[u][n] = "running"
      <3>1. CASE UNCHANGED <<unit, last, attempt>>
        BY <2>2, <3>1
      <3>2. ASSUME NEW v \in Units, Decide(v) \/ CancelUnit(v) PROVE attempt[u][n] = "running"
        <4>1. CASE Decide(v)
          <5>1. attempt'[u][n] \in {attempt[u][n], "pending"}
            BY <1>a, <4>1, Bounds DEF Decide, ScopeTypeOK
          <5> QED BY <2>2, <5>1
        <4>2. CASE CancelUnit(v)
          <5>1. attempt'[u][n] \in {attempt[u][n], "cancelled"}
            BY <1>a, <4>2 DEF CancelUnit, ScopeTypeOK
          <5> QED BY <2>2, <5>1
        <4> QED BY <3>2, <4>1, <4>2
      <3>3. ASSUME NEW l \in Lanes, ClaimUnit(l) PROVE attempt[u][n] = "running"
        <4>1. PICK v \in Units, m \in Attempts : Takes(l, v, m)
          BY <3>3, Taken
        <4>2. v # u
          BY <2>a, <4>1 DEF Takes, Held, Spoken
        <4> QED BY <1>a, <2>2, <4>1, <4>2 DEF Takes, ScopeTypeOK
      <3>4. ASSUME NEW l \in Lanes, ClaimInDoubt(l) PROVE attempt[u][n] = "running"
        <4>1. /\ held[l] \in Units /\ last[held[l]] \in Attempts
              /\ attempt' = [attempt EXCEPT ![held[l]][last[held[l]]] = "outcome_unknown"]
          BY <3>4, HeldTypes DEF ClaimInDoubt
        <4> QED BY <1>a, <2>2, <4>1 DEF ScopeTypeOK
      <3>5. ASSUME NEW l \in Lanes, CompleteUnit(l) PROVE attempt[u][n] = "running"
        <4>1. CASE Release(l)
          <5>1. attempt' = attempt
            BY <3>5, <4>1, HeldTypes DEF CompleteUnit, Release, Go, unitVars, IInv, ScopeTypeOK
          <5> QED BY <2>2, <5>1
        <4>2. CASE ~Release(l)
          <5>1. /\ held[l] \in Units /\ no[l] = last[held[l]] /\ Owns(l) /\ no[l] \in Attempts
                /\ attempt' = [attempt EXCEPT ![held[l]][no[l]] = verdict[l]]
            BY <3>5, <4>2, Written
          <5>2. held[l] # u
            BY <2>a, <5>1 DEF Held
          <5> QED BY <1>a, <2>2, <5>1, <5>2 DEF ScopeTypeOK
        <4> QED BY <4>1, <4>2
      <3> QED BY <3>1, <3>2, <3>3, <3>4, <3>5, RowFrame
    <2>3. (unitExpired[u] \/ ~\E l \in Lanes : held[l] = u /\ no[l] = n)
          => (unitExpired'[u] \/ ~\E l \in Lanes : held'[l] = u /\ no'[l] = n)
      <3>1. unitExpired[u] => unitExpired'[u]
        <4>1. CASE \E l \in Lanes : ClaimUnit(l)
          <5>1. PICK l \in Lanes, v \in Units, m \in Attempts : Takes(l, v, m)
            BY <4>1, Taken
          <5>2. v # u
            BY <2>a, <5>1 DEF Takes, Held, Spoken
          <5> QED BY <1>a, <5>1, <5>2 DEF Takes, ScopeTypeOK
        <4>2. CASE ~\E l \in Lanes : ClaimUnit(l)
          BY <1>a, <4>2, LeaseFrame DEF LapseUnit, ScopeTypeOK
        <4> QED BY <4>1, <4>2
      <3>2. ASSUME NEW l \in Lanes, held'[l] = u, no'[l] = n
            PROVE  held[l] = u /\ no[l] = n
        <4>1. CASE UNCHANGED <<pc, held, no>>
          BY <3>2, <4>1
        <4>2. CASE Crash
          BY <1>a, <3>2, <4>2 DEF Crash
        <4>3. ASSUME NEW m \in Lanes, Moves(m) \/ Gives(m) \/ Release(m) PROVE held[l] = u /\ no[l] = n
          BY <1>a, <3>2, <4>3 DEF Moves, Gives, Release, Go, ScopeTypeOK
        <4>4. ASSUME NEW m \in Lanes, ClaimUnit(m) PROVE held[l] = u /\ no[l] = n
          <5>1. PICK v \in Units, k \in Attempts : Takes(m, v, k)
            BY <4>4, Taken
          <5>2. v # u
            BY <2>a, <5>1 DEF Takes, Held, Spoken
          <5> QED BY <1>a, <3>2, <5>1, <5>2 DEF Takes, ScopeTypeOK
        <4>5. ASSUME NEW m \in Lanes, NEW v \in Units, ClaimContinuation(m, v)
              PROVE  held[l] = u /\ no[l] = n
          <5>1. no' = no /\ no[m] = None /\ held' = [held EXCEPT ![m] = v]
            BY <4>5, <1>a DEF ClaimContinuation, Control, Started, Beating
          <5> QED BY <1>a, <3>2, <5>1 DEF ScopeTypeOK
        <4> QED BY <4>1, <4>2, <4>3, <4>4, <4>5, LaneSteps
      <3>3. CASE unitExpired[u]
        BY <3>1, <3>3, Zenon
      <3>4. CASE ~\E l \in Lanes : held[l] = u /\ no[l] = n
        BY <3>2, <3>4, Zenon
      <3> QED BY <3>3, <3>4, Zenon
    <2>4. attempt[u][n] = "running" =>
             unitExpired[u] \/ ~\E l \in Lanes : held[l] = u /\ no[l] = n
      BY <1>1, <1>a, Zenon DEF Doubt
    <2> QED
      BY <2>1, <2>2, <2>3, <2>4, Zenon
  \* Calls put in doubt by this step.
  <1>2. ASSUME NEW u \in Units, NEW n \in Attempts, <<u, n>> \in inDoubt', <<u, n>> \notin inDoubt
        PROVE  /\ n = last'[u] /\ provider'[u][n] = "requested" /\ attempt'[u][n] \in Spoken
               /\ attempt'[u][n] = "running" =>
                     unitExpired'[u] \/ ~\E l \in Lanes : held'[l] = u /\ no'[l] = n
    <2>1. ASSUME NEW v \in Units, <<u, n>> \in CallsLost(v)
          PROVE  v = u /\ n = last[u] /\ provider[u][n] = "requested" /\ attempt[u][n] \in Spoken
      BY <1>a, <2>1 DEF CallsLost, CallRows, InCall, MidCall
    <2>2. ASSUME NEW v \in Units, LapseUnit(v), <<u, n>> \in CallsLost(v) PROVE unitExpired'[u]
      BY <1>a, <2>1, <2>2 DEF LapseUnit, ScopeTypeOK
    <2>3. CASE \E v \in Units : LapseUnit(v)
      BY <1>2, <2>1, <2>2, <2>3 DEF LapseUnit
    <2>4. CASE Crash
      BY <1>2, <1>a, <2>1, <2>4 DEF Crash, unitVars
    <2> QED BY <1>2, <2>3, <2>4, DoubtFrame
  <1> QED BY <1>1, <1>2 DEF Doubt

\* How a lane comes to an end.
LEMMA Endings ==
    ASSUME IInv, [ScopeNext]_vars, NEW l \in Lanes, pc'[l] \in {"ending", "closing"}
    PROVE  \/ Check(l) \/ Judge(l) \/ CompleteUnit(l)
           \/ UNCHANGED <<pc[l], held[l], verdict[l]>>
  <1>a. ScopeTypeOK
    BY DEF IInv
  <1>1. CASE UNCHANGED verdict
    <2>1. CASE UNCHANGED <<pc, held, no>>
      BY <1>1, <2>1
    <2>2. CASE Crash
      BY <2>2 DEF Crash
    <2>3. ASSUME NEW m \in Lanes, Moves(m)
          PROVE  Check(l) \/ Judge(l) \/ CompleteUnit(l) \/ UNCHANGED <<pc[l], held[l], verdict[l]>>
      BY <1>a, <1>1, <2>3 DEF Moves, ScopeTypeOK
    <2>4. ASSUME NEW m \in Lanes, Release(m) \/ Gives(m) PROVE UNCHANGED <<pc[l], held[l], verdict[l]>>
      BY <1>a, <1>1, <2>4 DEF Release, Go, Gives, ScopeTypeOK
    <2>5. ASSUME NEW m \in Lanes, ClaimUnit(m) PROVE UNCHANGED <<pc[l], held[l], verdict[l]>>
      <3>1. PICK v \in Units, n \in Attempts : Takes(m, v, n)
        BY <2>5, Taken
      <3> QED BY <1>a, <1>1, <3>1 DEF Takes, ScopeTypeOK
    <2>6. ASSUME NEW m \in Lanes, NEW v \in Units, ClaimContinuation(m, v)
          PROVE  UNCHANGED <<pc[l], held[l], verdict[l]>>
      BY <1>a, <1>1, <2>6 DEF ClaimContinuation, Go, ScopeTypeOK
    <2> QED BY <2>1, <2>2, <2>3, <2>4, <2>5, <2>6, LaneSteps
  <1>2. ASSUME NEW m \in Lanes, Check(m) \/ Refuse(m) \/ Judge(m) \/ CompleteUnit(m) \/ Close(m)
        PROVE  Check(l) \/ Judge(l) \/ CompleteUnit(l) \/ UNCHANGED <<pc[l], held[l], verdict[l]>>
    <2>1. CASE Check(m)
      BY <1>a, <2>1 DEF Check, Raise, Go, Stay, ScopeTypeOK
    <2>2. CASE Refuse(m) \/ Close(m)
      BY <1>a, <2>2 DEF Refuse, Close, Release, Go, ScopeTypeOK
    <2>3. CASE Judge(m)
      BY <1>a, <2>3 DEF Judge, Release, Go, ScopeTypeOK
    <2>4. CASE CompleteUnit(m)
      BY <1>a, <2>4 DEF CompleteUnit, Release, Go, Stay, ScopeTypeOK
    <2> QED BY <1>2, <2>1, <2>2, <2>3, <2>4
  <1>3. CASE Crash
    BY <1>3 DEF Crash
  <1> QED BY <1>1, <1>2, <1>3, VerdictFrame

\* What a lane decided stays true until it is written, and after.
LEMMA EarnedStep ==
    ASSUME IInv, [ScopeNext]_vars
    PROVE  Earned'
  <1>a. ScopeTypeOK /\ Earned /\ CompletionIsEarned /\ Control /\ Rows
    BY DEF IInv, Earned
  <1>b. \A u \in Units : product[u] => product'[u]
    <2>1. CASE UNCHANGED product
      BY <2>1
    <2>2. ASSUME NEW l \in Lanes, Produce(l) PROVE \A u \in Units : product[u] => product'[u]
      BY <1>a, <2>2 DEF Produce, Raise, unitVars, ScopeTypeOK
    <2> QED BY <2>1, <2>2, ProductFrame
  \* A completed unit stays completed.
  <1>c. ASSUME NEW u \in Units, unit[u] = "completed" PROVE unit'[u] = "completed"
    <2>1. CASE UNCHANGED <<unit, last, attempt>>
      BY <1>c, <2>1
    <2>2. ASSUME NEW v \in Units, Decide(v) \/ CancelUnit(v) PROVE unit'[u] = "completed"
      BY <1>a, <1>c, <2>2 DEF Decide, CancelUnit, Rows, ScopeTypeOK
    <2>3. ASSUME NEW l \in Lanes, ClaimUnit(l) PROVE unit'[u] = "completed"
      <3>1. PICK v \in Units, n \in Attempts : Takes(l, v, n)
        BY <2>3, Taken
      <3>2. v # u
        BY <1>a, <1>c, <3>1 DEF Takes, Rows
      <3> QED BY <1>a, <1>c, <3>1, <3>2 DEF Takes, ScopeTypeOK
    <2>4. ASSUME NEW l \in Lanes, ClaimInDoubt(l) PROVE unit'[u] = "completed"
      <3>1. held[l] \in Units /\ attempt[held[l]][last[held[l]]] = "running"
            /\ unit' = [unit EXCEPT ![held[l]] = "outcome_unknown"]
        BY <2>4, HeldTypes DEF ClaimInDoubt, TakenOver, LatestState
      <3> QED BY <1>a, <1>c, <3>1 DEF Rows, ScopeTypeOK
    <2>5. ASSUME NEW l \in Lanes, CompleteUnit(l) PROVE unit'[u] = "completed"
      <3>1. CASE Release(l)
        <4>1. unit' = unit
          BY <2>5, <3>1, HeldTypes DEF CompleteUnit, Release, Go, unitVars, IInv, ScopeTypeOK
        <4> QED BY <1>c, <4>1
      <3>2. CASE ~Release(l)
        <4>1. /\ held[l] \in Units /\ no[l] = last[held[l]] /\ Owns(l)
              /\ unit' = [unit EXCEPT ![held[l]] = verdict[l]]
          BY <2>5, <3>2, Written
        <4> QED BY <1>a, <1>c, <4>1 DEF Owns, Rows, ScopeTypeOK
      <3> QED BY <3>1, <3>2
    <2> QED BY <2>1, <2>2, <2>3, <2>4, <2>5, RowFrame
  \* A unit that has just been completed has its terminal fact.
  <1>1. ASSUME NEW u \in Units, unit'[u] = "completed", unit[u] # "completed" PROVE product'[u]
    <2>1. CASE UNCHANGED <<unit, last, attempt>>
      BY <1>1, <2>1
    <2>2. ASSUME NEW v \in Units, Decide(v) \/ CancelUnit(v) PROVE FALSE
      BY <1>a, <1>1, <2>2 DEF Decide, CancelUnit, ScopeTypeOK
    <2>3. ASSUME NEW l \in Lanes, ClaimUnit(l) PROVE FALSE
      <3>1. PICK v \in Units, n \in Attempts : Takes(l, v, n)
        BY <2>3, Taken
      <3> QED BY <1>a, <1>1, <3>1 DEF Takes, ScopeTypeOK
    <2>4. ASSUME NEW l \in Lanes, ClaimInDoubt(l) PROVE FALSE
      BY <1>a, <1>1, <2>4 DEF ClaimInDoubt, ScopeTypeOK
    <2>5. ASSUME NEW l \in Lanes, CompleteUnit(l) PROVE product'[u]
      <3>1. CASE Release(l)
        <4>1. unit' = unit
          BY <2>5, <3>1, HeldTypes DEF CompleteUnit, Release, Go, unitVars, IInv, ScopeTypeOK
        <4> QED BY <1>1, <4>1
      <3>2. CASE ~Release(l)
        <4>1. /\ pc[l] = "ending" /\ held[l] \in Units
              /\ unit' = [unit EXCEPT ![held[l]] = verdict[l]]
          BY <2>5, <3>2, Written
        <4>2. held[l] = u /\ verdict[l] = "completed"
          BY <1>a, <1>1, <4>1 DEF ScopeTypeOK
        <4>3. product[u]
          BY <1>a, <4>1, <4>2, Zenon DEF Earned
        <4> QED BY <1>b, <4>3, Zenon
      <3> QED BY <3>1, <3>2, Zenon
    <2> QED BY <2>1, <2>2, <2>3, <2>4, <2>5, RowFrame, Zenon
  <1>2. \A u \in Units : unit'[u] = "completed" => product'[u]
    <2>1. \A u \in Units : unit[u] = "completed" => product'[u]
      BY <1>a, <1>b, Zenon DEF CompletionIsEarned
    <2> QED BY <1>1, <2>1, Zenon
  \* A continuation is completed by a lane that completed its unit.
  <1>3. ASSUME NEW u \in Units, cont'[u] = "completed" PROVE unit'[u] = "completed"
    <2>1. CASE cont[u] = "completed"
      BY <1>a, <1>c, <2>1 DEF CompletionIsEarned
    <2>2. CASE cont[u] # "completed"
      <3>1. ASSUME NEW v \in Units, Decide(v) \/ Replay(v) PROVE FALSE
        BY <1>a, <1>3, <2>2, <3>1 DEF Decide, Replay, ScopeTypeOK
      <3>2. ASSUME NEW l \in Lanes, NEW v \in Units, ClaimContinuation(l, v) PROVE FALSE
        BY <1>a, <1>3, <2>2, <3>2 DEF ClaimContinuation, ScopeTypeOK
      <3>3. ASSUME NEW l \in Lanes, Refuse(l) PROVE FALSE
        <4>1. held[l] \in Units
          BY <1>a, <3>3 DEF Refuse, Control
        <4> QED BY <1>a, <1>3, <2>2, <3>3, <4>1 DEF Refuse, CompleteContinuation, ScopeTypeOK
      <3>4. ASSUME NEW l \in Lanes, Close(l) PROVE unit[u] = "completed"
        <4>1. held[l] \in Units /\ pc[l] = "closing"
          BY <1>a, <3>4 DEF Close, Control
        <4>2. held[l] = u /\ verdict[l] = "completed"
          BY <1>a, <1>3, <2>2, <3>4, <4>1 DEF Close, CompleteContinuation, ScopeTypeOK
        <4> QED BY <1>a, <4>1, <4>2 DEF Earned
      <3> QED BY <1>3, <1>c, <2>2, <3>1, <3>2, <3>3, <3>4, ContFrame
    <2> QED BY <2>1, <2>2
  \* The lanes that end.
  <1>4. ASSUME NEW l \in Lanes, verdict'[l] = "completed", pc'[l] \in {"ending", "closing"}
        PROVE  /\ pc'[l] = "ending" => product'[held'[l]]
               /\ pc'[l] = "closing" => unit'[held'[l]] = "completed"
    <2>1. ASSUME UNCHANGED <<pc[l], held[l], verdict[l]>>
          PROVE  /\ pc'[l] = "ending" => product'[held'[l]]
                 /\ pc'[l] = "closing" => unit'[held'[l]] = "completed"
      <3>1. pc[l] = "ending" => product[held[l]]
        BY <1>a, <1>4, <2>1, Zenon DEF Earned
      <3>2. pc[l] = "closing" => unit[held[l]] = "completed"
        BY <1>a, <1>4, <2>1 DEF Earned
      <3>3. held[l] \in Units
        BY <1>a, <1>4, <2>1 DEF Control
      <3> QED BY <1>b, <1>c, <2>1, <3>1, <3>2, <3>3, Zenon
    <2>2. ASSUME Check(l)
          PROVE  /\ pc'[l] = "ending" => product'[held'[l]]
                 /\ pc'[l] = "closing" => unit'[held'[l]] = "completed"
      <3>1. CASE product[held[l]]
        <4>1. pc'[l] # "closing" /\ held'[l] = held[l] /\ product' = product
          BY <1>a, <2>2 DEF Check, Raise, Go, Stay, unitVars, ScopeTypeOK
        <4> QED BY <3>1, <4>1, Zenon
      <3>2. CASE ~product[held[l]]
        <4>1. pc'[l] = "raised"
          BY <1>a, <2>2, <3>2 DEF Check, Raise, Go, ScopeTypeOK
        <4> QED BY <4>1
      <3> QED BY <3>1, <3>2, Zenon
    <2>3. ASSUME Judge(l) PROVE FALSE
      BY <1>a, <1>4, <2>3 DEF Judge, Release, Go, ScopeTypeOK
    <2>4. ASSUME CompleteUnit(l)
          PROVE  pc'[l] = "closing" /\ unit'[held'[l]] = "completed"
      <3>1. ~Release(l)
        BY <1>a, <1>4 DEF Release, Go, ScopeTypeOK
      <3>2. /\ held[l] \in Units /\ held' = held /\ verdict' = verdict
            /\ unit' = [unit EXCEPT ![held[l]] = verdict[l]] /\ pc' = [pc EXCEPT ![l] = "closing"]
        BY <2>4, <3>1, Written
      <3> QED BY <1>a, <1>4, <3>2 DEF ScopeTypeOK
    <2>5. \/ Check(l) \/ Judge(l) \/ CompleteUnit(l)
          \/ UNCHANGED <<pc[l], held[l], verdict[l]>>
      BY <1>4, Endings
    <2> QED BY <2>1, <2>2, <2>3, <2>4, <2>5, Zenon
  <1> QED BY <1>2, <1>3, <1>4, Zenon DEF Earned, CompletionIsEarned

----------------------------------------------------------------------------
(* The theorems *)

LEMMA InitIInv == ScopeInit => IInv
  <1> SUFFICES ASSUME ScopeInit PROVE IInv
    OBVIOUS
  <1>1. ScopeTypeOK
    BY Bounds, ScopeAssumption
    DEF ScopeInit, ScopeTypeOK, LaneAt, Beating, Verdicts, Outcomes, None
  <1>2. Rows
    BY Bounds DEF ScopeInit, Rows, Attempts
  <1>3. Control /\ Exclusive /\ CallRows /\ Doubt
    BY DEF ScopeInit, Control, Exclusive, CallRows, Doubt, MidCall, Started, Beating
  <1>4. Earned
    BY DEF ScopeInit, Earned, CompletionIsEarned
  <1> QED BY <1>1, <1>2, <1>3, <1>4 DEF IInv

LEMMA StepIInv == IInv /\ [ScopeNext]_vars => IInv'
  BY TypeStep, RowsStep, ControlStep, ExclusiveStep, CallStep, DoubtStep, EarnedStep DEF IInv

THEOREM InductiveInvariant == ScopeSpec => []IInv
  BY InitIInv, StepIInv, PTL DEF ScopeSpec

\* The database rows and the lanes keep their types.
THEOREM TypesHold == ScopeSpec => []ScopeTypeOK
  <1>1. IInv => ScopeTypeOK
    BY DEF IInv
  <1> QED BY <1>1, InductiveInvariant, PTL

\* SQL-CR-10 for a lane that dies, or loses its lease, within a call.
THEOREM LostCallsAreNeverRepeated == ScopeSpec => []LostCallsAreLast
  <1>1. IInv => LostCallsAreLast
    <2> SUFFICES ASSUME IInv, NEW call \in inDoubt PROVE last[call[1]] = call[2]
      BY DEF LostCallsAreLast
    <2>1. PICK u \in Units, n \in Attempts : call = <<u, n>>
      BY DEF IInv, ScopeTypeOK
    <2> QED BY <2>1 DEF IInv, Doubt
  <1> QED BY <1>1, InductiveInvariant, PTL

\* AUTH-CR-06: one provider call at a time for a unit.
THEOREM CallsAreExclusive == ScopeSpec => []OneCallAtATime
  <1>1. IInv => OneCallAtATime
    <2> SUFFICES ASSUME IInv, NEW l \in Lanes, NEW m \in Lanes, l # m,
                        pc[l] \in InCall, pc[m] \in InCall, held[l] = held[m]
                 PROVE  FALSE
      BY DEF OneCallAtATime
    <2>1. no[l] = last[held[l]] /\ no[m] = last[held[l]]
      BY DEF IInv, CallRows, MidCall, InCall
    <2>2. no[l] \in Attempts
      BY DEF IInv, Control, Started, Beating, InCall
    <2> QED BY <2>1, <2>2, Bounds DEF IInv, Exclusive
  <1> QED BY <1>1, InductiveInvariant, PTL

\* A completed unit has its terminal fact, a completed continuation its unit.
THEOREM CompletionsAreEarned == ScopeSpec => []CompletionIsEarned
  <1>1. IInv => CompletionIsEarned
    BY DEF IInv, Earned
  <1> QED BY <1>1, InductiveInvariant, PTL

\* Fencing: a settled attempt's record never changes again.
THEOREM SettledAttemptsNeverChange == ScopeSpec => SettledAttemptsStay
  <1>1. ASSUME IInv, [ScopeNext]_vars, NEW u \in Units, NEW n \in Attempts, Settled(u, n)
        PROVE  attempt'[u][n] = attempt[u][n] /\ provider'[u][n] = provider[u][n]
    <2>a. ScopeTypeOK /\ Rows /\ attempt[u][n] \notin {"none", "pending", "running"}
      BY <1>1 DEF IInv, Settled, Verdicts
    <2>1. attempt'[u][n] = attempt[u][n]
      <3>1. CASE UNCHANGED <<unit, last, attempt>>
        BY <3>1
      <3>2. ASSUME NEW v \in Units, Decide(v) PROVE attempt'[u][n] = attempt[u][n]
        <4>1. v = u => n # 1
          BY <2>a, <3>2, Bounds DEF Decide, Rows
        <4> QED BY <2>a, <3>2, <4>1 DEF Decide, ScopeTypeOK
      <3>3. ASSUME NEW v \in Units, CancelUnit(v) PROVE attempt'[u][n] = attempt[u][n]
        BY <2>a, <3>3 DEF CancelUnit, ScopeTypeOK
      <3>4. ASSUME NEW l \in Lanes, ClaimUnit(l) PROVE attempt'[u][n] = attempt[u][n]
        <4>1. PICK v \in Units, m \in Attempts : Takes(l, v, m)
          BY <1>1, <3>4, Taken
        <4>2. CASE v # u
          BY <2>a, <4>1, <4>2 DEF Takes, ScopeTypeOK
        <4>3. CASE v = u
          <5>1. n # m
            <6>1. m = last[u] \/ m > last[u]
              BY <2>a, <4>1, <4>3, Bounds DEF Takes, ScopeTypeOK
            <6>2. m > last[u] => attempt[u][m] = "none"
              BY <2>a DEF Rows
            <6>3. m = last[u] => attempt[u][m] = "pending"
              BY <2>a, <4>1, <4>3, Bounds DEF Takes, ScopeTypeOK
            <6> QED BY <2>a, <6>1, <6>2, <6>3
          <5>2. n = last[u] => attempt[u][n] = "failed" \/ attempt[u][n] = "pending"
            BY <2>a, <4>1, <4>3 DEF Takes
          <5>3. m = last[u] \/ m = last[u] + 1
            BY <4>1, <4>3 DEF Takes
          <5> QED BY <2>a, <4>1, <4>3, <5>1, <5>2 DEF Takes, ScopeTypeOK
        <4> QED BY <4>2, <4>3
      <3>5. ASSUME NEW l \in Lanes, ClaimInDoubt(l) PROVE attempt'[u][n] = attempt[u][n]
        <4>1. /\ held[l] \in Units /\ last[held[l]] \in Attempts
              /\ attempt[held[l]][last[held[l]]] = "running"
              /\ attempt' = [attempt EXCEPT ![held[l]][last[held[l]]] = "outcome_unknown"]
          BY <1>1, <3>5, HeldTypes DEF ClaimInDoubt, TakenOver, LatestState
        <4> QED BY <2>a, <4>1 DEF ScopeTypeOK
      <3>6. ASSUME NEW l \in Lanes, CompleteUnit(l) PROVE attempt'[u][n] = attempt[u][n]
        <4>1. CASE Release(l)
          <5>1. attempt' = attempt
            BY <1>1, <3>6, <4>1, HeldTypes DEF CompleteUnit, Release, Go, unitVars, IInv, ScopeTypeOK
          <5> QED BY <5>1
        <4>2. CASE ~Release(l)
          <5>1. /\ held[l] \in Units /\ no[l] \in Attempts /\ Owns(l)
                /\ attempt' = [attempt EXCEPT ![held[l]][no[l]] = verdict[l]]
            BY <1>1, <3>6, <4>2, Written
          <5> QED BY <2>a, <5>1 DEF Owns, ScopeTypeOK
        <4> QED BY <4>1, <4>2
      <3> QED BY <1>1, <3>1, <3>2, <3>3, <3>4, <3>5, <3>6, RowFrame
    <2>2. provider'[u][n] = provider[u][n]
      <3>1. CASE UNCHANGED provider
        BY <3>1
      <3>2. ASSUME NEW l \in Lanes, NEW outcome \in Outcomes, Request(l) \/ RecordOutcome(l, outcome)
            PROVE  provider'[u][n] = provider[u][n]
        <4>1. CASE Raise(l)
          BY <4>1 DEF Raise, unitVars
        <4>2. CASE ~Raise(l)
          <5>1. PICK state \in Facts : provider' = [provider EXCEPT ![held[l]][no[l]] = state]
            BY <1>1, <3>2, <4>2, Recorded
          <5>2. held[l] \in Units /\ no[l] \in Attempts /\ Owns(l)
            BY <1>1, <3>2, <4>2, Recorded
          <5> QED BY <2>a, <5>1, <5>2 DEF Owns, ScopeTypeOK
        <4> QED BY <4>1, <4>2
      <3> QED BY <1>1, <3>1, <3>2, ProviderFrame DEF Outcomes
    <2> QED BY <2>1, <2>2
  <1>2. IInv /\ [ScopeNext]_vars =>
           [\A u \in Units, n \in Attempts : Settled(u, n) =>
              attempt'[u][n] = attempt[u][n] /\ provider'[u][n] = provider[u][n]]_vars
    BY <1>1
  <1> QED
    BY <1>2, InductiveInvariant, PTL DEF ScopeSpec, SettledAttemptsStay
=============================================================================
