--------------------------- MODULE ScopeExecution ---------------------------
(***************************************************************************)
(* What happens to an accepted coverage decision of a content research run *)
(* (app/content_research): it leaves a continuation and an execution unit  *)
(* with a first attempt; lanes of the dispatch worker claim both, each     *)
(* under a lease of its own, call the external provider, and settle them.  *)
(* A lane may stall until its leases lapse, the process may crash with all *)
(* its lanes, the user may cancel the run or replay the decision.          *)
(*                                                                         *)
(* Every write of an attempt is fenced by its lease; the continuation is   *)
(* fenced by its token alone.  A lease token is the number of the claim:   *)
(* an attempt is claimed at most once, so its number is its token.         *)
(***************************************************************************)
EXTENDS Naturals

CONSTANTS
    Lanes,          \* the lanes of run_loop (max_concurrent_runs)
    U,              \* bound: decisions of a behaviour, one unit each, by age
    MaxCalls,       \* provider calls a frozen query plan makes in an attempt
    MaxFaults       \* bound on the crashes, the leases that lapse under a
                    \* living lane and the decisions sent again, together

ASSUME ScopeAssumption ==
    U \in Nat /\ MaxCalls \in Nat /\ MaxFaults \in Nat

Units == 1..U
\* Bound: only a replay, a crash or a stall leads to another attempt.
MaxAttempts == 1 + MaxFaults
Attempts == 1..MaxAttempts
None == 0           \* no unit, no attempt

VARIABLES
    (* the database *)
    cont,           \* content_research_scope_execution_continuations.state
    claims,         \* its attempt_count, the token of its latest claim
    contExpired,    \* whether its lease has run out
    unit,           \* content_research_scope_execution_units.state
    last,           \* the latest attempt of the unit
    attempt,        \* the attempts' state
    provider,       \* the attempts' provider_state
    unitExpired,    \* whether the lease of the latest attempt has run out
    product,        \* the unit's terminal fact: coverage, hand-off, publication
    (* the lanes *)
    pc,             \* where the lane is
    held,           \* the unit whose continuation it claimed
    token,          \* under which claim
    no,             \* the attempt it claimed
    calls,          \* provider calls it has begun in this attempt
    verdict,        \* terminal_state of _run_scope_continuation
    lost,           \* a heartbeat has seen its lease lost
    (* faults, history *)
    faults,         \* how many there have been
    inDoubt         \* attempts whose lane lost them during a provider call

contVars == <<cont, claims, contExpired>>
unitVars == <<unit, last, attempt, provider, unitExpired, product>>
laneVars == <<pc, held, token, no, calls, verdict, lost>>
faultVars == <<faults, inDoubt>>
vars == <<contVars, unitVars, laneVars, faultVars>>

Outcomes == {"succeeded", "retryable_failed", "terminal_failed", "outcome_unknown"}
Verdicts == {"completed", "failed", "outcome_unknown"}
\* A lane between its claim of the attempt and the end of its heartbeats.
Beating == {"starting", "working", "flushing", "calling", "answered", "checking", "raised"}
InCall == {"calling", "answered"}
LaneAt == Beating \cup {"idle", "claimed", "refused", "ending", "closing"}

ScopeTypeOK ==
    /\ cont \in [Units -> {"none", "pending", "running", "completed", "failed"}]
    /\ claims \in [Units -> Nat] /\ contExpired \in [Units -> BOOLEAN]
    /\ unit \in [Units -> Verdicts \cup {"none", "pending", "running", "cancelled"}]
    /\ last \in [Units -> Attempts]
    /\ attempt \in [Units -> [Attempts ->
                        Verdicts \cup {"none", "pending", "running", "cancelled"}]]
    /\ provider \in [Units -> [Attempts -> Outcomes \cup {"none", "requested"}]]
    /\ unitExpired \in [Units -> BOOLEAN] /\ product \in [Units -> BOOLEAN]
    /\ pc \in [Lanes -> LaneAt]
    /\ held \in [Lanes -> Units \cup {None}] /\ token \in [Lanes -> Nat]
    /\ no \in [Lanes -> Attempts \cup {None}] /\ calls \in [Lanes -> 0..MaxCalls]
    /\ verdict \in [Lanes -> Verdicts] /\ lost \in [Lanes -> BOOLEAN]
    /\ faults \in 0..MaxFaults
    /\ inDoubt \subseteq Units \X Attempts

ScopeInit ==
    /\ cont = [u \in Units |-> "none"] /\ claims = [u \in Units |-> 0]
    /\ contExpired = [u \in Units |-> FALSE]
    /\ unit = [u \in Units |-> "none"] /\ last = [u \in Units |-> 1]
    /\ attempt = [u \in Units |-> [n \in Attempts |-> "none"]]
    /\ provider = [u \in Units |-> [n \in Attempts |-> "none"]]
    /\ unitExpired = [u \in Units |-> FALSE] /\ product = [u \in Units |-> FALSE]
    /\ pc = [l \in Lanes |-> "idle"] /\ held = [l \in Lanes |-> None]
    /\ token = [l \in Lanes |-> 0] /\ no = [l \in Lanes |-> None]
    /\ calls = [l \in Lanes |-> 0] /\ verdict = [l \in Lanes |-> "completed"]
    /\ lost = [l \in Lanes |-> FALSE]
    /\ faults = 0 /\ inDoubt = {}

----------------------------------------------------------------------------
Fault == faults < MaxFaults /\ faults' = faults + 1

(* The user *)

\* resolve_coverage_and_authorize_execution_atomically, with the decision's
\* authorization: unit, first attempt and continuation in one transaction.
Decide(u) ==
    /\ cont[u] = "none" /\ \A v \in Units : v < u => cont[v] # "none"
    /\ cont' = [cont EXCEPT ![u] = "pending"]
    /\ unit' = [unit EXCEPT ![u] = "pending"]
    /\ attempt' = [attempt EXCEPT ![u][1] = "pending"]
    /\ UNCHANGED <<claims, contExpired, last, provider, unitExpired, product,
                   laneVars, faultVars>>

Replayable(u) == cont[u] = "failed" /\ provider[u][last[u]] = "retryable_failed"

\* The decision sent again: requeue_scope_execution_continuation wakes a
\* failed continuation only when its latest attempt may be retried.  (Through
\* a runtime writer it never comes to this: the decision's records are built
\* anew, with new created_at, and the command conflicts with its receipt.)
Replay(u) ==
    /\ Replayable(u) /\ Fault
    /\ cont' = [cont EXCEPT ![u] = "pending"]
    /\ UNCHANGED <<claims, contExpired, unitVars, laneVars, inDoubt>>

\* The part of a run's cancellation that reaches its executions.  The
\* continuation is left as it is.
CancelUnit(u) ==
    /\ unit[u] \in {"pending", "running"}
    /\ unit' = [unit EXCEPT ![u] = "cancelled"]
    /\ attempt' = [attempt EXCEPT ![u] = [n \in Attempts |->
            IF @[n] \in {"pending", "running"} THEN "cancelled" ELSE @[n]]]
    /\ UNCHANGED <<contVars, last, provider, unitExpired, product, laneVars, faultVars>>

----------------------------------------------------------------------------
(* A lane: the two claims *)

Go(l, at) == pc' = [pc EXCEPT ![l] = at]
Release(l) ==
    /\ Go(l, "idle")
    /\ held' = [held EXCEPT ![l] = None] /\ token' = [token EXCEPT ![l] = 0]
    /\ no' = [no EXCEPT ![l] = None] /\ calls' = [calls EXCEPT ![l] = 0]
    /\ verdict' = [verdict EXCEPT ![l] = "completed"]
    /\ lost' = [lost EXCEPT ![l] = FALSE]
Stay == UNCHANGED <<held, token, no, calls, verdict, lost>>

\* Mutant: an expired continuation is not claimed again.
ClaimableOnce(u) == cont[u] = "pending"
Claimable(u) == cont[u] = "pending" \/ (cont[u] = "running" /\ contExpired[u])

\* claim_next: every expired continuation is released, the oldest pending
\* one claimed.
ClaimContinuation(l, u) ==
    /\ pc[l] = "idle"
    /\ Claimable(u) /\ \A v \in Units : Claimable(v) => u <= v
    /\ cont' = [v \in Units |-> IF v = u THEN "running"
                                ELSE IF Claimable(v) THEN "pending" ELSE cont[v]]
    /\ contExpired' = [v \in Units |-> contExpired[v] /\ ~Claimable(v)]
    /\ claims' = [claims EXCEPT ![u] = @ + 1]
    /\ Go(l, "claimed")
    /\ held' = [held EXCEPT ![l] = u] /\ token' = [token EXCEPT ![l] = claims[u] + 1]
    /\ UNCHANGED <<no, calls, verdict, lost, unitVars, faultVars>>

\* Attempt n of u is running from now on, for this lane.
TakeAttempt(l, u, n, rows) ==
    /\ last' = [last EXCEPT ![u] = n]
    /\ attempt' = [attempt EXCEPT ![u] = [rows EXCEPT ![n] = "running"]]
    /\ unit' = [unit EXCEPT ![u] = "running"]
    /\ unitExpired' = [unitExpired EXCEPT ![u] = FALSE]
    /\ no' = [no EXCEPT ![l] = n] /\ Go(l, "starting")
    /\ UNCHANGED <<provider, product, held, token, calls, verdict, lost>>

LatestState(u) == attempt[u][last[u]]
LatestProvider(u) == provider[u][last[u]]
TakenOver(u) == LatestState(u) = "running" /\ unitExpired[u]
\* Mutant: an abandoned attempt is taken over whatever its provider call.
RepeatableInCall(u) ==
    \/ LatestState(u) = "failed" /\ LatestProvider(u) \notin {"terminal_failed", "outcome_unknown"}
    \/ TakenOver(u)
Repeatable(u) ==
    \/ LatestState(u) = "failed" /\ LatestProvider(u) \notin {"terminal_failed", "outcome_unknown"}
    \/ TakenOver(u) /\ LatestProvider(u) # "requested"

\* claim_execution_unit: the pending attempt, or a new one after a failed or
\* an abandoned attempt ...
ClaimUnit(l) ==
    /\ pc[l] = "claimed"
    /\ LET u == held[l] IN
          \/ /\ LatestState(u) = "pending"
             /\ TakeAttempt(l, u, last[u], attempt[u])
          \/ /\ Repeatable(u) /\ last[u] < MaxAttempts
             /\ TakeAttempt(l, u, last[u] + 1, [attempt[u] EXCEPT ![last[u]] = "failed"])
    /\ UNCHANGED <<contVars, faultVars>>

\* ... but not after one abandoned between a request and its outcome, ...
ClaimInDoubt(l) ==
    /\ pc[l] = "claimed"
    /\ LET u == held[l] IN
          /\ TakenOver(u) /\ LatestProvider(u) = "requested"
          /\ attempt' = [attempt EXCEPT ![u][last[u]] = "outcome_unknown"]
          /\ unit' = [unit EXCEPT ![u] = "outcome_unknown"]
    /\ Go(l, "refused") /\ Stay
    /\ UNCHANGED <<contVars, last, provider, unitExpired, product, faultVars>>

\* ... and nothing when the unit is settled or another lane holds it.
ClaimRefused(l) ==
    /\ pc[l] = "claimed"
    /\ LET u == held[l] IN
          \/ LatestState(u) = "running" /\ ~unitExpired[u]
          \/ LatestState(u) \in {"completed", "outcome_unknown", "cancelled"}
          \/ LatestState(u) = "failed" /\ ~Repeatable(u)
    /\ Go(l, "refused") /\ Stay
    /\ UNCHANGED <<contVars, unitVars, faultVars>>

\* AsyncScopeExecutionContinuationRepository.complete: fenced by the token.
CompleteContinuation(l, state) ==
    LET u == held[l] IN
    /\ cont' = IF cont[u] = "running" /\ claims[u] = token[l]
               THEN [cont EXCEPT ![u] = state] ELSE cont
    /\ contExpired' = [contExpired EXCEPT ![u] = @ /\ cont'[u] = "running"]
    /\ UNCHANGED claims

\* "execution unit was not claimable"
Refuse(l) ==
    /\ pc[l] = "refused"
    /\ CompleteContinuation(l, "failed") /\ Release(l)
    /\ UNCHANGED <<unitVars, faultVars>>

----------------------------------------------------------------------------
(* A lane: the execution *)

\* The predicate of every write a lease fences.
\* Mutant: the fence asks for the lease only, not for the attempt's state.
OwnsLease(l) == ~unitExpired[held[l]]
Owns(l) == attempt[held[l]][no[l]] = "running" /\ ~unitExpired[held[l]]
\* The predicate of the guards: the latest attempt of a running unit as well.
IsLive(l) == Owns(l) /\ last[held[l]] = no[l] /\ unit[held[l]] = "running"

Raise(l) == Go(l, "raised") /\ Stay /\ UNCHANGED <<contVars, unitVars, faultVars>>

Start(l) ==
    /\ pc[l] = "starting"
    /\ \/ IsLive(l) /\ Go(l, "working") /\ Stay
                    /\ UNCHANGED <<contVars, unitVars, faultVars>>
       \/ ~IsLive(l) /\ Raise(l)

\* Mutant: the provider's facts are kept in memory until the outcome.
SetProviderLate(l, state) ==
    /\ provider' = IF state = "requested" THEN provider
                   ELSE [provider EXCEPT ![held[l]][no[l]] = state]
    /\ UNCHANGED <<contVars, unit, last, attempt, unitExpired, product, faultVars>>
SetProvider(l, state) ==
    /\ provider' = [provider EXCEPT ![held[l]][no[l]] = state]
    /\ UNCHANGED <<contVars, unit, last, attempt, unitExpired, product, faultVars>>

\* _begin_operation: the request is recorded before the call ...
Request(l) ==
    /\ pc[l] = "working" /\ calls[l] < MaxCalls
    /\ \/ /\ Owns(l) /\ SetProvider(l, "requested") /\ Go(l, "flushing")
          /\ calls' = [calls EXCEPT ![l] = @ + 1]
          /\ UNCHANGED <<held, token, no, verdict, lost>>
       \/ ~Owns(l) /\ Raise(l)

\* ... and the operation checkpoint, in a second transaction.
Flush(l) ==
    /\ pc[l] = "flushing"
    /\ \/ IsLive(l) /\ Go(l, "calling") /\ Stay
                    /\ UNCHANGED <<contVars, unitVars, faultVars>>
       \/ ~IsLive(l) /\ Raise(l)

\* The provider answers or raises, sooner or later.
Answer(l) ==
    /\ pc[l] = "calling"
    /\ Go(l, "answered") /\ Stay /\ UNCHANGED <<contVars, unitVars, faultVars>>

\* record_provider_outcome.  A call that raised is recorded as unknown and
\* raised again; after any other outcome the plan goes on.
RecordOutcome(l, outcome) ==
    /\ pc[l] = "answered"
    /\ \/ /\ Owns(l) /\ SetProvider(l, outcome) /\ Stay
          /\ Go(l, IF outcome = "outcome_unknown" THEN "raised" ELSE "working")
       \/ ~Owns(l) /\ Raise(l)

\* Anything between the claims' end and the verdict may raise: a local
\* error, a refused write, a task that ended failed.
Fail(l) == pc[l] \in {"working", "flushing", "answered"} /\ Raise(l)

\* The unit's terminal fact is saved under the lease; a replay finds it.
Produce(l) ==
    /\ pc[l] = "working"
    /\ \/ /\ IsLive(l) /\ Go(l, "checking") /\ Stay
          /\ product' = [product EXCEPT ![held[l]] = TRUE]
          /\ UNCHANGED <<contVars, unit, last, attempt, provider, unitExpired, faultVars>>
       \/ ~IsLive(l) /\ Raise(l)
\* The early returns of the execution: nothing was saved.
ReturnEarly(l) ==
    /\ pc[l] = "working"
    /\ Go(l, "checking") /\ Stay /\ UNCHANGED <<contVars, unitVars, faultVars>>

\* Mutant: the verdict does not ask for the terminal fact.
CheckLease(l) ==
    /\ pc[l] = "checking"
    /\ \/ /\ IsLive(l) /\ Go(l, "ending")
          /\ verdict' = [verdict EXCEPT ![l] = "completed"]
          /\ UNCHANGED <<held, token, no, calls, lost, contVars, unitVars, faultVars>>
       \/ ~IsLive(l) /\ Raise(l)

\* The postconditions of execute_execution_unit.
Check(l) ==
    /\ pc[l] = "checking"
    /\ \/ /\ product[held[l]] /\ IsLive(l) /\ Go(l, "ending")
          /\ verdict' = [verdict EXCEPT ![l] = "completed"]
          /\ UNCHANGED <<held, token, no, calls, lost, contVars, unitVars, faultVars>>
       \/ ~(product[held[l]] /\ IsLive(l)) /\ Raise(l)

----------------------------------------------------------------------------
(* A lane: the end of _run_scope_continuation *)

\* The handler of an exception reads its attempt.  Reading a cancelled row
\* raises in turn, out of run_once.
Judge(l) ==
    /\ pc[l] = "raised"
    /\ LET u == held[l] IN
          \/ /\ attempt[u][no[l]] # "cancelled" /\ Go(l, "ending")
             /\ verdict' = [verdict EXCEPT ![l] =
                   IF provider[u][no[l]] = "outcome_unknown" THEN "outcome_unknown" ELSE "failed"]
             /\ UNCHANGED <<held, token, no, calls, lost>>
          \/ attempt[u][no[l]] = "cancelled" /\ Release(l)
    /\ UNCHANGED <<contVars, unitVars, faultVars>>

\* complete_execution_unit, unless a heartbeat saw a lease lost.
CompleteUnit(l) ==
    /\ pc[l] = "ending"
    /\ LET u == held[l] IN
          \/ /\ ~lost[l] /\ Owns(l)
             /\ attempt' = [attempt EXCEPT ![u][no[l]] = verdict[l]]
             /\ unit' = [unit EXCEPT ![u] = verdict[l]]
             /\ Go(l, "closing") /\ Stay
             /\ UNCHANGED <<contVars, last, provider, unitExpired, product, faultVars>>
          \/ /\ lost[l] \/ ~Owns(l)
             /\ Release(l) /\ UNCHANGED <<contVars, unitVars, faultVars>>

\* The continuation has failed if the exception has a message; every exception
\* the execution raises has one.
Close(l) ==
    /\ pc[l] = "closing"
    /\ CompleteContinuation(l, IF verdict[l] = "completed" THEN "completed" ELSE "failed")
    /\ Release(l)
    /\ UNCHANGED <<unitVars, faultVars>>

----------------------------------------------------------------------------
(* Leases and faults *)

HasCont(l) == cont[held[l]] = "running" /\ claims[held[l]] = token[l]

\* _heartbeat_continuation_lease: renew does not ask whether the lease is
\* still unexpired.
BeatContinuation(l) ==
    /\ pc[l] \in Beating /\ ~lost[l]
    /\ \/ /\ HasCont(l) /\ contExpired[held[l]]
          /\ contExpired' = [contExpired EXCEPT ![held[l]] = FALSE] /\ UNCHANGED lost
       \/ /\ ~HasCont(l)
          /\ lost' = [lost EXCEPT ![l] = TRUE] /\ UNCHANGED contExpired
    /\ UNCHANGED <<cont, claims, unitVars, pc, held, token, no, calls, verdict, faultVars>>

\* _heartbeat_execution_unit_lease: this one does.
BeatUnit(l) ==
    /\ pc[l] \in Beating /\ ~lost[l] /\ ~Owns(l)
    /\ lost' = [lost EXCEPT ![l] = TRUE]
    /\ UNCHANGED <<contVars, unitVars, pc, held, token, no, calls, verdict, faultVars>>

\* A lease nobody renews runs out; one a living lane renews, after a stall.
LapseContinuation(u) ==
    /\ cont[u] = "running" /\ ~contExpired[u]
    /\ \/ /\ ~\E l \in Lanes : held[l] = u /\ token[l] = claims[u]
          /\ UNCHANGED faults
       \/ /\ \E l \in Lanes : held[l] = u /\ token[l] = claims[u]
          /\ Fault
    /\ contExpired' = [contExpired EXCEPT ![u] = TRUE]
    /\ UNCHANGED <<cont, claims, unitVars, laneVars, inDoubt>>

CallsLost(u) == {<<u, no[l]>> : l \in {m \in Lanes : held[m] = u /\ pc[m] \in InCall}}

LapseUnit(u) ==
    /\ LatestState(u) = "running" /\ ~unitExpired[u]
    /\ \/ /\ ~\E l \in Lanes : held[l] = u /\ no[l] = last[u]
          /\ UNCHANGED faults
       \/ /\ \E l \in Lanes : held[l] = u /\ no[l] = last[u]
          /\ Fault
    /\ unitExpired' = [unitExpired EXCEPT ![u] = TRUE]
    /\ inDoubt' = inDoubt \cup CallsLost(u)
    /\ UNCHANGED <<contVars, unit, last, attempt, provider, product, laneVars>>

\* The process dies with its lanes and comes back with idle ones.
Crash ==
    /\ Fault /\ \E l \in Lanes : pc[l] # "idle"
    /\ inDoubt' = inDoubt \cup UNION {CallsLost(u) : u \in Units}
    /\ pc' = [l \in Lanes |-> "idle"] /\ held' = [l \in Lanes |-> None]
    /\ token' = [l \in Lanes |-> 0] /\ no' = [l \in Lanes |-> None]
    /\ calls' = [l \in Lanes |-> 0] /\ verdict' = [l \in Lanes |-> "completed"]
    /\ lost' = [l \in Lanes |-> FALSE]
    /\ UNCHANGED <<contVars, unitVars>>

----------------------------------------------------------------------------
\* What the lane does of its own; Fail and ReturnEarly are ways out of it.
LaneStep(l) ==
    \/ \E u \in Units : ClaimContinuation(l, u)
    \/ ClaimUnit(l) \/ ClaimInDoubt(l) \/ ClaimRefused(l) \/ Refuse(l)
    \/ Start(l) \/ Request(l) \/ Flush(l) \/ Answer(l)
    \/ \E outcome \in Outcomes : RecordOutcome(l, outcome)
    \/ Fail(l) \/ Produce(l) \/ ReturnEarly(l) \/ Check(l)
    \/ Judge(l) \/ CompleteUnit(l) \/ Close(l)

Beat(l) == BeatContinuation(l) \/ BeatUnit(l)
Lapse(u) == LapseContinuation(u) \/ LapseUnit(u)
User(u) == Decide(u) \/ Replay(u) \/ CancelUnit(u)

ScopeNext ==
    \/ \E l \in Lanes : LaneStep(l) \/ Beat(l)
    \/ \E u \in Units : User(u) \/ Lapse(u)
    \/ Crash

ScopeSpec == ScopeInit /\ [][ScopeNext]_vars

\* The lanes are tasks of a running event loop, a provider call has a timeout
\* of its own, and time passes: a lease nobody renews runs out.
Orphaned(u) == ~\E l \in Lanes : held[l] = u
Expire(u) == Orphaned(u) /\ Lapse(u)
FairScopeSpec ==
    /\ ScopeSpec
    /\ \A l \in Lanes : WF_vars(LaneStep(l))
    /\ \A u \in Units : WF_vars(Expire(u))

----------------------------------------------------------------------------
(* Properties *)

\* SQL-CR-10: an attempt whose lane died, or lost its lease, while a provider
\* call was under way is never followed by another attempt.
LostCallsAreLast == \A call \in inDoubt : last[call[1]] = call[2]

\* AUTH-CR-06: however many lanes have held a unit, one at most is in a
\* provider call for it.
OneCallAtATime ==
    \A l, m \in Lanes : pc[l] \in InCall /\ pc[m] \in InCall /\ l # m => held[l] # held[m]

\* A unit is completed only by an attempt whose terminal fact is saved, and a
\* continuation only after its unit.
CompletionIsEarned ==
    \A u \in Units : /\ unit[u] = "completed" => product[u]
                     /\ cont[u] = "completed" => unit[u] = "completed"

\* The fencing of provider facts and verdicts: the record of an attempt that is
\* settled, cancelled or followed by another never changes again.
Settled(u, n) == attempt[u][n] \in Verdicts \cup {"cancelled"}
SettledAttemptsStay ==
    [][\A u \in Units, n \in Attempts : Settled(u, n) =>
          attempt'[u][n] = attempt[u][n] /\ provider'[u][n] = provider[u][n]]_vars

\* However the lanes fail, an accepted decision's continuation comes to an end.
ContinuationsEnd ==
    \A u \in Units : cont[u] \in {"pending", "running"} ~> cont[u] \in {"completed", "failed"}

\* ScopeExecutionUnit.__post_init__ and ScopeExecutionAttempt.__post_init__
\* accept pending, running, completed, failed and outcome_unknown; every read
\* of a row builds one.
RowsAreReadable ==
    \A u \in Units : /\ unit[u] # "cancelled"
                     /\ \A n \in Attempts : attempt[u][n] # "cancelled"
=============================================================================
