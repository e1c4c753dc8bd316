--------------------------- MODULE TopicDecisions ---------------------------
(***************************************************************************)
(* A brand's topic pool and what is decided from it: proposals from the    *)
(* ingested notes, their scores, decision batches, publications, imported  *)
(* performance and the replay evaluation over it (app/v2/topic_pool,       *)
(* decision, feedback and foundation).  The services are called one at a   *)
(* time; each of their saves is a transaction of its own, and a call that  *)
(* is cut short leaves the saves it has made.                              *)
(***************************************************************************)
EXTENDS Ingestion, TopicSelection

CONSTANTS
    TopicOf,        \* the topic a note is evidence for
    Policies,       \* target lists an operator may install
    Slots,          \* numbers of slots a batch may be asked for
    Scores,         \* final scores
    MaxProposals,   \* proposals of one refresh
    MaxBatches, MaxPublications, MaxSnapshots, MaxEvaluations   \* bounds

ASSUME DecisionsAssumption ==
    /\ TopicOf \in [Notes -> Items]
    /\ \A i \in DOMAIN Policies : Valid(Policies[i])
    /\ Slots \subseteq Nat \ {0} /\ \A n \in Slots : n * Unit \in Floats
    /\ Scores \subseteq Nat /\ Scores # {}
    /\ MaxProposals \in Nat
    /\ MaxBatches \in Nat /\ MaxPublications \in Nat
    /\ MaxSnapshots \in Nat /\ MaxEvaluations \in Nat

VARIABLES
    policy,         \* the active policy, 0 for none
    described,      \* a snapshot of the brand's state exists
    pool,           \* topic_pool_items
    batches,        \* decision_batches, with what is written of each
    publications,   \* publish_records: the decision event each names, or Manual
    snapshots,      \* performance_snapshots: the publication of each
    rewarded,       \* publications with a feedback event
    lost,           \* publications an import of which was cut short
    evaluations     \* evaluation_runs: rows, and whether the call answered

brandVars    == <<policy, described>>
feedbackVars == <<publications, snapshots, rewarded, lost, evaluations>>
vars == <<ingestionVars, cuts, brandVars, pool, batches, feedbackVars>>

Never  == -1
Manual == <<0, 0>>

PoolItem == [status : {"absent", "candidate", "archived"}, old : BOOLEAN, aged : BOOLEAN,
             known : Never..MaxSnapshots, score : Scores]

Init ==
    /\ InitIngestion
    /\ policy = 0 /\ described = FALSE
    /\ pool = [i \in Items |-> [status |-> "absent", old |-> FALSE, aged |-> FALSE,
                                known |-> Never, score |-> Min(Scores)]]
    /\ batches = <<>>
    /\ publications = <<>> /\ snapshots = <<>> /\ rewarded = {} /\ lost = {}
    /\ evaluations = <<>>

Candidates(p) == {i \in Items : p[i].status = "candidate"}

----------------------------------------------------------------------------
(* The brand *)

ReplaceActivePolicy(i) ==
    /\ policy' = i
    /\ UNCHANGED <<ingestionVars, cuts, described, pool, batches, feedbackVars>>

CreateStateSnapshot ==
    /\ described' = TRUE
    /\ UNCHANGED <<ingestionVars, cuts, policy, pool, batches, feedbackVars>>

\* Time: fifteen minutes end a capture session, six hours age a score, sixty
\* days age a candidate nothing has written since.
Elapse(span) ==
    /\ capture' = [capture EXCEPT !.late = @ \/ capture.status # "none"]
    /\ pool' = [i \in Items |->
                   IF i \in Candidates(pool)
                   THEN [pool[i] EXCEPT !.aged = @ \/ span # "minutes", !.old = @ \/ span = "days"]
                   ELSE pool[i]]
    /\ UNCHANGED <<content, runs, previews, cuts, brandVars, batches, feedbackVars>>

----------------------------------------------------------------------------
(* The pool *)

\* Mutant: a score is fresh for six hours, whatever was imported since.
StaleByAge(p) == {i \in Candidates(p) : p[i].aged}
\* _is_stale
Stale(p) == {i \in Candidates(p) : p[i].aged \/ p[i].known < Len(snapshots)}

Rescored(p, S, score) ==
    [i \in Items |-> IF i \in S THEN [status |-> "candidate", old |-> FALSE, aged |-> FALSE,
                                      known |-> Len(snapshots), score |-> score[i]]
                                ELSE p[i]]

\* The topics for which a note of the brand is on record.
Evidence == {TopicOf[n] : n \in {m \in Notes : content[m] # 0 /\ runs[content[m]].brand = Brand}}

Proposals ==
    {S \in SUBSET Evidence : Cardinality(S) = Min({MaxProposals, Cardinality(Evidence)})}

Proposed(S) ==
    [i \in Items |-> IF i \in S THEN [status |-> "candidate", old |-> FALSE, aged |-> FALSE,
                                      known |-> Never, score |-> Min(Scores)]
                                ELSE pool[i]]

Forgotten(p) == {i \in Candidates(p) : p[i].old}

Archived(p, S) ==
    [i \in Items |-> IF i \in S THEN [p[i] EXCEPT !.status = "archived", !.old = FALSE] ELSE p[i]]

\* ensure_fresh, for whoever lists the pool: all of the stale ones or, cut
\* short, some.
EnsureFresh(p) ==
    \E S \in SUBSET Stale(p) :
        /\ \E score \in [S -> Scores] : pool' = Rescored(p, S, score)
        /\ Cut(S # Stale(p))

ListTopicPool ==
    /\ EnsureFresh(pool)
    /\ UNCHANGED <<ingestionVars, brandVars, batches, feedbackVars>>

\* In which order the proposals are saved is left open.
RefreshTopicPool ==
    /\ \E S \in Proposals :
          \/ \E T \in SUBSET S : pool' = Proposed(T) /\ Cut(TRUE)
          \/ \E T \in SUBSET Forgotten(Proposed(S)) :
                pool' = Archived(Proposed(S), T) /\ Cut(TRUE)
          \/ EnsureFresh(Archived(Proposed(S), Forgotten(Proposed(S))))
    /\ UNCHANGED <<ingestionVars, brandVars, batches, feedbackVars>>

----------------------------------------------------------------------------
(* Decisions.  Of every slot the event, the item and the candidate set are  *)
(* saved in this order; written counts the saves.                           *)

Events(b) == (b.written + 2) \div 3

RunDecisionBatch(n) ==
    /\ Len(batches) < MaxBatches
    /\ policy # 0 /\ described /\ Candidates(pool) # {}
    /\ \E score \in [Stale(pool) -> Scores] :
          LET fresh  == Rescored(pool, Stale(pool), score)
              scores == [i \in Items |-> fresh[i].score]
          IN  /\ pool' = fresh
              /\ \E ranked \in Rankings(Candidates(fresh), scores, Policies[policy]) :
                 \E chosen \in {SelectCandidates(ranked, Policies[policy], n)} :
                 \E written \in 0..3 * Len(chosen) :
                    /\ batches' = Append(batches,
                           [policy |-> policy, slots |-> n, ranked |-> ranked,
                            chosen |-> chosen, written |-> written,
                            infeasible |-> Infeasible(Policies[policy], n)])
                    /\ Cut(written < 3 * Len(chosen))
    /\ UNCHANGED <<ingestionVars, brandVars, feedbackVars>>

----------------------------------------------------------------------------
(* Feedback *)

\* Mutant: a publication may name the slot of a batch before its event is on
\* record.
ChosenIds == {e \in (1..MaxBatches) \X (1..Cardinality(Items)) :
                 e[1] \in DOMAIN batches /\ e[2] \in DOMAIN batches[e[1]].chosen}
IsEvent(e) == e[1] \in DOMAIN batches /\ e[2] \in 1..Events(batches[e[1]])
EventIds   == {e \in (1..MaxBatches) \X (1..Cardinality(Items)) : IsEvent(e)}

CreatePublishRecord(e) ==
    /\ Len(publications) < MaxPublications
    /\ publications' = Append(publications, e)
    /\ UNCHANGED <<ingestionVars, cuts, brandVars, pool, batches,
                   snapshots, rewarded, lost, evaluations>>

\* The snapshot first, then the feedback event if the publication names a
\* decision.
ImportPerformance(p) ==
    /\ Len(snapshots) < MaxSnapshots
    /\ snapshots' = Append(snapshots, p)
    /\ \/ /\ Cut(FALSE)
          /\ rewarded' = IF publications[p] = Manual THEN rewarded ELSE rewarded \cup {p}
          /\ UNCHANGED lost
       \/ /\ Cut(TRUE)
          /\ lost' = lost \cup {p}
          /\ UNCHANGED rewarded
    /\ UNCHANGED <<ingestionVars, brandVars, pool, batches, publications, evaluations>>

Rows == {s \in DOMAIN snapshots : publications[snapshots[s]] # Manual}

\* What the evaluation demands of a row before it answers at all.
Usable(s) ==
    LET e == publications[snapshots[s]]
        b == batches[e[1]]
    IN  /\ IsEvent(e)
        /\ snapshots[s] \in rewarded
        /\ Contains(b.ranked, b.chosen[e[2]])
        /\ described

\* The run is saved, then its slices one by one.
CreateEvaluationRun ==
    /\ Len(evaluations) < MaxEvaluations
    /\ Rows # {} /\ \A s \in Rows : Usable(s)
    /\ \E answered \in BOOLEAN :
          /\ evaluations' = Append(evaluations, [rows |-> Cardinality(Rows), answered |-> answered])
          /\ Cut(~answered)
    /\ UNCHANGED <<ingestionVars, brandVars, pool, batches,
                   publications, snapshots, rewarded, lost>>

Next ==
    \/ IngestionNext /\ UNCHANGED <<brandVars, pool, batches, feedbackVars>>
    \/ \E i \in DOMAIN Policies : ReplaceActivePolicy(i)
    \/ CreateStateSnapshot
    \/ \E span \in {"minutes", "hours", "days"} : Elapse(span)
    \/ ListTopicPool \/ RefreshTopicPool
    \/ \E n \in Slots : RunDecisionBatch(n)
    \/ \E e \in EventIds \cup {Manual} : CreatePublishRecord(e)
    \/ \E p \in DOMAIN publications : ImportPerformance(p)
    \/ CreateEvaluationRun

Spec == Init /\ [][Next]_vars

----------------------------------------------------------------------------
(* Properties *)

\* A receipt names a completed run of the brand over exactly the payload on
\* record, and every note of it has been written by that run or a later one.
Backed(record) ==
    /\ record.receipt \in DOMAIN runs
    /\ LET run == runs[record.receipt]
       IN  run.status = "completed" /\ run.brand = Brand /\ run.payload = record.payload
    /\ \A n \in ToSet(record.payload) : content[n] >= record.receipt

\* An accepted capture or import holds a receipt that is backed, whatever was
\* handed in before it, retried, cut short or broken (submit_extension_capture,
\* create_data_import_preview).
ReceiptsAreBacked ==
    /\ capture.status = "accepted" => Backed(capture)
    /\ \A i \in DOMAIN previews : previews[i].status = "accepted" => Backed(previews[i])

\* What a batch keeps of its policy, whatever the policy: no topic twice; slots
\* left only if no candidate may have one; the batch says that the quotas
\* contradict each other only if they do; and a type is above its maximum only
\* if the policy names it more than once, and then by no more than its
\* guarantee for each time.
KeepsMaxima(b) ==
    LET targets    == Policies[b.policy]
        ts         == ToSet(targets)
        has(type)  == Cardinality(OfType(b.chosen, type))
        most(type) == Rounded(LastEntry(targets, type).max * b.slots)
        times(type) == Cardinality(Entries(targets, type))
    IN  /\ IsInjective(b.chosen) /\ Len(b.chosen) <= b.slots
        /\ \A type \in Named(targets) :
              \/ has(type) * Unit <= most(type)
              \/ /\ times(type) > 1
                 /\ has(type) <= times(type) * Guarantee(LastEntry(targets, type), b.slots)
        /\ Len(b.chosen) < b.slots =>
              \A i \in ToSet(b.ranked) \ ToSet(b.chosen) :
                  TypeOf[i] \in Named(targets) /\ (has(TypeOf[i]) + 1) * Unit > most(TypeOf[i])
        /\ b.infeasible => \A f \in [Named(targets) -> 0..b.slots] :
              \/ \E t \in ts : \/ f[t.type] * Unit < Rounded(t.min * b.slots)
                               \/ f[t.type] * Unit > Rounded(t.max * b.slots)
              \/ Cardinality(SlotsOf(f)) > b.slots

\* What it keeps of a policy that names no type twice: each type has its
\* minimum or all its candidates unless the quotas contradict each other; then
\* it is the types with the lowest boost that lose their minimum.
KeepsMinima(b) ==
    LET ts     == ToSet(Policies[b.policy])
        has(t) == Cardinality(OfType(b.chosen, t.type))
        may(t) == Cardinality(OfType(b.ranked, t.type))
    IN  /\ \A t \in ts : \/ b.infeasible
                         \/ has(t) * Unit >= Rounded(t.min * b.slots)
                         \/ has(t) = may(t)
        /\ \A s, t \in ts :
              (/\ s.boost > t.boost
               /\ has(s) < Min({may(s), Guarantee(s, b.slots)})
               /\ \A u \in ts : may(u) >= Guarantee(u, b.slots))
                  => has(t) = 0

KeepsQuotas(b) == KeepsMaxima(b) /\ (NamesOnce(Policies[b.policy]) => KeepsMinima(b))

\* Every batch keeps the quotas of its policy, as the products of its ratios and
\* the slots come out in floating point: all of them if the policy names no type
\* twice, and what KeepsMaxima says of any policy that validate_policy_targets
\* accepts (_build_constraint_plan, _select_candidates).
QuotasAreKept == \A k \in DOMAIN batches : KeepsQuotas(batches[k])

\* A decision ranks every candidate and nothing else, each on a score that is
\* not older than six hours and knows all performance imported so far
\* (ensure_fresh before every batch), however refreshes were cut short.
DecidedOnFreshScores ==
    [][Len(batches') > Len(batches) =>
          LET ranked == ToSet(batches'[Len(batches')].ranked)
          IN  /\ ranked = {i \in Items : pool'[i].status = "candidate"}
              /\ \A i \in ranked : ~pool'[i].aged /\ pool'[i].known = Len(snapshots)]_vars

\* The evaluation is refused for a row only if an import of that row's
\* publication was cut short: whatever else a row needs, the event with its
\* chosen topic among the ranked ones and the brand's state, was on record
\* before the publication could name it (create_publish_record,
\* import_performance_snapshot, create_evaluation_run).
RefusalHasACause == \A s \in Rows : Usable(s) \/ snapshots[s] \in lost
=============================================================================
