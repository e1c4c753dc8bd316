------------------------ MODULE DirectionalPipeline ------------------------
(***************************************************************************)
(* The collection of one research direction                                *)
(* (workflow/directional_pipeline.py, async_pipeline_store.py): search     *)
(* pages, note details, the decision whether the fallback query is needed. *)
(* Everything a worker has learned is on record at the next provider call, *)
(* so that a retry can go on where it stopped; a provider call is claimed  *)
(* before it is made, and a claim without an answer is never called again. *)
(* A worker is an execution under a dispatch lease: it loads the task's    *)
(* records when it starts and, while it has the lease, nobody else writes  *)
(* them, so its session is the records themselves.  The task row has no    *)
(* such fence.                                                             *)
(*                                                                         *)
(* Left out: the comments stage (a direction without required comment      *)
(* fields), authors and their cap (every source has its own author), the   *)
(* scope executions of continuations, whose attempts ScopeExecution has.   *)
(***************************************************************************)
EXTENDS Naturals, Sequences, FiniteSets
LOCAL INSTANCE SequencesExt

CONSTANTS
    Workers, None,
    N,              \* the primary query groups are 1..N, in their order
    HasFallback,    \* the locked plan has a coverage_fallback group, N + 1
    Sources,        \* notes, in the order the provider ranks them
    Relevant,       \* those the admission finds relevant
    CandidateLimit, DetailCap, MinSamples,
    RecoveryBudget, \* retries the attempt budget of the child task allows
    MaxPages,       \* bound: pages the provider has for one query
    PageSize,       \* bound: notes it puts on a page
    MaxFaults       \* bound: crashes, and leases that lapse under their holder

ASSUME PipelineAssumption ==
    /\ None \notin Workers
    /\ N \in Nat \ {0} /\ HasFallback \in BOOLEAN
    /\ Sources \subseteq Nat /\ IsFiniteSet(Sources) /\ Relevant \subseteq Sources
    /\ CandidateLimit \in Nat \ {0} /\ MinSamples \in Nat \ {0}
    /\ DetailCap \in Nat /\ DetailCap >= MinSamples
    /\ RecoveryBudget \in Nat /\ MaxPages \in Nat \ {0}
    /\ PageSize \in Nat /\ MaxFaults \in Nat

Groups == 1..(N + 1)
Cursors == 0..(MaxPages - 1)
Hit == Groups \X Sources

(* A provider request, as its fingerprint tells it from others: a page of a
   query, or the detail of a note whichever query found it.                 *)
Discover(g, c) == <<"discover", g, c>>
Detail(s) == <<"detail", s, 0>>
Requests == {Discover(g, c) : g \in Groups, c \in Cursors} \cup {Detail(s) : s \in Sources}

(* Failures: of the login; of the moment (timeout, transient_error, rate_limited,
   unavailable); for good (provider_access_rejected, auth_expired, for a search
   also parser_error); of one candidate, if it is a detail (note_unavailable).  *)
Recoverable == {"auth", "transient"}
ProviderWide == Recoverable \cup {"rejected"}
Failures == ProviderWide \cup {"candidate"}
Answers == Failures \cup {"completed"}
Statuses == Answers \cup {"running", "outcome_unknown"}

VARIABLES
    (* content_research_stage_checkpoints of the task *)
    ops,            \* operation checkpoints: pairs of a request and a status
    pages,          \* collect_page checkpoints
    collected,      \* collect checkpoints, with and without the fallback group
    revisions,      \* selection_revision checkpoints in order of their creation
    detailed,       \* detail checkpoints
    decisions,      \* fallback_decision checkpoints
    (* content_research_subagent_tasks; content_research_dispatch_jobs with the
       worker whose token it has and whether its lease has run out *)
    task, job, lease, expired,
    (* the workers: where each is, the group and the request it is at *)
    pc, at, req,
    (* the provider: how often it got a request, since a retry reopened it *)
    asked,
    retries, faults

recordVars == <<pages, collected, revisions, detailed, decisions>>
workerVars == <<pc, at, req>>
taskVars == <<task, job, lease, expired>>
boundVars == <<retries, faults>>
vars == <<ops, recordVars, taskVars, workerVars, asked, boundVars>>

Page == [group : Groups, no : Cursors, items : SUBSET Sources, count : Nat, terminal : BOOLEAN]
Evidence == [hits : SUBSET Hit, tried : SUBSET Sources, got : SUBSET Sources]
Results == {"completed", "partial", "failed", "unknown"}
Places == {"idle", "claimed", "collect", "stopped", "detail", "enough", "ask", "wait",
           "refused", "closing"}
FallbackStates == {"not_needed", "blocked_by_provider_failure", "exhausted", "activated"}

PipelineTypeOK ==
    /\ ops \subseteq Requests \X Statuses
    /\ pages \subseteq Page
    /\ collected \subseteq [fallback : BOOLEAN, hits : SUBSET Hit]
    /\ revisions \in Seq(Evidence) /\ detailed \subseteq Evidence
    /\ decisions \subseteq [of : Evidence, state : FallbackStates]
    /\ task \in {"queued", "running"} \cup Results
    /\ job \in {"open", "closed"}
    /\ lease \in Workers \cup {None} /\ expired \in BOOLEAN
    /\ pc \in [Workers -> Places]
    /\ at \in [Workers -> 0..(N + 1)]
    /\ req \in [Workers -> Requests \cup {None}]
    /\ asked \in [Requests -> Nat]
    /\ retries \in 0..RecoveryBudget /\ faults \in 0..MaxFaults

Init ==
    /\ ops = {} /\ pages = {}
    /\ collected = {} /\ revisions = <<>> /\ detailed = {} /\ decisions = {}
    /\ task = "queued" /\ job = "open" /\ lease = None /\ expired = FALSE
    /\ pc = [w \in Workers |-> "idle"] /\ at = [w \in Workers |-> 0]
    /\ req = [w \in Workers |-> None]
    /\ asked = [o \in Requests |-> 0] /\ retries = 0 /\ faults = 0

----------------------------------------------------------------------------
(* What the records say *)

Lifecycle(o) == {status \in Statuses : <<o, status>> \in ops}

\* The fallback group joins the plan once its activation is on record.
Active == HasFallback /\ \E d \in decisions : d.state = "activated"
PlanSize == IF Active THEN N + 1 ELSE N

\* The latest page of a group, where the next one starts, the notes so far.
IsLatest(p, g) == p.group = g /\ \A q \in pages : q.group = g => q.no <= p.no
Latest(g) == {p \in pages : IsLatest(p, g)}
NextCursor(g) == IF Latest(g) = {} THEN 0 ELSE (CHOOSE p \in Latest(g) : TRUE).no + 1
Count(g) == IF Latest(g) = {} THEN 0 ELSE (CHOOSE p \in Latest(g) : TRUE).count
GroupDone(g) == \E p \in Latest(g) : p.terminal

\* Which query found which note, of the groups a loop has entered.
HitsOf(entered) ==
    {h \in Hit : h[1] \in entered /\ \E p \in pages : p.group = h[1] /\ h[2] \in p.items}

IsCollected == \E c \in collected : c.fallback = Active
Hits == (CHOOSE c \in collected : c.fallback = Active).hits

\* Details are attempted in the order of the best query that found a note.
Queries(hits, s) == {g \in Groups : <<g, s>> \in hits}
Before(hits, s, t) ==
    LET best(x) == CHOOSE g \in Queries(hits, x) : \A h \in Queries(hits, x) : g <= h
    IN  \/ best(s) < best(t)
        \/ best(s) = best(t) /\ s < t
Candidates(hits) == {s \in Sources : Queries(hits, s) # {}}

\* A note is selected while samples are missing, or if it is the first of a query.
Selected(hits, got) ==
    LET Choose(chosen, s) ==
          IF \/ Cardinality(chosen) < MinSamples
             \/ Queries(hits, s) \ UNION {Queries(hits, t) : t \in chosen} # {}
          THEN chosen \cup {s} ELSE chosen
    IN  FoldLeft(Choose, {}, SetToSortSeq(got, LAMBDA s, t : Before(hits, s, t)))

Complete(hits, got) ==
    /\ Cardinality(Selected(hits, got)) >= MinSamples
    /\ \A g \in 1..PlanSize : \E s \in Selected(hits, got) : <<g, s>> \in hits

Revised(hits) == {i \in DOMAIN revisions : revisions[i].hits = hits}
LatestRevision(hits) == {i \in Revised(hits) : \A j \in Revised(hits) : j <= i}

\* The details as the detail checkpoint, the latest revision, or nobody has them.
Details(hits) ==
    IF \E d \in detailed : d.hits = hits
    THEN CHOOSE d \in detailed : d.hits = hits
    ELSE IF LatestRevision(hits) # {} THEN revisions[CHOOSE i \in LatestRevision(hits) : TRUE]
    ELSE [hits |-> hits, tried |-> {}, got |-> {}]

Untried(hits) == Candidates(hits) \ Details(hits).tried
WantsDetail(hits) ==
    /\ \A d \in detailed : d.hits # hits
    /\ Untried(hits) # {} /\ Cardinality(Revised(hits)) < DetailCap

\* A failed login, or a refusal, ends the direction; a failure of the moment
\* only if something is missing.
BlockingFailure(complete) ==
    \E x \in ops : \/ x[2] \in {"auth", "rejected"}
                   \/ x[2] = "transient" /\ ~complete

----------------------------------------------------------------------------
(* A worker *)

Go(w, there) == pc' = [pc EXCEPT ![w] = there]

Leave(w, there) ==
    /\ Go(w, there)
    /\ at' = [at EXCEPT ![w] = 0] /\ req' = [req EXCEPT ![w] = None]

\* The task row is written without a look at the lease.
Finish(w, result) == Leave(w, "closing") /\ task' = result /\ UNCHANGED <<job, lease, expired>>

Live(w) == lease = w /\ ~expired

\* recover_interrupted_tasks_atomically: the checkpoint of a claim stays beside
\* the one of its answer, so one claim in the past is enough for doubt.
Recovered ==
    IF task # "running" THEN task
    ELSE IF \E x \in ops : x[2] = "running" THEN "unknown" ELSE "queued"

\* The job is claimed and its tasks are recovered, both for the same token.
Claim(w) ==
    /\ pc[w] = "idle" /\ job = "open" /\ (lease = None \/ expired)
    /\ lease' = w /\ expired' = FALSE /\ task' = Recovered
    /\ Go(w, "claimed")
    /\ UNCHANGED <<ops, recordVars, job, at, req, asked, boundVars>>

\* It loads the records: without a collect checkpoint of the plan it goes
\* through the groups, with one it goes on to the details.
Start(w) ==
    /\ pc[w] = "claimed" /\ task \in {"queued", "failed"}
    /\ task' = "running"
    /\ Go(w, IF IsCollected THEN "detail" ELSE "collect")
    /\ UNCHANGED <<ops, recordVars, job, lease, expired, at, req, asked, boundVars>>

\* There is nothing to execute, or the lease is gone before it comes to it.
Skip(w) ==
    /\ pc[w] = "claimed" /\ (task \notin {"queued", "failed"} \/ ~Live(w))
    /\ Go(w, "closing")
    /\ UNCHANGED <<ops, recordVars, taskVars, at, req, asked, boundVars>>

\* The next group.  Pages found on record complete the operation of the last.
NextGroup(w) ==
    /\ pc[w] = "collect" /\ Live(w)
    /\ at[w] < PlanSize /\ (at[w] > 0 => GroupDone(at[w]))
    /\ at' = [at EXCEPT ![w] = @ + 1]
    /\ ops' = ops \cup {<<Discover(p.group, p.no), "completed">> : p \in Latest(at[w] + 1)}
    /\ UNCHANGED <<recordVars, taskVars, pc, req, asked, boundVars>>

\* What it wants of the provider: the next page, or the detail of the next note.
Wants(w, o) ==
    \/ /\ pc[w] = "collect" /\ at[w] > 0 /\ ~GroupDone(at[w])
       /\ o = Discover(at[w], NextCursor(at[w]))
    \/ /\ pc[w] = "detail" /\ WantsDetail(Hits)
       /\ \E s \in Untried(Hits) :
             /\ \A t \in Untried(Hits) \ {s} : Before(Hits, s, t)
             /\ o = Detail(s)

\* _begin_operation: the claim is flushed before the call.
\* Mutant: a claim without an answer is taken for a call that was never made.
BeginAgain(w, o) ==
    /\ Live(w) /\ Wants(w, o)
    /\ Lifecycle(o) \subseteq {"running"}
    /\ ops' = ops \cup {<<o, "running">>}
    /\ Go(w, "ask") /\ req' = [req EXCEPT ![w] = o]
    /\ UNCHANGED <<recordVars, taskVars, at, asked, boundVars>>
Begin(w, o) ==
    /\ Live(w) /\ Wants(w, o)
    /\ Lifecycle(o) = {}
    /\ ops' = ops \cup {<<o, "running">>}
    /\ Go(w, "ask") /\ req' = [req EXCEPT ![w] = o]
    /\ UNCHANGED <<recordVars, taskVars, at, asked, boundVars>>

\* A request with a past is not repeated: OperationOutcomeUnknownError, and
\* what it saved before it was raised is never flushed.
BeginInDoubt(w, o) ==
    /\ Live(w) /\ Wants(w, o)
    /\ Lifecycle(o) # {}
    /\ Finish(w, "unknown")
    /\ UNCHANGED <<ops, recordVars, asked, boundVars>>

\* require_live_dispatch, then the provider has the request.
Ask(w) ==
    /\ pc[w] = "ask" /\ Live(w)
    /\ asked' = [asked EXCEPT ![req[w]] = @ + 1]
    /\ Go(w, "wait")
    /\ UNCHANGED <<ops, recordVars, taskVars, at, req, boundVars>>

\* Without the lease the call is not made, which the caller takes for a call
\* that raised.
Refuse(w) ==
    /\ pc[w] = "ask" /\ ~Live(w)
    /\ Go(w, "refused")
    /\ UNCHANGED <<ops, recordVars, taskVars, at, req, asked, boundVars>>

\* A page of search results, with or without a further cursor.
AnswerSearch(w) ==
    /\ pc[w] = "wait" /\ Live(w) /\ req[w][1] = "discover"
    /\ \E result \in ProviderWide \cup {"completed"}, items \in SUBSET Sources, more \in BOOLEAN :
         LET g == req[w][2]
             count == Count(g) + Cardinality(items)
         IN /\ result # "completed" => items = {} /\ ~more
            /\ more => req[w][3] + 1 < MaxPages
            /\ Cardinality(items) <= PageSize /\ count <= CandidateLimit
            /\ pages' = pages \cup {[group |-> g, no |-> req[w][3], items |-> items, count |-> count,
                                     terminal |-> ~more \/ count >= CandidateLimit]}
            /\ ops' = ops \cup {<<req[w], result>>}
            /\ Go(w, IF result \in ProviderWide THEN "stopped" ELSE "collect")
    /\ req' = [req EXCEPT ![w] = None]
    /\ UNCHANGED <<collected, revisions, detailed, decisions, taskVars, at, asked, boundVars>>

\* The collect checkpoint: the notes of the groups entered so far.
Gather(w) ==
    /\ Live(w)
    /\ \/ pc[w] = "stopped"
       \/ /\ pc[w] = "collect" /\ at[w] = PlanSize
          /\ GroupDone(at[w])
    /\ collected' = collected \cup {[fallback |-> Active, hits |-> HitsOf(1..at[w])]}
    /\ Go(w, "detail") /\ at' = [at EXCEPT ![w] = 0]
    /\ UNCHANGED <<ops, pages, revisions, detailed, decisions, taskVars, req, asked, boundVars>>

\* A note, or none: then the candidate is marked as unavailable.
AnswerDetail(w) ==
    /\ pc[w] = "wait" /\ Live(w) /\ req[w][1] = "detail"
    /\ \E result \in Answers, found \in BOOLEAN :
         LET known == Details(Hits)
             got == IF found THEN known.got \cup {req[w][2]} ELSE known.got
         IN /\ found => result = "completed"
            /\ revisions' = Append(revisions, [hits |-> Hits, got |-> got,
                                               tried |-> known.tried \cup {req[w][2]}])
            /\ ops' = ops \cup {<<req[w], result>>}
            /\ Go(w, IF result \in ProviderWide \/ Complete(Hits, got)
                     THEN "enough" ELSE "detail")
    /\ req' = [req EXCEPT ![w] = None]
    /\ UNCHANGED <<pages, collected, detailed, decisions, taskVars, at, asked, boundVars>>

\* The call raises: the outcome is unknown, and on record as such.
Interrupt(w) ==
    /\ pc[w] \in {"wait", "refused"} /\ Live(w)
    /\ ops' = ops \cup {<<req[w], "outcome_unknown">>}
    /\ Finish(w, "failed")
    /\ UNCHANGED <<recordVars, asked, boundVars>>

\* What becomes of the fallback query, given the details.
\* Mutant: that the fallback has been tried is forgotten.
NeverExhausted(known) ==
    IF Cardinality(Selected(known.hits, known.got) \cap Relevant) >= MinSamples
      THEN "not_needed"
    ELSE IF BlockingFailure(Complete(known.hits, known.got))
      THEN "blocked_by_provider_failure" ELSE "activated"
FallbackState(known) ==
    IF Cardinality(Selected(known.hits, known.got) \cap Relevant) >= MinSamples
      THEN "not_needed"
    ELSE IF BlockingFailure(Complete(known.hits, known.got))
      THEN "blocked_by_provider_failure"
    ELSE IF Active THEN "exhausted" ELSE "activated"

\* Admission, coverage, the decision on the fallback; the first decision on the
\* same evidence stays.  An activation starts over with the fallback group.  One
\* that is not on record, because another decision is, repeats itself until the
\* recursion is too deep, which fails the task.
Conclude(w) ==
    /\ Live(w)
    /\ \/ pc[w] = "enough"
       \/ pc[w] = "detail" /\ ~WantsDetail(Hits)
    /\ LET known == Details(Hits)
           state == FallbackState(known)
           complete == Complete(known.hits, known.got)
       IN /\ detailed' = detailed \cup {known}
          /\ decisions' = IF HasFallback /\ \A d \in decisions : d.of # known
                          THEN decisions \cup {[of |-> known, state |-> state]} ELSE decisions
          /\ IF HasFallback /\ state = "activated"
             THEN IF Active' THEN Go(w, "collect") /\ UNCHANGED <<at, req, taskVars>>
                  ELSE Finish(w, "failed")
             ELSE Finish(w, IF BlockingFailure(complete) THEN "failed"
                            ELSE IF complete THEN "completed" ELSE "partial")
    /\ UNCHANGED <<ops, pages, collected, revisions, asked, boundVars>>

\* Without the lease the next flush fails, and the task with it, whoever has it
\* by now; a request in doubt, found before, makes it unknown.
Fenced(w) ==
    /\ pc[w] \notin {"idle", "claimed", "closing"} /\ ~Live(w)
    /\ \E result \in {"failed", "unknown"} : Finish(w, result)
    /\ UNCHANGED <<ops, recordVars, asked, boundVars>>

\* The job ends by its token, even if the lease has run out.
Close(w) ==
    /\ pc[w] = "closing"
    /\ IF lease = w THEN job' = "closed" /\ lease' = None /\ expired' = FALSE
       ELSE UNCHANGED <<job, lease, expired>>
    /\ Go(w, "idle")
    /\ UNCHANGED <<ops, recordVars, task, at, req, asked, boundVars>>

\* A heartbeat renews by the token too, even a lease that has run out.
Beat(w) ==
    /\ pc[w] # "idle" /\ lease = w
    /\ expired' = FALSE
    /\ UNCHANGED <<ops, recordVars, task, job, lease, workerVars, asked, boundVars>>

----------------------------------------------------------------------------
(* Faults, and the user's retry *)

Fault == faults < MaxFaults /\ faults' = faults + 1

\* The process ends; the lease of its job runs out in time.
Crash ==
    /\ \E w \in Workers : pc[w] # "idle"
    /\ Fault
    /\ pc' = [w \in Workers |-> "idle"] /\ at' = [w \in Workers |-> 0]
    /\ req' = [w \in Workers |-> None]
    /\ expired' = (lease # None)
    /\ UNCHANGED <<ops, recordVars, task, job, lease, asked, retries>>

\* A heartbeat is late, its worker goes on.
Lapse ==
    /\ lease # None /\ Fault
    /\ expired' = TRUE
    /\ UNCHANGED <<ops, recordVars, task, job, lease, workerVars, asked, retries>>

\* _requeue_recoverable_tasks: operations that failed for the moment are retired
\* with their pages and everything derived from them; failed details are marked
\* as untried in the latest revision.  Completed operations stay, and so do the
\* decisions on coverage and fallback.
Retired == {o \in Requests : Lifecycle(o) \cap Recoverable # {}}

\* What a retry does to the records.
Reset ==
    /\ ops' = {x \in ops : x[1] \notin Retired}
    /\ pages' = {p \in pages : Discover(p.group, p.no) \notin Retired}
    /\ IF \E o \in Retired : o[1] = "discover"
       THEN collected' = {} /\ revisions' = <<>>
       ELSE /\ collected' = collected
            /\ revisions' = IF revisions = <<>> THEN revisions
                            ELSE [revisions EXCEPT ![Len(revisions)].tried =
                                     @ \ {s \in Sources : Detail(s) \in Retired}]
    /\ detailed' = {}
    /\ task' = "queued" /\ job' = "open" /\ retries' = retries + 1
    /\ asked' = [o \in Requests |-> IF o \in Retired THEN 0 ELSE asked[o]]
    /\ UNCHANGED <<decisions, lease, expired, workerVars, faults>>

Retry ==
    /\ job = "closed" /\ retries < RecoveryBudget
    /\ Retired # {} /\ \A x \in ops : x[2] # "outcome_unknown"
    /\ Reset

----------------------------------------------------------------------------

Work(w) ==
    \/ Claim(w) \/ Start(w) \/ Skip(w) \/ NextGroup(w) \/ Ask(w) \/ Refuse(w)
    \/ Gather(w) \/ Conclude(w) \/ Fenced(w) \/ Close(w)
    \/ \E o \in Requests : Begin(w, o) \/ BeginInDoubt(w, o)
    \/ AnswerSearch(w) \/ AnswerDetail(w) \/ Interrupt(w)

Next ==
    \/ \E w \in Workers : Work(w) \/ Beat(w)
    \/ Crash \/ Lapse \/ Retry

Spec == Init /\ [][Next]_vars

\* The dispatch worker claims an open job again after every crash, and every
\* provider call returns or times out.
FairSpec == Spec /\ WF_vars(\E w \in Workers : Work(w))

----------------------------------------------------------------------------
(* What the records are for *)

Phase(o) ==
    LET past == Lifecycle(o)
    IN  IF asked[o] > 1 THEN "repeated"
        ELSE IF past = {} THEN "idle"
        ELSE IF past \cap Recoverable # {} THEN "refused"
        ELSE IF past \cap Answers # {} THEN "settled"
        ELSE IF asked[o] = 1 THEN "sent" ELSE "claimed"

Calls == INSTANCE ProviderCalls WITH phase <- [o \in Requests |-> Phase(o)]

\* The provider never receives a request that it may already have carried out:
\* whatever crashes, and whoever takes the task over before its predecessor has
\* noticed, a request is sent once for a claim that was on record before, and
\* again only if its refusal was on record when the user asked for a retry.
CallsAreMadeOnce == Calls!Spec

\* A collection comes to an end, however often its worker dies or is overtaken:
\* the pages are finite, details are bounded by the cap, the fallback is taken
\* once, and a retry starts from records that let it.
CollectionEnds == job = "open" ~> job = "closed"

----------------------------------------------------------------------------
(* What the documentation says and the code does not do *)

\* docs/superpowers/specs/2026-08-03-f003-lite-structured-relevance-replay-design.md:
\* persisted details are consumed before another provider call is considered.
\* Then a task is only in doubt if some call of it has not been answered.
DoubtHasACause ==
    task = "unknown" => \E o \in Requests : Phase(o) \in {"claimed", "sent"}
=============================================================================
