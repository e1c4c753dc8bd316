--------------------------- MODULE RuntimeWriter ---------------------------
(***************************************************************************)
(* app/core/runtime_write_coordinator.py: the one thread that owns the     *)
(* SQLite write connection of a Runtime process.  Callers put typed        *)
(* mutations in a bounded FIFO; the thread executes each in a transaction  *)
(* together with a receipt keyed by (kind, id), so that a mutation         *)
(* submitted again - after a lost answer, a crash, a restart - replays the *)
(* stored result.  The process may crash between any two steps and a new   *)
(* coordinator then opens the same file.                                   *)
(***************************************************************************)
EXTENDS Integers, Sequences

CONSTANTS
    Callers,        \* concurrent submitters (request handlers, workers)
    Closers,        \* concurrent callers of close()
    Requests,       \* the mutations callers may submit
    Kinds, Ids, Runs, Payloads,
    NoRun,          \* TypedMutation.run_id = None
    DiagnosticKind, \* the built-in "record_diagnostic_fact"
    DomainKinds,    \* registered handlers that return no revision
    TraceKinds,     \* registered handlers with advances_trace_revision
    QueueCapacity,
    NoItem, Stop, Nobody

Mutation == [kind : Kinds, id : Ids, run : Runs \cup {NoRun}, fp : Payloads]

ASSUME RequestsAssumption == Requests \subseteq Mutation
ASSUME KindsAssumption ==
    /\ DiagnosticKind \notin DomainKinds \cup TraceKinds
    /\ DomainKinds \cap TraceKinds = {}
    /\ NoRun \notin Runs
ASSUME CapacityAssumption == QueueCapacity \in Nat \ {0}
ASSUME MarkersAssumption ==
    /\ Nobody \notin Callers
    /\ Stop \notin [caller : Callers \cup {Nobody}, mut : Requests]
    /\ NoItem \notin [caller : Callers \cup {Nobody}, mut : Requests]

VARIABLES
    \* --- the SQLite file
    receipts,       \* mutation_receipts
    facts,          \* diagnostic_facts
    revision,       \* run_revisions
    traceRevision,  \* content_research_trace_revisions
    \* --- the process
    state,          \* _state
    queue,          \* _queue
    thread,         \* where the writer thread is
    item,           \* the work item it holds
    call,           \* per caller: its pending submission and the last answer
    closing,        \* per closer: is it inside close()?
    \* --- history
    acked           \* every receipt some caller was shown as committed

disk == <<receipts, facts, revision, traceRevision>>
vars == <<receipts, facts, revision, traceRevision, state, queue, thread,
          item, call, closing, acked>>

Item     == [caller : Callers \cup {Nobody}, mut : Requests]
Receipt  == [kind : Kinds, id : Ids, run : Runs \cup {NoRun}, fp : Payloads,
             rev : Nat]
States   == {"new", "starting", "accepting", "shutting_down", "unavailable",
             "closed"}
Threads  == {"none", "opening", "waiting", "executing", "committed",
             "failing", "exited"}
\* Answers that promise the mutation had no effect, and the other ones.
Refusals == {"conflict", "domain_rejected", "overloaded",
             "writer_shutting_down", "not_admitted_unavailable"}
Answers  == Refusals \cup {"committed", "replayed", "unavailable"}
\* A call that was answered keeps its answer until the caller submits again;
\* "applied" is history: did this very submission commit its mutation?
NoCall   == [status |-> "idle", applied |-> FALSE]
Call     == [status : {"idle", "waiting"} \cup Answers, applied : BOOLEAN]

----------------------------------------------------------------------------
Init ==
    /\ receipts = {} /\ facts = {}
    /\ revision = [r \in Runs |-> 0] /\ traceRevision = [r \in Runs |-> 0]
    /\ state = "new" /\ queue = << >> /\ thread = "none" /\ item = NoItem
    /\ call = [c \in Callers |-> NoCall]
    /\ closing = [k \in Closers |-> FALSE]
    /\ acked = {}

\* Future.set_result / set_exception: a caller that gave up is not told.
Answer(c, status, applied) ==
    call' = IF c = Nobody THEN call
            ELSE [call EXCEPT ![c] = [status |-> status,
                                      applied |-> @.applied \/ applied]]

\* Whose Future an element of the queue, or the item in progress, resolves.
Owner(x) == IF x \in Item THEN x.caller ELSE Nobody

\* _reject_queued_locked: every queued submission gets the error, markers go.
\* Mutant: also answer the item the thread is working on.
QueuedOrHeld(c) == Owner(item) = c \/ \E i \in DOMAIN queue : Owner(queue[i]) = c
Queued(c) == \E i \in DOMAIN queue : Owner(queue[i]) = c
RejectQueued(error) ==
    call' = [c \in Callers |->
                IF Queued(c) THEN [call[c] EXCEPT !.status = error] ELSE call[c]]

----------------------------------------------------------------------------
(* Callers *)

\* submit / submit_sync, refused by _admit under _state_lock.
SubmitRefused(c) ==
    /\ call[c].status # "waiting"
    /\ LET error ==
             IF state = "unavailable" THEN "not_admitted_unavailable"
             ELSE IF state # "accepting" THEN "writer_shutting_down"
             ELSE "overloaded"
       IN /\ state = "accepting" => Len(queue) = QueueCapacity
          /\ call' = [call EXCEPT ![c] = [status |-> error, applied |-> FALSE]]
    /\ UNCHANGED <<disk, state, queue, thread, item, closing, acked>>

\* Mutant: the put is allowed one item past the capacity.
SubmitPastCapacity(c, m) ==
    /\ call[c].status # "waiting"
    /\ state = "accepting" /\ Len(queue) <= QueueCapacity
    /\ queue' = Append(queue, [caller |-> c, mut |-> m])
    /\ call' = [call EXCEPT ![c] = [status |-> "waiting", applied |-> FALSE]]
    /\ UNCHANGED <<disk, state, thread, item, closing, acked>>

\* Mutant: the state is checked before the lock is taken, so the put can land
\* after close() drained the queue.
SubmitUnlocked(c, m) ==
    /\ call[c].status # "waiting"
    /\ state \in {"accepting", "shutting_down"} /\ Len(queue) < QueueCapacity
    /\ queue' = Append(queue, [caller |-> c, mut |-> m])
    /\ call' = [call EXCEPT ![c] = [status |-> "waiting", applied |-> FALSE]]
    /\ UNCHANGED <<disk, state, thread, item, closing, acked>>

\* submit / submit_sync, admitted: put_nowait under _state_lock.
Submit(c, m) ==
    /\ call[c].status # "waiting"
    /\ state = "accepting" /\ Len(queue) < QueueCapacity
    /\ queue' = Append(queue, [caller |-> c, mut |-> m])
    /\ call' = [call EXCEPT ![c] = [status |-> "waiting", applied |-> FALSE]]
    /\ UNCHANGED <<disk, state, thread, item, closing, acked>>

\* The awaiting task is cancelled; asyncio.shield keeps the submission alive.
Orphan(x, c) == IF Owner(x) = c THEN [caller |-> Nobody, mut |-> x.mut] ELSE x
Abandon(c) ==
    /\ call[c].status = "waiting"
    /\ queue' = [i \in DOMAIN queue |-> Orphan(queue[i], c)]
    /\ item' = Orphan(item, c)
    /\ call' = [call EXCEPT ![c] = NoCall]
    /\ UNCHANGED <<disk, state, thread, closing, acked>>

----------------------------------------------------------------------------
(* Lifecycle: start() and close() run on the event loop *)

Start ==
    /\ state = "new"
    /\ state' = "starting" /\ thread' = "opening"
    /\ UNCHANGED <<disk, queue, item, call, closing, acked>>

\* Mutant: the stop marker is put before the queue is drained.
CloseStopFirst(k) ==
    /\ ~closing[k] /\ state \notin {"closed", "new"}
    /\ state' = IF state = "unavailable" THEN state ELSE "shutting_down"
    /\ RejectQueued("writer_shutting_down")
    /\ queue' = << >>
    /\ closing' = [closing EXCEPT ![k] = TRUE]
    /\ UNCHANGED <<disk, thread, item, acked>>

\* close(), first critical section.
Close(k) ==
    /\ ~closing[k] /\ state # "closed"
    /\ \/ /\ state = "new" /\ state' = "closed"
          /\ UNCHANGED <<queue, call, closing>>
       \/ /\ state # "new"
          /\ state' = IF state = "unavailable" THEN state ELSE "shutting_down"
          /\ RejectQueued("writer_shutting_down")
          /\ queue' = <<Stop>>
          /\ closing' = [closing EXCEPT ![k] = TRUE]
    /\ UNCHANGED <<disk, thread, item, acked>>

\* close(), after thread.join() returned.
FinishClose(k) ==
    /\ closing[k] /\ thread = "exited"
    /\ state' = "closed"
    /\ closing' = [closing EXCEPT ![k] = FALSE]
    /\ UNCHANGED <<disk, queue, thread, item, call, acked>>

----------------------------------------------------------------------------
(* The writer thread: _run and _execute *)

\* open_writer_database, pragmas and _bootstrap succeed; accept unless close()
\* came first.
Opened ==
    /\ thread = "opening"
    /\ state' = IF state = "starting" THEN "accepting" ELSE state
    /\ thread' = "waiting"
    /\ UNCHANGED <<disk, queue, item, call, closing, acked>>

\* Mutant: the queue is left as it is.
MarkUnavailableKeepsQueue ==
    /\ thread \in {"opening", "failing"}
    /\ state' = "unavailable" /\ thread' = "exited"
    /\ UNCHANGED <<disk, call, queue, item, closing, acked>>

\* _mark_unavailable, from a failed bootstrap or after a failed mutation.
MarkUnavailable ==
    /\ thread \in {"opening", "failing"}
    /\ state' = "unavailable" /\ thread' = "exited"
    /\ RejectQueued("unavailable")
    /\ queue' = << >>
    /\ UNCHANGED <<disk, item, closing, acked>>

\* queue.get(): a work item, or the stop marker that ends the thread.
Take ==
    /\ thread = "waiting" /\ queue # << >>
    /\ queue' = Tail(queue)
    /\ IF Head(queue) = Stop THEN thread' = "exited" /\ item' = item
                             ELSE thread' = "executing" /\ item' = Head(queue)
    /\ UNCHANGED <<disk, state, call, closing, acked>>

\* Mutant: the payload fingerprint is part of the identity that is looked up.
PriorByPayload(m) ==
    {r \in receipts : r.kind = m.kind /\ r.id = m.id /\ r.fp = m.fp}

\* The receipts stored under the (mutation_kind, mutation_id) of a mutation.
Prior(m) == {r \in receipts : r.kind = m.kind /\ r.id = m.id}

\* The transaction found a receipt with the same fingerprint: nothing is
\* applied, the stored result is the answer.
Replay ==
    /\ thread = "executing"
    /\ \E r \in Prior(item.mut) :
         /\ r.fp = item.mut.fp
         /\ acked' = IF item.caller = Nobody THEN acked ELSE acked \cup {r}
    /\ Answer(item.caller, "replayed", FALSE)
    /\ thread' = "waiting" /\ item' = NoItem
    /\ UNCHANGED <<disk, state, queue, closing>>

\* MutationIdentityConflictError: other payload under a used identity, no
\* handler for the kind, or a revision to advance without a run.
Conflict ==
    /\ thread = "executing"
    /\ LET m == item.mut IN
         \/ \E r \in Prior(m) : r.fp # m.fp
         \/ /\ Prior(m) = {}
            /\ \/ m.kind \notin {DiagnosticKind} \cup DomainKinds \cup TraceKinds
               \/ m.kind \in {DiagnosticKind} \cup TraceKinds /\ m.run = NoRun
    /\ Answer(item.caller, "conflict", FALSE)
    /\ thread' = "waiting" /\ item' = NoItem
    /\ UNCHANGED <<disk, state, queue, closing, acked>>

\* DomainMutationRejectedError from a registered domain handler; rolled back,
\* no receipt is kept.
DomainReject ==
    /\ thread = "executing"
    /\ Prior(item.mut) = {} /\ item.mut.kind \in DomainKinds \cup TraceKinds
    /\ Answer(item.caller, "domain_rejected", FALSE)
    /\ thread' = "waiting" /\ item' = NoItem
    /\ UNCHANGED <<disk, state, queue, closing, acked>>

\* The committed_revision of a first execution, from the rows it reads.
NewRevision(m) ==
    IF m.kind = DiagnosticKind THEN revision[m.run] + 1
    ELSE IF m.kind \in TraceKinds THEN traceRevision[m.run] + 1
    ELSE 0

\* First execution: handler.apply, the revision row, the receipt, COMMIT.
Commit ==
    /\ thread = "executing"
    /\ LET m == item.mut IN
         /\ Prior(m) = {}
         /\ \/ m.kind \in DomainKinds
            \/ m.kind \in {DiagnosticKind} \cup TraceKinds /\ m.run # NoRun
         /\ \* diagnostic_facts.mutation_id is a primary key
            m.kind = DiagnosticKind => \A f \in facts : f.id # m.id
         /\ receipts' = receipts \cup
              {[kind |-> m.kind, id |-> m.id, run |-> m.run, fp |-> m.fp,
                rev |-> NewRevision(m)]}
         /\ IF m.kind = DiagnosticKind
            THEN /\ facts' = facts \cup {[id |-> m.id, run |-> m.run]}
                 /\ revision' = [revision EXCEPT ![m.run] = NewRevision(m)]
            ELSE UNCHANGED <<facts, revision>>
         /\ traceRevision' =
              IF m.kind \in TraceKinds
              THEN [traceRevision EXCEPT ![m.run] = NewRevision(m)]
              ELSE traceRevision
    /\ call' = IF item.caller = Nobody THEN call
               ELSE [call EXCEPT ![item.caller].applied = TRUE]
    /\ thread' = "committed"
    /\ UNCHANGED <<state, queue, item, closing, acked>>

\* completion.set_result after the commit.
Acknowledge ==
    /\ thread = "committed"
    /\ acked' = IF item.caller = Nobody THEN acked ELSE acked \cup Prior(item.mut)
    /\ Answer(item.caller, "committed", FALSE)
    /\ thread' = "waiting" /\ item' = NoItem
    /\ UNCHANGED <<disk, state, queue, closing>>

\* Any other exception: before the commit (rolled back) or between the commit
\* and the answer (the mutation is durable all the same).
Fail ==
    /\ thread \in {"executing", "committed"}
    /\ Answer(item.caller, "unavailable", FALSE)
    /\ thread' = "failing" /\ item' = NoItem
    /\ UNCHANGED <<disk, state, queue, closing, acked>>

----------------------------------------------------------------------------
\* Mutant: without synchronous=FULL the last commits may not be in the file.
CrashLosesCommits ==
    /\ state' = "new" /\ queue' = << >> /\ thread' = "none" /\ item' = NoItem
    /\ call' = [c \in Callers |-> NoCall]
    /\ closing' = [k \in Closers |-> FALSE]
    /\ \E kept \in SUBSET receipts : receipts' = kept
    /\ UNCHANGED <<facts, revision, traceRevision, acked>>

\* The process dies; the next one constructs a new coordinator on the file,
\* which holds every commit (WAL with synchronous=FULL).
Crash ==
    /\ state' = "new" /\ queue' = << >> /\ thread' = "none" /\ item' = NoItem
    /\ call' = [c \in Callers |-> NoCall]
    /\ closing' = [k \in Closers |-> FALSE]
    /\ UNCHANGED <<disk, acked>>

WriterThread == \/ Opened \/ MarkUnavailable \/ Take \/ Replay \/ Conflict
                \/ DomainReject \/ Commit \/ Acknowledge \/ Fail

Next ==
    \/ \E c \in Callers : \/ SubmitRefused(c) \/ Abandon(c)
                          \/ \E m \in Requests : Submit(c, m)
    \/ Start
    \/ \E k \in Closers : Close(k) \/ FinishClose(k)
    \/ WriterThread
    \/ Crash

Spec == Init /\ [][Next]_vars

\* The operating system schedules the writer thread, the event loop resumes a
\* close() whose join returned.
Fairness == WF_vars(WriterThread) /\ \A k \in Closers : WF_vars(FinishClose(k))
FairSpec == Spec /\ Fairness
----------------------------------------------------------------------------
(* Properties *)

\* Rows, queue and calls are well formed; the queue never exceeds its capacity,
\* markers of close() included.
TypeOK ==
    /\ receipts \subseteq Receipt
    /\ facts \subseteq [id : Ids, run : Runs]
    /\ revision \in [Runs -> Nat] /\ traceRevision \in [Runs -> Nat]
    /\ state \in States /\ thread \in Threads
    /\ queue \in Seq(Item \cup {Stop}) /\ Len(queue) <= QueueCapacity
    /\ item \in Item \cup {NoItem}
    /\ call \in [Callers -> Call]
    /\ closing \in [Closers -> BOOLEAN]
    /\ acked \subseteq Receipt

\* However often a mutation is submitted, by whom, across failures, retries
\* and restarts, one receipt exists for its identity (_execute looks the
\* receipt up and writes it in the same transaction).
AppliedAtMostOnce ==
    \A r, s \in receipts : r.kind = s.kind /\ r.id = s.id => r = s

\* What a caller was once told is committed is still what the file holds, so a
\* later replay of the identity repeats it: an answer never precedes or
\* survives its transaction.
AnswersAreDurable == acked \subseteq receipts

\* The series of committed revisions a run's observers wait on: diagnostic
\* facts, and separately trace-advancing mutations.
DiagnosticSeries(run) ==
    {r \in receipts : r.kind = DiagnosticKind /\ r.run = run}
TraceSeries(run) == {r \in receipts : r.kind \in TraceKinds /\ r.run = run}

\* The commits of a run are numbered 1, 2, ... without a gap or a repeat, and
\* the revision row stands at the last: two mutations of a run never report
\* the same committed_revision, whatever was rolled back or replayed.
Numbered(series, last) ==
    /\ {r.rev : r \in series} = 1 .. last
    /\ \A r, s \in series : r.rev = s.rev => r = s
RevisionsNumberCommits ==
    \A run \in Runs : /\ Numbered(DiagnosticSeries(run), revision[run])
                      /\ Numbered(TraceSeries(run), traceRevision[run])

\* The diagnostic facts are exactly those with a receipt (one transaction), so
\* the primary key of diagnostic_facts can never stop the writer.
FactsHaveReceipts ==
    facts = {[id |-> r.id, run |-> r.run] :
                r \in {s \in receipts : s.kind = DiagnosticKind}}

\* A definite refusal (conflict, domain rejection, overload, shutdown, or
\* unavailable at admission) means this submission changed nothing; a
\* "committed" answer means it did; a replay means an earlier one did.
\* Only "unavailable" for an admitted mutation is ambiguous.
RefusedWithoutEffect ==
    \A c \in Callers :
        /\ call[c].status \in Refusals \cup {"replayed"} => ~call[c].applied
        /\ call[c].status = "committed" => call[c].applied

\* A caller blocked on its Future has its item with a writer thread that will
\* still answer it: no shutdown, failure or race of the two strands it.
WaitingIsHeld ==
    \A c \in Callers : call[c].status = "waiting" =>
        /\ Queued(c) \/ Owner(item) = c
        /\ thread \notin {"none", "exited"}

\* Liveness: every admitted call is answered, abandoned by its caller, or lost
\* with the process - in particular close() and a failing writer answer all.
EveryCallReturns ==
    \A c \in Callers : call[c].status = "waiting" ~> call[c].status # "waiting"

\* close() returns: the stop marker it puts reaches the thread it joins even
\* when a failure or another close() empties the queue.
CloseReturns == \A k \in Closers : closing[k] ~> ~closing[k]

\* The writer implements the ledger of exactly-once mutations.
Ledger == INSTANCE MutationLedger WITH ledger <- receipts, shown <- acked
LedgerSpec == Ledger!Spec
=============================================================================
