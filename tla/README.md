# A verification project for XHS Growth Agent

The repository is a Python back end (FastAPI, asyncio, SQLite) that turns a
conversation into long-running *workflow runs*: a creator run generates a
content strategy and notes step by step, a content-research run collects
evidence and publishes a report. A process owns one SQLite file. Its request
handlers, its background workers and the thread that writes to the file share
nothing but that file and a few in-memory queues, and the process may be killed
and restarted at any moment.

This directory holds TLA+ models of the part of that program whose correctness
does not depend on what a language model answers: who writes, who leases, who
acknowledges, in which order, and what is left behind by a failure in between.
TLC checks them on small instances, TLAPS proves the main invariants for every
instance. Paths below are relative to the root of the repository.

## The system and its components

### Runtime writer (`app/core/runtime_write_coordinator.py`)

- **State.** The tables `mutation_receipts`, `diagnostic_facts`,
  `run_revisions`, `content_research_trace_revisions`; in memory the state of
  the coordinator, a bounded queue, one writer thread.
- **Operations.** `start`, `submit` and `submit_sync` (any task or thread),
  `close`, and the thread's loop: take an item, look its receipt up, replay,
  reject, or apply and commit with a new receipt, then answer.
- **Interaction.** Every store of the Runtime that has been given a writer
  submits typed mutations to it; the registry makes sure that a database has
  one.
- **What is hard.** A commit whose caller is never told; an answer given twice
  or not at all; `close()` racing with a submission, with the thread's failure
  and with another `close()`; a full queue; revisions after a rollback.
- **What makes it correct.** One effect per mutation identity, answers that
  outlive the process, dense revisions per run, a definite refusal that really
  had no effect, and no caller left waiting.

### Workflow runs (`app/services/workflow_run_manager.py`, `app/memory/job_store.py`, `app/memory/job_mutations.py`)

- **State.** `workflow_runs`, `workflow_steps`, `workflow_child_tasks`,
  `workflow_artifacts` and `jobs`.
- **Operations.** Commands of the user (start, pause, resume, cancel,
  complete, retry of a failed report), transitions an executor reports (start,
  complete, retry, fail, skip, wait for the user), acknowledgements at safe
  boundaries, the attachment of artifacts; for jobs enqueue, lease, recovery of
  expired leases, mark, retry, pause, resume, cancel.
- **Interaction.** Each operation is one transaction. The manager changes jobs
  too (pause, resume, cancel in bulk), the job store changes steps too (after
  recovery).
- **What is hard.** The operations come from four callers in any order, and
  several look at one table only; half of them raise when the row has moved.
- **What makes it correct.** The documented transition table of a run, nothing
  left able to move in a run that has ended, no output after a cancel.

### A creator run (`app/workers/job_worker.py`, `app/services/workflow_dispatcher.py`, `app/services/step_executors.py`, `app/services/conversation_orchestrator.py`, job routes in `app/api/routes/router.py`)

- **State.** The program counters: where the worker task is between two awaits,
  where the request handler is that launches the run.
- **Operations.** The worker recovers, polls, leases, starts the step, calls
  the runner, checks for a cancel, for a pause, completes the step, marks the
  job, dispatches the next step or ends the run; on an error it retries or
  fails. The launcher starts the run, initialises its steps, enqueues the first.
- **Interaction.** Only through the database. A guard is a read of its own, so
  whatever it has read may be stale when it is used.
- **What is hard.** All of it: a pause or a cancel that lands between two
  transactions of the worker, an error handler that raises itself, a crash
  after every await, a recovery that runs only once.
- **What makes it correct.** Steps in order, safe boundaries that are safe,
  a cancel that stops the work, the retry budget, and that a run nobody
  interferes with ends.

### A content research run (`app/content_research/`)

- **State.** The run's *lifecycle* (`workflow_runs.content_research_state`, its
  error and recovery plan) beside the workflow status of the same row and the
  `formal_research` step; `content_research_dispatch_jobs`, one per run;
  research tasks and their operation checkpoints; coverage snapshots, the
  user's decisions about them, and for each decision a continuation and an
  execution unit with numbered attempts; the effective analysis attempt; the
  publications. In memory: the lanes of the dispatch worker, the analysis
  worker, their heartbeats, and request handlers of several transactions.
- **Operations.** The user confirms brief and scope, decides about coverage,
  retries what the recovery plan offers, cancels. A lane claims a continuation
  or the dispatch job and runs the formal research: tasks with provider calls,
  coverage, the hand-off to the analysis. The analysis worker claims an
  attempt, analyses, and goes the rest of the way to the report.
- **Interaction.** Every claim is a lease with a token; heartbeats renew it, and
  most writes of an execution, not all, are fenced by it. Lifecycle and workflow
  manager are written in separate transactions by the same handlers.
- **What is hard.** A provider call costs money and its outcome may be lost with
  the lane; a late lane writes after its lease has moved on; cancel meets
  everything at any await; a crash separates two leases that belong together; a
  retry is four transactions and is sent twice; the two records of the run's
  progress disagree.
- **What makes it correct.** The lifecycle's table, one report and only an
  earned one, a cancel that is final, no provider call repeated after its
  outcome was lost, an analysis paid for once, settled attempts that stay, and
  continuations that end.

### The collection of one direction (`app/content_research/workflow/`, `async_pipeline_store.py`)

- **State.** Append-only *stage checkpoints* of a task: the operations with
  each of their statuses, search pages, the collection, selection revisions,
  details, decisions on the fallback query; the row of the task.
- **Operations.** `execute` goes through the query groups page by page, then
  through the details of the candidates, decides whether the fallback query is
  needed, and if so calls itself. Each provider call is claimed by a flushed
  checkpoint before it is made. Recovery at the claim of the dispatch job looks
  for interrupted tasks; the retry of a run retires what failed for the moment.
- **Interaction.** With the lane through the lease, with the service through the
  task's row and the checkpoints it retires, with the provider.
- **What is hard.** A paid call is claimed, made and recorded in three steps and
  the worker may die or be overtaken between any two; a worker that has been
  overtaken writes the task's row all the same; records are found again by a
  fingerprint of other records; what a retry retires must fit what is left.
- **What makes it correct.** A request is sent once for a claim, and never again
  after it may have taken effect; the collection ends.

### A session and its jobs (`app/memory/session_state.py`, the `/sessions` routes, `app/agents/`)

- **State.** The row of the session: `lifecycle_state`, the time of the last
  activity, `stage`, the stored strategy and notes; the jobs of the first API,
  which belong to no run. In memory: each request's and the worker's place.
- **Operations.** `get_session`, which also keeps the lifecycle: it reads the
  row, counts the active jobs, and writes what it concluded. The routes ask for
  a strategy or for a generation, with or without an `Idempotency-Key`, resume,
  show; commands pause, resume and cancel jobs, one by one or all at once. The
  worker leases, the agents write stage and results, and a strategy that has
  succeeded enqueues the generation that follows it.
- **Interaction.** Only through the two tables. Nearly every write to the
  session is preceded by a `get_session`, which may freeze or purge it.
- **What is hard.** The lifecycle is written on what was true two awaits before;
  two requests with one key; a purge that meets an enqueue; results, stage and
  the job's status are three transactions; a session that fails while another
  request moves its stage.
- **What makes it correct.** One job for one key, results behind every success,
  a retry budget, and a line of jobs that moves.

### A brand's topics and decisions (`app/v2/ingestion`, `topic_pool`, `decision`, `feedback`, `foundation`)

- **State.** Ingestion runs and the content they wrote, import previews, the
  capture session of the browser extension; the brand's policy and its state
  snapshots; the topic pool with a score per item; decision batches with their
  events, items and candidate sets; publications, performance snapshots,
  feedback events, evaluation runs.
- **Operations.** Synchronise a source, preview and import rows, open a capture
  session, hand in and retry; list and refresh the pool, which rescores what is
  stale and archives what is old; run a batch; record a publication, import its
  performance, evaluate.
- **Interaction.** Request and response, one service calling the next: a batch
  asks the scorer, the scorer asks for the last performance, the evaluation goes
  from a snapshot through its publication to the event of the decision.
- **What is hard.** A call is many saves, each a transaction of its own: what a
  call leaves that is cut short, handed in twice or broken; scores that are
  older than the performance they should know; quotas given as ratios that must
  become whole slots and may contradict each other.
- **What makes it correct.** A receipt stands for what was stored, a batch keeps
  the quotas of a policy that names no type twice (and of any other as much as can
  be said) and ranks on fresh scores, and an evaluation is refused only for a
  reason that was a failure.

### Around them

- **Ownership of the file** (`app/core/runtime_write_registry.py`,
  `sqlite_runtime_lock.py`, `runtime_schema_bootstrap.py`): one writer per
  canonical path within a process, one process per file.
- **Snapshot reader** (`app/core/consistent_snapshot_reader.py`): reads that
  belong to one revision, beside the writer.
- **Migration** (`app/core/single_writer_migration.py`): the cut-over to the
  single writer, restartable.
- **Agents, providers, search, spider** (`app/agents/`, `app/services/`):
  external calls. Their results are opaque here.
- **Observability, frontend**: no effect on runs.

## The modules

| module | models | state |
|---|---|---|
| `RuntimeWriter` | the coordinator, its thread, callers, closers, crashes | the four tables as sets and functions, queue, thread, one record per caller |
| `MutationLedger` | what the writer promises (abstract) | the ledger, and what callers were shown |
| `JobStore` | one operator per SQL statement on `jobs` | status and attempts of each step's job |
| `WorkflowRun` (extends `JobStore`) | one action per transaction of the manager and the store, for arbitrary callers | run, failure, steps, artifacts |
| `RunLifecycle` | the documented transition table (abstract) | status, finished steps, outputs |
| `JobWorker` (extends `WorkflowRun`) | worker, dispatcher, executor guard, launcher, user, crashes | two program counters and what they hold |
| `ScopeExecution` | what an accepted coverage decision leaves: continuation, unit, attempts, two leases, lanes, heartbeats, provider calls | the rows by decision, and a record of each lane |
| `ResearchTransitions` | the table of `lifecycle/transitions.py` | |
| `ResearchLifecycle` (extends it) | what a research run promises (abstract) | state, reports exposed |
| `ResearchRun` (extends `ResearchTransitions`) | a whole research run: commands, lanes, analysis worker, lifecycle and workflow rows | the rows, a program counter per thread and one for the user's request |
| `DirectionalPipeline` | the collection of one direction by workers under a lease: pages, details, fallback, recovery, retry | checkpoints as sets and one sequence, task and job, a place per worker |
| `ProviderCalls` | what the record of the operations promises (abstract) | the phase of each provider request |
| `Ingestion` | source synchronisation, imports, the capture session, with every save that may be the last of its call | runs, the run that wrote each note last, previews, one session |
| `TopicSelection` | the quotas of a policy in slots, the ranking, the selection | none: operators |
| `TopicDecisions` (extends both) | pool, scores, batches, publications, performance, evaluation | the tables, an item of the pool by its topic |
| `SessionJobs` (extends `JobStore`) | a session, its routes, its jobs without a run, the worker and the agents | the session's row, the rows of its jobs, a place per request and one for the worker |
| `RuntimeWriter_proofs`, `WorkflowRun_proofs`, `JobWorker_proofs`, `ScopeExecution_proofs`, `ResearchRun_proofs`, `DirectionalPipeline_proofs`, `SessionJobs_proofs`, `TopicDecisions_proofs` | theorems | |
| `MCRuntimeWriter`, `MCWorkflowRun`, `MCJobWorker`, `MCScopeExecution`, `MCResearchRun`, `MCDirectionalPipeline`, `MCSessionJobs`, `MCTopicDecisions` | instances for TLC | |

`JobWorker` composes the components: it adds no transaction of its own, each of
its actions is a read, or one action of `WorkflowRun` with the program counter
moved. `JobWorker_proofs` proves exactly that (`WorkerRefinesRun`), so what is
proved for arbitrary callers holds for these.

### How state and actions correspond to the code

- **The writer.** `receipts` is the table, keyed by the kind and the id, and an
  element carries the fingerprint (`fp`) and the revision. `queue` holds
  submissions and `Stop`; `thread` is the place of `_run`; `call[c]` is the
  Future of caller `c`. Everything under `_state_lock` is one action. The
  transaction of `_execute` is one action (`Commit`) because the connection is
  private to the thread; the fault points around it are separate: `Fail` may
  happen before the commit, and after it (`thread = "committed"`), when the
  mutation is durable and its caller is not told. `Abandon` is the cancellation
  of an awaiting task: `asyncio.shield` keeps the submission.
- **Jobs.** `enqueue` is idempotent per run and step, so a job is named by its
  step. The guard of an operator is the statement's `WHERE`; `mark_succeeded`,
  `mark_failed` and `schedule_retry` have none, as in the code. `not_before`
  is not modelled: a job that is due later is one that is not leased yet.
  `attempts` is counted up to one past the budget, the code compares it only.
- **Runs and steps.** Where the code raises `WorkflowTransitionError` or
  returns the row unchanged, the action is not enabled; a caller that reacts to
  the exception has an action for it in `JobWorker`. `failure` abstracts
  `error_code` and the publication recorded with it.
- **The worker.** `worker` names the await it is at: `leased` after
  `lease_one`, `executing` inside the runner, `attaching` between the commit
  guard's read and the attachment, `executed`, `pause_check`, `completing`,
  `marking`, `dispatching`, `enqueueing` and so on down `_execute_job`.
  `retrying` and `failing` are the entry of the generic exception handler.
  `dead` is the task after an exception has left `run_loop`: nobody awaits or
  restarts it. A runner is external: it may raise what the instance's `Errors`
  say, commit any number of artifacts, and return.
- **The launcher** is `_start_initialized_run`, with an action for each of its
  transactions.

- **Executions of decisions.** A lease token is the number of the claim: an
  attempt is claimed once, so its number is its token, and a continuation's is
  its `attempt_count`. A lease has run out or not (`contExpired`,
  `unitExpired`); clocks are not modelled. A lane's `pc` names the place in
  `_run_scope_continuation` and below: `claimed` between the two claims,
  `working` between provider operations, `flushing` between the record of a
  request and its operation checkpoint, `calling` and `answered` around the
  call, `checking` before the postconditions of `execute_execution_unit`,
  `ending` and `closing` before the two transactions that settle unit and
  continuation. `Owns` is the predicate of the fenced writes, `IsLive` the wider
  one of the guards. `inDoubt` is a history variable: the attempts that lost
  their lane or lease during a call.
- **The research run.** One transaction is one action. `state` is the
  lifecycle, `status`, `step` and `formal` are the workflow's rows. `Advance` is
  `_advance` with the rows it writes; a caller that goes on when the run has
  moved uses `AdvanceIf`. Where the code raises, the action is not enabled and
  `Fail` leads to the handler (`raised`). `Live` is the fence of each kind of
  execution; a write that does not ask for it in the code does not here
  (`RecordDispatchFailure`, `Enter`, `Undecided`). `fresh` stands for the
  revision a thread has loaded: any move of the run empties it. `req` is the
  request handler of a command with several transactions. Tasks of the run's
  directions are one `task`, as the run only asks whether all have ended well.
  A unit of a decision is lost here only by a crash or a cancellation;
  `ScopeExecution` has the rest, and it takes the writes to the task as fenced.
- **The collection of a direction.** One flush is one action, with everything
  saved since the last: a page or a selection revision goes with the answer of
  its operation. While a worker has its lease nobody else writes the records, so
  the session it has loaded is the records themselves. `ops` has every status an
  operation has had, as the rows are appended. `req` is the request of the claim
  just made; `ask` is between the claim and the call, `wait` is the call,
  `refused` the call not made because the lease was gone, which the caller takes
  for one that raised. A query fingerprint is a group and a page; the fingerprint
  of a candidate manifest is the set of pairs of a query and a note it found.
  Admission is the set `Relevant`, coverage the number of relevant notes among
  the selected. The task's row is written without the lease (`Finish` in
  `Fenced`), job and heartbeat go by the token (`Close`, `Beat`); the model
  shows that this does no harm to the calls. `asked` is a history variable: how
  often the provider got a request since a retry gave it back.
- **The session.** `at` names the await of each request and of the worker. A
  place of `Loading` begins with a `get_session`, in the three steps of the code
  (`get`: the row, the count, the write; `verdict` is what is written), and what
  is done with the row it returns is the action after it. `idle` is the time
  since the last activity by the two thresholds it is compared with: 0 is
  recent, 1 just under a day, 2 over it, 3 just under ten days, 4 over them. A
  threshold may be passed during any await, a whole day only while nobody is at
  work (`Quiet`). Jobs are rows named by their number in the order of creation;
  `job` and `attempts` are those of `JobStore`, `type` and `key` say what a row
  is for. `key` is a client's, the one the worker gives to the generation it
  derives, or none. The result and the stage of an agent are two transactions
  (`SaveData`, `WriteResult`). A refusal for the cool-down has the same effect as
  any other refusal. `pause_requested` is not a variable, as nothing in `app/`
  sets it. A `Crash` loses every request under way and the worker's place.
- **Topics and decisions.** Calls do not overlap: the handlers of `/brands` and its
  kin call the services without an `await`, so the event loop runs one at a time,
  and the services hold no state in memory. A call is one action,
  and its outcome says how many of its saves were made; one that made fewer than
  all, or none of those an exception handler makes, is counted by `Cut`. Notes
  are known by their identity on the platform, since `_ingest_items` looks them
  up by it in any brand: `content` says which run wrote a note last, and the
  note belongs to that run's brand. A payload with a `Broken` entry is refused
  before anything is stored, and its run has failed. `late` is the capture
  session's age against its fifteen minutes, `aged` the score's against six hours,
  `old` the candidate's against sixty days. `known` counts the performance snapshots
  imported when the item was scored: `_is_stale` compares times, and a score is
  stale when one was imported later. Which topics a refresh proposes is open up to
  their number, a score is any of `Scores`.
- **Numbers.** A floating point number is its numerator over `Unit`, and `Floats`
  are the numerators that need no rounding: a product of a ratio and the slots, a
  sum of minima and a score with its boost become the nearest of them (`Rounded`).
  With numbers of two binary digits a policy that asks for 9/4 of a slot gets
  2, as one that asks for 0.28 of 25 slots gets 8 of the code. A maximum
  may be above one, as nothing in the code bounds it.
- **The selection.** The promised slots of a policy are a set of pairs, a type and
  a number. `_build_constraint_plan` keeps its plan by type, so for a type that is
  named more than once the last entry decides (`LastEntry`), and the first in the
  order of trimming decides when it is trimmed (`Lead`). What the plan counts down
  is the order in which the pairs are given up (`GivenUpBefore`): `Kept` are the
  pairs that enough others are given up before. Both loops of
  `_select_candidates` are `Fill`, a pass over the ranked topics with a limit for
  each type: for the guarantees, entry by entry, the limit of one type at a time,
  on top of what is chosen already; after them the maxima. What is counted in
  `selected_counts` is the number of chosen topics of the type. Topics of equal
  value may be ranked either way: the code decides by policy score, title and id.

## The runs

| run | instance | what it shows |
|---|---|---|
| `writer` | 2 callers, 2 closers, queue of 1, 6 mutations: a fact, a domain and two trace-advancing ones with a conflicting payload, a missing run, an unknown kind | at most one effect, durable answers, the meaning of every answer, refinement of `MutationLedger` across failures and crashes; under fairness every admitted call and every `close()` returns |
| `workflow_run` | 2 steps, 1 attempt, 1 publication, arbitrary callers | the manager refines `RunLifecycle`; ended runs are settled |
| `job_worker` | 3 steps, 2 attempts, 2 crashes, all commands, both kinds of error | order of the steps, safe boundaries, settled cancels, the retry budget |
| `job_worker_control` | 3 steps, both kinds of error, pause, resume, cancel, 1 crash | a running run does not stand still, also after a pause and a resume; a pause or cancel that meets an executor is acknowledged |
| `scope_execution` | 1 decision, 2 lanes, 1 call per attempt, 2 faults (crash, stall, replay), cancel | lost calls are not repeated, calls exclude each other, completion is earned, settled attempts stay; under fairness the continuation ends |
| `research_run` | 2 lanes and the analyst, 2 coverage revisions, 1 fault, all commands | the lifecycle's refinement, one earned report, final cancels, calls and analyses made once, retries that find something |
| `directional_pipeline` | 2 workers, a primary and the fallback query, 2 pages, 2 notes of which 1 is relevant, 1 crash or lost lease, 1 retry | provider calls refine `ProviderCalls`; under fairness the collection ends |
| `doc_persisted_details` | as before with larger queries and no fault | disagreement 1 below |
| `session_jobs` | 2 requests (a strategy under a key, a generation, a resume), 3 rows, 2 attempts, all commands, 1 crash | one job for one key, results behind every success; under fairness the line of an alive session moves |
| `topic_decisions` | 3 notes of 3 topics in 2 types, 2 brands, a payload of three notes and a broken one, numbers of two binary digits, 3 policies (two types that do not fit in one slot and are rounded in three; a type named twice; a type that only a maximum limits), 1 or 3 slots, 1 batch, publication, snapshot, evaluation, 1 cut | receipts that are backed, quotas that are kept as far as the policy's entries allow, decisions on fresh scores, refusals with a cause |
| `doc_rows`, `doc_queued_runs` | as `scope_execution`; as `research_run` with 1 revision and no fault | disagreements 2 and 3 below |

### Why the bounds are enough

Two callers are the fewest that can conflict on an identity, fill a queue of
one behind an item in progress, and wait while a third party closes; two closers
are what the drain in `close()` has to survive. Behaviours of the writer are
finite without a bound on its life, since the receipts of a finite set of
mutations are.

A run needs three steps for an order to be violated beyond neighbours, and two
attempts for a retry that is allowed and one that is not. Two crashes give a
crash during the recovery from a crash. One job per step is not a bound but the
idempotency key. `workflow_run` has two steps: a finished research step and
another one is all its operations distinguish, and its callers are arbitrary.
Only `MaxCrashes` bounds the length of behaviours, and the proofs have no bound.

For an execution the interesting number is that of the lanes: two are needed to
take a unit over, and a third would find what the second finds. Two faults allow
a stall whose lane comes back after a crash or another stall; each fault allows
one more attempt, so three attempts are reached. A second decision would only
compete for the lanes, since a unit's rows are its own. A research run needs two
coverage revisions: one that is judged insufficient, and the one its decision
produces. Lanes differ in nothing (`LaneSymmetry`; the run has no liveness
property, for which symmetry would not be sound). One fault is one of: a crash,
a lease that lapses under its holder, a command sent again, a failure nothing
could record. The proofs have no such bound.

A direction needs two queries, one of them the fallback, and two notes: one that
the second query adds to the first. Two pages give a resumption inside a query,
a page without notes, and a cursor that is not followed. A query takes one note,
so the notes of both queries are what is reached, alone or together; with a
limit of two, what is added is a query that finds both notes, which
`doc_persisted_details` has. A worker that is overtaken needs a successor and no
third. The fault is a crash of the process or a lease that runs out under a
worker that goes on; one retry is the number after which a record may be met
that a retry has left.

A session needs two requests: two that race under one key, and one that arrives
while the job of another runs. Three rows are theirs and the generation the
worker derives, so `enqueue` never finds the table full; two attempts allow one
retry. One crash is a recovery that finds its lease expired, or not yet.

Three topics in two types are the fewest with a type that can exceed its maximum
while another has room, and three slots and one slot round quarters both ways.
The two policies are feasible in one of the two sizes each: by a minimum above
its maximum, and by minima that do not fit together. One cut is one call that
ends early. Submissions touch decisions only through what notes a brand has, so
`MCNext` lets a behaviour either hand in captures and imports (two runs: the
second writes over the first, or is cut) or decide from one synchronisation;
after the batch, its effect is what is followed. Those are bounds of the run; the
proofs are about `Spec`, which has none of them.

### Fairness

`FairSpec` of the writer: weak fairness of the writer thread (the operating
system schedules it) and of the resumption of each `close()` after its join.
Nothing is assumed of the callers, of crashes, or of a restart.

`FairWorkerSpec`: weak fairness of the worker task and of the launching handler
(the event loop is fair to ready tasks), of the restart of the process (its
supervisor's), and strong fairness of `Return`: a runner that commits artifacts
again and again returns in the end; weak fairness would let it commit for ever,
because `Return` is disabled while it attaches. Nothing is assumed of the user.

`FairScopeSpec`: weak fairness of each lane (a task of the event loop, whose
provider calls have a timeout) and of the expiry of a lease nobody renews
(time passes). A lane is fair as a whole: which of its ways out it takes is not
assumed. Nothing is assumed of the user, of crashes and of stalls.

`FairSpec` of the pipeline: weak fairness of the workers' steps taken together.
The dispatch worker polls for ever and claims an open job again when its lease
has run out, and every provider call has a timeout, so some step of some worker
is always taken while the job is open; which worker, and with what answer, is
not assumed. Heartbeats, the expiry of leases, crashes and retries are free.

`FairSpec` of the session: weak fairness of each request that has begun, of the
worker's task (tasks of the event loop; searches and models have timeouts) and
of the restart. That the clock moves, that anybody asks for anything, and which
outcome a call has is not assumed. `QueuedJobsRun` ends with a crash: a job it
leaves running blocks its session if its lease outlives the one recovery at
start-up.

Nothing is fair in `TopicDecisions`, which has no liveness property: nobody has
to call a service.

Deadlock is checked in the writer and `WorkflowRun`. A session stops when all
requests are answered and no job is left. `TopicDecisions` stops at its bounds. `ScopeExecution`,
`ResearchRun` and `DirectionalPipeline` stop when every decision is settled,
every run has its report and every job is closed, so it is not checked there. In `JobWorker` it is not:
once the run has ended, or the worker is dead, and the user has no command left
that is accepted, the model has nothing more to do, and rightly so.

## Where the code and its documentation disagree

Each of these is a run that ends in a violation, with the quote in
`PROJECT.json`.

1. **A detail on record puts its task in doubt** (`doc_persisted_details`):
   details are found again by the fingerprint of all candidates of the
   direction. Once the fallback query adds a note the fingerprint is another,
   no detail is found, the loop begins with a note whose operation is completed,
   and `_begin_operation` takes that for a call without a durable result. The
   task ends as `outcome_unknown`, which no retry accepts, though every call has
   been answered; the replay design wants persisted candidates and packets
   consumed before a new call.
2. **A cancelled research run cannot be read** (`doc_rows`): cancel writes
   `cancelled` into execution units and attempts, a state their record types
   refuse, so every later read of them raises.
3. **A queued research run that nobody executes** (`doc_queued_runs`;
   STATE-CR-04): `retry_retrieval` moves the run to `retrieval_queued` first and
   restarts its step in a later transaction, which is refused when the run is
   already running and no child waits for authentication.

Met while modelling; the models behave so too, and no run is spent on them:

- A cancelled job is tried again: `schedule_retry` does not look at the status it
  overwrites, so a job cancelled while its agent searches is put back in line
  when the search fails, where `docs/v1/dev_specv1.md:780` says that a cancel
  stops further retries.
- Recovery of job leases runs once, when the worker loop starts. A lease that
  expires after it is never noticed, and the running row blocks its session;
  README.md:203 of the repository says the job "automatically returns to
  `retrying`".
- A cancel that meets an executor already refused for a pause (`blocked_pause`)
  is never acknowledged.
- `mark_succeeded` does not look at the status it overwrites: a cancel after
  `complete_step` and before it is lost on the job, against README.md:204.
- With no executor on a creator run - it is paused, or between two jobs - nobody
  moves it from `cancelling` to `cancelled`; a pause has the same gap.
- The conversation's `complete_run` does not look at the steps, and a run
  completed under its executor ends the worker loop: the handler of step errors
  raises, and nothing catches it.
- A decision sent again through the runtime writer conflicts with its receipt,
  because its records are built anew with a new `created_at`; the docstring of
  `_continue_coverage_execution` (service.py) says it is idempotent. `Replay` models the store
  without a writer. A continuation that failed after its provider had
  succeeded, or before it was asked, is not replayable at all.
- A continuation that fails is not recorded in its run, which stays in the state
  its execution reached (INV-CR-16 asks for `recovery_required`).
- A crash between `coverage_insufficient` and the completion of the job leaves
  the job to be executed again in a run that awaits a decision; it fails the run
  with a stage for which no recovery is offered.
- An analysis attempt whose lease runs out in a run that has failed otherwise is
  listed as expired for ever; the analysis worker does nothing else then.
- A research task in doubt makes the run offer `retry_retrieval`, which is
  refused because no task is recoverable.
- A cancel between the restart of a retry and its enqueue leaves a queued job in
  a cancelled run, whose execution calls providers before it finds out; nothing
  of it reaches the run (`CancelledIsFinal`).
- A retry of the retrieval sent a second time is taken for the first one and
  restarts whatever the run is doing: `DecisionsAreOpen` holds only without it.
- A crash between two provider calls leaves the task in doubt, although every
  call of it was answered: `recover_interrupted_tasks_atomically` asks whether a
  running checkpoint exists, and the one of an answered operation stays.
- A worker that was overtaken writes its own end into the row of the task its
  successor is executing (`_terminal_task` has no fence).
- Where a decision on the fallback is on record as blocked by the provider, and
  after the retry the same evidence asks for the fallback, the activation is not
  recorded; `execute` calls itself until the recursion is too deep, and fails.
- The recursive `execute` does not pass `execution_authorization_id` and
  `execution_revision` on.
- A retry of a failed search retires the selection revisions, and with them the
  count of details that the cap limits: the retry has a fresh budget of details
  (the replay design says it never has). A failed detail counts against the cap.
- The `outcome_unknown` that `_begin_operation` saves before it raises is never
  flushed.
- When a group is resumed whose last page failed for all of the provider, the
  groups after it are queried all the same.
- `_requeue_recoverable_tasks` is one transaction per checkpoint; the model
  takes it as one, so a crash in the middle of it is not covered.
- A purged session comes back: a `get_session` that read the row before the purge
  writes its verdict after it, and `update_activity` of a resume writes `alive`
  whatever the row says (`docs/v1/dev_specv1.md` allows no transition out of
  `PURGED`).
- A purge cancels the jobs it finds; a request that loaded the session before it
  enqueues one after it, which nobody will lease.
- The generation that follows a strategy is enqueued without asking whether the
  session is still alive, and the queued jobs of a frozen session are left queued
  instead of being paused; the design document says otherwise of both.
- The route writes the stage before it enqueues the job: a crash in between leaves
  a session whose stage refuses the same request for ever.
- A synchronisation moves the notes of another brand: `_ingest_items` finds a note
  by its identity on the platform and replaces its brand, and that brand's pool
  loses the evidence.
- An accepted capture handed in again after fifteen minutes becomes `expired`,
  with its receipt still in the row; nothing asks for the status before a
  submission.
- A decision snapshot whose import was cut short refuses every evaluation of the
  brand until the same publication's performance is imported again
  (`RefusalHasACause` names it as the only cause), and an evaluation that was cut
  short stays on record as completed, without its slices.
- Rescoring writes `updated_at`, by which candidates are archived: a pool that is
  looked at never archives anything.
- A batch with a lost tail of events keeps the `chosen_count` of all.
- The signals of imported rows ask for the source `historical_note_import_v1`;
  imports are stored as `manual_import`.
- A policy that names a type twice is accepted by `validate_policy_targets`
  (`foundation/service.py:229`), and a batch takes the guaranteed slots of the type
  once per entry, without a look at its maximum (`decision/service.py:460`): two
  entries of a quarter to a half fill two slots with the type, where its maximum is
  one. `docs/v2/dev_specv2.md:639` says "never exceed `max_slots[type]`" of the
  remaining slots. `KeepsMaxima` says how far it goes: no further than the
  guarantee of each entry. The second policy of `topic_decisions` is such a one.
- `worker.py:221` handles `ReportPublicationMaterializationError`, which nothing
  raises.

`EveryRunEnds`, `CancelMeetsExecution` and `PauseMeetsExecution` say what does
hold: of a running run until the process ends, and of a command that meets an
executor. They stop at the handler of errors, which acknowledges nothing, and at
an exception that leaves the worker's loop (`~Up`).

## What is proved

All theorems are for any values of the constants that satisfy the named
assumptions: sets of callers and requests of any size, any capacity, any number
of steps, attempts, publications and crashes, any set of commands and errors.

**The writer.** Four invariants, each inductive given those before it.
`ControlInv` says where the thread can be in each state of the coordinator: it
holds an item exactly while executing or committed, a `Stop` is alone in the
queue, and nothing is queued for a thread that has exited. `HoldingInv` says that
a caller waits exactly while one item of its own is in the queue or with the
thread, which with the first gives `NobodyStranded`. `EffectInv` ties what a
submission has done to what its caller was told (`RefusalsAreFinal`): an item
whose thread is at `committed` has its receipt, and only its caller can be
waiting with an effect. `LedgerInv` is the conjunction of `ExactlyOnce`,
`DurableAnswers`, `FactsAndReceiptsAgree` and `RevisionsAreDense`, inductive
because a commit requires that no receipt of the identity exists.
`ImplementsLedger` maps every step to a step of the ledger or a stutter.

**The transactions of a run.** `EndIsFinal` needs only the type invariant: each
transaction either refuses an ended run, or moves no step into `pending`,
`running` or `retrying`, or converges the steps in the same transaction.
`FailuresAreKept` and `ImplementsLifecycle` are proved by transaction.

**A creator run.** `StepsInOrder` is far from inductive. The invariant that is
says that a run has *one frontier* (`FrontierInv`):

- every step before one that has a job, or that somebody is about to enqueue,
  has succeeded (`EarlierDone`);
- a step that has been started has a job (`ActiveHasJob`);
- after a job that is still open, and after the one the worker holds, there is
  no job (`OpenIsLast`, `BusyIsLast`);
- while the worker dispatches, no job is open (`NothingOpen`): the dispatcher
  never enqueues beside a live job;
- until the launcher is done, there is no job at all and the worker idles
  (`Launching`): launcher and dispatcher never pick a step at the same time.

`PickedStep` is the heart of it: a step chosen by `_first_runnable_step` has
every earlier step done, because an earlier step that is neither pending nor
retrying is succeeded, failed, running or cancelled, and the frontier excludes
the last three. With it go the facts that say what rows can hold given where
the worker is (`RowsInv`); `AloneAtBoundary` then shows that the step of the
worker that acknowledges a pause or a cancel is the only one that could still
move, which gives `PauseIsABoundary` and `CancelSettles`. `CancelIsFinal` is an
action property. `BudgetIsKept` has an invariant of its own (`Frugal`: what can
be leased has an attempt left, unless its step is `excused`): an acknowledged
pause gives a job back without asking for its budget, and TLC finds that case at
once if it is not excused. The proofs classify each step
first (`RowMoves`, `JobMoves`, `WorkerMoves`, `LauncherMoves`) and argue by
class.

**The execution of a decision.** `InductiveInvariant` has, beside the types:
`Control` (what a lane holds at each place), `Rows` (which states of unit,
attempts and continuation go together: only the latest attempt can be open),
`CallRows` (a lane in a call has recorded the request, and the record of its
attempt still says so unless it was followed or settled), `Exclusive` (of two lanes with one
unit only one has the latest attempt), `Earned` and `Doubt`. The last is why a
lost call stays last: the provider's fact of an attempt in doubt is `requested`
or unknown, and `claim_execution_unit` follows neither. `OneCallAtATime` needs
that fact too, because a lane that lost its lease stays in its call: were the
attempt followed, two lanes would call for one unit.
`SettledAttemptsNeverChange` is an action property over it.

**A research run.** The invariants come in an order in which each uses those
before it, and each rests on a lemma that says how a step can move its rows at all
(`Moves`, `AnalysisMoves`, `TaskMoves`, `ScopeKept`). `RunInv` has the finality
of a cancelled run, the count of reports, what a ready run has behind it, and
that an offered retry of the analysis finds a failed attempt. `CallsInv` ties the
task to the lane that owns the job. `ScopeInv` says the coverage revisions form
a chain: whatever comes before a revision was decided by an expansion, and a
decision belongs to a coverage that awaited one. With it, *one* satisfied or
limited revision (`Settled`) means that no decision is owed anywhere
(`SettledDecides`), and `Settled` never becomes false again. `PlacesInv` and
`ComposeInv` carry it, with the finished task, from the thread that judged the
coverage over the analysis attempt to the publication, whichever thread takes
each step. From their conjunction follow `ReportsAreEarned`,
`CancellationIsFinal`, `RetriesAreServed`, the two action properties, and
`Refinement`, which maps each action to a transition of `ResearchLifecycle` or a
stutter.

`DecisionsStayOpen` says when a decision is asked for, and needs to know *whose
turn it is* (`TurnInv`). It is stated for runs in which no lease was lost, nobody
crashed and no command was sent again (`faults = 0`), because a fault is what
gives two threads a turn; calls that fail and retries are in it:

- before the scope is confirmed nothing has been started (`Early`, `Unstarted`);
- while the run gathers, whoever is at work holds what it works for and nobody
  else does (`Holds`), and there is at most one turn: an acting lane's, the queued
  job's, one accepted decision's or the half-made retry's (`OneTurn`);
- the state of the run is where the one whose turn it is stands (`InStep`);
- the turn belongs to the latest decision, and a coverage that awaits a decision
  has none (`Decided`).

Each step takes the turn, hands it on, or keeps it (`TurnTaken`, `TurnLeft`,
`TurnGiven`, `TurnRetried`, `TurnStays`); `NotEarlyAgain` and `LateStays` show
that a run never comes back from gathering to its presearch, nor from composing
its report to gathering, which is why the invariant needs to say nothing after
that.

**The collection of a direction.** The inductive invariant says that the record
of a request decides what its next call may be. `Holder`: the worker whose token
the job has, even if its lease has run out, is alone with its claim - the record
of its request is exactly `running`, and the request was sent once if it waits
and not at all before; a worker without the token keeps nothing, since each of
its writes to these records is fenced. `SentIsClaimed`: what was sent was
claimed, and at most once. `PagesAreAnswered`: a page is on record only with the
answer of its operation, so that completing the operation of a resumed page
opens nothing. `ClosedIsFree`: a retry meets no lease. `PhaseStep` maps each
action to a step of `ProviderCalls` or a stutter.

**A session and its jobs.** `IdempotentRequests` rests on three facts: no two
rows have the same type and a client's key (`UniqueKeys`), an answer is a row of
the type and key that were asked for (`AnswerFits`), and rows never change either.
`ResultsAreStored` needs to know what the worker holds at each place (`Holding`):
the result of its job is stored from `recording` on, and a strategy before a
generation gets past `entering`. `SessionBudgetIsKept` is proved and not run: a
job that can be leased has an attempt left (`AttemptsLeft`), because everyone who
puts a job back in line has either never leased it or asked `Spent`; the job the
worker holds was leased with one left.

**A brand's topics.** The assumptions are that payloads are sequences that are
not empty, that policies are as `validate_policy_targets` lets them through, with
ratios and boosts that are not negative, that scores are natural numbers, and that
a number of slots is not rounded. A policy may name a type any number of times.
`IngestionInv` adds to
`ReceiptsAreBacked` that the run which wrote a note last is on record, and that a
completed run had no broken entry (`Written`): a note is only ever taken over by
a later run, so what a receipt stands for stays stored (`IngestGrows`,
`BackedStays`).
`DecisionsInv` says what stands behind each row of the feedback (`Supported`): a
batch exists only of a described brand, a publication names an event on record or
none, a snapshot of a decided publication has its feedback or its import was cut
short, and no score knows more imports than there were. Of each batch it says
that its topics are among the ranked ones, that no more is written than was
chosen, and that the quotas are kept (`Decided`). `RefusalsHaveACause`,
`DecisionsAreFresh` and `QuotasStayKept` follow.

What a batch keeps of its policy is a fact about the selection, whatever the
state, and is proved as one (`SelectionWorks`). `KeepsMaxima` is proved of every
policy that is `Valid`: there a type may exceed its maximum if it is named more
than once, and the bound is the guarantee of each entry. `KeepsMinima` is proved of
the policies that name no type twice (`NamesOnce`); with the first part it says that
all quotas are kept. In this order:

- a ranking has every candidate once (`RankedWorks`);
- `MinSlots` and `MaxSlots` are what the products say of whole slots
  (`SlotBounds`, from `Division`). Rounding may end at any set of numbers that has
  zero, one and the number of slots: it does not change the order
  (`RoundedWorks`), so a guarantee is never more than the slots;
- the kept slots fit, are all of the promised ones if those fit, and fill the
  batch otherwise; who gives up a slot has lost all that were to go before it
  (`KeptSlots`, from `LastOfOrder`: the elements of a finite set that at least `e`
  others precede in a total order are all but `e`). A policy whose promised slots do not fit has no allotment at
  all, since every allotment has at least the promised ones (`InfeasibleMeans`);
- a pass adds topics within its limits, and leaves out a topic only if the batch
  or its type is full (`FillWorks`, over the course of the loop, whose steps are
  `TakeNextWorks`);
- each entry adds at most the kept slots of its type (`RoundAdds`), which bounds a
  type by its guarantee for each time it is named (`TakenNext`);
- if no type is named twice, the first pass gives each entry its kept slots or all
  its candidates (`RoundWorks`, `TakeGuaranteedWorks`). The point is that a batch
  that gets full on the way has kept its word: it holds no more topics than slots
  were kept for the entries so far, and those are no more than the batch has;
- if no type is short of candidates, the first pass fills a batch whose slots had
  to be trimmed, the second adds nothing, and a type with a lower boost than one
  that lost a slot has none.

Induction over the rounds of a loop is done with sets: the rounds after which a
fact holds are a set, and its complement has no least element (`UpTo`, by
`NatLessThanWellFounded`).

Some results are proved of properties no run spends time on: the type
invariants of `JobWorker`, `ScopeExecution`, `DirectionalPipeline` and
`SessionJobs`, `FactsAndReceiptsAgree` and `RevisionsAreDense` of the writer,
`FailuresAreKept`, `CancelIsFinal` and `SessionBudgetIsKept`.

### Only model-checked

- **Liveness** (`EveryCallReturns`, `CloseReturns`, `EveryRunEnds`,
  `CancelMeetsExecution`, `PauseMeetsExecution`, `ContinuationsEnd`,
  `CollectionEnds`, `QueuedJobsRun`): liveness under fairness and `ENABLED` are
  beyond the prover used.

Every other property of a passing run is both checked on its small instance and
proved.

## What is not modelled

- **Child tasks, constraints, timings, execution records** of a workflow: they
  follow their step; the one child state that decides something is `authChild`.
- **Failures of the database itself** inside the worker: a store that raises
  (disk full, locked) ends the worker as any other exception does.
- **Of sessions**: events, the bookkeeping of the search index, `delete_session`
  and `cleanup` (nothing in `app/` calls them), several sessions at once.
- **The clock.** A lease has expired or not, a back-off has passed or not, as
  the schedule likes. `JOB_RECOVERY_ON_STARTUP` is on, as by default.
- **A second process or a second worker on the same file**: one process starts
  one job worker; the process lock belongs to `WriterOwnership`.
- **Other runs.** A worker busy with another run only delays this one.
- **Data of a research run**: briefs, scope contracts, query plans, ranking,
  admission, packets, evidence, conclusions, the text and audit of a report, the
  read models. `relax_coverage` takes the path of `expand_coverage`;
  publications are not repaired; a legacy continuation without a unit and
  `pause` of a research run are left out.
- **In the collection of a direction**: the comments stage, independent authors
  and their cap, direct core support and explicit focus in coverage, continuations
  (their attempts are in `ScopeExecution`), a resume that nobody but the claim of
  the job starts, several directions of one run, a crash within a retry.
- **Two dispatch jobs of one run** cannot be: the run is their key.
- **Of V2**: discovery (queries expanded, no state but its own), the review status
  of an item of a batch, master data other than policies and snapshots,
  concurrent requests on one brand, ratios and boosts that are negative (nothing
  refuses them), the numbers of scores, propensities and rewards.
- What runners, agents and providers compute, messages, events and logging.

## Plan

The most important behaviour first; what is done is marked.

1. `RuntimeWriter` with `MutationLedger`, proofs (done).
2. `JobStore`, `WorkflowRun` with `RunLifecycle`, proofs (done).
3. `JobWorker`: the composition, liveness, the documentation's claims, proofs
   (done).
4. `ScopeExecution`: leases, attempts, provider calls, liveness, proofs (done).
5. `ResearchRun` with `ResearchTransitions` and `ResearchLifecycle`: the run
   from presearch to report, refinement, proofs (done).
6. `DirectionalPipeline` with `ProviderCalls`: calls, recovery, retry, liveness,
   proofs (done); the comments stage and continuations in it.
7. `SessionJobs`: requests, lifecycle, jobs without a run, liveness, proofs
   (done).
8. Child tasks and `restart_step_and_retry_children` in `WorkflowRun`, and the
   composition of `ResearchRun` with its transactions.
9. `WriterOwnership`: registry, process lock, bootstrap handover. To prove:
   never two registered writers of one canonical path.
10. `SnapshotReader`: revision-consistent reads beside `RuntimeWriter`.
11. `TopicDecisions` with `Ingestion` and `TopicSelection`: receipts, quotas,
    fresh scores, refusals, proofs (done).
12. Repair of publications, the migration, discovery and
    reviews of `app/v2`.
