----------------------- MODULE RuntimeWriter_proofs ------------------------
(***************************************************************************)
(* Proofs of the safety properties of RuntimeWriter and of its refinement  *)
(* of MutationLedger, for every set of callers, closers, requests and      *)
(* every queue capacity.                                                   *)
(***************************************************************************)
EXTENDS RuntimeWriter, TLAPS

Holds(c) == Queued(c) \/ Owner(item) = c

\* Who holds what: a caller waits exactly while one item of its own is in the
\* queue or with the thread.
HoldingInv ==
    /\ \A c \in Callers : call[c].status = "waiting" <=> Holds(c)
    /\ \A i, j \in DOMAIN queue :
         Owner(queue[i]) = Owner(queue[j]) /\ Owner(queue[i]) # Nobody => i = j
    /\ \A i \in DOMAIN queue :
         Owner(queue[i]) # Nobody => Owner(queue[i]) # Owner(item)

\* Where the thread can be in each state of the coordinator.
ControlInv ==
    /\ item # NoItem <=> thread \in {"executing", "committed"}
    /\ (\E i \in DOMAIN queue : queue[i] = Stop) =>
         queue = <<Stop>> /\ state \in {"shutting_down", "unavailable", "closed"}
    /\ state \in {"new"} => thread = "none"
    /\ state = "starting" => thread = "opening"
    /\ state = "accepting" => thread \in {"waiting", "executing", "committed", "failing"}
    /\ state = "unavailable" => thread = "exited"
    /\ state = "closed" => thread \in {"none", "exited"}
    /\ thread = "none" => state \in {"new", "closed"}
    /\ thread \in {"none", "exited"} =>
         \A i \in DOMAIN queue : queue[i] = Stop
    /\ thread = "opening" => \A i \in DOMAIN queue : queue[i] = Stop

\* What a submission has already done to the file.
EffectInv ==
    /\ thread = "committed" => Prior(item.mut) # {}
    /\ \A c \in Callers :
         /\ call[c].status = "waiting" /\ call[c].applied =>
              thread = "committed" /\ item.caller = c
         /\ thread = "committed" /\ item.caller = c => call[c].applied
         /\ call[c].status \in Refusals \cup {"replayed", "idle"} => ~call[c].applied
         /\ call[c].status = "committed" => call[c].applied

LedgerInv ==
    /\ AppliedAtMostOnce
    /\ AnswersAreDurable
    /\ FactsHaveReceipts
    /\ RevisionsNumberCommits

----------------------------------------------------------------------------
\* Rejecting the queue leaves a well-formed record per caller.
LEMMA RejectQueuedType ==
    ASSUME NEW error \in Answers, call \in [Callers -> Call], RejectQueued(error)
    PROVE  call' \in [Callers -> Call]
BY DEF RejectQueued, Call

\* So does answering one caller.
LEMMA AnswerType ==
    ASSUME NEW c, NEW status \in Answers, NEW applied \in BOOLEAN,
           call \in [Callers -> Call], Answer(c, status, applied)
    PROVE  call' \in [Callers -> Call]
BY DEF Answer, Call

\* The thread has a work item to execute whenever it executes.
ItemHeld == thread \in {"executing", "committed"} => item \in Item

\* Types, with the thread's item, are inductive.
LEMMA TypeInvariant == Spec => [](TypeOK /\ ItemHeld)
<1> USE RequestsAssumption, KindsAssumption, CapacityAssumption, MarkersAssumption
    DEF TypeOK, disk
<1>1. Init => TypeOK /\ ItemHeld
  BY DEF Init, ItemHeld, States, Threads, Call, NoCall
<1>2. TypeOK /\ ItemHeld /\ [Next]_vars => TypeOK'
  <2> SUFFICES ASSUME TypeOK, ItemHeld, [Next]_vars PROVE TypeOK'
    OBVIOUS
  <2>1. ASSUME NEW c \in Callers, SubmitRefused(c) PROVE TypeOK'
    BY <2>1 DEF SubmitRefused, Call, Answers, Refusals
  <2>2. ASSUME NEW c \in Callers, Abandon(c) PROVE TypeOK'
    <3>1. ASSUME NEW S, NEW x \in Item \cup {S}
          PROVE Orphan(x, c) \in Item \cup {S}
      BY <3>1 DEF Orphan, Owner, Item
    <3>2. queue' \in Seq(Item \cup {Stop}) /\ Len(queue') = Len(queue)
      <4>1. queue' = [i \in 1 .. Len(queue) |-> Orphan(queue[i], c)]
        BY <2>2 DEF Abandon
      <4>2. \A i \in 1 .. Len(queue) : queue[i] \in Item \cup {Stop}
        OBVIOUS
      <4>3. \A i \in 1 .. Len(queue) : Orphan(queue[i], c) \in Item \cup {Stop}
        BY <3>1, <4>2
      <4>. QED BY <4>1, <4>3
    <3>3. item' \in Item \cup {NoItem}
      BY <2>2, <3>1 DEF Abandon
    <3>. QED BY <2>2, <3>2, <3>3 DEF Abandon, Call, NoCall
  <2>3. ASSUME NEW c \in Callers, NEW m \in Requests, Submit(c, m) PROVE TypeOK'
    BY <2>3 DEF Submit, Item, Call
  <2>4. CASE Start
    BY <2>4 DEF Start, States, Threads
  <2>5. ASSUME NEW k \in Closers, Close(k) PROVE TypeOK'
    <3>1. call' \in [Callers -> Call]
      BY <2>5, RejectQueuedType DEF Close, Answers, Refusals
    <3>2. queue' \in Seq(Item \cup {Stop}) /\ Len(queue') <= QueueCapacity
      <4>1. <<Stop>> \in Seq(Item \cup {Stop}) /\ Len(<<Stop>>) = 1
        OBVIOUS
      <4>2. CASE queue' = <<Stop>>
        BY <4>1, <4>2
      <4>3. CASE queue' = queue
        BY <4>3
      <4>. QED BY <2>5, <4>2, <4>3 DEF Close
    <3>3. closing' \in [Closers -> BOOLEAN]
      BY <2>5 DEF Close
    <3>4. state' \in States
      BY <2>5 DEF Close, States
    <3>. QED BY <2>5, <3>1, <3>2, <3>3, <3>4 DEF Close
  <2>6. ASSUME NEW k \in Closers, FinishClose(k) PROVE TypeOK'
    BY <2>6 DEF FinishClose, States
  <2>7. CASE Opened
    BY <2>7 DEF Opened, States, Threads
  <2>8. CASE MarkUnavailable
    <3>1. call' \in [Callers -> Call]
      BY <2>8, RejectQueuedType DEF MarkUnavailable, Answers
    <3>. QED BY <2>8, <3>1 DEF MarkUnavailable, States, Threads
  <2>9. CASE Take
    BY <2>9 DEF Take, Threads
  <2>10. CASE Replay
    BY <2>10, AnswerType DEF Replay, Prior, Threads, Answers, Refusals
  <2>11. CASE Conflict
    BY <2>11, AnswerType DEF Conflict, Threads, Answers, Refusals
  <2>12. CASE DomainReject
    BY <2>12, AnswerType DEF DomainReject, Threads, Answers, Refusals
  <2>13. CASE Commit
    <3>1. PICK m \in Requests : item.mut = m /\ m \in Mutation /\ item \in Item
      BY <2>13 DEF Commit, Item, ItemHeld
    <3>2. call' \in [Callers -> Call]
      BY <2>13 DEF Commit, Call
    <3>3. CASE m.kind \in DomainKinds
      BY <2>13, <3>1, <3>2, <3>3 DEF Commit, NewRevision, Threads, Receipt, Mutation
    <3>4. CASE m.kind = DiagnosticKind /\ m.run \in Runs
      <4>1. NewRevision(m) = revision[m.run] + 1 /\ NewRevision(m) \in Nat
        BY <3>4 DEF NewRevision
      <4>2. m.kind \notin TraceKinds
        BY <3>4
      <4>3. revision' \in [Runs -> Nat] /\ traceRevision' \in [Runs -> Nat]
        BY <2>13, <3>1, <3>4, <4>1, <4>2 DEF Commit
      <4>4. facts' \subseteq [id : Ids, run : Runs]
        BY <2>13, <3>1, <3>4 DEF Commit, Mutation
      <4>5. receipts' \subseteq Receipt
        BY <2>13, <3>1, <3>4, <4>1 DEF Commit, Receipt, Mutation
      <4>. QED BY <2>13, <3>2, <4>3, <4>4, <4>5 DEF Commit, Threads
    <3>5. CASE m.kind \in TraceKinds /\ m.run \in Runs
      BY <2>13, <3>1, <3>2, <3>5 DEF Commit, NewRevision, Threads, Receipt, Mutation
    <3>. QED BY <2>13, <3>1, <3>3, <3>4, <3>5 DEF Commit, Mutation
  <2>14. CASE Acknowledge
    BY <2>14, AnswerType DEF Acknowledge, Prior, Threads, Answers, Refusals
  <2>15. CASE Fail
    BY <2>15, AnswerType DEF Fail, Threads, Answers, Refusals
  <2>16. CASE Crash
    BY <2>16 DEF Crash, States, Threads, Call, NoCall
  <2>17. CASE UNCHANGED vars
    BY <2>17 DEF vars
  <2>18. QED
    BY <2>1, <2>2, <2>3, <2>4, <2>5, <2>6, <2>7, <2>8, <2>9, <2>10, <2>11,
       <2>12, <2>13, <2>14, <2>15, <2>16, <2>17 DEF Next, WriterThread
<1>3. TypeOK /\ ItemHeld /\ [Next]_vars => ItemHeld'
  <2> SUFFICES ASSUME TypeOK, ItemHeld, [Next]_vars PROVE ItemHeld'
    OBVIOUS
  <2>1. CASE Take
    BY <2>1 DEF Take, ItemHeld
  <2>2. ASSUME NEW c \in Callers, Abandon(c) PROVE ItemHeld'
    BY <2>2 DEF Abandon, Orphan, ItemHeld, Item
  <2>3. ASSUME item' = item /\ thread' = thread PROVE ItemHeld'
    BY <2>3 DEF ItemHeld
  <2>4. ASSUME thread' \notin {"executing", "committed"} PROVE ItemHeld'
    BY <2>4 DEF ItemHeld
  <2>5. CASE Commit
    BY <2>5 DEF Commit, ItemHeld
  <2>. QED
    BY <2>1, <2>2, <2>3, <2>4, <2>5
    DEF Next, WriterThread, SubmitRefused, Submit, Start, Close, FinishClose,
        Opened, MarkUnavailable, Replay, Conflict, DomainReject, Acknowledge,
        Fail, Crash, vars
<1>4. QED
  BY <1>1, <1>2, <1>3, PTL DEF Spec

\* Every variable keeps its type, whatever the callers, failures and crashes.
THEOREM TypeCorrect == Spec => []TypeOK
BY TypeInvariant, PTL

----------------------------------------------------------------------------
\* The coordinator's state, the thread and the stop marker agree.
LEMMA ControlInvariant == Spec => []ControlInv
<1> USE MarkersAssumption DEF ControlInv
<1>1. Init => ControlInv
  BY DEF Init
<1>2. TypeOK /\ ItemHeld /\ ControlInv /\ [Next]_vars => ControlInv'
  <2> SUFFICES ASSUME TypeOK, ItemHeld, ControlInv, [Next]_vars PROVE ControlInv'
    OBVIOUS
  <2> USE DEF TypeOK
  <2>1. ASSUME NEW c \in Callers, SubmitRefused(c) PROVE ControlInv'
    BY <2>1 DEF SubmitRefused
  <2>2. ASSUME NEW c \in Callers, Abandon(c) PROVE ControlInv'
    <3>1. item' # NoItem <=> item # NoItem
      BY <2>2 DEF Abandon, Orphan, Owner, Item
    <3>2. \A i \in DOMAIN queue : queue'[i] = Stop <=> queue[i] = Stop
      BY <2>2 DEF Abandon, Orphan, Owner, Item
    <3>3. DOMAIN queue' = DOMAIN queue
      BY <2>2 DEF Abandon
    <3>4. queue = <<Stop>> => queue' = <<Stop>>
      BY <2>2 DEF Abandon, Orphan, Owner, Item
    <3>. QED BY <2>2, <3>1, <3>2, <3>3, <3>4 DEF Abandon
  <2>3. ASSUME NEW c \in Callers, NEW m \in Requests, Submit(c, m) PROVE ControlInv'
    BY <2>3 DEF Submit, Item
  <2>4. CASE Start
    BY <2>4 DEF Start
  <2>5. ASSUME NEW k \in Closers, Close(k) PROVE ControlInv'
    BY <2>5 DEF Close
  <2>6. ASSUME NEW k \in Closers, FinishClose(k) PROVE ControlInv'
    BY <2>6 DEF FinishClose
  <2>7. CASE Opened
    BY <2>7 DEF Opened
  <2>8. CASE MarkUnavailable
    BY <2>8 DEF MarkUnavailable
  <2>9. CASE Take
    BY <2>9 DEF Take, Item
  <2>10. ASSUME /\ thread = "executing" \/ thread = "committed"
                /\ thread' \in {"waiting", "failing"}
                /\ item' = NoItem /\ UNCHANGED <<state, queue>>
         PROVE ControlInv'
    BY <2>10
  <2>11. CASE Commit
    BY <2>11 DEF Commit
  <2>12. CASE Crash
    BY <2>12 DEF Crash
  <2>13. CASE UNCHANGED vars
    BY <2>13 DEF vars
  <2>14. QED
    BY <2>1, <2>2, <2>3, <2>4, <2>5, <2>6, <2>7, <2>8, <2>9, <2>10, <2>11,
       <2>12, <2>13
    DEF Next, WriterThread, Replay, Conflict, DomainReject, Acknowledge, Fail
<1>3. QED
  BY <1>1, <1>2, TypeInvariant, PTL DEF Spec
----------------------------------------------------------------------------
\* Answering the caller of the current item moves that caller's status only.
LEMMA AnswerStatus ==
    ASSUME NEW c \in Callers \cup {Nobody}, NEW status,
           call \in [Callers -> Call], Answer(c, status, FALSE)
    PROVE  \A d \in Callers :
              /\ call'[d].status = IF d = c THEN status ELSE call[d].status
              /\ call'[d].applied = call[d].applied
BY MarkersAssumption DEF Answer, Call

\* A caller waits exactly while one item of its own is held.
LEMMA HoldingInvariant == Spec => []HoldingInv
<1> USE MarkersAssumption
<1>1. Owner(Stop) = Nobody /\ Owner(NoItem) = Nobody
      /\ \A x \in Item : Owner(x) = x.caller
  BY DEF Owner, Item
<1>2. \A x, c : Owner(Orphan(x, c)) = IF Owner(x) = c THEN Nobody ELSE Owner(x)
  <2> SUFFICES ASSUME NEW x, NEW c, Owner(x) = c, c # Nobody
               PROVE  Owner([caller |-> Nobody, mut |-> x.mut]) = Nobody
    BY DEF Orphan, Owner
  <2>. QED BY DEF Owner, Item
<1>3. Init => HoldingInv
  BY <1>1 DEF Init, HoldingInv, Holds, Queued, NoCall
<1>4. TypeOK /\ ItemHeld /\ ControlInv /\ HoldingInv /\ [Next]_vars => HoldingInv'
  <2> SUFFICES ASSUME TypeOK, ItemHeld, ControlInv, HoldingInv, [Next]_vars
               PROVE  HoldingInv'
    OBVIOUS
  <2> USE DEF TypeOK
  <2>1. ASSUME NEW c \in Callers, SubmitRefused(c) PROVE HoldingInv'
    <3>1. \A d \in Callers : call'[d].status = "waiting" <=> call[d].status = "waiting"
      BY <2>1 DEF SubmitRefused
    <3>. QED BY <2>1, <3>1 DEF SubmitRefused, HoldingInv, Holds, Queued
  <2>2. ASSUME NEW c \in Callers, Abandon(c) PROVE HoldingInv'
    <3>1. /\ DOMAIN queue' = DOMAIN queue
          /\ \A i \in DOMAIN queue : queue'[i] = Orphan(queue[i], c)
          /\ item' = Orphan(item, c)
      BY <2>2 DEF Abandon
    <3>2. \A i \in DOMAIN queue : Owner(queue'[i]) =
              IF Owner(queue[i]) = c THEN Nobody ELSE Owner(queue[i])
      BY <3>1, <1>2
    <3>3. Owner(item') = IF Owner(item) = c THEN Nobody ELSE Owner(item)
      BY <3>1, <1>2
    <3>4. \A d \in Callers : call'[d].status = "waiting" <=>
                               call[d].status = "waiting" /\ d # c
      BY <2>2 DEF Abandon, NoCall
    <3>. QED BY <3>1, <3>2, <3>3, <3>4 DEF HoldingInv, Holds, Queued
  <2>3. ASSUME NEW c \in Callers, NEW m \in Requests, Submit(c, m) PROVE HoldingInv'
    <3> DEFINE x == [caller |-> c, mut |-> m]
    <3>1. queue' = Append(queue, x) /\ item' = item
      BY <2>3 DEF Submit
    <3>2. Owner(x) = c
      BY <1>1 DEF Item
    <3>3. DOMAIN queue' = DOMAIN queue \cup {Len(queue) + 1}
          /\ Len(queue) + 1 \notin DOMAIN queue
          /\ queue'[Len(queue) + 1] = x
          /\ \A i \in DOMAIN queue : queue'[i] = queue[i]
      BY <3>1
    <3>4. \A d \in Callers : call'[d].status = "waiting" <=>
                               call[d].status = "waiting" \/ d = c
      BY <2>3 DEF Submit
    <3>5. ~Holds(c)
      BY <2>3 DEF Submit, HoldingInv
    <3> HIDE DEF x
    <3>. QED BY <3>1, <3>2, <3>3, <3>4, <3>5 DEF HoldingInv, Queued, Holds
  <2>4. CASE Start
    BY <2>4 DEF Start, HoldingInv, Holds, Queued
  <2>5. ASSUME queue' = << >> \/ queue' = <<Stop>>, item' = item,
               NEW error \in Answers, RejectQueued(error)
        PROVE  HoldingInv'
    <3>1. \A d \in Callers : call'[d].status = "waiting" <=>
                               call[d].status = "waiting" /\ ~Queued(d)
      BY <2>5 DEF RejectQueued, Call, Answers, Refusals
    <3>2. \A i \in DOMAIN queue' : Owner(queue'[i]) = Nobody
      BY <2>5, <1>1
    <3>3. \A d \in Callers : Queued(d) => Owner(item) # d
      BY DEF HoldingInv, Queued
    <3>4. \A d \in Callers : ~Queued(d)'
      BY <3>2 DEF Queued
    <3>5. \A d \in Callers : Holds(d)' <=> Owner(item) = d
      BY <3>4, <2>5 DEF Holds
    <3>6. \A d \in Callers : call'[d].status = "waiting" <=> Owner(item) = d
      BY <3>1, <3>3 DEF HoldingInv, Holds
    <3>. QED BY <2>5, <3>2, <3>5, <3>6 DEF HoldingInv
  <2>6. ASSUME NEW k \in Closers, Close(k) PROVE HoldingInv'
    <3>1. CASE UNCHANGED <<queue, call, item>>
      BY <3>1 DEF HoldingInv, Holds, Queued
    <3>. QED BY <2>5, <2>6, <3>1 DEF Close, Answers, Refusals
  <2>7. CASE Take
    <3>1. CASE Head(queue) = Stop
      <4>1. queue = <<Stop>> /\ queue' = << >> /\ UNCHANGED <<call, item>>
        BY <2>7, <3>1 DEF Take, ControlInv
      <4>. QED BY <4>1, <1>1 DEF HoldingInv, Holds, Queued
    <3>2. CASE Head(queue) # Stop
      <4>1. /\ item = NoItem /\ item' = queue[1] /\ call' = call
            /\ queue # << >> /\ queue' = Tail(queue)
        BY <2>7, <3>2 DEF Take, ControlInv
      <4>2. /\ \A i \in DOMAIN queue' : i + 1 \in DOMAIN queue /\ i + 1 # 1
                                        /\ queue'[i] = queue[i + 1]
            /\ \A i \in DOMAIN queue : i = 1 \/ (i - 1 \in DOMAIN queue'
                                            /\ queue[i] = queue'[i - 1])
            /\ \A i, j \in DOMAIN queue' : i + 1 = j + 1 => i = j
            /\ 1 \in DOMAIN queue
        BY <4>1
      <4>3. \A d \in Callers : Holds(d)' <=> Holds(d)
        BY <4>1, <4>2, <1>1 DEF Holds, Queued
      <4>4. \A i \in DOMAIN queue' :
              Owner(queue'[i]) # Nobody => Owner(queue'[i]) # Owner(item')
        BY <4>1, <4>2 DEF HoldingInv
      <4>5. \A i, j \in DOMAIN queue' :
              Owner(queue'[i]) = Owner(queue'[j]) /\ Owner(queue'[i]) # Nobody
              => i = j
        BY <4>2 DEF HoldingInv
      <4>. QED BY <4>1, <4>3, <4>4, <4>5 DEF HoldingInv
    <3>. QED BY <3>1, <3>2
  <2>8. ASSUME NEW status \in Answers, thread \in {"executing", "committed"},
               Answer(item.caller, status, FALSE), item' = NoItem, queue' = queue
        PROVE HoldingInv'
    <3>1. item \in Item /\ Owner(item) = item.caller
          /\ item.caller \in Callers \cup {Nobody}
      BY <2>8, <1>1 DEF ItemHeld, Item
    <3>2. status # "waiting"
      BY DEF Answers, Refusals
    <3>3. \A d \in Callers : call'[d].status = "waiting" <=>
                               call[d].status = "waiting" /\ d # item.caller
      <4>1. \A d \in Callers : call'[d].status =
                 IF d = item.caller THEN status ELSE call[d].status
        BY <2>8, <3>1, AnswerStatus
      <4>. QED BY <3>2, <4>1
    <3>4. \A d \in Callers : Queued(d)' <=> Queued(d)
      BY <2>8 DEF Queued
    <3>5. \A d \in Callers : Queued(d) => d # item.caller
      BY <3>1 DEF HoldingInv, Queued
    <3>6. \A d \in Callers : Holds(d)' <=> Holds(d) /\ d # item.caller
      BY <2>8, <3>1, <3>4, <3>5, <1>1 DEF Holds
    <3>. QED BY <2>8, <3>3, <3>6, <1>1 DEF HoldingInv
  <2>9. CASE Commit
    <3>1. \A d \in Callers : call'[d].status = call[d].status
      BY <2>9 DEF Commit, Call
    <3>. QED BY <2>9, <3>1 DEF Commit, HoldingInv, Holds, Queued
  <2>10. CASE Crash
    BY <2>10, <1>1 DEF Crash, HoldingInv, Holds, Queued, NoCall
  <2>11. ASSUME UNCHANGED <<queue, item, call>> PROVE HoldingInv'
    BY <2>11 DEF HoldingInv, Holds, Queued
  <2>12. CASE MarkUnavailable
    BY <2>5, <2>12 DEF MarkUnavailable, Answers
  <2>. QED
    BY <2>1, <2>2, <2>3, <2>4, <2>6, <2>7, <2>8, <2>9, <2>10, <2>11, <2>12
    DEF Next, WriterThread, FinishClose, Opened, Replay, Conflict, DomainReject,
        Acknowledge, Fail, vars, Answers, Refusals
<1>5. QED
  BY <1>3, <1>4, TypeInvariant, ControlInvariant, PTL DEF Spec

\* Nobody is left waiting without a thread that holds its item: not by close(),
\* not by a failing writer, not when the two meet.
THEOREM NobodyStranded == Spec => []WaitingIsHeld
<1>1. HoldingInv /\ ControlInv => WaitingIsHeld
  <2> SUFFICES ASSUME HoldingInv, ControlInv, NEW c \in Callers,
                      call[c].status = "waiting"
               PROVE  /\ Queued(c) \/ Owner(item) = c
                      /\ thread \notin {"none", "exited"}
    BY DEF WaitingIsHeld
  <2>1. Queued(c) \/ Owner(item) = c
    BY DEF HoldingInv, Holds
  <2>2. Owner(Stop) # c /\ Owner(NoItem) # c
    BY MarkersAssumption DEF Owner, Item
  <2>3. CASE thread \in {"none", "exited"}
    <3>1. item = NoItem /\ \A i \in DOMAIN queue : queue[i] = Stop
      BY <2>3 DEF ControlInv
    <3>. QED BY <2>1, <2>2, <3>1 DEF Queued
  <2>. QED BY <2>1, <2>3
<1>. QED BY <1>1, HoldingInvariant, ControlInvariant, PTL

----------------------------------------------------------------------------
\* A submission has an effect only between its commit and its answer, and only
\* the ambiguous answer can hide one.
LEMMA EffectInvariant == Spec => []EffectInv
<1> USE MarkersAssumption
<1>1. Init => EffectInv
  BY DEF Init, EffectInv, NoCall, Refusals
<1>2. ASSUME TypeOK, ItemHeld, ControlInv, HoldingInv, EffectInv, [Next]_vars
      PROVE  EffectInv'
  <2> USE <1>2 DEF TypeOK
  <2>1. ASSUME NEW c \in Callers, SubmitRefused(c) PROVE EffectInv'
    <3>1. \A d \in Callers : d # c => call'[d] = call[d]
      BY <2>1 DEF SubmitRefused
    <3>2. call'[c].status # "waiting" /\ call'[c].status # "committed"
          /\ ~call'[c].applied
      BY <2>1 DEF SubmitRefused
    <3>3. ~(thread = "committed" /\ item.caller = c)
      <4>1. Owner(item) # c
        BY <2>1 DEF SubmitRefused, HoldingInv, Holds
      <4>. QED BY <4>1 DEF ItemHeld, Owner
    <3>4. UNCHANGED <<receipts, thread, item>>
      BY <2>1 DEF SubmitRefused, disk
    <3>. QED BY <3>1, <3>2, <3>3, <3>4 DEF EffectInv, Prior
  <2>2. ASSUME NEW c \in Callers, Abandon(c) PROVE EffectInv'
    <3>1. UNCHANGED <<receipts, thread>> /\ item' = Orphan(item, c)
          /\ call' = [call EXCEPT ![c] = NoCall]
      BY <2>2 DEF Abandon, disk
    <3>2. ASSUME thread = "committed"
          PROVE  /\ item'.mut = item.mut
                 /\ item'.caller = IF item.caller = c THEN Nobody ELSE item.caller
      BY <3>1, <3>2 DEF Orphan, Owner, ItemHeld, Item
    <3>3. thread' = "committed" => Prior(item.mut)' # {}
      BY <3>1, <3>2 DEF EffectInv, Prior
    <3>. QED BY <3>1, <3>2, <3>3 DEF EffectInv, NoCall
  <2>3. ASSUME NEW c \in Callers, NEW m \in Requests, Submit(c, m) PROVE EffectInv'
    <3>1. ~(thread = "committed" /\ item.caller = c)
      <4>1. Owner(item) # c
        BY <2>3 DEF Submit, HoldingInv, Holds
      <4>. QED BY <4>1 DEF ItemHeld, Owner
    <3>2. \A d \in Callers : d # c => call'[d] = call[d]
      BY <2>3 DEF Submit
    <3>3. call'[c].status = "waiting" /\ call'[c].applied = FALSE
      BY <2>3 DEF Submit
    <3>4. UNCHANGED <<receipts, thread, item>>
      BY <2>3 DEF Submit, disk
    <3>. QED BY <3>1, <3>2, <3>3, <3>4 DEF EffectInv, Prior, Refusals
  <2>4. ASSUME UNCHANGED <<receipts, item, thread>>, NEW error \in Answers,
               error # "committed", RejectQueued(error)
        PROVE  EffectInv'
    <3>1. \A d \in Callers : Queued(d) => ~(thread = "committed" /\ item.caller = d)
      BY DEF HoldingInv, Queued, ItemHeld, Owner
    <3>2. \A d \in Callers : Queued(d) =>
             ~call[d].applied /\ call'[d].applied = call[d].applied
             /\ call'[d].status = error
      BY <2>4, <3>1 DEF RejectQueued, EffectInv, HoldingInv, Holds, Call
    <3>3. \A d \in Callers : ~Queued(d) => call'[d] = call[d]
      BY <2>4 DEF RejectQueued
    <3>4. error # "waiting"
      BY DEF Answers, Refusals
    <3>. QED BY <2>4, <3>1, <3>2, <3>3, <3>4 DEF EffectInv, Prior
  <2>5. ASSUME NEW k \in Closers, Close(k) PROVE EffectInv'
    <3>1. CASE UNCHANGED <<receipts, item, thread, call>>
      BY <3>1 DEF EffectInv, Prior
    <3>. QED BY <2>4, <2>5, <3>1 DEF Close, disk, Answers, Refusals
  <2>6. CASE MarkUnavailable
    <3>1. thread' # "committed" /\ thread # "committed"
      BY <2>6 DEF MarkUnavailable
    <3>2. \A d \in Callers : Queued(d) =>
             call'[d].applied = call[d].applied /\ call'[d].status = "unavailable"
      BY <2>6 DEF MarkUnavailable, RejectQueued, Call
    <3>3. \A d \in Callers : ~Queued(d) => call'[d] = call[d]
      BY <2>6 DEF MarkUnavailable, RejectQueued
    <3>. QED BY <3>1, <3>2, <3>3 DEF EffectInv, Refusals
  <2>7. ASSUME thread # "committed", thread' # "committed", call' = call
        PROVE  EffectInv'
    BY <2>7 DEF EffectInv
  <2>8. ASSUME NEW status \in Answers,
               thread \in {"executing", "committed"}, thread' \in {"waiting", "failing"},
               Answer(item.caller, status, FALSE),
               status = "committed" => thread = "committed",
               status \in Refusals \cup {"replayed"} => thread = "executing"
        PROVE  EffectInv'
    <3>1. item \in Item /\ item.caller \in Callers \cup {Nobody} /\ Owner(item) = item.caller
      BY <2>8 DEF ItemHeld, Item, Owner
    <3>2. \A d \in Callers :
             /\ call'[d].status = IF d = item.caller THEN status ELSE call[d].status
             /\ call'[d].applied = call[d].applied
      BY <2>8, <3>1, AnswerStatus
    <3>3. ASSUME NEW d \in Callers, d = item.caller
          PROVE  /\ call[d].status = "waiting"
                 /\ call[d].applied <=> thread = "committed"
      BY <2>8, <3>1, <3>3 DEF EffectInv, HoldingInv, Holds
    <3>4. status \notin {"waiting", "idle"}
      BY DEF Answers, Refusals
    <3>5. ASSUME NEW d \in Callers
          PROVE  /\ ~(call'[d].status = "waiting" /\ call'[d].applied)
                 /\ call'[d].status \in Refusals \cup {"replayed", "idle"} => ~call'[d].applied
                 /\ call'[d].status = "committed" => call'[d].applied
      <4>1. CASE d = item.caller
        BY <2>8, <3>2, <3>3, <3>4, <4>1
      <4>2. CASE d # item.caller
        BY <3>2, <4>2 DEF EffectInv
      <4>. QED BY <4>1, <4>2
    <3>. QED BY <2>8, <3>5 DEF EffectInv
  <2>9. CASE Commit
    <3>1. item \in Item /\ Owner(item) = item.caller
      BY <2>9 DEF Commit, ItemHeld, Owner
    <3>2. Prior(item.mut)' # {}
      <4>1. PICK r : r = [kind |-> item.mut.kind, id |-> item.mut.id,
                          run |-> item.mut.run, fp |-> item.mut.fp,
                          rev |-> NewRevision(item.mut)]
        OBVIOUS
      <4>2. r \in receipts' /\ item' = item
        BY <2>9, <4>1 DEF Commit
      <4>3. r.kind = item.mut.kind /\ r.id = item.mut.id
        BY <4>1
      <4>. QED BY <4>2, <4>3 DEF Prior
    <3>3. \A d \in Callers :
             /\ call'[d].status = call[d].status
             /\ d # item.caller => call'[d].applied = call[d].applied
             /\ d = item.caller => call'[d].applied /\ call[d].status = "waiting"
      <4>1. CASE item.caller = Nobody
        BY <2>9, <4>1 DEF Commit
      <4>2. CASE item.caller # Nobody
        <5>1. call' = [call EXCEPT ![item.caller].applied = TRUE]
              /\ item.caller \in Callers
          BY <2>9, <3>1, <4>2 DEF Commit, Item
        <5>2. call[item.caller].status = "waiting"
          BY <3>1, <5>1 DEF HoldingInv, Holds
        <5>. QED BY <5>1, <5>2 DEF Call
      <4>. QED BY <4>1, <4>2
    <3>. QED BY <2>9, <3>1, <3>2, <3>3 DEF Commit, EffectInv, Refusals
  <2>10. CASE Crash
    BY <2>10 DEF Crash, EffectInv, NoCall, Refusals
  <2>11. ASSUME UNCHANGED <<receipts, item, thread, call>> PROVE EffectInv'
    BY <2>11 DEF EffectInv, Prior
  <2>12. CASE Start \/ Opened \/ Take
    <3>1. thread # "committed" /\ thread' # "committed" /\ call' = call
      BY <2>12 DEF Start, Opened, Take, ControlInv
    <3>. QED BY <2>7, <3>1
  <2>13. CASE Replay
    BY <2>8, <2>13 DEF Replay, Answers, Refusals
  <2>14. CASE Conflict
    BY <2>8, <2>14 DEF Conflict, Answers, Refusals
  <2>15. CASE DomainReject
    BY <2>8, <2>15 DEF DomainReject, Answers, Refusals
  <2>16. CASE Acknowledge
    BY <2>8, <2>16 DEF Acknowledge, Answers, Refusals
  <2>17. CASE Fail
    BY <2>8, <2>17 DEF Fail, Answers, Refusals
  <2>18. ASSUME NEW k \in Closers, FinishClose(k) PROVE EffectInv'
    BY <2>11, <2>18 DEF FinishClose, disk
  <2>19. CASE UNCHANGED vars
    BY <2>11, <2>19 DEF vars
  <2>. QED
    BY <2>1, <2>2, <2>3, <2>5, <2>6, <2>9, <2>10, <2>12, <2>13, <2>14, <2>15,
       <2>16, <2>17, <2>18, <2>19 DEF Next, WriterThread
<1>3. QED
  BY <1>1, <1>2, TypeInvariant, ControlInvariant, HoldingInvariant, PTL DEF Spec

\* A refused submission changed nothing, an acknowledged one did.
THEOREM RefusalsAreFinal == Spec => []RefusedWithoutEffect
<1>1. EffectInv => RefusedWithoutEffect
  BY DEF EffectInv, RefusedWithoutEffect
<1>. QED BY <1>1, EffectInvariant, PTL

----------------------------------------------------------------------------
\* The file: one receipt per identity, facts and revisions that match the
\* receipts, and answers that stay true across crashes.
LEMMA LedgerInvariant == Spec => []LedgerInv
<1> USE KindsAssumption DEF LedgerInv
<1>1. Init => LedgerInv
  BY DEF Init, AppliedAtMostOnce, AnswersAreDurable, FactsHaveReceipts,
         RevisionsNumberCommits, Numbered, DiagnosticSeries, TraceSeries
<1>2. ASSUME TypeOK, ItemHeld, LedgerInv, [Next]_vars
      PROVE  LedgerInv'
  <2> USE <1>2 DEF TypeOK
  <2>1. ASSUME UNCHANGED disk, acked' \subseteq acked \cup receipts
        PROVE  LedgerInv'
    BY <2>1 DEF disk, AppliedAtMostOnce, AnswersAreDurable, FactsHaveReceipts,
         RevisionsNumberCommits, Numbered, DiagnosticSeries, TraceSeries
  <2>2. CASE Commit
    <3>1. PICK m \in Requests : item.mut = m /\ m \in Mutation
      BY <2>2, RequestsAssumption DEF Commit, ItemHeld, Item
    <3>2. PICK e : e = [kind |-> m.kind, id |-> m.id, run |-> m.run,
                        fp |-> m.fp, rev |-> NewRevision(m)]
      OBVIOUS
    <3>3. /\ receipts' = receipts \cup {e} /\ acked' = acked
          /\ \A r \in receipts : ~(r.kind = m.kind /\ r.id = m.id)
      BY <2>2, <3>1, <3>2 DEF Commit, Prior
    <3>4. e.kind = m.kind /\ e.id = m.id /\ e.run = m.run /\ e.rev = NewRevision(m)
      BY <3>2
    <3>5. AppliedAtMostOnce' /\ AnswersAreDurable'
      BY <3>3, <3>4 DEF AppliedAtMostOnce, AnswersAreDurable
    <3>6. FactsHaveReceipts'
      <4>1. CASE m.kind = DiagnosticKind
        <5>1. facts' = facts \cup {[id |-> e.id, run |-> e.run]}
          BY <2>2, <3>1, <3>4, <4>1 DEF Commit
        <5>. QED BY <3>3, <3>4, <4>1, <5>1 DEF FactsHaveReceipts
      <4>2. CASE m.kind # DiagnosticKind
        BY <2>2, <3>1, <3>3, <3>4, <4>2 DEF Commit, FactsHaveReceipts
      <4>. QED BY <4>1, <4>2
    <3>7. ASSUME NEW S, NEW n \in Nat, Numbered(S, n), NEW r, r.rev = n + 1
          PROVE  Numbered(S \cup {r}, n + 1)
      <4>1. {s.rev : s \in S \cup {r}} = {s.rev : s \in S} \cup {n + 1}
        BY <3>7
      <4>2. \A s \in S : s.rev \in 1 .. n
        BY <3>7 DEF Numbered
      <4>3. (1 .. n) \cup {n + 1} = 1 .. n + 1
        OBVIOUS
      <4>. QED BY <3>7, <4>1, <4>2, <4>3 DEF Numbered
    <3>8. ASSUME NEW run \in Runs
          PROVE  Numbered(DiagnosticSeries(run)', revision'[run])
      <4>1. CASE m.kind = DiagnosticKind /\ m.run = run
        <5>1. DiagnosticSeries(run)' = DiagnosticSeries(run) \cup {e}
          BY <3>3, <3>4, <4>1 DEF DiagnosticSeries
        <5>2. revision'[run] = revision[run] + 1 /\ e.rev = revision[run] + 1
          BY <2>2, <3>1, <3>4, <4>1 DEF Commit, NewRevision
        <5>3. Numbered(DiagnosticSeries(run), revision[run]) /\ revision[run] \in Nat
          BY DEF RevisionsNumberCommits
        <5>. QED BY <3>7, <5>1, <5>2, <5>3
      <4>2. CASE ~(m.kind = DiagnosticKind /\ m.run = run)
        <5>1. DiagnosticSeries(run)' = DiagnosticSeries(run)
          BY <3>3, <3>4, <4>2 DEF DiagnosticSeries
        <5>2. revision'[run] = revision[run]
          BY <2>2, <3>1, <4>2 DEF Commit
        <5>. QED BY <5>1, <5>2 DEF RevisionsNumberCommits
      <4>. QED BY <4>1, <4>2
    <3>9. ASSUME NEW run \in Runs
          PROVE  Numbered(TraceSeries(run)', traceRevision'[run])
      <4>1. CASE m.kind \in TraceKinds /\ m.run = run
        <5>1. TraceSeries(run)' = TraceSeries(run) \cup {e}
          BY <3>3, <3>4, <4>1 DEF TraceSeries
        <5>2. traceRevision'[run] = traceRevision[run] + 1
              /\ e.rev = traceRevision[run] + 1
          BY <2>2, <3>1, <3>4, <4>1 DEF Commit, NewRevision
        <5>3. Numbered(TraceSeries(run), traceRevision[run])
              /\ traceRevision[run] \in Nat
          BY DEF RevisionsNumberCommits
        <5>. QED BY <3>7, <5>1, <5>2, <5>3
      <4>2. CASE ~(m.kind \in TraceKinds /\ m.run = run)
        <5>1. TraceSeries(run)' = TraceSeries(run)
          BY <3>3, <3>4, <4>2 DEF TraceSeries
        <5>2. traceRevision'[run] = traceRevision[run]
          BY <2>2, <3>1, <4>2 DEF Commit
        <5>. QED BY <5>1, <5>2 DEF RevisionsNumberCommits
      <4>. QED BY <4>1, <4>2
    <3>10. RevisionsNumberCommits'
      BY <3>8, <3>9 DEF RevisionsNumberCommits, Numbered
    <3>. QED BY <3>5, <3>6, <3>10
  <2>3. CASE Replay \/ Acknowledge
    BY <2>1, <2>3 DEF Replay, Acknowledge, Prior
  <2>. QED
    BY <2>1, <2>2, <2>3
    DEF Next, WriterThread, SubmitRefused, Submit, Abandon, Start, Close,
        FinishClose, Opened, MarkUnavailable, Take, Conflict, DomainReject, Fail,
        Crash, vars, disk
<1>3. QED
  BY <1>1, <1>2, TypeInvariant, PTL DEF Spec

\* A mutation is applied at most once, however often it is submitted.
THEOREM ExactlyOnce == Spec => []AppliedAtMostOnce
BY LedgerInvariant, PTL DEF LedgerInv

\* No answer is ever taken back, not even by a crash.
THEOREM DurableAnswers == Spec => []AnswersAreDurable
BY LedgerInvariant, PTL DEF LedgerInv

\* Facts and receipts commit together.
THEOREM FactsAndReceiptsAgree == Spec => []FactsHaveReceipts
BY LedgerInvariant, PTL DEF LedgerInv

\* The committed revisions of a run count its commits.
THEOREM RevisionsAreDense == Spec => []RevisionsNumberCommits
BY LedgerInvariant, PTL DEF LedgerInv

----------------------------------------------------------------------------
\* Every step of the writer is a step of the ledger or leaves it unchanged:
\* a commit records an entry, an acknowledgement or a replay shows one.
THEOREM ImplementsLedger == Spec => LedgerSpec
<1> USE KindsAssumption
<1>1. Init => Ledger!Init
  BY DEF Init, Ledger!Init
<1>2. ASSUME TypeOK, TypeOK', ItemHeld, LedgerInv, EffectInv, [Next]_vars
      PROVE  [Ledger!Next]_<<receipts, acked>>
  <2> USE <1>2 DEF TypeOK
  <2>1. ASSUME UNCHANGED <<receipts, acked>>
        PROVE  [Ledger!Next]_<<receipts, acked>>
    BY <2>1
  <2>2. ASSUME NEW e \in receipts, acked' = acked \cup {e}, receipts' = receipts
        PROVE  Ledger!Next
    BY <2>2 DEF Ledger!Next, Ledger!Show
  <2>3. CASE Replay
    <3>1. PICK r \in Prior(item.mut) :
            acked' = IF item.caller = Nobody THEN acked ELSE acked \cup {r}
      BY <2>3 DEF Replay
    <3>2. r \in receipts /\ receipts' = receipts
      BY <2>3 DEF Replay, Prior, disk
    <3>. QED BY <2>1, <2>2, <3>1, <3>2
  <2>4. CASE Acknowledge
    <3>1. PICK r : r \in Prior(item.mut)
      BY <2>4 DEF Acknowledge, EffectInv
    <3>2. Prior(item.mut) = {r} /\ r \in receipts
      BY <3>1 DEF Prior, LedgerInv, AppliedAtMostOnce
    <3>3. receipts' = receipts
          /\ acked' = IF item.caller = Nobody THEN acked ELSE acked \cup {r}
      BY <2>4, <3>2 DEF Acknowledge, disk
    <3>. QED BY <2>1, <2>2, <3>2, <3>3
  <2>5. CASE Commit
    <3>1. PICK m \in Requests : item.mut = m /\ m \in Mutation
      BY <2>5, RequestsAssumption DEF Commit, ItemHeld, Item
    <3>2. PICK e : e = [kind |-> m.kind, id |-> m.id, run |-> m.run,
                        fp |-> m.fp, rev |-> NewRevision(m)]
      OBVIOUS
    <3>3. /\ receipts' = receipts \cup {e} /\ acked' = acked
          /\ \A r \in receipts : ~(r.kind = m.kind /\ r.id = m.id)
      BY <2>5, <3>1, <3>2 DEF Commit, Prior
    <3>4. e.kind = m.kind /\ e.id = m.id /\ e.run = m.run /\ e.rev = NewRevision(m)
      BY <3>2
    <3>5. e \in receipts' /\ e \in Ledger!Entry
      BY <3>3 DEF Ledger!Entry, Receipt
    <3>6. ASSUME NEW S, NEW n \in Nat, Numbered(S, n)
          PROVE  /\ \A d \in S : d.rev < n + 1
                 /\ n + 1 = 1 \/ \E d \in S : d.rev + 1 = n + 1
      <4>1. \A d \in S : d.rev \in 1 .. n
        BY <3>6 DEF Numbered
      <4>2. n = 0 \/ n \in {d.rev : d \in S}
        <5>1. n # 0 => n \in 1 .. n
          OBVIOUS
        <5>. QED BY <3>6, <5>1 DEF Numbered
      <4>. QED BY <4>1, <4>2
    <3>7. CASE m.kind = DiagnosticKind
      <4>1. m.run \in Runs /\ m.kind \notin DomainKinds
        BY <2>5, <3>1, <3>7 DEF Commit, Mutation
      <4>2. Ledger!Series(e) = DiagnosticSeries(m.run)
        BY <3>4, <3>7 DEF Ledger!Series, DiagnosticSeries
      <4>3. Numbered(Ledger!Series(e), revision[m.run]) /\ revision[m.run] \in Nat
        BY <4>1, <4>2 DEF LedgerInv, RevisionsNumberCommits
      <4>4. e.rev = revision[m.run] + 1
        BY <3>4, <3>7 DEF NewRevision
      <4>5. Ledger!Record(e)
        BY <3>3, <3>4, <3>6, <3>7, <4>1, <4>3, <4>4 DEF Ledger!Record
      <4>. QED BY <3>5, <4>5 DEF Ledger!Next
    <3>8. CASE m.kind \in TraceKinds
      <4>1. m.run \in Runs /\ m.kind # DiagnosticKind /\ m.kind \notin DomainKinds
        BY <2>5, <3>1, <3>8 DEF Commit, Mutation
      <4>2. Ledger!Series(e) = TraceSeries(m.run)
        BY <3>4, <4>1 DEF Ledger!Series, TraceSeries
      <4> DEFINE n == traceRevision[m.run]
      <4>3. Numbered(TraceSeries(m.run), n) /\ n \in Nat
        BY <4>1 DEF LedgerInv, RevisionsNumberCommits
      <4>4. e.rev = n + 1
        BY <3>4, <3>8, <4>1 DEF NewRevision
      <4>5. /\ \A d \in Ledger!Series(e) : d.rev < e.rev
            /\ e.rev = 1 \/ \E d \in Ledger!Series(e) : d.rev + 1 = e.rev
        <5> HIDE DEF n
        <5>1. /\ \A d \in TraceSeries(m.run) : d.rev < n + 1
              /\ n + 1 = 1 \/ \E d \in TraceSeries(m.run) : d.rev + 1 = n + 1
          BY <3>6, <4>3
        <5>. QED BY <4>2, <4>4, <5>1
      <4>6. e.kind \in {DiagnosticKind} \cup TraceKinds /\ e.run \in Runs
        BY <3>4, <3>8, <4>1
      <4>7. Ledger!Record(e)
        BY <3>3, <3>4, <4>5, <4>6 DEF Ledger!Record
      <4>. QED BY <3>5, <4>7 DEF Ledger!Next
    <3>9. CASE m.kind \notin {DiagnosticKind} \cup TraceKinds
      <4>1. e.rev = 0
        BY <3>4, <3>9 DEF NewRevision
      <4>2. Ledger!Record(e)
        BY <3>3, <3>4, <3>9, <4>1 DEF Ledger!Record
      <4>. QED BY <3>5, <4>2 DEF Ledger!Next
    <3>. QED BY <3>7, <3>8, <3>9
  <2>. QED
    BY <2>1, <2>3, <2>4, <2>5
    DEF Next, WriterThread, SubmitRefused, Submit, Abandon, Start, Close,
        FinishClose, Opened, MarkUnavailable, Take, Conflict, DomainReject, Fail,
        Crash, vars, disk
<1>. QED
  BY <1>1, <1>2, TypeInvariant, LedgerInvariant, EffectInvariant, PTL
  DEF Spec, LedgerSpec, Ledger!Spec
=============================================================================
