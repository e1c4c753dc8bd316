--------------------- MODULE DirectionalPipeline_proofs ---------------------
(***************************************************************************)
(* Proofs about DirectionalPipeline for any number of workers, queries,    *)
(* notes, pages, retries and faults: its types, and that it makes every    *)
(* provider call once.  The inductive invariant says that the record of a  *)
(* request decides what its next call may be: the worker with the lease is *)
(* alone with its claim, a request that was sent is on record as claimed,  *)
(* and a page is on record only with the answer of its operation.          *)
(***************************************************************************)
EXTENDS DirectionalPipeline, SequenceTheorems, FiniteSetTheorems, TLAPS

InCall(w) == pc[w] \in {"ask", "wait", "refused"}

\* A worker in a call has a request; the one with the lease, even if it has run
\* out, has claimed it, and sent it if it waits; and the details are only taken
\* up from a collection.
Keeps(w) ==
    /\ InCall(w) => req[w] \in Requests
    /\ lease = w /\ InCall(w) =>
          /\ Lifecycle(req[w]) = {"running"}
          /\ asked[req[w]] = IF pc[w] = "wait" THEN 1 ELSE 0
    /\ lease = w /\ pc[w] \in {"detail", "enough"} => IsCollected
    /\ lease = w /\ InCall(w) /\ req[w][1] = "detail" => IsCollected
Holder == \A w \in Workers : Keeps(w)

\* What was sent was claimed before, and once.
SentIsClaimed ==
    \A o \in Requests : asked[o] \in {0, 1} /\ (asked[o] = 1 => "running" \in Lifecycle(o))

PagesAreAnswered ==
    \A p \in pages : Lifecycle(Discover(p.group, p.no)) \cap Answers # {}

ClosedIsFree == job = "closed" => lease = None

IInv == PipelineTypeOK /\ Holder /\ SentIsClaimed /\ PagesAreAnswered /\ ClosedIsFree

----------------------------------------------------------------------------
(* The operators of the model *)

LEMMA Kinds ==
    ASSUME NEW o \in Requests
    PROVE  /\ o[1] = "discover" => o[2] \in Groups /\ o[3] \in Cursors /\ o = Discover(o[2], o[3])
           /\ o[1] = "detail" => o[2] \in Sources /\ o = Detail(o[2])
           /\ o[1] \in {"discover", "detail"}
  BY DEF Requests, Discover, Detail

LEMMA PageRequests ==
    ASSUME PipelineTypeOK, NEW p \in pages
    PROVE  Discover(p.group, p.no) \in Requests
  BY DEF PipelineTypeOK, Page, Requests

LEMMA Free == None \notin Workers
  BY PipelineAssumption

\* The lifecycle of a request after a checkpoint of an operation.
LEMMA Recorded ==
    ASSUME NEW o, NEW q, NEW status \in Statuses, ops' = ops \cup {<<q, status>>}
    PROVE  Lifecycle(o)' = IF o = q THEN Lifecycle(o) \cup {status} ELSE Lifecycle(o)
  BY DEF Lifecycle

LEMMA HitsAreHits ==
    ASSUME PipelineTypeOK, IsCollected
    PROVE  Hits \in SUBSET Hit
  BY DEF PipelineTypeOK, IsCollected, Hits

LEMMA DetailsType ==
    ASSUME PipelineTypeOK, NEW hits \in SUBSET Hit
    PROVE  Details(hits) \in Evidence /\ Details(hits).hits = hits
  <1>1. CASE \E d \in detailed : d.hits = hits
    BY <1>1 DEF Details, PipelineTypeOK, Evidence
  <1>2. CASE ~(\E d \in detailed : d.hits = hits) /\ LatestRevision(hits) # {}
    <2>1. PICK i \in LatestRevision(hits) : i = CHOOSE j \in LatestRevision(hits) : TRUE
      BY <1>2
    <2>2. i \in 1..Len(revisions) /\ revisions[i].hits = hits
      BY <2>1 DEF LatestRevision, Revised, PipelineTypeOK
    <2>3. revisions[i] \in Evidence
      BY <2>2 DEF PipelineTypeOK
    <2> QED BY <1>2, <2>1, <2>2, <2>3 DEF Details
  <1>3. CASE ~(\E d \in detailed : d.hits = hits) /\ LatestRevision(hits) = {}
    BY <1>3 DEF Details, Evidence
  <1> QED BY <1>1, <1>2, <1>3

LEMMA CountType ==
    ASSUME PipelineTypeOK, NEW g
    PROVE  Count(g) \in Nat
  <1>1. CASE Latest(g) = {}
    BY <1>1 DEF Count
  <1>2. CASE Latest(g) # {}
    <2>1. (CHOOSE p \in Latest(g) : TRUE) \in Page
      BY <1>2 DEF Latest, PipelineTypeOK
    <2> QED BY <1>2, <2>1 DEF Count, Page
  <1> QED BY <1>1, <1>2

LEMMA ItemsCount ==
    ASSUME NEW items \in SUBSET Sources
    PROVE  Cardinality(items) \in Nat
  BY PipelineAssumption, FS_Subset, FS_CardinalityType

----------------------------------------------------------------------------
(* Types *)

LEMMA LeaveTypes ==
    ASSUME PipelineTypeOK, NEW w \in Workers, NEW there \in Places, Leave(w, there)
    PROVE  /\ pc' \in [Workers -> Places]
           /\ at' \in [Workers -> 0..(N + 1)]
           /\ req' \in [Workers -> Requests \cup {None}]
  BY PipelineAssumption DEF Leave, Go, PipelineTypeOK

LEMMA FinishTypes ==
    ASSUME PipelineTypeOK, NEW w \in Workers, NEW result \in Results, Finish(w, result)
    PROVE  /\ pc' \in [Workers -> Places]
           /\ at' \in [Workers -> 0..(N + 1)]
           /\ req' \in [Workers -> Requests \cup {None}]
           /\ task' \in Results
           /\ UNCHANGED <<job, lease, expired>>
  <1>1. "closing" \in Places
    BY DEF Places
  <1> QED BY <1>1, LeaveTypes DEF Finish

LEMMA TypeStep ==
    ASSUME IInv, [Next]_vars
    PROVE  PipelineTypeOK'
  <1> USE DEF recordVars, workerVars, taskVars, boundVars
  <1>a. PipelineTypeOK
    BY DEF IInv
  <1>b. PlanSize \in {N, N + 1}
    BY DEF PlanSize
  <1>1. ASSUME NEW w \in Workers, Claim(w) PROVE PipelineTypeOK'
    <2>1. task' \in {"queued", "running"} \cup Results
      BY <1>1, <1>a DEF Claim, Recovered, Results, PipelineTypeOK
    <2> QED BY <1>1, <1>a, <2>1 DEF Claim, Go, Places, PipelineTypeOK
  <1>17. ASSUME NEW w \in Workers, Start(w) PROVE PipelineTypeOK'
    BY <1>17, <1>a DEF Start, Go, Places, PipelineTypeOK
  <1>18. ASSUME NEW w \in Workers, Skip(w) \/ Refuse(w) PROVE PipelineTypeOK'
    BY <1>18, <1>a DEF Skip, Refuse, Go, Places, PipelineTypeOK
  <1>19. ASSUME NEW w \in Workers, Close(w) PROVE PipelineTypeOK'
    <2>1. pc' \in [Workers -> Places]
      BY <1>19, <1>a DEF Close, Go, Places, PipelineTypeOK
    <2>2. /\ job' \in {"open", "closed"} /\ lease' \in Workers \cup {None}
          /\ expired' \in BOOLEAN
      BY <1>19, <1>a DEF Close, PipelineTypeOK
    <2> QED BY <1>19, <1>a, <2>1, <2>2 DEF Close, PipelineTypeOK
  <1>20. ASSUME NEW w \in Workers, Beat(w) PROVE PipelineTypeOK'
    BY <1>20, <1>a DEF Beat, PipelineTypeOK
  <1>2. ASSUME NEW w \in Workers, NextGroup(w) PROVE PipelineTypeOK'
    <2>1. at' \in [Workers -> 0..(N + 1)]
      BY <1>2, <1>a, <1>b, PipelineAssumption DEF NextGroup, PipelineTypeOK
    <2>2. ops' \subseteq Requests \X Statuses
      BY <1>2, <1>a, PageRequests DEF NextGroup, PipelineTypeOK, Latest, Statuses, Answers
    <2> QED BY <1>2, <1>a, <2>1, <2>2 DEF NextGroup, PipelineTypeOK
  <1>3. ASSUME NEW w \in Workers, NEW o \in Requests, Begin(w, o) PROVE PipelineTypeOK'
    BY <1>3, <1>a DEF Begin, Go, Places, PipelineTypeOK, Statuses
  <1>4. ASSUME NEW w \in Workers, NEW o \in Requests, BeginInDoubt(w, o) PROVE PipelineTypeOK'
    BY <1>4, <1>a, FinishTypes DEF BeginInDoubt, Results, PipelineTypeOK
  <1>5. ASSUME NEW w \in Workers, Ask(w) PROVE PipelineTypeOK'
    <2>1. req[w] \in Requests
      BY <1>5 DEF Ask, IInv, Holder, Keeps, InCall
    <2> QED BY <1>5, <1>a, <2>1 DEF Ask, Go, Places, PipelineTypeOK
  <1>6. ASSUME NEW w \in Workers, AnswerSearch(w) PROVE PipelineTypeOK'
    <2>1. req[w] \in Requests
      BY <1>6 DEF AnswerSearch, IInv, Holder, Keeps, InCall
    <2>2. req[w][2] \in Groups /\ req[w][3] \in Cursors
      BY <1>6, <2>1, Kinds DEF AnswerSearch
    <2>3. PICK result \in ProviderWide \cup {"completed"}, items \in SUBSET Sources, more \in BOOLEAN :
             /\ pages' = pages \cup {[group |-> req[w][2], no |-> req[w][3], items |-> items,
                    count |-> Count(req[w][2]) + Cardinality(items),
                    terminal |-> ~more \/ Count(req[w][2]) + Cardinality(items) >= CandidateLimit]}
             /\ ops' = ops \cup {<<req[w], result>>}
             /\ Go(w, IF result \in ProviderWide THEN "stopped" ELSE "collect")
      BY <1>6 DEF AnswerSearch
    <2>4. Count(req[w][2]) + Cardinality(items) \in Nat
      BY <1>a, CountType, ItemsCount
    <2>5. pages' \subseteq Page
      <3>1. (~more \/ Count(req[w][2]) + Cardinality(items) >= CandidateLimit) \in BOOLEAN
        OBVIOUS
      <3>2. [group |-> req[w][2], no |-> req[w][3], items |-> items,
             count |-> Count(req[w][2]) + Cardinality(items),
             terminal |-> ~more \/ Count(req[w][2]) + Cardinality(items) >= CandidateLimit] \in Page
        BY <2>2, <2>4, <3>1, Zenon DEF Page
      <3> QED BY <1>a, <2>3, <3>2, Zenon DEF PipelineTypeOK
    <2>6. ops' \subseteq Requests \X Statuses
      BY <1>a, <2>1, <2>3 DEF PipelineTypeOK, Statuses, Answers, Failures
    <2> QED BY <1>6, <1>a, <2>3, <2>5, <2>6 DEF AnswerSearch, Go, Places, PipelineTypeOK
  <1>7. ASSUME NEW w \in Workers, Gather(w) PROVE PipelineTypeOK'
    <2>1. HitsOf(1..at[w]) \in SUBSET Hit /\ Active \in BOOLEAN
      BY PipelineAssumption DEF HitsOf, Active
    <2>2. /\ collected' \subseteq [fallback : BOOLEAN, hits : SUBSET Hit]
          /\ UNCHANGED <<ops, pages, revisions, detailed, decisions, task, job, lease, expired>>
          /\ UNCHANGED <<req, asked, retries, faults>>
      BY <1>7, <1>a, <2>1 DEF Gather, PipelineTypeOK
    <2>3. pc' \in [Workers -> Places] /\ at' \in [Workers -> 0..(N + 1)]
      BY <1>7, <1>a, PipelineAssumption DEF Gather, Go, Places, PipelineTypeOK
    <2> QED BY <1>a, <2>2, <2>3 DEF PipelineTypeOK
  <1>8. ASSUME NEW w \in Workers, AnswerDetail(w) PROVE PipelineTypeOK'
    <2>1. req[w] \in Requests /\ IsCollected
      BY <1>8 DEF AnswerDetail, Live, IInv, Holder, Keeps, InCall
    <2>2. Hits \in SUBSET Hit /\ Details(Hits) \in Evidence /\ req[w][2] \in Sources
      BY <1>8, <1>a, <2>1, HitsAreHits, DetailsType, Kinds DEF AnswerDetail
    <2>3. PICK result \in Answers, got \in {Details(Hits).got, Details(Hits).got \cup {req[w][2]}} :
             /\ revisions' = Append(revisions, [hits |-> Hits, got |-> got,
                                  tried |-> Details(Hits).tried \cup {req[w][2]}])
             /\ ops' = ops \cup {<<req[w], result>>}
             /\ Go(w, IF result \in ProviderWide \/ Complete(Hits, got) THEN "enough" ELSE "detail")
      BY <1>8 DEF AnswerDetail
    <2>4. [hits |-> Hits, got |-> got, tried |-> Details(Hits).tried \cup {req[w][2]}] \in Evidence
      BY <2>2, <2>3 DEF Evidence
    <2>5. revisions' \in Seq(Evidence)
      BY <1>a, <2>3, <2>4 DEF PipelineTypeOK
    <2>6. ops' \subseteq Requests \X Statuses
      BY <1>a, <2>1, <2>3 DEF PipelineTypeOK, Statuses
    <2> QED BY <1>8, <1>a, <2>3, <2>5, <2>6 DEF AnswerDetail, Go, Places, PipelineTypeOK
  <1>9. ASSUME NEW w \in Workers, Interrupt(w) PROVE PipelineTypeOK'
    <2>1. req[w] \in Requests
      BY <1>9 DEF Interrupt, IInv, Holder, Keeps, InCall
    <2> QED BY <1>9, <1>a, <2>1, FinishTypes DEF Interrupt, Results, PipelineTypeOK, Statuses
  <1>10. ASSUME NEW w \in Workers, Conclude(w) PROVE PipelineTypeOK'
    <2>1. Details(Hits) \in Evidence
      <3>1. IsCollected
        <4>1. lease = w /\ pc[w] \in {"detail", "enough"}
          BY <1>10 DEF Conclude, Live
        <4> QED BY <4>1 DEF IInv, Holder, Keeps
      <3> QED BY <1>a, <3>1, HitsAreHits, DetailsType
    <2>2. FallbackState(Details(Hits)) \in FallbackStates
      BY DEF FallbackState, FallbackStates
    <2>3. detailed' \subseteq Evidence /\ decisions' \subseteq [of : Evidence, state : FallbackStates]
      BY <1>10, <1>a, <2>1, <2>2 DEF Conclude, PipelineTypeOK
    <2>4. CASE Go(w, "collect") /\ UNCHANGED <<at, req, taskVars>>
      BY <1>10, <1>a, <2>3, <2>4 DEF Conclude, Go, Places, PipelineTypeOK
    <2>5. CASE \E result \in Results : Finish(w, result)
      BY <1>10, <1>a, <2>3, <2>5, FinishTypes DEF Conclude, PipelineTypeOK
    <2> QED BY <1>10, <2>4, <2>5 DEF Conclude, Results
  <1>11. ASSUME NEW w \in Workers, Fenced(w) PROVE PipelineTypeOK'
    BY <1>11, <1>a, FinishTypes DEF Fenced, Results, PipelineTypeOK
  <1>12. ASSUME Crash PROVE PipelineTypeOK'
    BY <1>12, <1>a, PipelineAssumption DEF Crash, Fault, Places, PipelineTypeOK
  <1>13. ASSUME Lapse PROVE PipelineTypeOK'
    BY <1>13, <1>a, PipelineAssumption DEF Lapse, Fault, PipelineTypeOK
  <1>14. ASSUME Retry PROVE PipelineTypeOK'
    <2>1. revisions' \in Seq(Evidence)
      <3>1. CASE revisions' = <<>>
        BY <3>1
      <3>2. CASE revisions' = revisions
        BY <1>a, <3>2 DEF PipelineTypeOK
      <3>3. CASE /\ revisions # <<>>
                 /\ revisions' = [revisions EXCEPT ![Len(revisions)].tried =
                                     @ \ {s \in Sources : Detail(s) \in Retired}]
        <4> DEFINE last == revisions[Len(revisions)]
                   undone == [last EXCEPT !.tried = @ \ {s \in Sources : Detail(s) \in Retired}]
        <4>1. Len(revisions) \in 1..Len(revisions) /\ last \in Evidence
          BY <1>a, <3>3 DEF PipelineTypeOK
        <4>2. undone \in Evidence
          BY <4>1 DEF Evidence
        <4>3. revisions' = [revisions EXCEPT ![Len(revisions)] = undone]
          BY <3>3
        <4> HIDE DEF undone
        <4> QED BY <1>a, <4>1, <4>2, <4>3, ExceptSeq DEF PipelineTypeOK
      <3> QED BY <1>14, <3>1, <3>2, <3>3 DEF Retry, Reset
    <2>2. asked' \in [Requests -> Nat]
      BY <1>14, <1>a DEF Retry, Reset, PipelineTypeOK
    <2>3. retries' \in 0..RecoveryBudget
      BY <1>14, <1>a, PipelineAssumption DEF Retry, Reset, PipelineTypeOK
    <2>4. collected' \subseteq [fallback : BOOLEAN, hits : SUBSET Hit]
      BY <1>14, <1>a DEF Retry, Reset, PipelineTypeOK
    <2> QED BY <1>14, <1>a, <2>1, <2>2, <2>3, <2>4 DEF Retry, Reset, PipelineTypeOK
  <1>15. ASSUME UNCHANGED vars PROVE PipelineTypeOK'
    BY <1>15, <1>a DEF vars, PipelineTypeOK
  <1> QED
    BY <1>1, <1>2, <1>3, <1>4, <1>5, <1>6, <1>7, <1>8, <1>9, <1>10, <1>11, <1>12, <1>13,
       <1>14, <1>15, <1>17, <1>18, <1>19, <1>20 DEF Next, Work

----------------------------------------------------------------------------
(* Claims, requests and answers *)

\* Who is not in the matter, and who has nothing left to keep.
LEMMA Bystander ==
    ASSUME IInv, NEW v \in Workers, lease' # v, pc'[v] = pc[v], req'[v] = req[v]
    PROVE  Keeps(v)'
  BY DEF IInv, Holder, Keeps, InCall

\* Who is where it was, while the records are what they were.
LEMMA Undisturbed ==
    ASSUME IInv, NEW v \in Workers, UNCHANGED <<ops, collected, decisions, asked>>,
           lease' = v => lease = v, pc'[v] = pc[v], req'[v] = req[v]
    PROVE  Keeps(v)'
  <1>1. Keeps(v)
    BY DEF IInv, Holder
  <1>2. \A o : Lifecycle(o)' = Lifecycle(o)
    BY DEF Lifecycle
  <1>3. IsCollected' = IsCollected
    BY DEF IsCollected, Active
  <1> QED BY <1>1, <1>2, <1>3 DEF Keeps, InCall

LEMMA Released ==
    ASSUME NEW v \in Workers,
           pc'[v] \in {"idle", "claimed", "collect", "stopped", "closing"}
    PROVE  Keeps(v)'
  BY DEF Keeps, InCall

LEMMA Left ==
    ASSUME PipelineTypeOK, NEW w \in Workers, NEW result, Finish(w, result)
    PROVE  /\ pc'[w] = "closing"
           /\ \A v \in Workers \ {w} : pc'[v] = pc[v] /\ req'[v] = req[v]
           /\ UNCHANGED <<job, lease>>
  BY DEF Finish, Leave, Go, PipelineTypeOK

\* The worker with the lease finishes.
LEMMA Finished ==
    ASSUME IInv, NEW w \in Workers, lease = w, NEW result, Finish(w, result)
    PROVE  Holder' /\ ClosedIsFree'
  <1>1. PipelineTypeOK
    BY DEF IInv
  <1>2. ASSUME NEW v \in Workers PROVE Keeps(v)'
    BY <1>1, Left, Released, Bystander
  <1>3. ClosedIsFree'
    BY <1>1, Left DEF IInv, ClosedIsFree
  <1> QED BY <1>2, <1>3 DEF Holder

\* Records that only grow take nothing back.
LEMMA Grown ==
    ASSUME IInv, ops \subseteq ops', pages' = pages, asked' = asked
    PROVE  SentIsClaimed' /\ PagesAreAnswered'
  <1>1. \A o : Lifecycle(o) \subseteq Lifecycle(o)'
    BY DEF Lifecycle
  <1>2. SentIsClaimed'
    BY <1>1 DEF IInv, SentIsClaimed
  <1>3. PagesAreAnswered'
    BY <1>1 DEF IInv, PagesAreAnswered
  <1> QED BY <1>2, <1>3

\* The worker with the lease moves on, and the others stay where they are.
LEMMA Moved ==
    ASSUME IInv, NEW w \in Workers, lease = w, UNCHANGED taskVars,
           \A v \in Workers \ {w} : pc'[v] = pc[v] /\ req'[v] = req[v], Keeps(w)'
    PROVE  Holder' /\ ClosedIsFree'
  <1>1. ASSUME NEW v \in Workers \ {w} PROVE Keeps(v)'
    BY <1>1, Bystander DEF taskVars
  <1>2. ClosedIsFree'
    BY DEF IInv, ClosedIsFree, taskVars
  <1> QED BY <1>1, <1>2 DEF Holder

\* A claimed request is neither answered nor in doubt.
LEMMA Claimed ==
    ASSUME IInv, NEW w \in Workers, lease = w, InCall(w)
    PROVE  /\ PipelineTypeOK /\ req[w] \in Requests /\ Lifecycle(req[w]) = {"running"}
           /\ pc[w] = "ask" => asked[req[w]] = 0
           /\ pc[w] = "wait" => asked[req[w]] = 1
           /\ req[w][1] = "detail" => IsCollected
  BY DEF IInv, Holder, Keeps, InCall

LEMMA CallStep ==
    ASSUME IInv, [Next]_vars
    PROVE  Holder' /\ SentIsClaimed' /\ PagesAreAnswered' /\ ClosedIsFree'
  <1> USE DEF recordVars, workerVars, taskVars, boundVars
  <1>a. PipelineTypeOK /\ Holder /\ SentIsClaimed /\ PagesAreAnswered /\ ClosedIsFree
    BY DEF IInv
  <1>1. ASSUME NEW w \in Workers, Claim(w)
        PROVE  Holder' /\ SentIsClaimed' /\ PagesAreAnswered' /\ ClosedIsFree'
    <2>1. /\ pc'[w] = "claimed" /\ lease' = w /\ job' = "open"
          /\ \A v \in Workers \ {w} : pc'[v] = pc[v] /\ req'[v] = req[v]
      BY <1>1, <1>a DEF Claim, Go, PipelineTypeOK
    <2>2. \A v \in Workers : Keeps(v)'
      BY <2>1, Released, Bystander
    <2> QED BY <1>1, <2>1, <2>2, Grown DEF Claim, Holder, ClosedIsFree
  <1>17. ASSUME NEW w \in Workers, Start(w)
        PROVE  Holder' /\ SentIsClaimed' /\ PagesAreAnswered' /\ ClosedIsFree'
    <2>1. /\ pc'[w] = IF IsCollected THEN "detail" ELSE "collect"
          /\ \A v \in Workers \ {w} : pc'[v] = pc[v] /\ req'[v] = req[v]
      BY <1>17, <1>a DEF Start, Go, PipelineTypeOK
    <2>2. IsCollected' = IsCollected
      BY <1>17 DEF Start, IsCollected, Active
    <2>3. Keeps(w)'
      BY <2>1, <2>2 DEF Keeps, InCall
    <2>4. \A v \in Workers \ {w} : Keeps(v)'
      BY <1>17, <2>1, Undisturbed DEF Start
    <2> QED BY <1>17, <1>a, <2>3, <2>4, Grown DEF Start, Holder, ClosedIsFree
  <1>18. ASSUME NEW w \in Workers, Skip(w)
        PROVE  Holder' /\ SentIsClaimed' /\ PagesAreAnswered' /\ ClosedIsFree'
    <2>1. /\ pc'[w] = "closing"
          /\ \A v \in Workers \ {w} : pc'[v] = pc[v] /\ req'[v] = req[v]
      BY <1>18, <1>a DEF Skip, Go, PipelineTypeOK
    <2>2. \A v \in Workers : Keeps(v)'
      BY <1>18, <2>1, Released, Undisturbed DEF Skip
    <2> QED BY <1>18, <1>a, <2>2, Grown DEF Skip, Holder, ClosedIsFree
  <1>19. ASSUME NEW w \in Workers, Refuse(w)
        PROVE  Holder' /\ SentIsClaimed' /\ PagesAreAnswered' /\ ClosedIsFree'
    <2>1. /\ pc[w] = "ask" /\ pc'[w] = "refused" /\ req'[w] = req[w]
          /\ \A v \in Workers \ {w} : pc'[v] = pc[v] /\ req'[v] = req[v]
      BY <1>19, <1>a DEF Refuse, Go, PipelineTypeOK
    <2>2. IsCollected' = IsCollected /\ \A o : Lifecycle(o)' = Lifecycle(o)
      BY <1>19 DEF Refuse, IsCollected, Active, Lifecycle
    <2>3. Keeps(w)'
      BY <1>19, <1>a, <2>1, <2>2 DEF Refuse, Holder, Keeps, InCall
    <2>4. \A v \in Workers \ {w} : Keeps(v)'
      BY <1>19, <2>1, Undisturbed DEF Refuse
    <2> QED BY <1>19, <1>a, <2>3, <2>4, Grown DEF Refuse, Holder, ClosedIsFree
  <1>20. ASSUME NEW w \in Workers, Close(w)
        PROVE  Holder' /\ SentIsClaimed' /\ PagesAreAnswered' /\ ClosedIsFree'
    <2>1. /\ pc'[w] = "idle"
          /\ \A v \in Workers \ {w} : pc'[v] = pc[v] /\ req'[v] = req[v]
      BY <1>20, <1>a DEF Close, Go, PipelineTypeOK
    <2>2. \A v \in Workers : lease' = v => lease = v
      BY <1>20, Free DEF Close
    <2>3. \A v \in Workers : Keeps(v)'
      BY <1>20, <2>1, <2>2, Released, Undisturbed DEF Close
    <2> QED BY <1>20, <1>a, <2>3, Grown DEF Close, Holder, ClosedIsFree
  <1>21. ASSUME NEW w \in Workers, Beat(w)
        PROVE  Holder' /\ SentIsClaimed' /\ PagesAreAnswered' /\ ClosedIsFree'
    <2>1. \A v \in Workers : Keeps(v)'
      BY <1>21, Undisturbed DEF Beat
    <2> QED BY <1>21, <1>a, <2>1, Grown DEF Beat, Holder, ClosedIsFree
  <1>2. ASSUME NEW w \in Workers, NextGroup(w)
        PROVE  Holder' /\ SentIsClaimed' /\ PagesAreAnswered' /\ ClosedIsFree'
    <2>1. lease = w /\ pc'[w] = "collect" /\ pc' = pc /\ req' = req
      BY <1>2 DEF NextGroup, Live
    <2> QED BY <1>2, <2>1, Released, Moved, Grown DEF NextGroup
  <1>3. ASSUME NEW w \in Workers, NEW o \in Requests, Begin(w, o)
        PROVE  Holder' /\ SentIsClaimed' /\ PagesAreAnswered' /\ ClosedIsFree'
    <2>1. /\ pc'[w] = "ask" /\ req'[w] = o /\ lease = w
          /\ \A v \in Workers \ {w} : pc'[v] = pc[v] /\ req'[v] = req[v]
      BY <1>3, <1>a DEF Begin, Live, Go, PipelineTypeOK
    <2>2. Lifecycle(o)' = {"running"}
      BY <1>3, Recorded DEF Begin, Statuses
    <2>3. asked'[o] = 0
      BY <1>3, <1>a DEF Begin, SentIsClaimed
    <2>4. o[1] = "detail" => IsCollected'
      <3>1. ASSUME o[1] = "detail" PROVE pc[w] = "detail"
        BY <1>3, <3>1 DEF Begin, Wants, Discover
      <3>2. IsCollected' = IsCollected
        BY <1>3 DEF Begin, IsCollected, Active
      <3> QED BY <1>a, <2>1, <3>1, <3>2 DEF Holder, Keeps
    <2>5. Keeps(w)'
      BY <2>1, <2>2, <2>3, <2>4 DEF Keeps, InCall
    <2> QED BY <1>3, <2>1, <2>5, Moved, Grown DEF Begin
  <1>4. ASSUME NEW w \in Workers, NEW o \in Requests, BeginInDoubt(w, o)
        PROVE  Holder' /\ SentIsClaimed' /\ PagesAreAnswered' /\ ClosedIsFree'
    BY <1>4, Finished, Grown DEF BeginInDoubt, Live
  <1>5. ASSUME NEW w \in Workers, Ask(w)
        PROVE  Holder' /\ SentIsClaimed' /\ PagesAreAnswered' /\ ClosedIsFree'
    <2>a. /\ pc[w] = "ask" /\ lease = w /\ req' = req
          /\ asked' = [asked EXCEPT ![req[w]] = asked[req[w]] + 1] /\ pc' = [pc EXCEPT ![w] = "wait"]
      BY <1>5 DEF Ask, Live, Go
    <2>b. /\ req[w] \in Requests /\ Lifecycle(req[w]) = {"running"} /\ asked[req[w]] = 0
          /\ req[w][1] = "detail" => IsCollected
      BY <2>a, Claimed DEF InCall
    <2>c. asked'[req[w]] = 1 /\ \A o \in Requests \ {req[w]} : asked'[o] = asked[o]
      BY <1>a, <2>a, <2>b DEF PipelineTypeOK
    <2>1. /\ pc'[w] = "wait" /\ req'[w] = req[w]
          /\ \A v \in Workers \ {w} : pc'[v] = pc[v] /\ req'[v] = req[v]
      BY <1>a, <2>a DEF PipelineTypeOK
    <2>2. /\ \A o : Lifecycle(o)' = Lifecycle(o)
          /\ IsCollected' = IsCollected
      BY <1>5 DEF Ask, Lifecycle, IsCollected, Active
    <2>3. Keeps(w)'
      BY <2>b, <2>c, <2>1, <2>2 DEF Keeps, InCall
    <2>4. SentIsClaimed'
      BY <1>a, <2>b, <2>c, <2>2 DEF SentIsClaimed
    <2>5. PagesAreAnswered'
      BY <1>5, <1>a, <2>2 DEF Ask, PagesAreAnswered
    <2> QED BY <1>5, <2>a, <2>1, <2>3, <2>4, <2>5, Moved DEF Ask
  <1>6. ASSUME NEW w \in Workers, AnswerSearch(w)
        PROVE  Holder' /\ SentIsClaimed' /\ PagesAreAnswered' /\ ClosedIsFree'
    <2>1. PICK result \in ProviderWide \cup {"completed"} :
             /\ \A p \in pages' : p \in pages \/ (p.group = req[w][2] /\ p.no = req[w][3])
             /\ ops' = ops \cup {<<req[w], result>>}
             /\ Go(w, IF result \in ProviderWide THEN "stopped" ELSE "collect")
      BY <1>6 DEF AnswerSearch
    <2>2. /\ lease = w /\ pc'[w] \in {"stopped", "collect"}
          /\ \A v \in Workers \ {w} : pc'[v] = pc[v] /\ req'[v] = req[v]
      BY <1>6, <1>a, <2>1 DEF AnswerSearch, Live, Go, PipelineTypeOK
    <2>3. \A o : Lifecycle(o) \subseteq Lifecycle(o)'
      BY <2>1 DEF Lifecycle
    <2>4. SentIsClaimed'
      BY <1>6, <1>a, <2>3 DEF AnswerSearch, SentIsClaimed
    <2>5. PICK q \in Requests : q = req[w] /\ q = Discover(req[w][2], req[w][3])
      BY <1>6, Claimed, Kinds DEF AnswerSearch, Live, InCall
    <2>6. Lifecycle(q)' \cap Answers # {}
      <3>1. result \in Answers /\ result \in Statuses
        BY DEF Answers, Failures, Statuses
      <3>2. Lifecycle(q)' = Lifecycle(q) \cup {result}
        BY <2>1, <2>5, <3>1, Recorded
      <3> QED BY <3>1, <3>2
    <2>7. ASSUME NEW p \in pages' PROVE Lifecycle(Discover(p.group, p.no))' \cap Answers # {}
      <3>1. CASE p \in pages
        BY <1>a, <2>3, <3>1 DEF PagesAreAnswered
      <3>2. CASE p.group = req[w][2] /\ p.no = req[w][3]
        <4>1. Discover(p.group, p.no) = q
          BY <2>5, <3>2
        <4>2. Lifecycle(Discover(p.group, p.no))' = Lifecycle(q)'
          BY <4>1 DEF Lifecycle, Discover
        <4> QED BY <2>6, <4>2
      <3> QED BY <2>1, <3>1, <3>2
    <2>8. PagesAreAnswered'
      BY <2>7 DEF PagesAreAnswered, Discover
    <2> QED BY <1>6, <2>2, <2>4, <2>8, Released, Moved DEF AnswerSearch
  <1>7. ASSUME NEW w \in Workers, Gather(w)
        PROVE  Holder' /\ SentIsClaimed' /\ PagesAreAnswered' /\ ClosedIsFree'
    <2>1. /\ lease = w /\ pc'[w] = "detail"
          /\ \A v \in Workers \ {w} : pc'[v] = pc[v] /\ req'[v] = req[v]
      BY <1>7, <1>a DEF Gather, Live, Go, PipelineTypeOK
    <2>2. IsCollected'
      <3>1. Active' = Active
        BY <1>7 DEF Gather, Active
      <3>2. [fallback |-> Active, hits |-> HitsOf(1..at[w])] \in collected'
        BY <1>7 DEF Gather
      <3> QED BY <3>1, <3>2 DEF IsCollected
    <2>3. Keeps(w)'
      BY <2>1, <2>2 DEF Keeps, InCall
    <2> QED BY <1>7, <2>1, <2>3, Moved, Grown DEF Gather
  <1>8. ASSUME NEW w \in Workers, AnswerDetail(w)
        PROVE  Holder' /\ SentIsClaimed' /\ PagesAreAnswered' /\ ClosedIsFree'
    <2>1. PICK result \in Answers :
             /\ ops' = ops \cup {<<req[w], result>>}
             /\ Go(w, "enough") \/ Go(w, "detail")
      BY <1>8 DEF AnswerDetail
    <2>2. /\ lease = w /\ pc'[w] \in {"enough", "detail"}
          /\ \A v \in Workers \ {w} : pc'[v] = pc[v] /\ req'[v] = req[v]
      BY <1>8, <1>a, <2>1 DEF AnswerDetail, Live, Go, PipelineTypeOK
    <2>3. IsCollected'
      <3>1. IsCollected
        BY <1>8, Claimed DEF AnswerDetail, Live, InCall
      <3> QED BY <1>8, <3>1 DEF AnswerDetail, IsCollected, Active
    <2>4. Keeps(w)'
      BY <2>2, <2>3 DEF Keeps, InCall
    <2> QED BY <1>8, <2>1, <2>2, <2>4, Moved, Grown DEF AnswerDetail
  <1>9. ASSUME NEW w \in Workers, Interrupt(w)
        PROVE  Holder' /\ SentIsClaimed' /\ PagesAreAnswered' /\ ClosedIsFree'
    BY <1>9, Finished, Grown DEF Interrupt, Live
  <1>10. ASSUME NEW w \in Workers, Conclude(w)
        PROVE  Holder' /\ SentIsClaimed' /\ PagesAreAnswered' /\ ClosedIsFree'
    <2>1. lease = w /\ UNCHANGED <<ops, pages, asked>>
      BY <1>10 DEF Conclude, Live
    <2>2. CASE Go(w, "collect") /\ UNCHANGED <<at, req, taskVars>>
      <3>1. /\ pc'[w] = "collect"
            /\ \A v \in Workers \ {w} : pc'[v] = pc[v] /\ req'[v] = req[v]
        BY <1>a, <2>2 DEF Go, PipelineTypeOK
      <3> QED BY <2>1, <2>2, <3>1, Released, Moved, Grown
    <2>3. CASE \E result \in Results : Finish(w, result)
      BY <2>1, <2>3, Finished, Grown
    <2> QED BY <1>10, <2>2, <2>3 DEF Conclude, Results
  <1>11. ASSUME NEW w \in Workers, Fenced(w)
        PROVE  Holder' /\ SentIsClaimed' /\ PagesAreAnswered' /\ ClosedIsFree'
    <2>1. /\ pc'[w] = "closing" /\ UNCHANGED <<job, lease>>
          /\ \A v \in Workers \ {w} : pc'[v] = pc[v] /\ req'[v] = req[v]
      BY <1>11, <1>a, Left DEF Fenced
    <2>2. \A v \in Workers : Keeps(v)'
      BY <1>11, <2>1, Released, Undisturbed DEF Fenced
    <2> QED BY <1>11, <1>a, <2>1, <2>2, Grown DEF Fenced, Holder, ClosedIsFree
  <1>12. ASSUME Crash
        PROVE  Holder' /\ SentIsClaimed' /\ PagesAreAnswered' /\ ClosedIsFree'
    <2>1. \A v \in Workers : pc'[v] = "idle"
      BY <1>12 DEF Crash
    <2>2. \A v \in Workers : Keeps(v)'
      BY <2>1, Released
    <2> QED BY <1>12, <1>a, <2>2, Grown DEF Crash, Holder, ClosedIsFree
  <1>13. ASSUME Lapse
        PROVE  Holder' /\ SentIsClaimed' /\ PagesAreAnswered' /\ ClosedIsFree'
    <2>1. \A v \in Workers : Keeps(v)'
      BY <1>13, Undisturbed DEF Lapse
    <2> QED BY <1>13, <1>a, <2>1, Grown DEF Lapse, Holder, ClosedIsFree
  <1>14. ASSUME Retry
        PROVE  Holder' /\ SentIsClaimed' /\ PagesAreAnswered' /\ ClosedIsFree'
    <2>1. lease' = None
      BY <1>14, <1>a DEF Retry, Reset, ClosedIsFree
    <2>2. Holder'
      BY <1>14, <2>1, Bystander, Free DEF Retry, Reset, Holder
    <2>3. \A o : o \notin Retired => Lifecycle(o)' = Lifecycle(o)
      BY <1>14 DEF Retry, Reset, Lifecycle
    <2>4. SentIsClaimed'
      BY <1>14, <1>a, <2>3 DEF Retry, Reset, SentIsClaimed
    <2>5. PagesAreAnswered'
      BY <1>14, <1>a, <2>3 DEF Retry, Reset, PagesAreAnswered
    <2> QED BY <1>14, <2>1, <2>2, <2>4, <2>5 DEF Retry, Reset, ClosedIsFree
  <1>15. ASSUME UNCHANGED vars
        PROVE  Holder' /\ SentIsClaimed' /\ PagesAreAnswered' /\ ClosedIsFree'
    <2>1. \A v \in Workers : Keeps(v)'
      BY <1>15, <1>a DEF vars, Holder, Keeps, InCall, Lifecycle, IsCollected, Active
    <2> QED BY <1>15, <1>a, <2>1, Grown DEF vars, Holder, ClosedIsFree
  <1> QED
    BY <1>1, <1>2, <1>3, <1>4, <1>5, <1>6, <1>7, <1>8, <1>9, <1>10, <1>11, <1>12, <1>13,
       <1>14, <1>15, <1>17, <1>18, <1>19, <1>20, <1>21 DEF Next, Work

----------------------------------------------------------------------------
(* The theorems *)

LEMMA Invariance == Spec => []IInv
<1>1. Init => IInv
  <2>1. ASSUME Init PROVE PipelineTypeOK
    <3>1. /\ ops \subseteq Requests \X Statuses /\ pages \subseteq Page
          /\ collected \subseteq [fallback : BOOLEAN, hits : SUBSET Hit]
          /\ revisions \in Seq(Evidence) /\ detailed \subseteq Evidence
          /\ decisions \subseteq [of : Evidence, state : FallbackStates]
      BY <2>1 DEF Init
    <3>2. /\ pc \in [Workers -> Places] /\ at \in [Workers -> 0..(N + 1)]
          /\ req \in [Workers -> Requests \cup {None}]
      BY <2>1, PipelineAssumption DEF Init, Places
    <3>3. asked \in [Requests -> Nat] /\ retries \in 0..RecoveryBudget /\ faults \in 0..MaxFaults
      BY <2>1, PipelineAssumption DEF Init
    <3> QED BY <2>1, <3>1, <3>2, <3>3 DEF Init, PipelineTypeOK
  <2>2. Init => Holder /\ SentIsClaimed /\ PagesAreAnswered /\ ClosedIsFree
    BY Free DEF Init, Holder, Keeps, InCall, SentIsClaimed, PagesAreAnswered, ClosedIsFree
  <2> QED BY <2>1, <2>2 DEF IInv
<1>2. IInv /\ [Next]_vars => IInv'
  BY TypeStep, CallStep DEF IInv
<1> QED BY <1>1, <1>2, PTL DEF Spec

\* The records of a collection keep their types (directional_pipeline.py).
THEOREM PipelineTypes == Spec => []PipelineTypeOK
<1>1. IInv => PipelineTypeOK
  BY DEF IInv
<1> QED BY Invariance, <1>1, PTL

(* The phase of a request, from its lifecycle. *)

LEMMA Phases ==
    ASSUME IInv, NEW o \in Requests
    PROVE  /\ Phase(o) = "idle" <=> Lifecycle(o) = {}
           /\ Phase(o) = "refused" <=> o \in Retired
           /\ Lifecycle(o) = {"running"} /\ asked[o] = 0 => Phase(o) = "claimed"
           /\ Lifecycle(o) = {"running"} /\ asked[o] = 1 => Phase(o) = "sent"
  BY DEF IInv, SentIsClaimed, Phase, Retired, Answers, Failures, ProviderWide, Recoverable

\* Nothing happens to a request whose call and lifecycle stay as they are.
LEMMA SamePhase ==
    ASSUME NEW o \in Requests, asked'[o] = asked[o], Lifecycle(o)' = Lifecycle(o)
    PROVE  Phase(o)' = Phase(o)
  BY DEF Phase

phases == [o \in Requests |-> Phase(o)]

LEMMA Quiet ==
    ASSUME UNCHANGED <<ops, asked>>
    PROVE  phases' = phases
  BY DEF phases, Phase, Lifecycle

\* One request moves, the others do not.
LEMMA OnePhase ==
    ASSUME NEW q \in Requests, NEW there, Phase(q)' = there,
           \A o \in Requests \ {q} : asked'[o] = asked[o] /\ Lifecycle(o)' = Lifecycle(o)
    PROVE  phases' = [phases EXCEPT ![q] = there]
  BY SamePhase DEF phases

LEMMA PhaseStep ==
    ASSUME IInv, [Next]_vars
    PROVE  [Calls!Next]_phases
  <1> USE DEF recordVars, workerVars, taskVars, boundVars
  <1>a. SentIsClaimed /\ PagesAreAnswered /\ ClosedIsFree /\ PipelineTypeOK
    BY DEF IInv
  <1>2. ASSUME NEW w \in Workers, NextGroup(w) PROVE phases' = phases
    <2>1. ASSUME NEW o \in Requests, Lifecycle(o)' # Lifecycle(o)
          PROVE  Lifecycle(o)' = Lifecycle(o) \cup {"completed"} /\ Lifecycle(o) \cap Answers # {}
      <3>1. \A status \in Statuses : <<o, status>> \in ops' /\ <<o, status>> \notin ops =>
               /\ status = "completed"
               /\ \E p \in pages : o = Discover(p.group, p.no)
        BY <1>2 DEF NextGroup, Latest
      <3>2. PICK status \in Statuses : <<o, status>> \in ops' /\ <<o, status>> \notin ops
        BY <1>2, <2>1 DEF NextGroup, Lifecycle
      <3>3. Lifecycle(o)' = Lifecycle(o) \cup {"completed"}
        BY <1>2, <3>1, <3>2 DEF NextGroup, Lifecycle
      <3>4. Lifecycle(o) \cap Answers # {}
        BY <1>a, <3>1, <3>2 DEF PagesAreAnswered
      <3> QED BY <3>3, <3>4
    <2>2. ASSUME NEW o \in Requests PROVE Phase(o)' = Phase(o)
      <3>1. CASE Lifecycle(o)' = Lifecycle(o)
        BY <1>2, <3>1, SamePhase DEF NextGroup
      <3>2. CASE Lifecycle(o)' # Lifecycle(o)
        <4>1. /\ Lifecycle(o) # {} /\ Lifecycle(o)' # {}
              /\ Lifecycle(o)' \cap Recoverable = Lifecycle(o) \cap Recoverable
              /\ Lifecycle(o)' \cap Answers # {} /\ Lifecycle(o) \cap Answers # {}
          BY <2>1, <3>2 DEF Recoverable
        <4> QED BY <1>2, <4>1 DEF NextGroup, Phase
      <3> QED BY <3>1, <3>2
    <2> QED BY <2>2 DEF phases
  <1>3. ASSUME NEW w \in Workers, NEW o \in Requests, Begin(w, o) PROVE Calls!Claim(o)
    <2>1. Lifecycle(o) = {} /\ asked' = asked /\ ops' = ops \cup {<<o, "running">>}
      BY <1>3 DEF Begin
    <2>2. Lifecycle(o)' = {"running"} /\ \A q \in Requests \ {o} : Lifecycle(q)' = Lifecycle(q)
      <3>1. "running" \in Statuses
        BY DEF Statuses
      <3>2. \A q : Lifecycle(q)' = IF q = o THEN Lifecycle(q) \cup {"running"} ELSE Lifecycle(q)
        BY <2>1, <3>1, Recorded
      <3> QED BY <2>1, <3>2
    <2>3. asked[o] = 0
      BY <1>a, <2>1 DEF SentIsClaimed
    <2>4. Phase(o) = "idle" /\ Phase(o)' = "claimed"
      BY <2>1, <2>2, <2>3 DEF Phase, Answers, Failures, ProviderWide, Recoverable
    <2>5. phases' = [phases EXCEPT ![o] = "claimed"]
      BY <2>1, <2>2, <2>4, OnePhase
    <2> QED BY <2>4, <2>5 DEF Calls!Claim, phases
  <1>5. ASSUME NEW w \in Workers, Ask(w) PROVE \E o \in Requests : Calls!Send(o)
    <2>1. PICK q \in Requests :
             /\ q = req[w] /\ Lifecycle(q) = {"running"} /\ asked[q] = 0
             /\ asked' = [asked EXCEPT ![q] = asked[q] + 1] /\ ops' = ops
      BY <1>5, Claimed DEF Ask, Live, InCall
    <2>2. asked'[q] = 1 /\ \A o \in Requests \ {q} : asked'[o] = asked[o]
      BY <1>a, <2>1 DEF PipelineTypeOK
    <2>3. \A o : Lifecycle(o)' = Lifecycle(o)
      BY <2>1 DEF Lifecycle
    <2>4. Phase(q) = "claimed" /\ Phase(q)' = "sent"
      BY <2>1, <2>2, <2>3 DEF Phase, Answers, Failures, ProviderWide, Recoverable
    <2>5. phases' = [phases EXCEPT ![q] = "sent"]
      BY <2>2, <2>3, <2>4, OnePhase
    <2> QED BY <2>4, <2>5 DEF Calls!Send, phases
  <1>6. ASSUME NEW w \in Workers, AnswerSearch(w) \/ AnswerDetail(w)
        PROVE  \E o \in Requests : Calls!Settle(o)
    <2>1. PICK q \in Requests, result \in Answers :
             /\ q = req[w] /\ Lifecycle(q) = {"running"} /\ asked[q] = 1
             /\ asked' = asked /\ ops' = ops \cup {<<q, result>>}
      <3>1. ProviderWide \cup {"completed"} \subseteq Answers
        BY DEF Answers, Failures
      <3>2. \E result \in Answers : ops' = ops \cup {<<req[w], result>>}
        BY <1>6, <3>1 DEF AnswerSearch, AnswerDetail
      <3>3. /\ req[w] \in Requests /\ Lifecycle(req[w]) = {"running"} /\ asked[req[w]] = 1
            /\ asked' = asked
        BY <1>6, Claimed DEF AnswerSearch, AnswerDetail, Live, InCall
      <3> QED BY <3>2, <3>3
    <2>2. Lifecycle(q)' = {"running", result} /\ \A o \in Requests \ {q} : Lifecycle(o)' = Lifecycle(o)
      <3>1. result \in Statuses
        BY DEF Statuses
      <3>2. \A o : Lifecycle(o)' = IF o = q THEN Lifecycle(o) \cup {result} ELSE Lifecycle(o)
        BY <2>1, <3>1, Recorded
      <3> QED BY <2>1, <3>2
    <2>3. Phase(q) = "sent" /\ Phase(q)' \in {"refused", "settled"}
      <3>1. Phase(q) = "sent"
        BY <2>1 DEF Phase, Answers, Failures, ProviderWide, Recoverable
      <3>2. /\ asked'[q] = 1 /\ Lifecycle(q)' # {} /\ Lifecycle(q)' \cap Answers # {}
        BY <2>1, <2>2
      <3> QED BY <3>1, <3>2 DEF Phase
    <2>4. phases' = [phases EXCEPT ![q] = Phase(q)']
      BY <2>1, <2>2, OnePhase
    <2> QED BY <2>3, <2>4 DEF Calls!Settle, phases
  <1>9. ASSUME NEW w \in Workers, Interrupt(w) PROVE phases' = phases
    <2>1. PICK q \in Requests :
             /\ Lifecycle(q) = {"running"} /\ asked[q] \in {0, 1}
             /\ asked' = asked /\ ops' = ops \cup {<<q, "outcome_unknown">>}
      BY <1>9, <1>a, Claimed DEF Interrupt, Live, InCall, SentIsClaimed
    <2>2. /\ Lifecycle(q)' = {"running", "outcome_unknown"}
          /\ \A o \in Requests \ {q} : Lifecycle(o)' = Lifecycle(o)
      BY <2>1, Recorded DEF Statuses
    <2>3. Phase(q)' = Phase(q)
      BY <2>1, <2>2 DEF Phase, Answers, Failures, ProviderWide, Recoverable
    <2>4. \A o \in Requests : Phase(o)' = Phase(o)
      BY <2>1, <2>2, <2>3, SamePhase
    <2> QED BY <2>4 DEF phases
  <1>14. ASSUME Retry PROVE Calls!Reopen
    <2>1. /\ Retired # {} /\ ops' = {x \in ops : x[1] \notin Retired}
          /\ asked' = [o \in Requests |-> IF o \in Retired THEN 0 ELSE asked[o]]
      BY <1>14 DEF Retry, Reset
    <2>2. ASSUME NEW o \in Requests
          PROVE  Phase(o)' = IF o \in Retired THEN "idle" ELSE Phase(o)
      <3>1. CASE o \in Retired
        <4>1. Lifecycle(o)' = {} /\ asked'[o] = 0
          BY <2>1, <3>1 DEF Lifecycle
        <4> QED BY <3>1, <4>1 DEF Phase
      <3>2. CASE o \notin Retired
        <4>1. Lifecycle(o)' = Lifecycle(o) /\ asked'[o] = asked[o]
          BY <2>1, <3>2 DEF Lifecycle
        <4> QED BY <3>2, <4>1, SamePhase
      <3> QED BY <3>1, <3>2
    <2>3. \A o \in Requests : phases[o] = "refused" <=> o \in Retired
      BY Phases DEF phases
    <2>4. \E o \in Requests : phases[o] = "refused"
      BY <2>1, <2>3 DEF Retired
    <2>5. phases' = [o \in Requests |-> IF phases[o] = "refused" THEN "idle" ELSE phases[o]]
      BY <2>2, <2>3 DEF phases
    <2> QED BY <2>4, <2>5 DEF Calls!Reopen, phases
  <1>15. CASE UNCHANGED <<ops, asked>>
    BY <1>15, Quiet
  <1>16. CASE Next
    <2>1. ASSUME NEW w \in Workers, NEW o \in Requests, BeginInDoubt(w, o)
          PROVE UNCHANGED <<ops, asked>>
      BY <2>1 DEF BeginInDoubt
    <2>2. ASSUME NEW w \in Workers,
                 \/ Claim(w) \/ Start(w) \/ Skip(w) \/ Refuse(w) \/ Gather(w)
                 \/ Conclude(w) \/ Fenced(w) \/ Close(w) \/ Beat(w)
          PROVE UNCHANGED <<ops, asked>>
      BY <2>2 DEF Claim, Start, Skip, Refuse, Gather, Conclude, Fenced, Close, Beat
    <2>3. Crash \/ Lapse => UNCHANGED <<ops, asked>>
      BY DEF Crash, Lapse
    <2> QED BY <1>2, <1>3, <1>5, <1>6, <1>9, <1>14, <1>15, <1>16, <2>1, <2>2, <2>3
            DEF Next, Work, Calls!Next
  <1>17. CASE UNCHANGED vars
    BY <1>15, <1>17 DEF vars
  <1> QED BY <1>16, <1>17

\* The provider receives a request once for a claim on record, and again only
\* after its refusal was on record and the user has asked for a retry, whoever
\* crashes or is overtaken (_begin_operation, require_live_dispatch, the
\* retirement of _requeue_recoverable_tasks).
THEOREM CallsOnce == Spec => CallsAreMadeOnce
<1>1. Init => Calls!Init
  BY DEF Init, Calls!Init, Phase, Lifecycle
<1>2. IInv /\ [Next]_vars => [Calls!Next]_phases
  BY PhaseStep
<1>3. phases = [o \in Requests |-> Phase(o)]
  BY DEF phases
<1> QED BY <1>1, <1>2, <1>3, Invariance, PTL DEF Spec, CallsAreMadeOnce, Calls!Spec, phases
=============================================================================
