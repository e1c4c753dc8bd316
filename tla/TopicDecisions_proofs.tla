------------------------ MODULE TopicDecisions_proofs ------------------------
(***************************************************************************)
(* Theorems about TopicDecisions, for any notes, payloads, topics and      *)
(* policies and any bounds: what ingestion records, what a decision batch  *)
(* chooses, and what the evaluation of the decisions rests on.             *)
(***************************************************************************)
EXTENDS TopicDecisions, FiniteSetTheorems, WellFoundedInduction, TLAPS

USE DEF ingestionVars, brandVars, feedbackVars

----------------------------------------------------------------------------
(* Ingestion *)

IngestionTypeOK ==
    /\ content \in [Notes -> Nat] /\ runs \in Seq(Run)
    /\ capture \in Capture /\ previews \in Seq(Preview) /\ cuts \in 0..MaxCuts

\* No note is written by a run to come, and a completed run had no broken entry.
Written ==
    /\ \A n \in Notes : content[n] <= Len(runs)
    /\ \A k \in DOMAIN runs : runs[k].status = "completed" => WellFormed(runs[k].payload)

IngestionInv == IngestionTypeOK /\ Written /\ ReceiptsAreBacked

\* The notes of a payload without a broken entry are notes.
LEMMA PayloadNotes ==
    ASSUME NEW p \in Payloads, WellFormed(p)
    PROVE  /\ p # <<>> /\ Len(p) \in Nat
           /\ ToSet(p) \subseteq Notes
           /\ ToSet(SubSeq(p, 1, Len(p))) = ToSet(p)
<1>1. p \in Seq(Notes \cup {Broken}) /\ p # <<>>
  BY IngestionAssumption
<1>2. SubSeq(p, 1, Len(p)) = p /\ Len(p) \in Nat /\ DOMAIN p = 1..Len(p)
  BY <1>1
<1>3. ASSUME NEW i \in DOMAIN p PROVE p[i] \in Notes
  <2>1. p[i] \in Notes \cup {Broken}
    BY <1>1
  <2>2. p[i] \in ToSet(p)
    BY DEF ToSet
  <2> QED
    BY <2>1, <2>2 DEF WellFormed
<1> QED
  BY <1>1, <1>2, <1>3 DEF ToSet

\* What one run does to the rows it meets.
Grows ==
    /\ runs \in Seq(Run) /\ runs' \in Seq(Run)
    /\ Len(runs') >= Len(runs)
    /\ \A k \in DOMAIN runs : k \in DOMAIN runs' /\ runs'[k] = runs[k]
    /\ content' \in [Notes -> Nat]
    /\ \A n \in Notes : content'[n] >= content[n]

LEMMA IngestGrows ==
    ASSUME IngestionTypeOK, Written, NEW brand \in Brands, NEW p \in Payloads,
           NEW e \in Endings(p), Ingest(brand, p, e)
    PROVE  /\ Grows /\ Written'
           /\ Len(runs') = Len(runs) + 1
           /\ runs'[Len(runs')] = [brand |-> brand, payload |-> p, status |-> e.status]
           /\ e.status = "completed" =>
                 WellFormed(p) /\ \A n \in ToSet(p) : content'[n] = Len(runs')
<1> DEFINE run == [brand |-> brand, payload |-> p, status |-> e.status]
<1>1. /\ e.status \in {"running", "failed", "completed"}
      /\ e.status = "completed" => WellFormed(p) /\ e.stored = Len(p)
  BY DEF Endings
<1>2. run \in Run
  BY <1>1 DEF Run
<1>3. runs \in Seq(Run) /\ runs' = Append(runs, run) /\ Len(runs) \in Nat
  BY DEF IngestionTypeOK, Ingest
<1>4. /\ runs' \in Seq(Run) /\ Len(runs') = Len(runs) + 1
      /\ runs'[Len(runs')] = run
      /\ \A k \in DOMAIN runs : k \in DOMAIN runs' /\ runs'[k] = runs[k]
      /\ DOMAIN runs' = 1..Len(runs')
  BY <1>2, <1>3
<1>5. \A n \in Notes : content'[n] \in {content[n], Len(runs) + 1}
  BY DEF Ingest
<1>6. content' \in [Notes -> Nat]
  <2>1. content' = [n \in Notes |-> content'[n]]
    BY DEF Ingest
  <2>2. \A n \in Notes : content'[n] \in Nat
    BY <1>3, <1>5 DEF IngestionTypeOK
  <2> QED
    BY <2>1, <2>2
<1>7. Grows
  BY <1>3, <1>4, <1>5, <1>6 DEF Grows, Written, IngestionTypeOK
<1>8. Written'
  <2>1. \A n \in Notes : content'[n] <= Len(runs')
    BY <1>3, <1>4, <1>5 DEF Written, IngestionTypeOK
  <2>2. ASSUME NEW k \in DOMAIN runs', runs'[k].status = "completed"
        PROVE  WellFormed(runs'[k].payload)
    <3>1. CASE k = Len(runs')
      BY <1>1, <1>4, <2>2, <3>1
    <3>2. CASE k # Len(runs')
      <4>1. k \in DOMAIN runs
        BY <1>3, <1>4, <3>2
      <4> QED
        BY <1>4, <2>2, <4>1 DEF Written
    <3> QED
      BY <3>1, <3>2
  <2> QED
    BY <2>1, <2>2 DEF Written, WellFormed
<1>9. ASSUME e.status = "completed"
      PROVE  WellFormed(p) /\ \A n \in ToSet(p) : content'[n] = Len(runs')
  <2>1. WellFormed(p) /\ e.stored = Len(p)
    BY <1>1, <1>9
  <2>2. ToSet(p) \subseteq Notes /\ ToSet(SubSeq(p, 1, Len(p))) = ToSet(p)
    BY <2>1, PayloadNotes
  <2> QED
    BY <1>4, <2>1, <2>2 DEF Ingest
<1> QED
  BY <1>4, <1>6, <1>7, <1>8, <1>9

\* A receipt that is backed stays so.
LEMMA BackedStays ==
    ASSUME IngestionTypeOK, Written, Grows, NEW record, Backed(record)
    PROVE  Backed(record)'
<1>1. /\ record.receipt \in DOMAIN runs /\ runs[record.receipt].status = "completed"
      /\ runs[record.receipt].payload = record.payload
  BY DEF Backed
<1>2. record.receipt \in Nat /\ runs[record.receipt] \in Run
  BY <1>1 DEF Grows
<1>3. record.payload \in Payloads /\ WellFormed(record.payload)
  BY <1>1, <1>2 DEF Written, Run
<1>4. \A n \in ToSet(record.payload) : n \in Notes /\ content[n] \in Nat
  BY <1>3, PayloadNotes DEF IngestionTypeOK
<1>5. \A n \in ToSet(record.payload) : content'[n] \in Nat /\ content'[n] >= content[n]
  BY <1>4 DEF Grows
<1>6. \A n \in ToSet(record.payload) : content[n] >= record.receipt
  BY DEF Backed
<1>7. \A n \in ToSet(record.payload) : content'[n] >= record.receipt
  BY <1>2, <1>4, <1>5, <1>6
<1>8. record.receipt \in DOMAIN runs' /\ runs'[record.receipt] = runs[record.receipt]
  BY <1>1 DEF Grows
<1> QED
  BY <1>7, <1>8 DEF Backed

LEMMA RecordsStay ==
    ASSUME IngestionTypeOK, Written, Grows
    PROVE  \A record : Backed(record) => Backed(record)'
BY BackedStays

\* The run just made backs a receipt for its payload.
LEMMA NewReceipt ==
    ASSUME IngestionTypeOK, Written, NEW p \in Payloads, NEW e \in Endings(p),
           Ingest(Brand, p, e), e.status = "completed",
           NEW record, record.payload = p, record.receipt = Len(runs')
    PROVE  Backed(record)'
<1>1. /\ runs' \in Seq(Run) /\ Len(runs') = Len(runs) + 1
      /\ runs'[Len(runs')] = [brand |-> Brand, payload |-> p, status |-> e.status]
      /\ WellFormed(p) /\ \A n \in ToSet(p) : content'[n] = Len(runs')
      /\ Len(runs) \in Nat
  BY IngestGrows, IngestionAssumption DEF Grows, IngestionTypeOK
<1>2. record.receipt \in DOMAIN runs'
  BY <1>1
<1>3. \A n \in ToSet(p) : content'[n] >= record.receipt
  BY <1>1
<1> QED
  BY <1>1, <1>2, <1>3 DEF Backed

LEMMA SyncSteps ==
    ASSUME IngestionInv, NEW brand \in Brands, NEW p \in Payloads, CreateSourceSync(brand, p)
    PROVE  IngestionInv'
<1>1. PICK e \in Endings(p) : Ingest(brand, p, e) /\ Cut(~Undisturbed(p, e))
  BY DEF CreateSourceSync
<1>2. IngestionTypeOK /\ Written /\ ReceiptsAreBacked /\ UNCHANGED <<capture, previews>>
  BY DEF IngestionInv, CreateSourceSync
<1>3. Grows /\ Written'
  BY <1>1, <1>2, IngestGrows
<1>4. cuts' \in 0..MaxCuts
  BY <1>1, <1>2, IngestionAssumption DEF Cut, IngestionTypeOK
<1>5. IngestionTypeOK'
  BY <1>2, <1>3, <1>4 DEF IngestionTypeOK, Grows
<1>6. ReceiptsAreBacked'
  BY <1>2, <1>3, RecordsStay DEF ReceiptsAreBacked, Backed
<1> QED
  BY <1>3, <1>5, <1>6 DEF IngestionInv

LEMMA PreviewSteps ==
    ASSUME IngestionInv, NEW p \in Payloads, CreateDataImportPreview(p)
    PROVE  IngestionInv'
<1>1. IngestionTypeOK /\ Written /\ ReceiptsAreBacked /\ UNCHANGED capture
  BY DEF IngestionInv, CreateDataImportPreview
<1>2. ASSUME NEW preview \in Preview, previews' = Append(previews, preview), Grows, Written',
             preview.status = "accepted" => Backed(preview)', NEW isCut \in BOOLEAN, Cut(isCut)
      PROVE  IngestionInv'
  <2>1. /\ previews' \in Seq(Preview) /\ DOMAIN previews' = 1..(Len(previews) + 1)
        /\ previews'[Len(previews) + 1] = preview
        /\ \A i \in DOMAIN previews : previews'[i] = previews[i]
        /\ DOMAIN previews = 1..Len(previews) /\ Len(previews) \in Nat
    BY <1>1, <1>2 DEF IngestionTypeOK
  <2>2. cuts' \in 0..MaxCuts
    BY <1>1, <1>2, IngestionAssumption DEF Cut, IngestionTypeOK
  <2>3. IngestionTypeOK'
    BY <1>1, <1>2, <2>1, <2>2 DEF IngestionTypeOK, Grows
  <2>4. capture'.status = "accepted" => Backed(capture)'
    BY <1>1, <1>2, RecordsStay DEF ReceiptsAreBacked, Backed
  <2>5. ASSUME NEW i \in DOMAIN previews', previews'[i].status = "accepted"
        PROVE  Backed(previews[i])'
    <3>1. CASE i = Len(previews) + 1
      BY <1>2, <2>1, <2>5, <3>1 DEF Backed
    <3>2. CASE i # Len(previews) + 1
      <4>1. i \in DOMAIN previews
        BY <2>1, <3>2
      <4>2. Backed(previews[i])
        BY <1>1, <2>1, <2>5, <4>1 DEF ReceiptsAreBacked
      <4> QED
        BY <1>1, <1>2, <2>1, <4>1, <4>2, RecordsStay DEF Backed
    <3> QED
      BY <3>1, <3>2
  <2> QED
    BY <1>2, <2>3, <2>4, <2>5 DEF IngestionInv, ReceiptsAreBacked
<1>3. ASSUME NEW e \in Endings(p), NEW status \in {"parsed", "accepted", "failed"},
             Records(p, e, status, "parsed"), Ingest(Brand, p, e),
             previews' = Append(previews,
                 [status  |-> status, payload |-> p,
                  receipt |-> IF status = "accepted" THEN Len(runs') ELSE 0]),
             Cut(~(/\ Undisturbed(p, e)
                   /\ status = IF WellFormed(p) THEN "accepted" ELSE "failed"))
      PROVE  IngestionInv'
  <2>1. Grows /\ Written'
    BY <1>1, <1>3, IngestGrows, IngestionAssumption
  <2>2. Len(runs') \in Nat
    BY <2>1 DEF Grows
  <2>3. PICK preview : preview = [status  |-> status, payload |-> p,
                                  receipt |-> IF status = "accepted" THEN Len(runs') ELSE 0]
    OBVIOUS
  <2>4. preview \in Preview /\ previews' = Append(previews, preview)
    BY <1>3, <2>2, <2>3 DEF Preview
  <2>5. ASSUME preview.status = "accepted" PROVE Backed(preview)'
    <3>1. status = "accepted" /\ preview.payload = p /\ preview.receipt = Len(runs')
      BY <2>3, <2>5
    <3>2. e.status = "completed"
      BY <1>3, <3>1 DEF Records
    <3> QED
      BY <1>1, <1>3, <3>1, <3>2, NewReceipt
  <2> QED
    BY <1>2, <1>3, <2>1, <2>4, <2>5
<1>4. ASSUME NEW status \in {"parsed", "failed"},
             previews' = Append(previews, [status |-> status, payload |-> p, receipt |-> 0]),
             Cut(TRUE), UNCHANGED <<content, runs>>
      PROVE  IngestionInv'
  <2>1. [status |-> status, payload |-> p, receipt |-> 0] \in Preview
    BY DEF Preview
  <2>2. Grows /\ Written'
    BY <1>1, <1>4 DEF Grows, Written, IngestionTypeOK, WellFormed
  <2> QED
    BY <1>2, <1>4, <2>1, <2>2
<1> QED
  BY <1>3, <1>4 DEF CreateDataImportPreview

\* What remains to be shown of a step that saves the session.
LEMMA SessionSaved ==
    ASSUME IngestionInv, Grows, Written', capture' \in Capture, cuts' \in 0..MaxCuts,
           UNCHANGED previews,
           capture'.status = "accepted" => Backed(capture)'
    PROVE  IngestionInv'
<1>1. IngestionTypeOK /\ Written /\ ReceiptsAreBacked
  BY DEF IngestionInv
<1>2. IngestionTypeOK'
  BY <1>1 DEF IngestionTypeOK, Grows
<1>3. \A i \in DOMAIN previews' : previews'[i].status = "accepted" => Backed(previews[i])'
  BY <1>1, RecordsStay DEF ReceiptsAreBacked, Backed
<1> QED
  BY <1>2, <1>3 DEF IngestionInv, ReceiptsAreBacked

LEMMA NothingIngested ==
    ASSUME IngestionTypeOK, Written, UNCHANGED <<content, runs>>
    PROVE  Grows /\ Written'
BY DEF Grows, Written, IngestionTypeOK, WellFormed

LEMMA SubmitSteps ==
    ASSUME IngestionInv, NEW p \in Payloads, SubmitCapture(p)
    PROVE  IngestionInv'
<1>1. IngestionTypeOK /\ Written /\ UNCHANGED previews /\ capture \in Capture
  BY DEF IngestionInv, IngestionTypeOK, SubmitCapture
<1>2. CASE SubmitLate
  <2>1. capture' \in Capture /\ capture'.status = "expired" /\ cuts' \in 0..MaxCuts
    BY <1>1, <1>2 DEF SubmitLate, Capture, IngestionTypeOK
  <2>2. Grows /\ Written'
    BY <1>1, <1>2, NothingIngested DEF SubmitLate
  <2> QED
    BY <1>1, <2>1, <2>2, SessionSaved
<1>3. ASSUME NEW e \in Endings(p), NEW status \in {"syncing", "accepted", "failed"},
             Records(p, e, status, "syncing"), Ingest(Brand, p, e),
             capture' = [capture EXCEPT !.status = status, !.payload = p,
                    !.receipt = IF status = "accepted" THEN Len(runs') ELSE @],
             Cut(~(/\ Undisturbed(p, e)
                   /\ status = IF WellFormed(p) THEN "accepted" ELSE "failed"))
      PROVE  IngestionInv'
  <2>1. Grows /\ Written'
    BY <1>1, <1>3, IngestGrows, IngestionAssumption
  <2>2. Len(runs') \in Nat
    BY <2>1 DEF Grows
  <2>3. capture' \in Capture /\ capture'.status = status /\ capture'.payload = p
    BY <1>1, <1>3, <2>2 DEF Capture
  <2>4. cuts' \in 0..MaxCuts
    BY <1>1, <1>3, IngestionAssumption DEF Cut, IngestionTypeOK
  <2>5. ASSUME status = "accepted" PROVE Backed(capture)'
    <3>1. PICK record : record = capture'
      OBVIOUS
    <3>2. record.payload = p /\ record.receipt = Len(runs')
      BY <1>1, <1>3, <2>5, <3>1 DEF Capture
    <3>3. e.status = "completed"
      BY <1>3, <2>5 DEF Records
    <3>4. Backed(record)'
      BY <1>1, <1>3, <3>2, <3>3, NewReceipt
    <3> QED
      BY <3>1, <3>4 DEF Backed
  <2> QED
    BY <1>1, <2>1, <2>3, <2>4, <2>5, SessionSaved
<1>4. ASSUME NEW status \in {"syncing", "failed"},
             capture' = [capture EXCEPT !.status = status, !.payload = p],
             Cut(TRUE), UNCHANGED <<content, runs>>
      PROVE  IngestionInv'
  <2>1. capture' \in Capture /\ capture'.status = status
    BY <1>1, <1>4 DEF Capture
  <2>2. cuts' \in 0..MaxCuts
    BY <1>1, <1>4, IngestionAssumption DEF Cut, IngestionTypeOK
  <2>3. Grows /\ Written'
    BY <1>1, <1>4, NothingIngested
  <2> QED
    BY <1>1, <2>1, <2>2, <2>3, SessionSaved
<1> QED
  BY <1>2, <1>3, <1>4 DEF SubmitCapture, SubmitInTime

LEMMA IngestionSteps == ASSUME IngestionInv, IngestionNext PROVE IngestionInv'
<1>1. capture \in Capture /\ previews \in Seq(Preview) /\ IngestionTypeOK /\ Written
  BY DEF IngestionInv, IngestionTypeOK
<1>2. ASSUME NEW i \in DOMAIN previews, RetryDataImportSync(i) PROVE IngestionInv'
  <2>1. previews[i] \in Preview
    BY <1>1
  <2>2. previews[i].payload \in Payloads
    BY <2>1 DEF Preview
  <2> QED
    BY <1>2, <2>2, PreviewSteps DEF RetryDataImportSync
<1>3. CASE RetryCaptureSync
  <2>1. capture.payload \in Payloads
    BY <1>1, <1>3 DEF RetryCaptureSync, Capture
  <2> QED
    BY <1>3, <2>1, SubmitSteps DEF RetryCaptureSync
<1>4. CASE CreateCaptureSession
  <2>1. capture' \in Capture /\ capture'.status = "pending_capture" /\ cuts' \in 0..MaxCuts
    BY <1>1, <1>4 DEF CreateCaptureSession, Capture, IngestionTypeOK
  <2> QED
    BY <1>1, <1>4, <2>1, NothingIngested, SessionSaved DEF CreateCaptureSession
<1>5. CASE GetCaptureSession
  <2>1. capture' \in Capture /\ capture'.status = "expired" /\ cuts' \in 0..MaxCuts
    BY <1>1, <1>5 DEF GetCaptureSession, Capture, IngestionTypeOK
  <2> QED
    BY <1>1, <1>5, <2>1, NothingIngested, SessionSaved DEF GetCaptureSession
<1> QED
  BY <1>2, <1>3, <1>4, <1>5, SyncSteps, PreviewSteps, SubmitSteps DEF IngestionNext

LEMMA IngestionInit == InitIngestion => IngestionInv
<1> SUFFICES ASSUME InitIngestion PROVE IngestionInv
  OBVIOUS
<1>1. IngestionTypeOK
  BY IngestionAssumption DEF InitIngestion, IngestionTypeOK, Capture
<1>2. Written /\ ReceiptsAreBacked
  BY DEF InitIngestion, Written, ReceiptsAreBacked
<1> QED
  BY <1>1, <1>2 DEF IngestionInv

----------------------------------------------------------------------------
(* The pool *)

\* The pool has a value for every topic, and no score knows more than was
\* imported.
PoolOK(p) == /\ p \in [Items -> PoolItem]
             /\ \A i \in Items : p[i].known <= Len(snapshots)
Imported == snapshots \in Seq(Nat) /\ Len(snapshots) <= MaxSnapshots

LEMMA LeastScore == Min(Scores) \in Scores
<1>1. Scores \subseteq Nat /\ Scores # {}
  BY DecisionsAssumption
<1>2. PICK x \in Scores : \A y \in Scores : <<y, x>> \notin OpToRel(<, Nat)
  BY <1>1, NatLessThanWellFounded, WFMin
<1>3. \A y \in Scores : ~(y < x)
  BY <1>1, <1>2 DEF OpToRel
<1>4. \A y \in Scores : x =< y
  BY <1>1, <1>3
<1> QED
  BY <1>4 DEF Min

LEMMA KnownNow == ASSUME Imported PROVE Len(snapshots) \in Never..MaxSnapshots /\ Len(snapshots) \in Nat
BY DecisionsAssumption DEF Imported, Never

LEMMA RescoredOK ==
    ASSUME Imported, NEW p, PoolOK(p), NEW S, NEW score \in [S -> Scores]
    PROVE  PoolOK(Rescored(p, S, score))
BY KnownNow DEF Rescored, PoolOK, PoolItem

LEMMA ProposedOK == ASSUME Imported, PoolOK(pool), NEW S PROVE PoolOK(Proposed(S))
<1>1. Never \in Never..MaxSnapshots /\ Never <= Len(snapshots)
  BY KnownNow, DecisionsAssumption DEF Never
<1> QED
  BY <1>1, LeastScore DEF Proposed, PoolOK, PoolItem

LEMMA ArchivedOK == ASSUME NEW p, PoolOK(p), NEW S PROVE PoolOK(Archived(p, S))
BY DEF Archived, PoolOK, PoolItem

LEMMA FreshOK ==
    ASSUME Imported, NEW p, PoolOK(p), EnsureFresh(p), UNCHANGED snapshots
    PROVE  PoolOK(pool)'
<1>1. PICK S \in SUBSET Stale(p) : \E score \in [S -> Scores] : pool' = Rescored(p, S, score)
  BY DEF EnsureFresh
<1>2. PICK score \in [S -> Scores] : pool' = Rescored(p, S, score)
  BY <1>1
<1>3. PoolOK(Rescored(p, S, score))
  BY RescoredOK
<1> QED
  BY <1>2, <1>3 DEF PoolOK

LEMMA PoolSteps ==
    ASSUME Imported, PoolOK(pool), Next, UNCHANGED snapshots
    PROVE  PoolOK(pool)'
<1>1. CASE UNCHANGED pool
  BY <1>1 DEF PoolOK
<1>2. ASSUME NEW span, Elapse(span) PROVE PoolOK(pool)'
  <2>1. pool' \in [Items -> PoolItem]
    BY <1>2 DEF Elapse, PoolOK, PoolItem
  <2>2. \A i \in Items : pool'[i].known = pool[i].known
    BY <1>2 DEF Elapse, PoolOK, PoolItem
  <2> QED
    BY <2>1, <2>2 DEF PoolOK
<1>3. CASE ListTopicPool
  BY <1>3, FreshOK DEF ListTopicPool
<1>4. CASE RefreshTopicPool
  <2>1. PICK S \in Proposals :
          \/ \E T \in SUBSET S : pool' = Proposed(T)
          \/ \E T \in SUBSET Forgotten(Proposed(S)) : pool' = Archived(Proposed(S), T)
          \/ EnsureFresh(Archived(Proposed(S), Forgotten(Proposed(S))))
    BY <1>4 DEF RefreshTopicPool
  <2>2. CASE \E T \in SUBSET S : pool' = Proposed(T)
    <3>1. PICK T \in SUBSET S : pool' = Proposed(T)
      BY <2>2
    <3>2. PoolOK(Proposed(T))
      BY ProposedOK
    <3> QED
      BY <3>1, <3>2 DEF PoolOK
  <2>3. CASE \E T \in SUBSET Forgotten(Proposed(S)) : pool' = Archived(Proposed(S), T)
    <3>1. PICK T \in SUBSET Forgotten(Proposed(S)) : pool' = Archived(Proposed(S), T)
      BY <2>3
    <3>2. PoolOK(Archived(Proposed(S), T))
      BY ProposedOK, ArchivedOK
    <3> QED
      BY <3>1, <3>2 DEF PoolOK
  <2>4. CASE EnsureFresh(Archived(Proposed(S), Forgotten(Proposed(S))))
    BY <2>4, ProposedOK, ArchivedOK, FreshOK
  <2> QED
    BY <2>1, <2>2, <2>3, <2>4
<1>5. ASSUME NEW n, RunDecisionBatch(n) PROVE PoolOK(pool)'
  <2>1. PICK score \in [Stale(pool) -> Scores] : pool' = Rescored(pool, Stale(pool), score)
    BY <1>5 DEF RunDecisionBatch
  <2>2. PoolOK(Rescored(pool, Stale(pool), score))
    BY RescoredOK
  <2> QED
    BY <2>1, <2>2 DEF PoolOK
<1> QED
  BY <1>1, <1>2, <1>3, <1>4, <1>5 DEF Next, ReplaceActivePolicy, CreateStateSnapshot,
     CreatePublishRecord, ImportPerformance, CreateEvaluationRun

----------------------------------------------------------------------------
(* Counting and ordering *)

\* Induction up to n.
LEMMA UpTo ==
    ASSUME NEW n \in Nat, NEW S, 0 \in S, \A k \in 0..(n - 1) : k \in S => k + 1 \in S
    PROVE  \A k \in 0..n : k \in S
<1> DEFINE T == (0..n) \ S
<1>1. T \subseteq Nat
  OBVIOUS
<1>2. ASSUME T # {} PROVE FALSE
  <2> HIDE DEF T
  <2>1. PICK x \in T : \A y \in T : <<y, x>> \notin OpToRel(<, Nat)
    BY <1>1, <1>2, NatLessThanWellFounded, WFMin
  <2>2. \A y \in T : ~(y < x)
    BY <1>1, <2>1 DEF OpToRel
  <2>3. x \in 0..n /\ x # 0 /\ x - 1 \in 0..(n - 1) /\ x - 1 < x
    BY DEF T
  <2>4. x - 1 \in S
    BY <2>2, <2>3 DEF T
  <2> QED
    BY <2>3, <2>4 DEF T
<1> QED
  BY <1>2

\* A loop of n steps has a course.
Courses(n, V, base, step) ==
    {f \in [0..n -> V] : f[0] = base /\ \A k \in 1..n : f[k] = step[<<k, f[k - 1]>>]}

LEMMA LoopRuns ==
    ASSUME NEW n \in Nat, NEW V, NEW base \in V, NEW step \in [(1..n) \X V -> V]
    PROVE  Courses(n, V, base, step) # {}
<1> DEFINE Course(m, f) == f[0] = base /\ \A k \in 1..m : f[k] = step[<<k, f[k - 1]>>]
           S == {m \in 0..n : \E f \in [0..m -> V] : Course(m, f)}
<1>1. 0 \in S
  <2> DEFINE g == [k \in 0..0 |-> base]
  <2>1. g \in [0..0 -> V] /\ Course(0, g)
    OBVIOUS
  <2> HIDE DEF g, Course
  <2> QED
    BY <2>1
<1>2. ASSUME NEW m \in 0..(n - 1), m \in S PROVE m + 1 \in S
  <2>1. PICK f \in [0..m -> V] : Course(m, f)
    BY <1>2
  <2> DEFINE g == [k \in 0..(m + 1) |-> IF k = m + 1 THEN step[<<m + 1, f[m]>>] ELSE f[k]]
  <2>2. f[m] \in V /\ m + 1 \in 1..n
    BY <2>1
  <2>3. g \in [0..(m + 1) -> V]
    BY <2>1, <2>2
  <2>4. g[0] = base
    BY <2>1
  <2>5. ASSUME NEW k \in 1..(m + 1) PROVE g[k] = step[<<k, g[k - 1]>>]
    <3>1. CASE k = m + 1
      <4>1. k \in 0..(m + 1) /\ k - 1 \in 0..(m + 1) /\ k - 1 = m /\ m # m + 1
        BY <3>1
      <4>2. g[k] = step[<<m + 1, f[m]>>] /\ g[k - 1] = f[m]
        BY <3>1, <4>1
      <4> QED
        BY <3>1, <4>2
    <3>2. CASE k # m + 1
      <4>1. k \in 1..m /\ k - 1 \in 0..m
        BY <3>2
      <4> QED
        BY <2>1, <4>1
    <3> QED
      BY <3>1, <3>2
  <2>6. Course(m + 1, g)
    BY <2>4, <2>5
  <2> HIDE DEF g, Course
  <2> QED
    BY <2>2, <2>3, <2>6
<1>3. n \in S
  <2> HIDE DEF S
  <2> QED
    BY <1>1, <1>2, UpTo
<1> QED
  BY <1>3 DEF Courses

TotalOrder(S, before) ==
    /\ \A x \in S : <<x, x>> \notin before
    /\ \A x, y, z \in S : <<x, y>> \in before /\ <<y, z>> \in before => <<x, z>> \in before
    /\ \A x, y \in S : x = y \/ <<x, y>> \in before \/ <<y, x>> \in before

\* The elements of a set that have e others before them.
Later(S, before, e) == {x \in S : Cardinality({y \in S : <<y, x>> \in before}) >= e}

\* They are all but e.
LEMMA LastOfOrder ==
    ASSUME NEW S, IsFiniteSet(S), NEW before, TotalOrder(S, before),
           NEW e \in Int, e <= Cardinality(S), NEW K, K = Later(S, before, e)
    PROVE  /\ e <= 0 => K = S
           /\ e > 0 => Cardinality(K) = Cardinality(S) - e
           /\ \A x, y \in S : x \notin K /\ <<y, x>> \in before => y \notin K
<1> DEFINE n == Cardinality(S)
           Below(x) == {y \in S : <<y, x>> \in before}
           place == [x \in S |-> Cardinality(Below(x)) + 1]
<1>1. n \in Nat /\ IsFiniteSet(1..n) /\ Cardinality(1..n) = n
  BY FS_CardinalityType, FS_Interval
<1>2. ASSUME NEW x \in S
      PROVE  IsFiniteSet(Below(x)) /\ Cardinality(Below(x)) \in Nat /\ Cardinality(Below(x)) < n
  <2>1. Below(x) \in SUBSET S /\ x \notin Below(x)
    BY DEF TotalOrder
  <2>2. IsFiniteSet(Below(x)) /\ Cardinality(Below(x)) <= n /\ (n = Cardinality(Below(x)) => S = Below(x))
    BY <2>1, FS_Subset
  <2>3. Cardinality(Below(x)) \in Nat
    BY <2>2, FS_CardinalityType
  <2> QED
    BY <1>1, <2>1, <2>2, <2>3
<1>3. ASSUME NEW x \in S, NEW y \in S, <<x, y>> \in before PROVE place[x] < place[y]
  <2>1. Below(x) \in SUBSET Below(y) /\ x \in Below(y) /\ x \notin Below(x)
    BY <1>3 DEF TotalOrder
  <2>2. Cardinality(Below(x)) <= Cardinality(Below(y)) /\ Cardinality(Below(x)) # Cardinality(Below(y))
    BY <1>2, <2>1, FS_Subset
  <2>3. Cardinality(Below(x)) \in Nat /\ Cardinality(Below(y)) \in Nat
    BY <1>2
  <2>4. place[x] = Cardinality(Below(x)) + 1 /\ place[y] = Cardinality(Below(y)) + 1
    OBVIOUS
  <2> HIDE DEF place, Below
  <2> QED
    BY <2>2, <2>3, <2>4
<1>4. place \in Injection(S, 1..n)
  <2>1. place \in [S -> 1..n]
    <3>1. \A x \in S : Cardinality(Below(x)) + 1 \in 1..n
      <4> HIDE DEF n, Below
      <4> QED
        BY <1>1, <1>2
    <3> HIDE DEF n, Below
    <3> QED
      BY <3>1
  <2>2. ASSUME NEW x \in S, NEW y \in S, place[x] = place[y] PROVE x = y
    <3>1. place[x] \in 1..n /\ place[y] \in 1..n
      BY <2>1
    <3> HIDE DEF place, n, Below
    <3>2. ~(place[x] < place[y]) /\ ~(place[y] < place[x])
      BY <2>2, <3>1
    <3> QED
      BY <1>3, <3>2 DEF TotalOrder
  <2> QED
    BY <2>1, <2>2 DEF Injection, IsInjective
<1>5. place \in Surjection(S, 1..n)
  BY <1>1, <1>4, FS_Injection
<1>6. /\ \A x \in S : place[x] \in 1..n
      /\ \A x, y \in S : place[x] = place[y] => x = y
      /\ \A k \in 1..n : \E x \in S : place[x] = k
  <2> HIDE DEF place, n
  <2> QED
    BY <1>4, <1>5 DEF Injection, IsInjective, Surjection
<1>7. K \subseteq S /\ \A x \in S : x \in K <=> place[x] > e
  <2>1. \A x \in S : place[x] = Cardinality(Below(x)) + 1 /\ Cardinality(Below(x)) \in Nat
    BY <1>2
  <2>2. K = {x \in S : Cardinality(Below(x)) >= e}
    BY DEF Later
  <2> HIDE DEF place, Below
  <2> QED
    BY <2>1, <2>2
<1> HIDE DEF place, n
<1>8. ASSUME e <= 0 PROVE K = S
  BY <1>1, <1>6, <1>7, <1>8
<1>9. ASSUME e > 0 PROVE Cardinality(K) = n - e
  <2> DEFINE I == (e + 1)..n
             f == [x \in K |-> place[x]]
  <2>1. IsFiniteSet(I) /\ Cardinality(I) = n - e
    BY <1>1, <1>9, FS_Interval DEF n
  <2>2. IsFiniteSet(K)
    BY <1>7, FS_Subset
  <2>3. \A k \in I : k \in 1..n /\ k > e
    BY <1>1, <1>9
  <2>4. \A x \in K : place[x] \in I
    BY <1>1, <1>6, <1>7
  <2> HIDE DEF I
  <2>5. f \in [K -> I] /\ \A x, y \in K : f[x] = f[y] => x = y
    BY <1>6, <1>7, <2>4
  <2>6. \A k \in I : \E x \in K : f[x] = k
    BY <1>6, <1>7, <2>3
  <2>7. f \in Bijection(K, I)
    <3> HIDE DEF f
    <3> QED
      BY <2>5, <2>6 DEF Bijection, Injection, Surjection, IsInjective
  <2> HIDE DEF f
  <2> QED
    BY <2>1, <2>2, <2>7, FS_Bijection DEF ExistsBijection
<1>10. ASSUME NEW x \in S, NEW y \in S, x \notin K, <<y, x>> \in before PROVE y \notin K
  BY <1>1, <1>3, <1>6, <1>7, <1>10
<1> QED
  BY <1>8, <1>9, <1>10 DEF n

----------------------------------------------------------------------------
(* The quotas *)

LEMMA Division ==
    ASSUME NEW a \in Nat, NEW d \in Nat \ {0}, NEW c \in Nat
    PROVE  /\ a \div d \in Nat
           /\ c * d <= a <=> c <= a \div d
<1> DEFINE q == a \div d
<1>1. q \in Nat /\ q * d <= a /\ a < (q + 1) * d
  OBVIOUS
<1> HIDE DEF q
<1>2. ASSUME c <= q PROVE c * d <= a
  <2>1. PICK e \in Nat : q = c + e
    <3>1. q - c \in Nat /\ q = c + (q - c)
      BY <1>1, <1>2
    <3> QED
      BY <3>1
  <2>2. q * d = c * d + e * d /\ e * d \in Nat /\ c * d \in Nat
    BY <2>1
  <2> QED
    BY <1>1, <2>2
<1>3. ASSUME q < c PROVE a < c * d
  <2>1. PICK e \in Nat : c = (q + 1) + e
    <3>1. c - (q + 1) \in Nat /\ c = (q + 1) + (c - (q + 1))
      BY <1>1, <1>3
    <3> QED
      BY <3>1
  <2>2. c * d = (q + 1) * d + e * d /\ e * d \in Nat /\ (q + 1) * d \in Nat
    BY <1>1, <2>1
  <2> QED
    BY <1>1, <2>2
<1>4. c * d \in Nat
  OBVIOUS
<1> QED
  BY <1>1, <1>2, <1>3, <1>4 DEF q

\* Rounding keeps to the side of every number on record.
LEMMA RoundedWorks ==
    ASSUME NEW x \in Nat
    PROVE  /\ Rounded(x) \in Floats /\ Rounded(x) \in Nat
           /\ \A s \in Floats : /\ s \in Nat
                                /\ s <= x => s <= Rounded(x)
                                /\ x <= s => Rounded(x) <= s
<1>1. Floats \subseteq Nat /\ Unit \in Floats
  BY SelectionAssumption
<1>2. CASE x \in Floats
  BY <1>1, <1>2 DEF Rounded
<1>3. CASE x \notin Floats
  <2> DEFINE r == CHOOSE r \in Floats : \A s \in Floats : Distance(x, r) <= Distance(x, s)
             D == {Distance(x, s) : s \in Floats}
  <2>1. D \subseteq Nat /\ D # {}
    <3>1. \A s \in Floats : Distance(x, s) \in Nat
      BY <1>1 DEF Distance
    <3>2. D \subseteq Nat
      BY <3>1
    <3>3. Distance(x, Unit) \in D
      BY <1>1
    <3> QED
      BY <3>2, <3>3
  <2>2. PICK m \in D : \A y \in D : <<y, m>> \notin OpToRel(<, Nat)
    <3> HIDE DEF D
    <3> QED
      BY <2>1, NatLessThanWellFounded, WFMin
  <2>3. \A y \in D : m <= y
    <3> HIDE DEF D
    <3>1. \A y \in D : ~(y < m)
      BY <2>1, <2>2 DEF OpToRel
    <3> QED
      BY <2>1, <3>1
  <2>4. PICK w \in Floats : m = Distance(x, w)
    BY <2>2
  <2>5. \A s \in Floats : Distance(x, w) <= Distance(x, s)
    BY <2>3, <2>4
  <2>6. r \in Floats /\ \A s \in Floats : Distance(x, r) <= Distance(x, s)
    BY <2>5
  <2>7. Rounded(x) = r
    BY <1>3 DEF Rounded
  <2> HIDE DEF r
  <2>8. ASSUME NEW s \in Floats PROVE (s <= x => s <= r) /\ (x <= s => r <= s)
    <3>1. s \in Nat /\ r \in Nat /\ s # x /\ r # x /\ Distance(x, r) <= Distance(x, s)
      BY <1>1, <1>3, <2>6
    <3> QED
      BY <3>1 DEF Distance
  <2> QED
    BY <1>1, <2>6, <2>7, <2>8
<1> QED
  BY <1>2, <1>3

\* The slots of an entry are what its ratios say of whole numbers, as the
\* products come out in floating point: MinSlots is the least number not below
\* the minimum, MaxSlots the greatest not above the maximum
\* (_build_constraint_plan).  The number of slots itself is not rounded.
THEOREM SlotBounds ==
    ASSUME NEW t \in Target, NEW n \in Nat \ {0}, n * Unit \in Floats
    PROVE  /\ MinSlots(t, n) \in 0..n /\ MaxSlots(t, n) \in Nat
           /\ Guarantee(t, n) \in 0..n
           /\ Guarantee(t, n) <= MinSlots(t, n) /\ Guarantee(t, n) <= MaxSlots(t, n)
           /\ Guarantee(t, n) = MinSlots(t, n) \/ Guarantee(t, n) = MaxSlots(t, n)
           /\ \A c \in Nat : c * Unit >= Rounded(t.min * n) <=> c >= MinSlots(t, n)
           /\ \A c \in Nat : c * Unit <= Rounded(t.max * n) <=> c <= MaxSlots(t, n)
<1>1. /\ Unit \in Nat \ {0} /\ t.min \in 0..Unit /\ t.min \in Floats /\ t.min \in Nat
      /\ t.max \in Nat /\ t.min * n \in Nat /\ t.max * n \in Nat
  <2>1. /\ Unit \in Nat \ {0} /\ t.min \in 0..Unit /\ t.min \in Floats /\ t.min \in Nat
        /\ t.max \in Nat
    BY SelectionAssumption DEF Target
  <2> QED
    BY <2>1
<1> DEFINE low == Rounded(t.min * n)
           high == Rounded(t.max * n)
           a == low + Unit - 1
           least == a \div Unit
<1>2. low \in Nat /\ high \in Nat
  BY <1>1, RoundedWorks
<1>3. low <= n * Unit
  <2>1. PICK e \in Nat : Unit = t.min + e
    <3>1. Unit - t.min \in Nat /\ Unit = t.min + (Unit - t.min)
      BY <1>1
    <3> QED
      BY <3>1
  <2>2. n * Unit = t.min * n + e * n /\ e * n \in Nat
    BY <1>1, <2>1
  <2>3. t.min * n <= n * Unit
    BY <1>1, <2>2
  <2> QED
    BY <1>1, <2>3, RoundedWorks
<1>4. t.min > 0 => low > 0
  <2>1. PICK e \in Nat : n = 1 + e
    <3>1. n - 1 \in Nat /\ n = 1 + (n - 1)
      OBVIOUS
    <3> QED
      BY <3>1
  <2>2. t.min * n = t.min + t.min * e /\ t.min * e \in Nat
    <3> DEFINE x == t.min
    <3>1. x \in Nat
      BY <1>1
    <3> HIDE DEF x
    <3>2. x * (1 + e) = x + x * e /\ x * e \in Nat
      BY <3>1
    <3> QED
      BY <2>1, <3>2 DEF x
  <2>3. t.min <= t.min * n
    BY <1>1, <2>2
  <2>4. t.min <= low
    BY <1>1, <2>3, RoundedWorks
  <2> HIDE DEF low
  <2> QED
    BY <1>1, <1>2, <2>4
<1>5. MaxSlots(t, n) = high \div Unit
  BY DEF MaxSlots
<1>6. MaxSlots(t, n) \in Nat /\ \A c \in Nat : c * Unit <= high <=> c <= MaxSlots(t, n)
  <2> HIDE DEF high
  <2> QED
    BY <1>1, <1>2, <1>5, Division
<1>7. a \in Nat
  <2> HIDE DEF low
  <2> QED
    BY <1>1, <1>2
<1>8. least \in Nat /\ \A c \in Nat : c * Unit <= a <=> c <= least
  <2> HIDE DEF a
  <2> QED
    BY <1>1, <1>7, Division
<1> HIDE DEF low, high
<1>9. ASSUME NEW c \in Nat PROVE c * Unit >= low <=> c >= least
  <2>1. (c + 1) * Unit = c * Unit + Unit /\ c * Unit \in Nat /\ c + 1 \in Nat
    BY <1>1
  <2>2. (c + 1) * Unit <= a <=> c + 1 <= least
    BY <1>8, <2>1
  <2> HIDE DEF least
  <2> QED
    BY <1>1, <1>2, <1>8, <2>1, <2>2
<1>10. least <= n
  <2> HIDE DEF least
  <2> QED
    BY <1>3, <1>8, <1>9
<1>11. t.min > 0 => least >= 1
  <2>1. least = 0 => 0 * Unit >= low
    BY <1>9, <1>8
  <2>2. 0 * Unit = 0
    BY <1>1
  <2> HIDE DEF least
  <2> QED
    BY <1>2, <1>4, <1>8, <2>1, <2>2
<1>12. MinSlots(t, n) = least
  <2>1. MinSlots(t, n) = IF t.min > 0 THEN Max({1, least}) ELSE least
    BY DEF MinSlots, low
  <2> HIDE DEF least
  <2>2. t.min > 0 => Max({1, least}) = least
    BY <1>8, <1>11 DEF Max
  <2> QED
    BY <2>1, <2>2
<1> HIDE DEF least
<1>13. /\ Guarantee(t, n) \in {MinSlots(t, n), MaxSlots(t, n)}
       /\ Guarantee(t, n) <= MinSlots(t, n) /\ Guarantee(t, n) <= MaxSlots(t, n)
  <2> DEFINE S == {MinSlots(t, n), MaxSlots(t, n)}
  <2>1. \E x \in S : \A y \in S : x <= y
    BY <1>6, <1>8, <1>12
  <2>2. Min(S) \in S /\ \A y \in S : Min(S) <= y
    BY <2>1 DEF Min
  <2> QED
    BY <2>2 DEF Guarantee
<1> QED
  BY <1>6, <1>8, <1>9, <1>10, <1>12, <1>13 DEF low, high

\* What is asked of a policy and of the slots of a batch.
Planned(targets, n) == Valid(targets) /\ n \in Nat \ {0} /\ n * Unit \in Floats

LEMMA TargetsFinite ==
    ASSUME NEW targets, Valid(targets)
    PROVE  /\ DOMAIN targets = 1..Len(targets) /\ Len(targets) \in Nat
           /\ ToSet(targets) \subseteq Target /\ \A t \in ToSet(targets) : t.type \in Named(targets)
           /\ IsFiniteSet(Named(targets)) /\ Named(targets) \subseteq Types
           /\ \A type : IsFiniteSet(Entries(targets, type))
<1>1. targets \in Seq(Target) /\ DOMAIN targets = 1..Len(targets) /\ Len(targets) \in Nat
  <2>1. targets \in Seq(Target)
    BY DEF Valid
  <2> QED
    BY <2>1
<1>2. IsFiniteSet(1..Len(targets))
  BY <1>1, FS_Interval
<1>3. IsFiniteSet(ToSet(targets))
  <2>1. targets \in Surjection(1..Len(targets), ToSet(targets))
    BY <1>1 DEF Surjection, ToSet
  <2> QED
    BY <1>2, <2>1, FS_Surjection
<1>4. IsFiniteSet(Named(targets))
  <2> DEFINE f == [t \in ToSet(targets) |-> t.type]
  <2>1. f \in Surjection(ToSet(targets), Named(targets))
    BY DEF Surjection, Named
  <2> QED
    BY <1>3, <2>1, FS_Surjection
<1>5. ToSet(targets) \subseteq Target
  BY <1>1 DEF ToSet
<1>6. Named(targets) \subseteq Types
  BY <1>5 DEF Named, Target
<1>7. \A type : Entries(targets, type) \in SUBSET (1..Len(targets))
  BY <1>1 DEF Entries
<1>8. \A type : IsFiniteSet(Entries(targets, type))
  BY <1>2, <1>7, FS_Subset
<1> QED
  BY <1>1, <1>4, <1>5, <1>6, <1>8 DEF Named

\* The last entry of a type and the one that leads it are entries of the type.
LEMMA EntryOfType ==
    ASSUME NEW targets, Valid(targets), NEW type \in Named(targets)
    PROVE  /\ Entries(targets, type) # {}
           /\ LastEntry(targets, type) \in ToSet(targets) /\ LastEntry(targets, type).type = type
           /\ Lead(targets, type) \in ToSet(targets) /\ Lead(targets, type).type = type
<1> DEFINE N == Len(targets)
           I == Entries(targets, type)
           E == {t \in ToSet(targets) : t.type = type}
<1>1. DOMAIN targets = 1..N /\ N \in Nat /\ ToSet(targets) \subseteq Target
  BY TargetsFinite
<1>2. I \subseteq 1..N /\ I # {} /\ E # {} /\ E \subseteq Target
  BY <1>1 DEF Named, Entries, ToSet
<1>3. Max(I) \in I
  <2> DEFINE T == {N - i : i \in I}
  <2> HIDE DEF I
  <2>1. T \subseteq Nat /\ T # {}
    <3>1. \A i \in 1..N : N - i \in Nat
      BY <1>1
    <3> HIDE DEF N
    <3> QED
      BY <1>2, <3>1
  <2>2. PICK m \in T : \A y \in T : <<y, m>> \notin OpToRel(<, Nat)
    <3> HIDE DEF T
    <3> QED
      BY <2>1, NatLessThanWellFounded, WFMin
  <2>3. \A y \in T : ~(y < m)
    BY <2>1, <2>2 DEF OpToRel
  <2>4. PICK i \in I : m = N - i
    BY <2>2
  <2>5. \A j \in I : N - j \in T /\ j \in 1..N
    BY <1>2
  <2>6. i \in 1..N
    BY <1>2
  <2> HIDE DEF T
  <2>7. \A j \in I : i >= j
    BY <1>1, <2>3, <2>4, <2>5, <2>6
  <2> QED
    BY <2>7 DEF Max
<1>4. LastEntry(targets, type) \in ToSet(targets) /\ LastEntry(targets, type).type = type
  BY <1>3 DEF LastEntry, Entries, ToSet
<1>5. PICK b \in E : \A u \in E : b.boost <= u.boost
  <2> DEFINE B == {t.boost : t \in E}
  <2>1. B \subseteq Nat /\ B # {}
    BY <1>2 DEF Target
  <2>2. PICK m \in B : \A y \in B : <<y, m>> \notin OpToRel(<, Nat)
    <3> HIDE DEF B
    <3> QED
      BY <2>1, NatLessThanWellFounded, WFMin
  <2>3. \A y \in B : m <= y
    <3> HIDE DEF B
    <3>1. \A y \in B : ~(y < m)
      BY <2>1, <2>2 DEF OpToRel
    <3> QED
      BY <2>1, <3>1
  <2> QED
    BY <2>2, <2>3
<1> DEFINE F == {t \in E : t.boost = b.boost}
<1>6. PICK l \in F : \A u \in F : l.min <= u.min
  <2> DEFINE B == {t.min : t \in F}
  <2>1. B \subseteq Nat /\ B # {}
    <3>1. \A t \in Target : t.min \in Nat
      BY SelectionAssumption DEF Target
    <3> QED
      BY <1>2, <3>1
  <2>2. PICK m \in B : \A y \in B : <<y, m>> \notin OpToRel(<, Nat)
    <3> HIDE DEF B
    <3> QED
      BY <2>1, NatLessThanWellFounded, WFMin
  <2>3. \A y \in B : m <= y
    <3> HIDE DEF B
    <3>1. \A y \in B : ~(y < m)
      BY <2>1, <2>2 DEF OpToRel
    <3> QED
      BY <2>1, <3>1
  <2> QED
    BY <2>2, <2>3
<1>7. ASSUME NEW u \in ToSet(targets), u.type = type PROVE ~TrimsBefore(u, l)
  <2>1. u \in E /\ l \in E /\ l.boost = b.boost /\ l.type = type
    BY <1>7
  <2>2. /\ l.boost \in Nat /\ u.boost \in Nat /\ l.min \in Nat /\ u.min \in Nat /\ type \in Nat
    <3>1. \A t \in Target : t.min \in Nat /\ t.boost \in Nat /\ t.type \in Nat
      BY SelectionAssumption DEF Target
    <3> QED
      BY <1>2, <2>1, <3>1
  <2>3. l.boost <= u.boost
    BY <1>5, <2>1
  <2>4. u.boost = l.boost => l.min <= u.min
    BY <1>6, <2>1
  <2> HIDE DEF E, F
  <2> QED
    BY <1>7, <2>1, <2>2, <2>3, <2>4 DEF TrimsBefore
<1>8. l \in ToSet(targets) /\ l.type = type
  OBVIOUS
<1> HIDE DEF F, E, I
<1>9. Lead(targets, type) \in ToSet(targets) /\ Lead(targets, type).type = type
  BY <1>7, <1>8 DEF Lead
<1> QED
  BY <1>2, <1>4, <1>9 DEF I

\* A type that is named once has one entry.
LEMMA EntryNamedOnce ==
    ASSUME NEW targets, Valid(targets), NamesOnce(targets)
    PROVE  /\ \A s, t \in ToSet(targets) : s.type = t.type => s = t
           /\ \A t \in ToSet(targets) : /\ LastEntry(targets, t.type) = t
                                        /\ Lead(targets, t.type) = t
<1>1. \A s, t \in ToSet(targets) : s.type = t.type => s = t
  BY DEF ToSet, NamesOnce
<1>2. \A t \in ToSet(targets) : t.type \in Named(targets)
  BY TargetsFinite
<1> QED
  BY <1>1, <1>2, EntryOfType

\* The guarantee of a type, by its last entry.
Quota(targets, type, n) == Guarantee(LastEntry(targets, type), n)

LEMMA QuotaBounds ==
    ASSUME NEW targets, NEW n, Planned(targets, n), NEW type \in Named(targets)
    PROVE  /\ LastEntry(targets, type) \in Target /\ type \in Types
           /\ Quota(targets, type, n) \in 0..n
           /\ MaxSlots(LastEntry(targets, type), n) \in Nat
           /\ Quota(targets, type, n) <= MaxSlots(LastEntry(targets, type), n)
<1>1. LastEntry(targets, type) \in Target /\ type \in Types
  BY EntryOfType, TargetsFinite DEF Planned
<1> QED
  BY <1>1, SlotBounds DEF Planned, Quota

\* Each type is promised as many slots as it is guaranteed.
LEMMA PromisedSlots ==
    ASSUME NEW targets, NEW n, Planned(targets, n)
    PROVE  /\ Promised(targets, n)
                 = {p \in Named(targets) \X (1..n) : p[2] <= Quota(targets, p[1], n)}
           /\ IsFiniteSet(Promised(targets, n)) /\ Cardinality(Promised(targets, n)) \in Nat
           /\ \A type \in Named(targets) :
                 /\ IsFiniteSet({p \in Promised(targets, n) : p[1] = type})
                 /\ Cardinality({p \in Promised(targets, n) : p[1] = type}) = Quota(targets, type, n)
<1> DEFINE P == Promised(targets, n)
           f == [type \in Named(targets) |-> Quota(targets, type, n)]
<1>1. n \in Nat \ {0} /\ IsFiniteSet(1..n)
  BY FS_Interval DEF Planned
<1>2. \A type \in Named(targets) : Quota(targets, type, n) \in 0..n
  BY QuotaBounds
<1>3. P = UNION {{type} \X (1..Quota(targets, type, n)) : type \in Named(targets)}
  BY DEF Promised, SlotsOf, Quota
<1> HIDE DEF P
<1>4. P = {p \in Named(targets) \X (1..n) : p[2] <= Quota(targets, p[1], n)}
  <2>1. ASSUME NEW p \in P
        PROVE  p \in Named(targets) \X (1..n) /\ p[2] <= Quota(targets, p[1], n)
    <3>1. PICK type \in Named(targets) : p \in {type} \X (1..Quota(targets, type, n))
      BY <1>3
    <3>2. p = <<p[1], p[2]>> /\ p[1] = type /\ p[2] \in 1..Quota(targets, type, n)
      BY <3>1
    <3>3. Quota(targets, type, n) \in 0..n
      BY <1>2
    <3>4. p[2] \in 1..n /\ p[2] <= Quota(targets, type, n)
      BY <1>1, <3>2, <3>3
    <3> QED
      BY <3>2, <3>4
  <2>2. ASSUME NEW p \in Named(targets) \X (1..n), p[2] <= Quota(targets, p[1], n)
        PROVE  p \in P
    <3>1. p = <<p[1], p[2]>> /\ p[1] \in Named(targets) /\ p[2] \in 1..n
      OBVIOUS
    <3>2. p[2] \in 1..Quota(targets, p[1], n)
      BY <1>1, <1>2, <2>2, <3>1
    <3>3. p \in {p[1]} \X (1..Quota(targets, p[1], n))
      BY <3>1, <3>2
    <3> QED
      BY <1>3, <3>1, <3>3
  <2> QED
    BY <2>1, <2>2
<1>5. IsFiniteSet(P) /\ Cardinality(P) \in Nat
  <2>1. IsFiniteSet(Named(targets) \X (1..n))
    BY <1>1, TargetsFinite, FS_Product DEF Planned
  <2>2. P \in SUBSET (Named(targets) \X (1..n))
    BY <1>4
  <2>3. IsFiniteSet(P)
    BY <2>1, <2>2, FS_Subset
  <2> QED
    BY <2>3, FS_CardinalityType
<1>6. ASSUME NEW type \in Named(targets)
      PROVE  /\ IsFiniteSet({p \in P : p[1] = type})
             /\ Cardinality({p \in P : p[1] = type}) = Quota(targets, type, n)
  <2> DEFINE q == Quota(targets, type, n)
             G == {p \in P : p[1] = type}
  <2>1. q \in 0..n
    BY <1>2
  <2>2. G = {type} \X (1..q)
    <3>1. ASSUME NEW p \in G PROVE p \in {type} \X (1..q)
      <4>1. p \in Named(targets) \X (1..n) /\ p[2] <= q /\ p[1] = type
        BY <1>4
      <4>2. p = <<p[1], p[2]>> /\ p[2] \in 1..n
        BY <4>1
      <4> HIDE DEF q
      <4> QED
        BY <1>1, <2>1, <4>1, <4>2
    <3>2. ASSUME NEW p \in {type} \X (1..q) PROVE p \in G
      BY <1>3
    <3> HIDE DEF G
    <3> QED
      BY <3>1, <3>2
  <2> HIDE DEF q, G
  <2>3. /\ IsFiniteSet({type}) /\ Cardinality({type}) = 1
        /\ IsFiniteSet(1..q) /\ Cardinality(1..q) = q
    <3>1. IsFiniteSet({type}) /\ Cardinality({type}) = 1
      BY FS_Singleton
    <3>2. 1 \in Int /\ q \in Int /\ q >= 0
      BY <2>1
    <3>3. IsFiniteSet(1..q) /\ Cardinality(1..q) = q
      BY <3>2, FS_Interval
    <3> QED
      BY <3>1, <3>3
  <2>4. IsFiniteSet({type} \X (1..q)) /\ Cardinality({type} \X (1..q)) = 1 * q
    BY <2>3, FS_Product
  <2>5. 1 * q = q
    BY <2>1
  <2>6. IsFiniteSet(G) /\ Cardinality(G) = q
    BY <2>2, <2>4, <2>5
  <2> QED
    BY <2>6 DEF G, q
<1> QED
  BY <1>4, <1>5, <1>6 DEF P

\* The slots that are kept are the last ones to be given up.
LEMMA KeptSlots ==
    ASSUME NEW targets, NEW n, Planned(targets, n)
    PROVE  /\ Kept(targets, n) \subseteq Promised(targets, n)
           /\ IsFiniteSet(Kept(targets, n)) /\ Cardinality(Kept(targets, n)) \in 0..n
           /\ Excess(targets, n) \in Int
           /\ Excess(targets, n) <= 0 => Kept(targets, n) = Promised(targets, n)
           /\ Excess(targets, n) > 0 => Cardinality(Kept(targets, n)) = n
           /\ \A p, q \in Promised(targets, n) :
                 p \notin Kept(targets, n) /\ GivenUpBefore(q, p, targets) => q \notin Kept(targets, n)
<1> DEFINE P == Promised(targets, n)
           before == {pq \in P \X P : GivenUpBefore(pq[1], pq[2], targets)}
           m == Cardinality(P)
           e == Excess(targets, n)
           K == Kept(targets, n)
<1>1. /\ \A p \in P : p \in Named(targets) \X (1..n)
      /\ IsFiniteSet(P) /\ m \in Nat /\ n \in Nat \ {0} /\ Valid(targets)
  <2>1. P = {p \in Named(targets) \X (1..n) : p[2] <= Quota(targets, p[1], n)}
    BY PromisedSlots
  <2> QED
    BY <2>1, PromisedSlots DEF Planned
<1>2. e = m - n
  BY DEF Excess
<1>3. K = {p \in P : Cardinality({q \in P : GivenUpBefore(q, p, targets)}) >= e}
  BY DEF Kept
<1> HIDE DEF P
<1>4. TotalOrder(P, before)
  <2> DEFINE lead(p) == Lead(targets, p[1])
  <2>1. ASSUME NEW p \in P
        PROVE  /\ p[2] \in Nat /\ p = <<p[1], p[2]>>
               /\ lead(p).boost \in Nat /\ lead(p).min \in Nat
               /\ lead(p).type = p[1] /\ p[1] \in Nat
    <3>1. p = <<p[1], p[2]>> /\ p[1] \in Named(targets) /\ p[2] \in Nat
      BY <1>1
    <3>2. lead(p) \in Target /\ lead(p).type = p[1]
      BY <1>1, <3>1, EntryOfType, TargetsFinite
    <3>3. lead(p).boost \in Nat /\ lead(p).min \in Nat /\ lead(p).type \in Nat
      BY <3>2, SelectionAssumption DEF Target
    <3> HIDE DEF lead
    <3> QED
      BY <3>1, <3>2, <3>3
  <2>2. ASSUME NEW p, NEW q
        PROVE  GivenUpBefore(p, q, targets) <=> \/ TrimsBefore(lead(p), lead(q))
                                                \/ p[1] = q[1] /\ p[2] > q[2]
    BY DEF GivenUpBefore
  <2>3. ASSUME NEW p \in P, NEW q \in P, p[1] = q[1] PROVE lead(p) = lead(q)
    BY <2>3
  <2> HIDE DEF lead
  <2>4. ASSUME NEW p \in P, NEW q \in P
        PROVE  p = q \/ GivenUpBefore(p, q, targets) \/ GivenUpBefore(q, p, targets)
    BY <2>1, <2>2 DEF TrimsBefore
  <2>5. ASSUME NEW p \in P PROVE ~GivenUpBefore(p, p, targets)
    BY <2>1, <2>2 DEF TrimsBefore
  <2>6. ASSUME NEW p \in P, NEW q \in P, NEW r \in P,
               GivenUpBefore(p, q, targets), GivenUpBefore(q, r, targets)
        PROVE  GivenUpBefore(p, r, targets)
    <3>1. /\ TrimsBefore(lead(p), lead(q)) \/ (p[1] = q[1] /\ p[2] > q[2])
          /\ TrimsBefore(lead(q), lead(r)) \/ (q[1] = r[1] /\ q[2] > r[2])
      BY <2>2, <2>6
    <3>2. TrimsBefore(lead(p), lead(r)) \/ (p[1] = r[1] /\ p[2] > r[2])
      BY <2>1, <2>3, <3>1 DEF TrimsBefore
    <3> QED
      BY <2>2, <3>2
  <2> QED
    BY <2>4, <2>5, <2>6 DEF TotalOrder
<1>5. K = Later(P, before, e)
  <2>1. \A p \in P : {q \in P : <<q, p>> \in before} = {q \in P : GivenUpBefore(q, p, targets)}
    OBVIOUS
  <2> HIDE DEF before, K, e
  <2> QED
    BY <1>3, <2>1 DEF Later
<1>6. e \in Int /\ e <= m
  <2> HIDE DEF e, m
  <2> QED
    BY <1>1, <1>2
<1>7. /\ e <= 0 => K = P
      /\ e > 0 => Cardinality(K) = m - e
      /\ \A p, q \in P : p \notin K /\ <<q, p>> \in before => q \notin K
  <2>1. IsFiniteSet(P) /\ e <= Cardinality(P)
    BY <1>1, <1>6
  <2> HIDE DEF before, K, e, m
  <2>2. /\ e <= 0 => K = P
        /\ e > 0 => Cardinality(K) = Cardinality(P) - e
        /\ \A p, q \in P : p \notin K /\ <<q, p>> \in before => q \notin K
    BY <1>4, <1>5, <1>6, <2>1, LastOfOrder
  <2> QED
    BY <2>2 DEF m
<1>8. \A p, q \in P : p \notin K /\ GivenUpBefore(q, p, targets) => q \notin K
  <2>1. \A p, q \in P : GivenUpBefore(q, p, targets) => <<q, p>> \in before
    OBVIOUS
  <2> HIDE DEF before, K
  <2> QED
    BY <1>7, <2>1
<1> HIDE DEF before, K, e, m
<1>9. K \subseteq P
  BY <1>3
<1>10. IsFiniteSet(K) /\ Cardinality(K) \in Nat
  BY <1>1, <1>9, FS_Subset, FS_CardinalityType
<1>11. e > 0 => Cardinality(K) = n
  BY <1>1, <1>2, <1>7
<1>12. Cardinality(K) \in 0..n
  BY <1>1, <1>2, <1>6, <1>7, <1>10, <1>11 DEF m
<1> QED
  BY <1>6, <1>7, <1>8, <1>9, <1>10, <1>11, <1>12 DEF P, K, e

----------------------------------------------------------------------------
(* One pass over the ranked topics *)

\* A pass takes the ranked topics one after the other.
LEMMA FillRuns ==
    ASSUME NEW chosen \in Seq(Items), NEW ranked \in Seq(Items), NEW limit, NEW n
    PROVE  \E f \in [0..Len(ranked) -> Seq(Items)] :
              /\ f[0] = chosen
              /\ \A k \in 1..Len(ranked) : f[k] = TakeNext(f[k - 1], ranked[k], limit, n)
              /\ Fill(chosen, ranked, limit, n) = f[Len(ranked)]
<1> DEFINE N == Len(ranked)
           V == Seq(Items)
           Course(g) == g = [k \in 0..N |-> IF k = 0 THEN chosen
                                            ELSE TakeNext(g[k - 1], ranked[k], limit, n)]
           after == CHOOSE g : Course(g)
           step == [p \in (1..N) \X V |-> TakeNext(p[2], ranked[p[1]], limit, n)]
<1>1. N \in Nat /\ \A k \in 1..N : ranked[k] \in Items
  OBVIOUS
<1>2. ASSUME NEW c \in V, NEW k \in 1..N PROVE TakeNext(c, ranked[k], limit, n) \in V
  BY <1>1 DEF TakeNext
<1>3. step \in [(1..N) \X V -> V]
  BY <1>2
<1>4. PICK f \in [0..N -> V] : f[0] = chosen /\ \A k \in 1..N : f[k] = step[<<k, f[k - 1]>>]
  <2>1. chosen \in V
    OBVIOUS
  <2>2. N \in Nat
    OBVIOUS
  <2>3. Courses(N, V, chosen, step) # {}
    <3> HIDE DEF step, N, V
    <3> QED
      BY <1>3, <2>1, <2>2, LoopRuns
  <2> HIDE DEF step, N, V
  <2> QED
    BY <2>3 DEF Courses
<1>5. \A k \in 1..N : f[k] = TakeNext(f[k - 1], ranked[k], limit, n)
  <2> HIDE DEF N
  <2>1. \A k \in 1..N : k - 1 \in 0..N /\ f[k - 1] \in V
    BY <1>1, <1>4
  <2> QED
    BY <1>4, <2>1
<1>6. Course(f)
  <2>1. \A k \in 0..N : f[k] = IF k = 0 THEN chosen ELSE TakeNext(f[k - 1], ranked[k], limit, n)
    <3> HIDE DEF N
    <3> QED
      BY <1>1, <1>4, <1>5
  <2> QED
    BY <1>4, <2>1
<1>7. Course(after)
  <2> HIDE DEF Course
  <2> QED
    BY <1>6
<1>8. Fill(chosen, ranked, limit, n) = after[N]
  BY DEF Fill
<1> HIDE DEF after
<1>9. DOMAIN after = 0..N /\ after = [k \in 0..N |-> after[k]]
  <2> HIDE DEF N
  <2> QED
    BY <1>7
<1>10. /\ after[0] = chosen
      /\ \A k \in 1..N : after[k] = TakeNext(after[k - 1], ranked[k], limit, n)
  <2> HIDE DEF N
  <2>2. \A k \in 0..N : after[k] = IF k = 0 THEN chosen ELSE TakeNext(after[k - 1], ranked[k], limit, n)
    BY <1>7
  <2>3. 0 \in 0..N /\ \A k \in 1..N : k \in 0..N /\ k # 0
    BY <1>1
  <2> QED
    BY <2>2, <2>3
<1> DEFINE S == {k \in 0..N : after[k] \in V}
<1>11. \A k \in 0..N : k \in S
  <2>1. 0 \in S
    BY <1>1, <1>10
  <2>2. ASSUME NEW k \in 0..(N - 1), k \in S PROVE k + 1 \in S
    <3> HIDE DEF N
    <3>1. k + 1 \in 1..N /\ k + 1 \in 0..N /\ k + 1 - 1 = k
      BY <1>1
    <3>2. after[k + 1] = TakeNext(after[k + 1 - 1], ranked[k + 1], limit, n)
      BY <1>10, <3>1
    <3>3. after[k + 1] = TakeNext(after[k], ranked[k + 1], limit, n)
      BY <3>1, <3>2
    <3> QED
      BY <1>2, <2>2, <3>1, <3>3
  <2> HIDE DEF S, N
  <2> QED
    BY <1>1, <2>1, <2>2, UpTo
<1>12. after \in [0..N -> V]
  BY <1>9, <1>11
<1> QED
  BY <1>8, <1>10, <1>12

\* How many of a type are chosen.
Count(chosen, type) == Cardinality(OfType(chosen, type))

\* A choice: topics, each once.
Choice(chosen) == chosen \in Seq(Items) /\ IsInjective(chosen)

LEMMA ChoiceCounts ==
    ASSUME NEW chosen, Choice(chosen)
    PROVE  /\ IsFiniteSet(ToSet(chosen)) /\ Cardinality(ToSet(chosen)) = Len(chosen)
           /\ \A type : /\ IsFiniteSet(OfType(chosen, type))
                        /\ Count(chosen, type) \in 0..Len(chosen)
<1>1. chosen \in Seq(Items) /\ Len(chosen) \in Nat /\ DOMAIN chosen = 1..Len(chosen)
  <2>1. chosen \in Seq(Items)
    BY DEF Choice
  <2> QED
    BY <2>1
<1>2. IsFiniteSet(1..Len(chosen)) /\ Cardinality(1..Len(chosen)) = Len(chosen)
  BY <1>1, FS_Interval
<1>3. chosen \in Bijection(1..Len(chosen), ToSet(chosen))
  <2>1. chosen \in [1..Len(chosen) -> ToSet(chosen)]
    BY <1>1 DEF ToSet
  <2>2. \A x \in ToSet(chosen) : \E k \in 1..Len(chosen) : chosen[k] = x
    BY <1>1 DEF ToSet
  <2>3. IsInjective(chosen)
    BY DEF Choice
  <2> QED
    BY <1>1, <2>1, <2>2, <2>3 DEF Bijection, Injection, Surjection, IsInjective
<1>4. IsFiniteSet(ToSet(chosen)) /\ Cardinality(ToSet(chosen)) = Len(chosen)
  BY <1>2, <1>3, FS_Bijection DEF ExistsBijection
<1>5. ASSUME NEW type
      PROVE  IsFiniteSet(OfType(chosen, type)) /\ Count(chosen, type) \in 0..Len(chosen)
  <2>1. OfType(chosen, type) \in SUBSET ToSet(chosen)
    BY DEF OfType
  <2>2. /\ IsFiniteSet(OfType(chosen, type)) /\ Count(chosen, type) <= Len(chosen)
    BY <1>4, <2>1, FS_Subset DEF Count
  <2>3. Count(chosen, type) \in Nat
    BY <2>2, FS_CardinalityType DEF Count
  <2> QED
    BY <1>1, <2>2, <2>3
<1> QED
  BY <1>4, <1>5

\* One more topic counts for its type and for no other.
LEMMA AppendCounts ==
    ASSUME NEW chosen, Choice(chosen), NEW i \in Items, i \notin ToSet(chosen)
    PROVE  /\ Choice(Append(chosen, i)) /\ Len(Append(chosen, i)) = Len(chosen) + 1
           /\ ToSet(Append(chosen, i)) = ToSet(chosen) \cup {i}
           /\ Count(Append(chosen, i), TypeOf[i]) = Count(chosen, TypeOf[i]) + 1
           /\ \A type : type # TypeOf[i] =>
                 OfType(Append(chosen, i), type) = OfType(chosen, type)
<1> DEFINE d == Append(chosen, i)
<1>1. chosen \in Seq(Items) /\ Len(chosen) \in Nat /\ DOMAIN chosen = 1..Len(chosen)
      /\ IsInjective(chosen)
  <2>1. chosen \in Seq(Items) /\ IsInjective(chosen)
    BY DEF Choice
  <2> QED
    BY <2>1
<1>2. /\ d \in Seq(Items) /\ Len(d) = Len(chosen) + 1 /\ DOMAIN d = 1..(Len(chosen) + 1)
      /\ \A k \in 1..(Len(chosen) + 1) : d[k] = IF k = Len(chosen) + 1 THEN i ELSE chosen[k]
  BY <1>1
<1> HIDE DEF d
<1>3. ToSet(d) = ToSet(chosen) \cup {i}
  <2>1. ASSUME NEW x \in ToSet(d) PROVE x \in ToSet(chosen) \cup {i}
    BY <1>1, <1>2 DEF ToSet
  <2>2. ASSUME NEW x \in ToSet(chosen) PROVE x \in ToSet(d)
    <3>1. PICK k \in 1..Len(chosen) : x = chosen[k]
      BY <1>1 DEF ToSet
    <3>2. k \in 1..(Len(chosen) + 1) /\ d[k] = x
      BY <1>1, <1>2, <3>1
    <3> QED
      BY <1>2, <3>2 DEF ToSet
  <2>3. i \in ToSet(d)
    <3>1. Len(chosen) + 1 \in 1..(Len(chosen) + 1) /\ d[Len(chosen) + 1] = i
      BY <1>1, <1>2
    <3> QED
      BY <1>2, <3>1 DEF ToSet
  <2> QED
    BY <2>1, <2>2, <2>3
<1>4. IsInjective(d)
  <2>1. ASSUME NEW k \in 1..(Len(chosen) + 1), NEW m \in 1..(Len(chosen) + 1), d[k] = d[m]
        PROVE  k = m
    <3>1. \A l \in 1..Len(chosen) : chosen[l] # i
      BY <1>1 DEF ToSet
    <3>2. \A a, b \in 1..Len(chosen) : chosen[a] = chosen[b] => a = b
      BY <1>1 DEF IsInjective
    <3> QED
      BY <1>1, <1>2, <2>1, <3>1, <3>2
  <2> QED
    BY <1>2, <2>1 DEF IsInjective
<1>5. Count(d, TypeOf[i]) = Count(chosen, TypeOf[i]) + 1
  <2>1. OfType(d, TypeOf[i]) = OfType(chosen, TypeOf[i]) \cup {i}
    BY <1>3 DEF OfType
  <2>2. i \notin OfType(chosen, TypeOf[i]) /\ IsFiniteSet(OfType(chosen, TypeOf[i]))
    BY ChoiceCounts DEF OfType
  <2> QED
    BY <2>1, <2>2, FS_AddElement DEF Count
<1>6. \A type : type # TypeOf[i] => OfType(d, type) = OfType(chosen, type)
  BY <1>3 DEF OfType
<1> QED
  BY <1>2, <1>3, <1>4, <1>5, <1>6 DEF d, Choice

Grown(c, d) ==
    /\ ToSet(c) \subseteq ToSet(d) /\ Len(c) <= Len(d)
    /\ \A type \in Types : Count(c, type) <= Count(d, type)

\* Why a topic is not among the chosen.
Settled(c, i, limit, n) ==
    i \in ToSet(c) \/ Len(c) = n \/ Count(c, TypeOf[i]) >= limit[TypeOf[i]]

\* The reason lasts as the choice grows.
LEMMA GrownSettled ==
    ASSUME NEW c, NEW d, Choice(c), Choice(d), Grown(c, d), NEW n \in Nat, Len(d) <= n,
           NEW limit \in [Types -> Nat], NEW i \in Items, Settled(c, i, limit, n)
    PROVE  Settled(d, i, limit, n)
<1>1. TypeOf[i] \in Types /\ limit[TypeOf[i]] \in Nat
  BY SelectionAssumption
<1>2. /\ Len(c) \in Nat /\ Len(d) \in Nat
      /\ Count(c, TypeOf[i]) \in Nat /\ Count(d, TypeOf[i]) \in Nat
  <2>1. Count(c, TypeOf[i]) \in 0..Len(c) /\ Count(d, TypeOf[i]) \in 0..Len(d)
    BY ChoiceCounts
  <2>2. Len(c) \in Nat /\ Len(d) \in Nat
    BY DEF Choice
  <2> QED
    BY <2>1, <2>2
<1> QED
  BY <1>1, <1>2 DEF Settled, Grown

\* What one topic does to the choice.
LEMMA TakeNextWorks ==
    ASSUME NEW c, Choice(c), NEW n \in Nat, Len(c) <= n, NEW i \in Items,
           NEW limit \in [Types -> Nat], NEW d, d = TakeNext(c, i, limit, n)
    PROVE  /\ Choice(d) /\ Len(d) <= n /\ Grown(c, d) /\ ToSet(d) \subseteq ToSet(c) \cup {i}
           /\ \A type \in Types : Count(d, type) = Count(c, type) \/ Count(d, type) <= limit[type]
           /\ Settled(d, i, limit, n)
<1>1. TypeOf[i] \in Types /\ limit[TypeOf[i]] \in Nat
  BY SelectionAssumption
<1>2. /\ c \in Seq(Items) /\ Len(c) \in Nat /\ DOMAIN c = 1..Len(c)
      /\ \A type : Count(c, type) \in Nat
  <2>1. c \in Seq(Items)
    BY DEF Choice
  <2>2. \A type : Count(c, type) \in 0..Len(c)
    BY ChoiceCounts
  <2> QED
    BY <2>1, <2>2
<1>3. Contains(c, i) <=> i \in ToSet(c)
  BY <1>2 DEF Contains, ToSet
<1>4. HasRoom(c, i, limit) <=> Count(c, TypeOf[i]) < limit[TypeOf[i]]
  BY DEF HasRoom, Count
<1>5. CASE Len(c) < n /\ i \notin ToSet(c) /\ Count(c, TypeOf[i]) < limit[TypeOf[i]]
  <2>1. d = Append(c, i)
    BY <1>3, <1>4, <1>5 DEF TakeNext
  <2>2. /\ Choice(d) /\ Len(d) = Len(c) + 1 /\ ToSet(d) = ToSet(c) \cup {i}
        /\ Count(d, TypeOf[i]) = Count(c, TypeOf[i]) + 1
        /\ \A type : type # TypeOf[i] => OfType(d, type) = OfType(c, type)
    BY <1>5, <2>1, AppendCounts
  <2>3. \A type : type # TypeOf[i] => Count(d, type) = Count(c, type)
    BY <2>2 DEF Count
  <2>4. \A type \in Types : Count(c, type) <= Count(d, type)
    BY <1>2, <2>2, <2>3
  <2>5. \A type \in Types : Count(d, type) = Count(c, type) \/ Count(d, type) <= limit[type]
    BY <1>1, <1>2, <1>5, <2>2, <2>3
  <2> QED
    BY <1>2, <1>5, <2>2, <2>4, <2>5 DEF Grown, Settled
<1>6. CASE ~(Len(c) < n /\ i \notin ToSet(c) /\ Count(c, TypeOf[i]) < limit[TypeOf[i]])
  <2>1. d = c
    BY <1>3, <1>4, <1>6 DEF TakeNext
  <2>2. Settled(c, i, limit, n)
    <3>1. Len(c) \in Nat /\ Count(c, TypeOf[i]) \in Nat /\ Len(c) <= n
      BY <1>2
    <3>2. Len(c) < n \/ Len(c) = n
      BY <3>1
    <3>3. \/ Count(c, TypeOf[i]) < limit[TypeOf[i]]
          \/ Count(c, TypeOf[i]) >= limit[TypeOf[i]]
      BY <1>1, <3>1
    <3> QED
      BY <1>6, <3>2, <3>3 DEF Settled
  <2>3. Grown(c, c)
    BY <1>2 DEF Grown
  <2> QED
    BY <2>1, <2>2, <2>3
<1> QED
  BY <1>5, <1>6

\* A pass adds topics within the limits and leaves one only for a reason.
LEMMA FillWorks ==
    ASSUME NEW chosen, Choice(chosen), NEW n \in Nat, Len(chosen) <= n, NEW ranked \in Seq(Items),
           NEW limit \in [Types -> Nat], NEW d, d = Fill(chosen, ranked, limit, n)
    PROVE  /\ Choice(d) /\ Len(d) <= n /\ Grown(chosen, d)
           /\ ToSet(d) \subseteq ToSet(chosen) \cup ToSet(ranked)
           /\ \A type \in Types :
                 Count(d, type) = Count(chosen, type) \/ Count(d, type) <= limit[type]
           /\ \A i \in ToSet(ranked) : Settled(d, i, limit, n)
<1> DEFINE N == Len(ranked)
<1>1. N \in Nat /\ (\A k \in 1..N : ranked[k] \in Items) /\ ToSet(ranked) = {ranked[k] : k \in 1..N}
  BY DEF ToSet
<1>2. chosen \in Seq(Items)
  BY DEF Choice
<1>3. PICK f \in [0..N -> Seq(Items)] :
         /\ f[0] = chosen
         /\ \A k \in 1..N : f[k] = TakeNext(f[k - 1], ranked[k], limit, n)
         /\ d = f[N]
  BY <1>2, FillRuns
<1> HIDE DEF N
<1> DEFINE Fine(c) ==
               /\ Choice(c) /\ Len(c) <= n /\ Grown(chosen, c)
               /\ ToSet(c) \subseteq ToSet(chosen) \cup ToSet(ranked)
               /\ \A type \in Types :
                     Count(c, type) = Count(chosen, type) \/ Count(c, type) <= limit[type]
           Done(k) == Fine(f[k]) /\ \A m \in 1..k : Settled(f[k], ranked[m], limit, n)
           S == {k \in 0..N : Done(k)}
<1>4. 0 \in S
  <2>1. Grown(chosen, chosen)
    <3>1. Len(chosen) \in Nat /\ \A type : Count(chosen, type) \in 0..Len(chosen)
      BY <1>2, ChoiceCounts
    <3>2. \A type : Count(chosen, type) \in Nat
      BY <3>1
    <3> QED
      BY <3>1, <3>2 DEF Grown
  <2>2. Fine(f[0])
    BY <1>3, <2>1
  <2> HIDE DEF Fine
  <2> QED
    BY <1>1, <2>2
<1>5. ASSUME NEW k \in 0..(N - 1), k \in S PROVE k + 1 \in S
  <2> DEFINE c == f[k]
             e == f[k + 1]
             i == ranked[k + 1]
  <2>1. /\ k \in Nat /\ k + 1 \in 1..N /\ k + 1 \in 0..N /\ k + 1 - 1 = k
        /\ 1..(k + 1) = (1..k) \cup {k + 1} /\ 1..k \subseteq 1..N
    BY <1>1
  <2>2. i \in Items /\ i \in ToSet(ranked)
    BY <1>1, <2>1
  <2>3. e = TakeNext(f[k + 1 - 1], i, limit, n)
    BY <1>3, <2>1
  <2>4. e = TakeNext(c, i, limit, n)
    BY <2>1, <2>3
  <2>5. Fine(c) /\ \A m \in 1..k : Settled(c, ranked[m], limit, n)
    BY <1>5
  <2> HIDE DEF c, e, i
  <2>6. /\ Choice(e) /\ Len(e) <= n /\ Grown(c, e) /\ ToSet(e) \subseteq ToSet(c) \cup {i}
        /\ \A type \in Types : Count(e, type) = Count(c, type) \/ Count(e, type) <= limit[type]
        /\ Settled(e, i, limit, n)
    BY <2>2, <2>4, <2>5, TakeNextWorks
  <2>7. Grown(chosen, e)
    <3>1. Len(chosen) \in Nat /\ Len(c) \in Nat /\ Len(e) \in Nat
      BY <2>5, <2>6 DEF Choice
    <3>2. \A type : Count(chosen, type) \in 0..Len(chosen) /\ Count(c, type) \in 0..Len(c)
                    /\ Count(e, type) \in 0..Len(e)
      BY <2>5, <2>6, ChoiceCounts
    <3> QED
      BY <2>5, <2>6, <3>1, <3>2 DEF Grown
  <2>8. \A type \in Types : Count(e, type) = Count(chosen, type) \/ Count(e, type) <= limit[type]
    BY <2>5, <2>6
  <2>9. Fine(e)
    BY <2>2, <2>5, <2>6, <2>7, <2>8
  <2>10. \A m \in 1..k : Settled(e, ranked[m], limit, n)
    <3> HIDE DEF Fine
    <3>1. Choice(c) /\ \A m \in 1..k : ranked[m] \in Items
      BY <1>1, <2>1, <2>5 DEF Fine
    <3> QED
      BY <2>5, <2>6, <3>1, GrownSettled
  <2>11. Done(k + 1)
    <3> HIDE DEF Fine
    <3>1. \A m \in 1..(k + 1) : m \in 1..k \/ m = k + 1
      BY <2>1
    <3> QED
      BY <2>6, <2>9, <2>10, <3>1 DEF e, i
  <2> HIDE DEF Done
  <2> QED
    BY <2>1, <2>11
<1>6. Done(N)
  <2> HIDE DEF S, Done
  <2>1. \A k \in 0..N : k \in S
    BY <1>1, <1>4, <1>5, UpTo
  <2>2. N \in S
    BY <1>1, <2>1
  <2> QED
    BY <2>2 DEF S
<1>7. Fine(d) /\ \A m \in 1..N : Settled(d, ranked[m], limit, n)
  <2> HIDE DEF Fine
  <2> QED
    BY <1>3, <1>6
<1> QED
  BY <1>1, <1>7

----------------------------------------------------------------------------
(* The kept slots, entry by entry *)

LEMMA DisjointUnion ==
    ASSUME NEW S, NEW T, IsFiniteSet(S), IsFiniteSet(T), S \cap T = {}
    PROVE  Cardinality(S \cup T) = Cardinality(S) + Cardinality(T)
<1>1. Cardinality(S) \in Nat /\ Cardinality(T) \in Nat /\ Cardinality(S \cap T) = 0
  BY FS_CardinalityType, FS_EmptySet
<1>2. Cardinality(S \cup T) = Cardinality(S) + Cardinality(T) - Cardinality(S \cap T)
  BY FS_Union
<1> QED
  BY <1>1, <1>2

KeptFor(T, targets, n)   == {p \in Kept(targets, n) : p[1] \in T}
KeptOf(type, targets, n) == Cardinality({p \in Kept(targets, n) : p[1] = type})

\* How many slots are kept, by type.
LEMMA KeptCounts ==
    ASSUME NEW targets, NEW n, Planned(targets, n)
    PROVE  /\ \A T : /\ IsFiniteSet(KeptFor(T, targets, n))
                     /\ Cardinality(KeptFor(T, targets, n)) \in 0..n
           /\ \A type : KeptOf(type, targets, n) \in 0..n
           /\ \A type \in Named(targets) :
                 /\ KeptOf(type, targets, n) <= Quota(targets, type, n)
                 /\ Excess(targets, n) <= 0 => KeptOf(type, targets, n) = Quota(targets, type, n)
           /\ \A T, type : type \notin T =>
                 Cardinality(KeptFor(T \cup {type}, targets, n))
                     = Cardinality(KeptFor(T, targets, n)) + KeptOf(type, targets, n)
           /\ KeptFor(Named(targets), targets, n) = Kept(targets, n)
<1> DEFINE K == Kept(targets, n)
           P == Promised(targets, n)
           Of(type) == {p \in K : p[1] = type}
<1>1. /\ K \subseteq P /\ IsFiniteSet(K) /\ Cardinality(K) \in 0..n
      /\ Excess(targets, n) <= 0 => K = P
  BY KeptSlots
<1>2. n \in Nat
  BY DEF Planned
<1>3. ASSUME NEW L \in SUBSET K PROVE IsFiniteSet(L) /\ Cardinality(L) \in 0..n
  <2>1. IsFiniteSet(L) /\ Cardinality(L) <= Cardinality(K)
    BY <1>1, FS_Subset
  <2>2. Cardinality(L) \in Nat
    BY <2>1, FS_CardinalityType
  <2> QED
    BY <1>1, <1>2, <2>1, <2>2
<1>4. \A T : KeptFor(T, targets, n) \in SUBSET K
  BY DEF KeptFor
<1>5. \A type : KeptOf(type, targets, n) = Cardinality(Of(type)) /\ Of(type) \in SUBSET K
  BY DEF KeptOf
<1>6. ASSUME NEW type \in Named(targets)
      PROVE  /\ KeptOf(type, targets, n) <= Quota(targets, type, n)
             /\ Excess(targets, n) <= 0 => KeptOf(type, targets, n) = Quota(targets, type, n)
  <2> DEFINE G == {p \in P : p[1] = type}
  <2>1. Of(type) \in SUBSET G /\ (K = P => Of(type) = G)
    BY <1>1
  <2>2. IsFiniteSet(G) /\ Cardinality(G) = Quota(targets, type, n)
    BY PromisedSlots
  <2> HIDE DEF G, K, Of
  <2>3. Cardinality(Of(type)) <= Cardinality(G)
    BY <2>1, <2>2, FS_Subset
  <2> QED
    BY <1>1, <1>5, <2>1, <2>2, <2>3
<1>7. ASSUME NEW T, NEW type, type \notin T
      PROVE  Cardinality(KeptFor(T \cup {type}, targets, n))
                 = Cardinality(KeptFor(T, targets, n)) + KeptOf(type, targets, n)
  <2>1. /\ KeptFor(T \cup {type}, targets, n) = KeptFor(T, targets, n) \cup Of(type)
        /\ KeptFor(T, targets, n) \cap Of(type) = {}
    BY <1>7 DEF KeptFor
  <2>2. IsFiniteSet(KeptFor(T, targets, n)) /\ IsFiniteSet(Of(type))
    BY <1>3, <1>4, <1>5
  <2> HIDE DEF Of
  <2> QED
    BY <1>5, <2>1, <2>2, DisjointUnion
<1>8. KeptFor(Named(targets), targets, n) = K
  <2>1. \A p \in P : p[1] \in Named(targets)
    BY PromisedSlots
  <2> QED
    BY <1>1, <2>1 DEF KeptFor
<1> HIDE DEF K, Of
<1>9. \A T : /\ IsFiniteSet(KeptFor(T, targets, n))
             /\ Cardinality(KeptFor(T, targets, n)) \in 0..n
  BY <1>3, <1>4
<1>10. \A type : KeptOf(type, targets, n) \in 0..n
  BY <1>3, <1>5
<1> QED
  BY <1>6, <1>7, <1>8, <1>9, <1>10 DEF K

\* What the first pass over the entries of the types T has chosen, if none of
\* the types has more than one: of each as many as its kept slots, or every
\* ranked topic of the type.
Served(c, T, ranked, targets, n) ==
    /\ Choice(c) /\ Len(c) <= n /\ ToSet(c) \subseteq ToSet(ranked)
    /\ \A i \in ToSet(c) : TypeOf[i] \in T
    /\ \A type \in T : /\ Count(c, type) <= KeptOf(type, targets, n)
                       /\ \/ Count(c, type) = KeptOf(type, targets, n)
                          \/ OfType(c, type) = OfType(ranked, type)
    /\ Len(c) <= Cardinality(KeptFor(T, targets, n))
    /\ (\A type \in T : Count(c, type) = KeptOf(type, targets, n))
          => Len(c) = Cardinality(KeptFor(T, targets, n))

\* One more entry adds topics of its type only, up to the kept slots.
LEMMA RoundAdds ==
    ASSUME NEW targets, NEW n, Planned(targets, n), NEW ranked \in Seq(Items),
           NEW type \in Named(targets), NEW c, Choice(c), Len(c) <= n,
           ToSet(c) \subseteq ToSet(ranked),
           NEW e, e = TakeKept(c, ranked, type, Kept(targets, n), n)
    PROVE  /\ Choice(e) /\ Len(e) <= n /\ ToSet(c) \subseteq ToSet(e)
           /\ ToSet(e) \subseteq ToSet(ranked)
           /\ Count(c, type) <= Count(e, type)
           /\ Count(e, type) <= Count(c, type) + KeptOf(type, targets, n)
           /\ \A u \in Types : u # type => OfType(e, u) = OfType(c, u)
           /\ \A i \in ToSet(ranked) :
                 TypeOf[i] = type => \/ i \in ToSet(e) \/ Len(e) = n
                                     \/ Count(e, type) >= Count(c, type) + KeptOf(type, targets, n)
<1> DEFINE limit == KeptLimit(c, type, Kept(targets, n))
           kept == KeptOf(type, targets, n)
<1>1. n \in Nat /\ kept \in Nat /\ type \in Types
  <2>1. n \in Nat /\ type \in Types
    BY QuotaBounds DEF Planned
  <2>2. kept \in 0..n
    BY KeptCounts
  <2> QED
    BY <2>1, <2>2
<1>2. \A u : Count(c, u) \in Nat
  <2>1. Len(c) \in Nat /\ \A u : Count(c, u) \in 0..Len(c)
    BY ChoiceCounts DEF Choice
  <2> QED
    BY <2>1
<1>3. /\ limit \in [Types -> Nat] /\ limit[type] = Count(c, type) + kept
      /\ \A u \in Types : u # type => limit[u] = 0
  <2>1. limit = [u \in Types |-> IF u = type THEN Count(c, u) + Cardinality({p \in Kept(targets, n) : p[1] = u}) ELSE 0]
    BY DEF KeptLimit, Count
  <2>2. limit = [u \in Types |-> IF u = type THEN Count(c, type) + kept ELSE 0]
    BY <2>1 DEF KeptOf
  <2> DEFINE v == Count(c, type) + kept
  <2>3. v \in Nat
    <3> HIDE DEF kept
    <3> QED
      BY <1>1, <1>2
  <2>4. limit = [u \in Types |-> IF u = type THEN v ELSE 0]
    BY <2>2
  <2> HIDE DEF limit, v
  <2>5. limit \in [Types -> Nat] /\ limit[type] = v /\ \A u \in Types : u # type => limit[u] = 0
    BY <1>1, <2>3, <2>4
  <2> QED
    BY <2>5 DEF v
<1>4. /\ Choice(e) /\ Len(e) <= n /\ Grown(c, e)
      /\ ToSet(e) \subseteq ToSet(c) \cup ToSet(ranked)
      /\ \A u \in Types : Count(e, u) = Count(c, u) \/ Count(e, u) <= limit[u]
      /\ \A i \in ToSet(ranked) : Settled(e, i, limit, n)
  <2> HIDE DEF limit
  <2>1. e = Fill(c, ranked, limit, n)
    BY DEF limit, TakeKept
  <2> QED
    BY <1>1, <1>3, <2>1, FillWorks
<1>5. \A u : Count(e, u) \in Nat
  <2>1. Len(e) \in Nat /\ \A u : Count(e, u) \in 0..Len(e)
    BY <1>4, ChoiceCounts DEF Choice
  <2> QED
    BY <2>1
<1> HIDE DEF limit, kept
<1>6. Count(e, type) <= Count(c, type) + kept
  BY <1>1, <1>2, <1>3, <1>4, <1>5
<1>7. ASSUME NEW u \in Types, u # type PROVE OfType(e, u) = OfType(c, u)
  <2>1. Count(e, u) = Count(c, u)
    <3>1. Count(c, u) \in Nat /\ Count(e, u) \in Nat /\ Count(c, u) <= Count(e, u)
      BY <1>2, <1>4, <1>5 DEF Grown
    <3>2. limit[u] = 0
      BY <1>3, <1>7
    <3> QED
      BY <1>4, <3>1, <3>2
  <2>2. OfType(c, u) \in SUBSET OfType(e, u)
    BY <1>4 DEF Grown, OfType
  <2>3. IsFiniteSet(OfType(e, u))
    BY <1>4, ChoiceCounts
  <2> QED
    BY <2>1, <2>2, <2>3, FS_Subset DEF Count
<1>8. \A i \in ToSet(ranked) :
         TypeOf[i] = type => \/ i \in ToSet(e) \/ Len(e) = n
                             \/ Count(e, type) >= Count(c, type) + kept
  BY <1>3, <1>4 DEF Settled
<1>9. /\ ToSet(c) \subseteq ToSet(e) /\ ToSet(e) \subseteq ToSet(ranked)
      /\ Count(c, type) <= Count(e, type)
  BY <1>1, <1>4 DEF Grown
<1> QED
  BY <1>4, <1>6, <1>7, <1>8, <1>9 DEF kept

\* The entry of one more type.
LEMMA RoundWorks ==
    ASSUME NEW targets, NEW n, Planned(targets, n), NEW ranked \in Seq(Items),
           NEW T \in SUBSET Named(targets), NEW type \in Named(targets) \ T,
           NEW c, Served(c, T, ranked, targets, n),
           NEW e, e = TakeKept(c, ranked, type, Kept(targets, n), n)
    PROVE  Served(e, T \cup {type}, ranked, targets, n)
<1> DEFINE kept == KeptOf(type, targets, n)
           K == Cardinality(KeptFor(T, targets, n))
           KK == Cardinality(KeptFor(T \cup {type}, targets, n))
<1>1. /\ n \in Nat /\ kept \in 0..n /\ K \in 0..n /\ KK \in 0..n /\ KK = K + kept
  BY KeptCounts DEF Planned
<1>2. /\ Choice(c) /\ Len(c) <= n /\ Len(c) \in Nat /\ Len(c) <= K
      /\ ToSet(c) \subseteq ToSet(ranked) /\ IsFiniteSet(ToSet(c))
  BY ChoiceCounts DEF Served, Choice
<1>3. OfType(c, type) = {} /\ Count(c, type) = 0
  <2>1. OfType(c, type) = {}
    BY DEF OfType, Served
  <2> QED
    BY <2>1, FS_EmptySet DEF Count
<1>4. /\ Choice(e) /\ Len(e) <= n /\ ToSet(c) \subseteq ToSet(e)
      /\ ToSet(e) \subseteq ToSet(ranked)
      /\ Count(e, type) <= 0 + kept
      /\ \A u \in Types : u # type => OfType(e, u) = OfType(c, u)
      /\ \A i \in ToSet(ranked) :
            TypeOf[i] = type => i \in ToSet(e) \/ Len(e) = n \/ Count(e, type) >= 0 + kept
  <2> HIDE DEF kept
  <2> QED
    BY <1>2, <1>3, RoundAdds DEF kept
<1>5. Len(e) \in Nat /\ Count(e, type) \in Nat
  <2>1. Len(e) \in Nat
    BY <1>4 DEF Choice
  <2>2. Count(e, type) \in 0..Len(e)
    BY <1>4, ChoiceCounts
  <2> QED
    BY <2>1, <2>2
<1>6. Named(targets) \subseteq Types
  BY TargetsFinite DEF Planned
<1>7. ToSet(e) = ToSet(c) \cup OfType(e, type) /\ ToSet(c) \cap OfType(e, type) = {}
  <2>1. \A i \in ToSet(e) : TypeOf[i] \in Types
    <3>1. e \in Seq(Items)
      BY <1>4 DEF Choice
    <3>2. ToSet(e) \subseteq Items
      BY <3>1 DEF ToSet
    <3> QED
      BY <3>2, SelectionAssumption
  <2>2. ASSUME NEW i \in ToSet(e), TypeOf[i] # type PROVE i \in ToSet(c)
    BY <1>4, <2>1, <2>2 DEF OfType
  <2>3. \A i \in ToSet(c) : TypeOf[i] # type
    BY <1>3 DEF OfType
  <2> QED
    BY <1>4, <2>2, <2>3 DEF OfType
<1>8. Len(e) = Len(c) + Count(e, type)
  <2>1. /\ IsFiniteSet(ToSet(c)) /\ Cardinality(ToSet(c)) = Len(c)
        /\ Cardinality(ToSet(e)) = Len(e) /\ IsFiniteSet(OfType(e, type))
    BY <1>2, <1>4, ChoiceCounts
  <2> QED
    BY <1>7, <2>1, DisjointUnion DEF Count
<1>9. Count(e, type) = kept \/ OfType(e, type) = OfType(ranked, type)
  <2>1. ASSUME NEW i \in ToSet(ranked), TypeOf[i] = type, i \notin ToSet(e)
        PROVE  Count(e, type) = kept
    <3>1. Len(e) = n \/ Count(e, type) >= 0 + kept
      BY <1>4, <2>1
    <3> HIDE DEF kept, K, KK
    <3> QED
      BY <1>1, <1>2, <1>4, <1>5, <1>8, <3>1
  <2>2. OfType(e, type) \subseteq OfType(ranked, type)
    BY <1>4 DEF OfType
  <2>3. (\A i \in ToSet(ranked) : TypeOf[i] = type => i \in ToSet(e))
           => OfType(e, type) = OfType(ranked, type)
    BY <2>2 DEF OfType
  <2> QED
    BY <2>1, <2>3
<1>10. \A i \in ToSet(e) : TypeOf[i] \in T \cup {type}
  BY <1>7 DEF OfType, Served
<1>11. \A u \in T : Count(e, u) = Count(c, u) /\ OfType(e, u) = OfType(c, u)
  BY <1>4, <1>6 DEF Count
<1>12. Count(e, type) <= kept
  <2> HIDE DEF kept
  <2> QED
    BY <1>1, <1>4
<1>13. \A u \in T \cup {type} :
          /\ Count(e, u) <= KeptOf(u, targets, n)
          /\ Count(e, u) = KeptOf(u, targets, n) \/ OfType(e, u) = OfType(ranked, u)
  BY <1>9, <1>11, <1>12 DEF Served
<1>14. Len(e) <= KK
  <2> HIDE DEF kept, K, KK
  <2> QED
    BY <1>1, <1>2, <1>5, <1>8, <1>12
<1>15. ASSUME \A u \in T \cup {type} : Count(e, u) = KeptOf(u, targets, n)
       PROVE  Len(e) = KK
  <2>1. \A u \in T : Count(c, u) = KeptOf(u, targets, n)
    BY <1>11, <1>15
  <2>2. Len(c) = K
    BY <2>1 DEF Served
  <2>3. Count(e, type) = kept
    BY <1>15
  <2> QED
    BY <1>1, <1>8, <2>2, <2>3
<1> HIDE DEF KK
<1> QED
  BY <1>4, <1>10, <1>13, <1>14, <1>15 DEF Served, KK

\* What the first pass has chosen after k entries.
Taken(c, k, ranked, targets, n) ==
    /\ Choice(c) /\ Len(c) <= n /\ ToSet(c) \subseteq ToSet(ranked)
    /\ \A type \in Types :
          Count(c, type) <= Cardinality({i \in 1..k : targets[i].type = type}) * KeptOf(type, targets, n)
    /\ NamesOnce(targets) => Served(c, {targets[i].type : i \in 1..k}, ranked, targets, n)

LEMMA TakenNext ==
    ASSUME NEW targets, NEW n, Planned(targets, n), NEW ranked \in Seq(Items),
           NEW k \in 0..(Len(targets) - 1), NEW c, Taken(c, k, ranked, targets, n),
           NEW e, e = TakeKept(c, ranked, targets[k + 1].type, Kept(targets, n), n)
    PROVE  Taken(e, k + 1, ranked, targets, n)
<1> DEFINE N == Len(targets)
           now == targets[k + 1].type
           T(m) == {targets[i].type : i \in 1..m}
           I(m, type) == {i \in 1..m : targets[i].type = type}
<1>1. /\ N \in Nat /\ DOMAIN targets = 1..N /\ k \in Nat /\ k + 1 \in 1..N /\ k + 1 \notin 1..k
      /\ 1..(k + 1) = (1..k) \cup {k + 1} /\ 1..k \subseteq 1..N
  <2>1. N \in Nat /\ DOMAIN targets = 1..N
    BY TargetsFinite DEF Planned
  <2> QED
    BY <2>1
<1>2. now \in Named(targets) /\ T(k) \subseteq Named(targets)
  <2> HIDE DEF N
  <2> QED
    BY <1>1 DEF Named, ToSet
<1>3. Choice(c) /\ Len(c) <= n /\ ToSet(c) \subseteq ToSet(ranked)
  BY DEF Taken
<1>4. /\ Choice(e) /\ Len(e) <= n /\ ToSet(e) \subseteq ToSet(ranked)
      /\ Count(e, now) <= Count(c, now) + KeptOf(now, targets, n)
      /\ \A u \in Types : u # now => OfType(e, u) = OfType(c, u)
  <2> HIDE DEF now
  <2> QED
    BY <1>2, <1>3, RoundAdds DEF now
<1>5. ASSUME NEW type \in Types
      PROVE  Count(e, type) <= Cardinality(I(k + 1, type)) * KeptOf(type, targets, n)
  <2> DEFINE a == Cardinality(I(k, type))
             b == Cardinality(I(k + 1, type))
             q == KeptOf(type, targets, n)
  <2>1. IsFiniteSet(I(k, type)) /\ a \in Nat
    <3>1. IsFiniteSet(1..k) /\ I(k, type) \in SUBSET (1..k)
      BY <1>1, FS_Interval
    <3> QED
      BY <3>1, FS_Subset, FS_CardinalityType
  <2>2. q \in Nat /\ Count(c, type) \in Nat /\ Count(e, type) \in Nat
    <3>1. Len(c) \in Nat /\ Len(e) \in Nat /\ n \in Nat
      BY <1>3, <1>4 DEF Choice, Planned
    <3>2. Count(c, type) \in 0..Len(c) /\ Count(e, type) \in 0..Len(e)
      BY <1>3, <1>4, ChoiceCounts
    <3>3. q \in 0..n
      BY KeptCounts
    <3> QED
      BY <3>1, <3>2, <3>3
  <2>3. Count(c, type) <= a * q
    BY DEF Taken
  <2>4. CASE type = now
    <3>1. I(k + 1, type) = I(k, type) \cup {k + 1} /\ k + 1 \notin I(k, type)
      BY <1>1, <2>4
    <3>2. b = a + 1
      <4> HIDE DEF I
      <4> QED
        BY <2>1, <3>1, FS_AddElement
    <3>3. Count(e, type) <= Count(c, type) + q
      BY <1>4, <2>4
    <3> HIDE DEF a, b, q
    <3>4. b * q = a * q + q /\ a * q \in Nat
      BY <2>1, <2>2, <3>2
    <3>5. Count(e, type) <= b * q
      BY <2>2, <2>3, <3>3, <3>4
    <3> QED
      BY <3>5 DEF b, q
  <2>5. CASE type # now
    <3>1. I(k + 1, type) = I(k, type)
      BY <1>1, <2>5
    <3>2. Count(e, type) = Count(c, type)
      BY <1>4, <2>5 DEF Count
    <3> QED
      BY <2>3, <3>1, <3>2
  <2> QED
    BY <2>4, <2>5
<1>6. ASSUME NamesOnce(targets) PROVE Served(e, T(k + 1), ranked, targets, n)
  <2>1. T(k + 1) = T(k) \cup {now}
    <3> HIDE DEF N
    <3> QED
      BY <1>1
  <2>2. now \notin T(k)
    <3>1. \A i \in 1..k : targets[i].type # now
      <4>1. \A i \in 1..k : i \in 1..N /\ i # k + 1
        BY <1>1
      <4> HIDE DEF N
      <4> QED
        BY <1>1, <1>6, <4>1 DEF NamesOnce
    <3> QED
      BY <3>1
  <2>3. Served(c, T(k), ranked, targets, n)
    BY <1>6 DEF Taken
  <2>4. e = TakeKept(c, ranked, now, Kept(targets, n), n)
    OBVIOUS
  <2> HIDE DEF T, now
  <2> QED
    BY <1>2, <2>1, <2>2, <2>3, <2>4, RoundWorks
<1> QED
  BY <1>4, <1>5, <1>6 DEF Taken

\* The first pass goes through all entries.
LEMMA TakeGuaranteedWorks ==
    ASSUME NEW targets, NEW n, Planned(targets, n), NEW ranked \in Seq(Items),
           NEW g, g = TakeGuaranteed(ranked, targets, n)
    PROVE  Taken(g, Len(targets), ranked, targets, n)
<1> DEFINE N == Len(targets)
           V == Seq(Items)
           K == Kept(targets, n)
           Course(f) == f = [k \in 0..N |-> IF k = 0 THEN <<>>
                                            ELSE TakeKept(f[k - 1], ranked, targets[k].type, K, n)]
           after == CHOOSE f : Course(f)
           step == [p \in (1..N) \X V |-> TakeKept(p[2], ranked, targets[p[1]].type, K, n)]
<1>1. N \in Nat /\ DOMAIN targets = 1..N
  BY TargetsFinite DEF Planned
<1>2. ASSUME NEW c \in V, NEW type PROVE TakeKept(c, ranked, type, K, n) \in V
  <2> DEFINE limit == KeptLimit(c, type, K)
  <2> HIDE DEF limit
  <2>1. PICK f \in [0..Len(ranked) -> V] : Fill(c, ranked, limit, n) = f[Len(ranked)]
    BY FillRuns
  <2>2. Len(ranked) \in 0..Len(ranked)
    OBVIOUS
  <2>3. Fill(c, ranked, limit, n) \in V
    BY <2>1, <2>2
  <2> QED
    BY <2>3 DEF TakeKept, limit
<1>3. PICK f \in [0..N -> V] : f[0] = <<>> /\ \A k \in 1..N : f[k] = step[<<k, f[k - 1]>>]
  <2>1. <<>> \in V /\ step \in [(1..N) \X V -> V]
    BY <1>2
  <2>2. Courses(N, V, <<>>, step) # {}
    <3> HIDE DEF step, N, V
    <3> QED
      BY <1>1, <2>1, LoopRuns
  <2> HIDE DEF step, N, V
  <2> QED
    BY <2>2 DEF Courses
<1>4. \A k \in 1..N : f[k] = TakeKept(f[k - 1], ranked, targets[k].type, K, n)
  <2> HIDE DEF N, K
  <2>1. \A k \in 1..N : k - 1 \in 0..N /\ f[k - 1] \in V
    BY <1>1, <1>3
  <2> QED
    BY <1>3, <2>1
<1>5. Course(f)
  <2> HIDE DEF N, K
  <2>1. \A k \in 0..N : f[k] = IF k = 0 THEN <<>>
                               ELSE TakeKept(f[k - 1], ranked, targets[k].type, K, n)
    BY <1>1, <1>3, <1>4
  <2> QED
    BY <1>3, <2>1
<1>6. Course(after)
  <2> HIDE DEF Course
  <2> QED
    BY <1>5
<1>7. g = after[N]
  BY DEF TakeGuaranteed
<1> HIDE DEF after
<1>8. /\ after[0] = <<>>
      /\ \A k \in 1..N : after[k] = TakeKept(after[k - 1], ranked, targets[k].type, K, n)
  <2> HIDE DEF N, K
  <2>1. \A k \in 0..N : after[k] = IF k = 0 THEN <<>>
                                   ELSE TakeKept(after[k - 1], ranked, targets[k].type, K, n)
    BY <1>6
  <2>2. 0 \in 0..N /\ \A k \in 1..N : k \in 0..N /\ k # 0
    BY <1>1
  <2> QED
    BY <2>1, <2>2
<1> DEFINE S == {k \in 0..N : Taken(after[k], k, ranked, targets, n)}
<1> HIDE DEF K, V, step
<1>9. 0 \in S
  <2> DEFINE none == <<>>
             T == {targets[i].type : i \in 1..0}
  <2>1. Choice(none) /\ Len(none) = 0 /\ ToSet(none) = {} /\ \A type : OfType(none, type) = {}
    BY DEF Choice, ToSet, IsInjective, OfType
  <2>2. T = {} /\ \A type : {i \in 1..0 : targets[i].type = type} = {}
    OBVIOUS
  <2>3. KeptFor(T, targets, n) = {}
    BY DEF KeptFor
  <2>4. Cardinality(KeptFor(T, targets, n)) = 0 /\ \A type : Count(none, type) = 0
    BY <2>1, <2>3, FS_EmptySet DEF Count
  <2>5. n \in Nat /\ 0 <= n
    BY DEF Planned
  <2>6. \A type : /\ Cardinality({i \in 1..0 : targets[i].type = type}) = 0
                  /\ KeptOf(type, targets, n) \in Nat
    <3>1. \A type : KeptOf(type, targets, n) \in 0..n
      BY KeptCounts
    <3> QED
      BY <2>2, <2>5, <3>1, FS_EmptySet
  <2> HIDE DEF none, T
  <2>7. Served(none, T, ranked, targets, n)
    BY <2>1, <2>2, <2>4, <2>5 DEF Served
  <2>8. \A type : Count(none, type)
             <= Cardinality({i \in 1..0 : targets[i].type = type}) * KeptOf(type, targets, n)
    BY <2>4, <2>6
  <2>9. Taken(none, 0, ranked, targets, n)
    BY <2>1, <2>5, <2>7, <2>8 DEF Taken, T
  <2> HIDE DEF N
  <2> QED
    BY <1>1, <1>8, <2>9 DEF none
<1>10. ASSUME NEW k \in 0..(N - 1), k \in S PROVE k + 1 \in S
  <2>1. k + 1 \in 1..N /\ k + 1 \in 0..N /\ k + 1 - 1 = k
    BY <1>1
  <2>2. after[k + 1] = TakeKept(after[k + 1 - 1], ranked, targets[k + 1].type, K, n)
    BY <1>8, <2>1
  <2>3. after[k + 1] = TakeKept(after[k], ranked, targets[k + 1].type, Kept(targets, n), n)
    BY <2>1, <2>2 DEF K
  <2>4. Taken(after[k], k, ranked, targets, n)
    BY <1>10
  <2>5. Taken(after[k + 1], k + 1, ranked, targets, n)
    BY <2>3, <2>4, TakenNext
  <2> QED
    BY <2>1, <2>5
<1> HIDE DEF N
<1>11. N \in S
  <2> HIDE DEF S
  <2>1. \A k \in 0..N : k \in S
    BY <1>1, <1>9, <1>10, UpTo
  <2> QED
    BY <1>1, <2>1
<1> QED
  BY <1>7, <1>11 DEF N

\* The limits of the second pass are the maxima, or no limit at all.
LEMMA MaxLimitBounds ==
    ASSUME NEW targets, NEW n, Planned(targets, n)
    PROVE  /\ MaxLimit(targets, n) \in [Types -> Nat]
           /\ \A type \in Named(targets) :
                 MaxLimit(targets, n)[type] = MaxSlots(LastEntry(targets, type), n)
           /\ \A type \in Types : type \notin Named(targets) => MaxLimit(targets, n)[type] = n
<1>1. n \in Nat
  BY DEF Planned
<1>2. \A type \in Named(targets) :
         type \in Types /\ MaxSlots(LastEntry(targets, type), n) \in Nat
  BY QuotaBounds
<1>3. MaxLimit(targets, n)
         = [type \in Types |-> IF type \in Named(targets)
                               THEN MaxSlots(LastEntry(targets, type), n) ELSE n]
  BY DEF MaxLimit
<1> QED
  BY <1>1, <1>2, <1>3

\* How many entries a type has.
Times(targets, type) == Cardinality(Entries(targets, type))

\* What a selection keeps of a policy (_select_candidates), for every number of
\* slots and every ranking.  Of any policy that is Valid: no topic twice,
\* slots left only if every type that could use them is full, and a type above
\* its maximum only if the policy names it more than once, then by no more than
\* its guarantee for each time.  Of a policy that names no type twice, besides:
\* each type has its minimum or all its candidates unless that is infeasible,
\* and of the types that want for slots it is the one with the lower boost that
\* gets none.
THEOREM SelectionWorks ==
    ASSUME NEW targets, NEW n, Planned(targets, n), NEW ranked, Choice(ranked),
           NEW d, d = SelectCandidates(ranked, targets, n)
    PROVE  /\ Choice(d) /\ Len(d) <= n /\ ToSet(d) \subseteq ToSet(ranked)
           /\ \A type \in Named(targets) :
                 /\ Count(d, type) \in Nat
                 /\ \/ Count(d, type) <= MaxSlots(LastEntry(targets, type), n)
                    \/ /\ Times(targets, type) > 1
                       /\ Count(d, type)
                              <= Times(targets, type) * Guarantee(LastEntry(targets, type), n)
           /\ Len(d) < n =>
                 \A i \in ToSet(ranked) \ ToSet(d) :
                     /\ TypeOf[i] \in Named(targets)
                     /\ Count(d, TypeOf[i]) >= MaxSlots(LastEntry(targets, TypeOf[i]), n)
           /\ NamesOnce(targets) =>
                 /\ \A t \in ToSet(targets) :
                       \/ Infeasible(targets, n)
                       \/ Count(d, t.type) >= MinSlots(t, n)
                       \/ Count(d, t.type) = Count(ranked, t.type)
                 /\ \A s, t \in ToSet(targets) :
                       (/\ s.boost > t.boost
                        /\ Count(d, s.type) < Guarantee(s, n)
                        /\ Count(d, s.type) < Count(ranked, s.type)
                        /\ \A u \in ToSet(targets) : Count(ranked, u.type) >= Guarantee(u, n))
                           => Count(d, t.type) = 0
<1> DEFINE g == TakeGuaranteed(ranked, targets, n)
           limit == MaxLimit(targets, n)
           ts == ToSet(targets)
           names == Named(targets)
           kept(type) == KeptOf(type, targets, n)
<1>1. ranked \in Seq(Items) /\ n \in Nat /\ Valid(targets)
  BY DEF Choice, Planned
<1>2. Taken(g, Len(targets), ranked, targets, n)
  BY <1>1, TakeGuaranteedWorks
<1>3. /\ limit \in [Types -> Nat]
      /\ \A type \in names : limit[type] = MaxSlots(LastEntry(targets, type), n)
      /\ \A type \in Types : type \notin names => limit[type] = n
  BY MaxLimitBounds
<1>4. d = Fill(g, ranked, limit, n)
  BY DEF SelectCandidates
<1> HIDE DEF g, limit
<1>5. /\ Choice(g) /\ Len(g) <= n /\ ToSet(g) \subseteq ToSet(ranked)
  BY <1>2 DEF Taken
<1>6. /\ Choice(d) /\ Len(d) <= n /\ Grown(g, d)
      /\ ToSet(d) \subseteq ToSet(g) \cup ToSet(ranked)
      /\ \A type \in Types : Count(d, type) = Count(g, type) \/ Count(d, type) <= limit[type]
      /\ \A i \in ToSet(ranked) : Settled(d, i, limit, n)
  BY <1>1, <1>3, <1>4, <1>5, FillWorks
<1>7. /\ Len(g) \in Nat /\ Len(d) \in Nat
      /\ \A type : Count(g, type) \in 0..Len(g) /\ Count(d, type) \in 0..Len(d)
      /\ \A type : Count(ranked, type) \in Nat
  <2>1. Len(g) \in Nat /\ Len(d) \in Nat /\ Len(ranked) \in Nat
    BY <1>5, <1>6 DEF Choice
  <2>2. \A type : Count(ranked, type) \in 0..Len(ranked)
    BY ChoiceCounts
  <2> QED
    BY <1>5, <1>6, <2>1, <2>2, ChoiceCounts
<1>8. ToSet(d) \subseteq ToSet(ranked)
  BY <1>5, <1>6
<1>9. ASSUME NEW type \in names
      PROVE  /\ type \in Types /\ LastEntry(targets, type) \in Target
             /\ Count(g, type) \in Nat /\ Count(d, type) \in Nat
             /\ Count(g, type) <= Count(d, type)
             /\ MaxSlots(LastEntry(targets, type), n) \in Nat
             /\ Quota(targets, type, n) \in Nat
             /\ Quota(targets, type, n) <= MaxSlots(LastEntry(targets, type), n)
             /\ kept(type) \in Nat /\ kept(type) <= Quota(targets, type, n)
             /\ Excess(targets, n) <= 0 => kept(type) = Quota(targets, type, n)
             /\ Count(g, type) <= Times(targets, type) * kept(type)
             /\ Times(targets, type) \in Nat /\ Times(targets, type) # 0
  <2>1. /\ type \in Types /\ LastEntry(targets, type) \in Target
        /\ Quota(targets, type, n) \in 0..n
        /\ MaxSlots(LastEntry(targets, type), n) \in Nat
        /\ Quota(targets, type, n) <= MaxSlots(LastEntry(targets, type), n)
    BY QuotaBounds
  <2>2. /\ kept(type) \in 0..n /\ kept(type) <= Quota(targets, type, n)
        /\ Excess(targets, n) <= 0 => kept(type) = Quota(targets, type, n)
    BY KeptCounts
  <2>3. Count(g, type) \in Nat /\ Count(d, type) \in Nat
    BY <1>7
  <2>4. Count(g, type) <= Count(d, type)
    BY <1>6, <2>1 DEF Grown
  <2>5. Count(g, type) <= Times(targets, type) * kept(type)
    <3>1. {i \in 1..Len(targets) : targets[i].type = type} = Entries(targets, type)
      BY <1>1, TargetsFinite DEF Entries
    <3> QED
      BY <1>2, <2>1, <3>1 DEF Taken, Times
  <2>6. Times(targets, type) \in Nat /\ Times(targets, type) # 0
    <3>1. IsFiniteSet(Entries(targets, type)) /\ Entries(targets, type) # {}
      BY <1>1, TargetsFinite, EntryOfType
    <3> QED
      BY <3>1, FS_EmptySet, FS_CardinalityType DEF Times
  <2>7. kept(type) \in Nat /\ Quota(targets, type, n) \in Nat
    BY <1>1, <2>1, <2>2
  <2> QED
    BY <2>1, <2>2, <2>3, <2>4, <2>5, <2>6, <2>7
<1>10. ASSUME NEW type \in names
       PROVE  \/ Count(d, type) <= MaxSlots(LastEntry(targets, type), n)
              \/ /\ Times(targets, type) > 1
                 /\ Count(d, type)
                        <= Times(targets, type) * Guarantee(LastEntry(targets, type), n)
  <2> DEFINE m == MaxSlots(LastEntry(targets, type), n)
             q == Quota(targets, type, n)
             k == kept(type)
             r == Times(targets, type)
             a == Count(g, type)
             b == Count(d, type)
  <2>1. /\ a \in Nat /\ b \in Nat /\ m \in Nat /\ q \in Nat /\ k \in Nat /\ r \in Nat /\ r # 0
        /\ q <= m /\ k <= q /\ a <= r * k
    BY <1>9
  <2>2. b = a \/ b <= m
    BY <1>3, <1>6, <1>9
  <2> HIDE DEF m, q, k, r, a, b
  <2>3. r * k <= r * q /\ r * k \in Nat /\ r * q \in Nat
    <3>1. PICK e \in Nat : q = k + e
      <4>1. q - k \in Nat /\ q = k + (q - k)
        BY <2>1
      <4> QED
        BY <4>1
    <3>2. r * (k + e) = r * k + r * e /\ r * k \in Nat /\ r * e \in Nat
      BY <2>1
    <3> QED
      BY <3>1, <3>2
  <2>4. r = 1 => r * q = q
    BY <2>1
  <2>5. b <= m \/ (r > 1 /\ b <= r * q)
    BY <2>1, <2>2, <2>3, <2>4
  <2> QED
    BY <2>5 DEF m, q, r, b, Quota
<1>11. ASSUME Len(d) < n, NEW i \in ToSet(ranked) \ ToSet(d)
       PROVE  /\ TypeOf[i] \in names
              /\ Count(d, TypeOf[i]) >= MaxSlots(LastEntry(targets, TypeOf[i]), n)
  <2>1. TypeOf[i] \in Types
    <3>1. ToSet(ranked) \subseteq Items
      BY <1>1 DEF ToSet
    <3> QED
      BY <3>1, SelectionAssumption
  <2>2. Count(d, TypeOf[i]) >= limit[TypeOf[i]]
    BY <1>1, <1>6, <1>7, <1>11 DEF Settled
  <2>3. Count(d, TypeOf[i]) \in Nat /\ Count(d, TypeOf[i]) < n
    BY <1>1, <1>7, <1>11
  <2>4. limit[TypeOf[i]] # n
    BY <1>1, <2>2, <2>3
  <2> QED
    BY <1>3, <2>1, <2>2, <2>4
<1>12. ASSUME NamesOnce(targets), NEW t \in ts
       PROVE  /\ t \in Target /\ t.type \in names /\ LastEntry(targets, t.type) = t
              /\ Quota(targets, t.type, n) = Guarantee(t, n)
              /\ Lead(targets, t.type) = t
  BY <1>1, <1>12, TargetsFinite, EntryNamedOnce DEF Quota
<1>13. ASSUME NamesOnce(targets) PROVE Served(g, names, ranked, targets, n)
  <2>1. {targets[i].type : i \in 1..Len(targets)} = names
    BY <1>1, TargetsFinite DEF Named, ToSet
  <2> QED
    BY <1>2, <1>13, <2>1 DEF Taken
<1>14. ASSUME NamesOnce(targets), NEW t \in ts, ~Infeasible(targets, n)
       PROVE  \/ Count(d, t.type) >= MinSlots(t, n)
              \/ Count(d, t.type) = Count(ranked, t.type)
  <2>1. /\ t \in Target /\ t.type \in names /\ LastEntry(targets, t.type) = t
        /\ Quota(targets, t.type, n) = Guarantee(t, n)
    BY <1>12, <1>14
  <2>2. /\ MinSlots(t, n) \in 0..n /\ MaxSlots(t, n) \in Nat
        /\ Guarantee(t, n) <= MinSlots(t, n)
        /\ Guarantee(t, n) = MinSlots(t, n) \/ Guarantee(t, n) = MaxSlots(t, n)
        /\ Guarantee(t, n) <= MaxSlots(t, n)
    BY <2>1, SlotBounds DEF Planned
  <2>3. MinSlots(t, n) <= MaxSlots(t, n) /\ Excess(targets, n) <= 0
    <3>1. Excess(targets, n) \in Int
      BY KeptSlots
    <3> QED
      BY <1>1, <1>14, <2>2, <3>1 DEF Infeasible
  <2>4. kept(t.type) = MinSlots(t, n)
    BY <1>1, <1>9, <2>1, <2>2, <2>3
  <2>5. \/ Count(g, t.type) = kept(t.type)
        \/ OfType(g, t.type) = OfType(ranked, t.type)
    BY <1>13, <1>14, <2>1 DEF Served
  <2>6. CASE Count(g, t.type) = kept(t.type)
    BY <1>9, <2>1, <2>4, <2>6
  <2>7. CASE OfType(g, t.type) = OfType(ranked, t.type)
    <3>1. OfType(g, t.type) \subseteq OfType(d, t.type)
      BY <1>6 DEF Grown, OfType
    <3>2. OfType(d, t.type) \subseteq OfType(ranked, t.type)
      BY <1>8 DEF OfType
    <3> QED
      BY <2>7, <3>1, <3>2 DEF Count
  <2> QED
    BY <2>5, <2>6, <2>7
<1>15. ASSUME NamesOnce(targets), NEW s \in ts, NEW t \in ts, s.boost > t.boost,
              Count(d, s.type) < Guarantee(s, n),
              Count(d, s.type) < Count(ranked, s.type),
              \A u \in ts : Count(ranked, u.type) >= Guarantee(u, n)
       PROVE  Count(d, t.type) = 0
  <2>1. ASSUME NEW type \in names PROVE Count(g, type) = kept(type)
    <3>1. PICK u \in ts : type = u.type
      BY DEF Named
    <3>2. Count(ranked, type) >= Quota(targets, type, n)
      BY <1>12, <1>15, <3>1
    <3>3. /\ Count(g, type) <= kept(type)
          /\ Count(g, type) = kept(type) \/ OfType(g, type) = OfType(ranked, type)
      BY <1>13, <1>15 DEF Served
    <3>4. CASE OfType(g, type) = OfType(ranked, type)
      <4>1. Count(g, type) = Count(ranked, type) /\ Count(ranked, type) \in Nat
        BY <1>7, <3>4 DEF Count
      <4> QED
        BY <1>9, <3>2, <3>3, <4>1
    <3> QED
      BY <3>3, <3>4
  <2>2. /\ s.type \in names /\ t.type \in names /\ s \in Target /\ t \in Target
        /\ Lead(targets, s.type) = s /\ Lead(targets, t.type) = t
        /\ Quota(targets, s.type, n) = Guarantee(s, n)
    BY <1>12, <1>15
  <2>3. kept(s.type) < Quota(targets, s.type, n)
    BY <1>9, <1>15, <2>1, <2>2
  <2>4. Excess(targets, n) > 0
    <3>1. Excess(targets, n) \in Int
      BY KeptSlots
    <3> QED
      BY <1>9, <2>2, <2>3, <3>1
  <2>5. Len(g) = n
    <3>1. Len(g) = Cardinality(KeptFor(names, targets, n))
      BY <1>13, <1>15, <2>1 DEF Served
    <3>2. Cardinality(KeptFor(names, targets, n)) = n
      BY <2>4, KeptCounts, KeptSlots
    <3> QED
      BY <3>1, <3>2
  <2>6. ToSet(d) = ToSet(g)
    <3>1. ToSet(g) \in SUBSET ToSet(d)
      BY <1>6 DEF Grown
    <3>2. /\ IsFiniteSet(ToSet(d)) /\ Cardinality(ToSet(d)) = Len(d)
          /\ Cardinality(ToSet(g)) = Len(g)
      BY <1>5, <1>6, ChoiceCounts
    <3>3. Len(d) = Len(g)
      BY <1>1, <1>6, <1>7, <2>5 DEF Grown
    <3> QED
      BY <3>1, <3>2, <3>3, FS_Subset
  <2>7. PICK p \in Promised(targets, n) : p[1] = s.type /\ p \notin Kept(targets, n)
    <3> DEFINE G == {p \in Promised(targets, n) : p[1] = s.type}
               H == {p \in Kept(targets, n) : p[1] = s.type}
    <3>1. Cardinality(G) = Quota(targets, s.type, n)
      BY <2>2, PromisedSlots
    <3>2. Kept(targets, n) \subseteq Promised(targets, n)
      BY KeptSlots
    <3>3. (\A p \in G : p \in Kept(targets, n)) => H = G
      BY <3>2
    <3>4. H # G
      <4>1. Cardinality(H) = kept(s.type)
        BY DEF KeptOf
      <4> HIDE DEF G, H
      <4> QED
        BY <1>9, <2>2, <2>3, <3>1, <4>1
    <3> QED
      BY <3>3, <3>4
  <2>8. {q \in Kept(targets, n) : q[1] = t.type} = {}
    <3>1. ASSUME NEW q \in Kept(targets, n), q[1] = t.type PROVE FALSE
      <4>1. q \in Promised(targets, n)
        BY KeptSlots
      <4>2. t.boost < s.boost
        BY <1>15, <2>2 DEF Target
      <4>3. GivenUpBefore(q, p, targets)
        BY <2>2, <2>7, <3>1, <4>2 DEF GivenUpBefore, TrimsBefore
      <4> QED
        BY <2>7, <3>1, <4>1, <4>3, KeptSlots
    <3> QED
      BY <3>1
  <2>9. Count(g, t.type) = 0
    BY <2>1, <2>2, <2>8, FS_EmptySet DEF KeptOf
  <2> QED
    BY <2>6, <2>9 DEF Count, OfType
<1> HIDE DEF ts, names
<1>16. \A type \in names : Count(d, type) \in Nat
  BY <1>9
<1> QED
  BY <1>6, <1>8, <1>10, <1>11, <1>14, <1>15, <1>16 DEF ts, names

\* A policy said to be infeasible for n slots has no allotment of them.
LEMMA InfeasibleMeans ==
    ASSUME NEW targets, NEW n, Planned(targets, n), Infeasible(targets, n),
           NEW f \in [Named(targets) -> 0..n]
    PROVE  \/ \E t \in ToSet(targets) : \/ f[t.type] * Unit < Rounded(t.min * n)
                                        \/ f[t.type] * Unit > Rounded(t.max * n)
           \/ Cardinality(SlotsOf(f)) > n
<1> DEFINE ts == ToSet(targets)
<1> SUFFICES ASSUME \A t \in ts : /\ ~(f[t.type] * Unit < Rounded(t.min * n))
                                  /\ ~(f[t.type] * Unit > Rounded(t.max * n))
             PROVE  Cardinality(SlotsOf(f)) > n
  OBVIOUS
<1>1. n \in Nat \ {0} /\ n * Unit \in Floats /\ Valid(targets)
  BY DEF Planned
<1>2. ASSUME NEW t \in ts
      PROVE  /\ f[t.type] \in 0..n /\ MinSlots(t, n) \in Nat /\ MaxSlots(t, n) \in Nat
             /\ MinSlots(t, n) <= f[t.type] /\ f[t.type] <= MaxSlots(t, n)
             /\ Guarantee(t, n) \in Nat /\ Guarantee(t, n) <= f[t.type]
  <2>1. t \in Target /\ f[t.type] \in 0..n /\ f[t.type] \in Nat
    BY <1>1, TargetsFinite
  <2>2. t.min * n \in Nat /\ t.max * n \in Nat
    <3>1. t.min \in Nat /\ t.max \in Nat
      BY <2>1, SelectionAssumption DEF Target
    <3> QED
      BY <1>1, <3>1
  <2>3. f[t.type] * Unit \in Nat /\ Rounded(t.min * n) \in Nat /\ Rounded(t.max * n) \in Nat
    <3>1. Rounded(t.min * n) \in Nat /\ Rounded(t.max * n) \in Nat
      BY <2>2, RoundedWorks
    <3>2. f[t.type] * Unit \in Nat
      BY <2>1, SelectionAssumption
    <3> QED
      BY <3>1, <3>2
  <2>4. f[t.type] * Unit >= Rounded(t.min * n) /\ f[t.type] * Unit <= Rounded(t.max * n)
    BY <2>3
  <2>5. /\ MinSlots(t, n) \in 0..n /\ MaxSlots(t, n) \in Nat
        /\ f[t.type] >= MinSlots(t, n) /\ f[t.type] <= MaxSlots(t, n)
        /\ Guarantee(t, n) \in 0..n /\ Guarantee(t, n) <= MinSlots(t, n)
    BY <1>1, <2>1, <2>4, SlotBounds
  <2> QED
    BY <1>1, <2>1, <2>5
<1>3. Excess(targets, n) > 0
  BY <1>2 DEF Infeasible
<1>4. Cardinality(Promised(targets, n)) > n /\ Cardinality(Promised(targets, n)) \in Nat
  BY <1>1, <1>3, PromisedSlots DEF Excess
<1>5. SlotsOf(f) = UNION {{type} \X (1..f[type]) : type \in Named(targets)}
  BY DEF SlotsOf
<1>6. IsFiniteSet(SlotsOf(f))
  <2>1. IsFiniteSet(Named(targets) \X (1..n))
    <3>1. 1 \in Int /\ n \in Int
      BY <1>1
    <3>2. IsFiniteSet(1..n)
      BY <3>1, FS_Interval
    <3>3. IsFiniteSet(Named(targets))
      BY <1>1, TargetsFinite
    <3> QED
      BY <3>2, <3>3, FS_Product
  <2>2. ASSUME NEW p \in SlotsOf(f) PROVE p \in Named(targets) \X (1..n)
    <3>1. PICK type \in Named(targets) : p \in {type} \X (1..f[type])
      BY <1>5
    <3>2. f[type] \in 0..n /\ p = <<p[1], p[2]>> /\ p[1] = type /\ p[2] \in 1..f[type]
      BY <3>1
    <3> QED
      BY <1>1, <3>2
  <2>3. SlotsOf(f) \in SUBSET (Named(targets) \X (1..n))
    BY <2>2
  <2> QED
    BY <2>1, <2>3, FS_Subset
<1>7. Promised(targets, n) \in SUBSET SlotsOf(f)
  <2>1. Promised(targets, n)
            = {p \in Named(targets) \X (1..n) : p[2] <= Quota(targets, p[1], n)}
    BY PromisedSlots
  <2>2. ASSUME NEW p \in Named(targets) \X (1..n), p[2] <= Quota(targets, p[1], n)
        PROVE  p \in SlotsOf(f)
    <3>1. p = <<p[1], p[2]>> /\ p[1] \in Named(targets) /\ p[2] \in 1..n
      OBVIOUS
    <3>2. LastEntry(targets, p[1]) \in ts /\ LastEntry(targets, p[1]).type = p[1]
      BY <1>1, <3>1, EntryOfType
    <3>3. Quota(targets, p[1], n) \in Nat /\ f[p[1]] \in 0..n /\ Quota(targets, p[1], n) <= f[p[1]]
      BY <1>2, <3>2 DEF Quota
    <3>4. p[2] \in 1..f[p[1]]
      BY <1>1, <2>2, <3>1, <3>3
    <3>5. p \in {p[1]} \X (1..f[p[1]])
      BY <3>1, <3>4
    <3> QED
      BY <1>5, <3>1, <3>5
  <2> QED
    BY <2>1, <2>2
<1>8. Cardinality(Promised(targets, n)) <= Cardinality(SlotsOf(f))
  BY <1>6, <1>7, FS_Subset
<1>9. Cardinality(SlotsOf(f)) \in Nat
  BY <1>6, FS_CardinalityType
<1> QED
  BY <1>1, <1>4, <1>8, <1>9

\* Every candidate is ranked, once.
LEMMA RankedWorks ==
    ASSUME NEW candidates \in SUBSET Items, NEW score, NEW targets,
           NEW r \in Rankings(candidates, score, targets)
    PROVE  Choice(r) /\ ToSet(r) = candidates
<1> DEFINE n == Cardinality(candidates)
<1>1. IsFiniteSet(candidates)
  BY SelectionAssumption, FS_Subset
<1>2. n \in Nat /\ IsFiniteSet(1..n) /\ Cardinality(1..n) = n
  BY <1>1, FS_CardinalityType, FS_Interval
<1>3. r \in SetToSeqs(candidates)
  BY DEF Rankings
<1>4. r \in [1..n -> candidates] /\ \A k, m \in 1..n : r[k] = r[m] => k = m
  BY <1>3 DEF SetToSeqs
<1>5. r \in Injection(1..n, candidates)
  BY <1>4 DEF Injection, IsInjective
<1>6. r \in Surjection(1..n, candidates)
  BY <1>1, <1>2, <1>5, FS_Injection
<1>7. ToSet(r) = candidates
  BY <1>4, <1>6 DEF Surjection, ToSet
<1> HIDE DEF n
<1>8. r \in Seq(Items)
  BY <1>2, <1>4
<1>9. IsInjective(r)
  BY <1>4 DEF IsInjective
<1> QED
  BY <1>7, <1>8, <1>9 DEF Choice

\* What SelectCandidates gives a batch keeps its quotas.
LEMMA DecisionKeepsQuotas ==
    ASSUME NEW targets, NEW n, Planned(targets, n), NEW ranked, Choice(ranked),
           NEW b, Policies[b.policy] = targets, b.slots = n, b.ranked = ranked,
           b.chosen = SelectCandidates(ranked, targets, n),
           b.infeasible = Infeasible(targets, n)
    PROVE  KeepsQuotas(b) /\ Choice(b.chosen) /\ ToSet(b.chosen) \subseteq ToSet(b.ranked)
<1> DEFINE ts == ToSet(targets)
           names == Named(targets)
           last(type) == LastEntry(targets, type)
           d == b.chosen
<1>1. /\ Choice(d) /\ Len(d) <= n /\ ToSet(d) \subseteq ToSet(ranked)
      /\ \A type \in names :
            /\ Count(d, type) \in Nat
            /\ \/ Count(d, type) <= MaxSlots(last(type), n)
               \/ /\ Times(targets, type) > 1
                  /\ Count(d, type) <= Times(targets, type) * Guarantee(last(type), n)
      /\ Len(d) < n =>
            \A i \in ToSet(ranked) \ ToSet(d) :
                TypeOf[i] \in names /\ Count(d, TypeOf[i]) >= MaxSlots(last(TypeOf[i]), n)
      /\ NamesOnce(targets) =>
            /\ \A t \in ts : \/ Infeasible(targets, n)
                             \/ Count(d, t.type) >= MinSlots(t, n)
                             \/ Count(d, t.type) = Count(ranked, t.type)
            /\ \A s, t \in ts :
                  (/\ s.boost > t.boost
                   /\ Count(d, s.type) < Guarantee(s, n)
                   /\ Count(d, s.type) < Count(ranked, s.type)
                   /\ \A u \in ts : Count(ranked, u.type) >= Guarantee(u, n))
                      => Count(d, t.type) = 0
  BY SelectionWorks
<1> HIDE DEF d
<1>2. n \in Nat \ {0} /\ n * Unit \in Floats /\ Valid(targets)
  BY DEF Planned
<1>3. ASSUME NEW t \in Target
      PROVE  /\ MaxSlots(t, n) \in Nat /\ Guarantee(t, n) \in Nat /\ Rounded(t.max * n) \in Nat
             /\ \A c \in Nat : c * Unit >= Rounded(t.min * n) <=> c >= MinSlots(t, n)
             /\ \A c \in Nat : c * Unit <= Rounded(t.max * n) <=> c <= MaxSlots(t, n)
             /\ \A c \in Nat : c * Unit \in Nat
  <2>1. t.max * n \in Nat
    <3>1. t.max \in Nat
      BY SelectionAssumption DEF Target
    <3> QED
      BY <1>2, <3>1
  <2>2. \A c \in Nat : c * Unit \in Nat
    BY SelectionAssumption
  <2>3. Guarantee(t, n) \in 0..n
    BY <1>2, SlotBounds
  <2>4. Guarantee(t, n) \in Nat
    BY <1>2, <2>3
  <2> QED
    BY <1>2, <2>1, <2>2, <2>4, SlotBounds, RoundedWorks
<1>4. \A t \in ts : t \in Target /\ t.type \in names
  BY <1>2, TargetsFinite
<1>5. \A type \in names : last(type) \in Target
  BY <1>2, <1>4, EntryOfType
<1> HIDE DEF last, ts, names
<1>6. ASSUME NEW type \in names
      PROVE  \/ Count(d, type) * Unit <= Rounded(last(type).max * n)
             \/ /\ Times(targets, type) > 1
                /\ Count(d, type) <= Times(targets, type) * Guarantee(last(type), n)
  BY <1>1, <1>3, <1>5
<1>7. ASSUME Len(d) < n, NEW i \in ToSet(ranked) \ ToSet(d)
      PROVE  /\ TypeOf[i] \in names
             /\ (Count(d, TypeOf[i]) + 1) * Unit > Rounded(last(TypeOf[i]).max * n)
  <2> DEFINE t == last(TypeOf[i])
             c == Count(d, TypeOf[i]) + 1
  <2>1. TypeOf[i] \in names /\ Count(d, TypeOf[i]) \in Nat /\ Count(d, TypeOf[i]) >= MaxSlots(t, n)
    BY <1>1, <1>7
  <2>2. t \in Target
    BY <1>5, <2>1
  <2>3. c \in Nat /\ ~(c <= MaxSlots(t, n))
    BY <1>3, <2>1, <2>2
  <2> HIDE DEF c, t
  <2>4. ~(c * Unit <= Rounded(t.max * n)) /\ c * Unit \in Nat /\ Rounded(t.max * n) \in Nat
    BY <1>3, <2>2, <2>3
  <2>5. c * Unit > Rounded(t.max * n)
    BY <2>4
  <2> QED
    BY <2>1, <2>5 DEF c, t
<1>8. Infeasible(targets, n) => \A f \in [names -> 0..n] :
         \/ \E t \in ts : \/ f[t.type] * Unit < Rounded(t.min * n)
                          \/ f[t.type] * Unit > Rounded(t.max * n)
         \/ Cardinality(SlotsOf(f)) > n
  BY InfeasibleMeans DEF ts, names
<1>9. KeepsMaxima(b)
  <2>1. IsInjective(d) /\ Len(d) <= n
    BY <1>1 DEF Choice
  <2> QED
    BY <1>6, <1>7, <1>8, <2>1 DEF KeepsMaxima, Count, Times, d, ts, names, last
<1>10. ASSUME NamesOnce(targets), NEW t \in ts
       PROVE  \/ Infeasible(targets, n)
              \/ Count(d, t.type) * Unit >= Rounded(t.min * n)
              \/ Count(d, t.type) = Count(ranked, t.type)
  BY <1>1, <1>3, <1>4, <1>10
<1>11. ASSUME NamesOnce(targets), NEW s \in ts, NEW t \in ts, s.boost > t.boost,
              Count(d, s.type) < Min({Count(ranked, s.type), Guarantee(s, n)}),
              \A u \in ts : Count(ranked, u.type) >= Guarantee(u, n)
       PROVE  Count(d, t.type) = 0
  <2> DEFINE S == {Count(ranked, s.type), Guarantee(s, n)}
  <2>1. Count(ranked, s.type) \in Nat /\ Guarantee(s, n) \in Nat /\ Count(d, s.type) \in Nat
    <3>1. Len(ranked) \in Nat
      BY DEF Choice
    <3>2. Count(ranked, s.type) \in 0..Len(ranked)
      BY ChoiceCounts
    <3>3. Count(ranked, s.type) \in Nat
      BY <3>1, <3>2
    <3>4. s \in Target /\ s.type \in names
      BY <1>4, <1>11
    <3>5. Guarantee(s, n) \in Nat
      BY <1>3, <3>4
    <3>6. Count(d, s.type) \in Nat
      BY <1>1, <3>4
    <3> QED
      BY <3>3, <3>5, <3>6
  <2>2. \E x \in S : \A y \in S : x <= y
    BY <2>1
  <2>3. Min(S) \in S /\ \A y \in S : Min(S) <= y
    BY <2>2 DEF Min
  <2>4. /\ Min(S) \in Nat /\ Min(S) <= Count(ranked, s.type) /\ Min(S) <= Guarantee(s, n)
        /\ Count(d, s.type) < Min(S)
    BY <1>11, <2>1, <2>3
  <2>5. Count(d, s.type) < Guarantee(s, n) /\ Count(d, s.type) < Count(ranked, s.type)
    <3> HIDE DEF S
    <3> QED
      BY <2>1, <2>4
  <2> QED
    BY <1>1, <1>11, <2>5
<1>12. NamesOnce(targets) => KeepsMinima(b)
  BY <1>10, <1>11 DEF KeepsMinima, Count, d, ts
<1> QED
  BY <1>1, <1>9, <1>12 DEF KeepsQuotas, d

----------------------------------------------------------------------------
(* Decisions and feedback *)

Batch == [policy : DOMAIN Policies, slots : Slots, ranked : Seq(Items), chosen : Seq(Items),
          written : Nat, infeasible : BOOLEAN]

FeedbackTypeOK ==
    /\ policy \in DOMAIN Policies \cup {0} /\ described \in BOOLEAN
    /\ batches \in Seq(Batch)
    /\ publications \in Seq(Nat \X Nat) /\ Imported
    /\ rewarded \subseteq Nat /\ lost \subseteq Nat

\* The rows of the evaluation have all they need when their import was not cut
\* short: their publication names an event on record, whose batch was made of a
\* described brand.
Supported ==
    /\ batches # <<>> => described
    /\ \A p \in DOMAIN publications : publications[p] = Manual \/ IsEvent(publications[p])
    /\ \A s \in DOMAIN snapshots :
          /\ snapshots[s] \in DOMAIN publications
          /\ publications[snapshots[s]] = Manual \/ snapshots[s] \in rewarded \cup lost

\* What is chosen was ranked, keeps the quotas, and is all that is written.
Decided(b) ==
    /\ b.written <= 3 * Len(b.chosen) /\ ToSet(b.chosen) \subseteq ToSet(b.ranked)
    /\ KeepsQuotas(b)

DecisionsInv ==
    /\ FeedbackTypeOK /\ PoolOK(pool) /\ Supported
    /\ \A k \in DOMAIN batches : Decided(batches[k])

\* A decision is put after those on record; it ranks the candidates.
LEMMA BatchAppended ==
    ASSUME FeedbackTypeOK, PoolOK(pool), NEW n \in Slots, RunDecisionBatch(n)
    PROVE  \E b \in Batch : /\ batches' = Append(batches, b) /\ Decided(b)
                            /\ ToSet(b.ranked) = Candidates(pool')
<1>1. /\ policy \in DOMAIN Policies /\ Valid(Policies[policy]) /\ Imported
      /\ n \in Nat \ {0} /\ Planned(Policies[policy], n)
  BY DecisionsAssumption DEF FeedbackTypeOK, RunDecisionBatch, Planned
<1> DEFINE decision(ranked, chosen, written) ==
               [policy |-> policy, slots |-> n, ranked |-> ranked, chosen |-> chosen,
                written |-> written, infeasible |-> Infeasible(Policies[policy], n)]
<1>2. PICK score \in [Stale(pool) -> Scores] :
         /\ pool' = Rescored(pool, Stale(pool), score)
         /\ \E ranked \in Rankings(Candidates(pool'), [i \in Items |-> pool'[i].score],
                                  Policies[policy]) :
            \E chosen \in {SelectCandidates(ranked, Policies[policy], n)} :
            \E written \in 0..3 * Len(chosen) :
               batches' = Append(batches, decision(ranked, chosen, written))
  BY DEF RunDecisionBatch
<1> DEFINE scores == [i \in Items |-> pool'[i].score]
<1>3. PICK r \in Rankings(Candidates(pool'), scores, Policies[policy]) :
         \E chosen \in {SelectCandidates(r, Policies[policy], n)} :
         \E written \in 0..3 * Len(chosen) :
            batches' = Append(batches, decision(r, chosen, written))
  BY <1>2
<1>4. PICK written \in 0..3 * Len(SelectCandidates(r, Policies[policy], n)) :
         batches' = Append(batches, decision(r, SelectCandidates(r, Policies[policy], n), written))
  BY <1>3
<1> DEFINE b == decision(r, SelectCandidates(r, Policies[policy], n), written)
<1>5. Choice(r) /\ ToSet(r) = Candidates(pool')
  <2>1. Candidates(pool') \in SUBSET Items
    BY DEF Candidates
  <2> HIDE DEF scores
  <2> QED
    BY <2>1, RankedWorks
<1>6. /\ b.policy = policy /\ b.slots = n /\ b.written = written
      /\ b.chosen = SelectCandidates(r, Policies[policy], n)
      /\ b.infeasible = Infeasible(Policies[policy], n)
      /\ b = [policy |-> b.policy, slots |-> b.slots, ranked |-> r, chosen |-> b.chosen,
              written |-> b.written, infeasible |-> b.infeasible]
      /\ batches' = Append(batches, b) /\ written \in 0..3 * Len(b.chosen) /\ b.ranked = r
  BY <1>4
<1>7. b.infeasible \in BOOLEAN
  BY <1>6 DEF Infeasible
<1> HIDE DEF b
<1>8. KeepsQuotas(b) /\ Choice(b.chosen) /\ ToSet(b.chosen) \subseteq ToSet(b.ranked)
  BY <1>1, <1>5, <1>6, DecisionKeepsQuotas
<1>9. written \in Nat /\ written <= 3 * Len(b.chosen)
  <2>1. Len(b.chosen) \in Nat
    BY <1>8 DEF Choice
  <2> QED
    BY <1>6, <2>1
<1>10. b \in Batch
  BY <1>1, <1>5, <1>6, <1>7, <1>8, <1>9 DEF Batch, Choice
<1> QED
  BY <1>5, <1>6, <1>8, <1>9, <1>10 DEF Decided

LEMMA BatchSteps ==
    ASSUME DecisionsInv, NEW n \in Slots, RunDecisionBatch(n), PoolOK(pool)'
    PROVE  DecisionsInv'
<1>1. FeedbackTypeOK /\ Supported /\ PoolOK(pool) /\ described
      /\ UNCHANGED <<policy, described, publications, snapshots, rewarded, lost>>
  BY DEF DecisionsInv, RunDecisionBatch
<1>2. PICK b \in Batch : batches' = Append(batches, b) /\ Decided(b)
  BY <1>1, BatchAppended
<1>3. batches \in Seq(Batch)
  BY <1>1 DEF FeedbackTypeOK
<1>4. /\ batches' \in Seq(Batch)
      /\ \A k \in DOMAIN batches : k \in DOMAIN batches' /\ batches'[k] = batches[k]
      /\ \A k \in DOMAIN batches' : k \in DOMAIN batches \/ batches'[k] = b
  BY <1>2, <1>3
<1>5. \A e : IsEvent(e) => IsEvent(e)'
  BY <1>4 DEF IsEvent, Events
<1>6. FeedbackTypeOK'
  BY <1>1, <1>4 DEF FeedbackTypeOK, Imported
<1>7. Supported'
  <2>1. \A p \in DOMAIN publications' :
           publications'[p] = Manual \/ IsEvent(publications[p])'
    BY <1>1, <1>5 DEF Supported, IsEvent
  <2> QED
    BY <1>1, <2>1 DEF Supported
<1>8. \A k \in DOMAIN batches' : Decided(batches'[k])
  BY <1>2, <1>4 DEF DecisionsInv
<1> QED
  BY <1>6, <1>7, <1>8 DEF DecisionsInv, Decided, KeepsQuotas

LEMMA DecidedStays ==
    ASSUME DecisionsInv, UNCHANGED batches
    PROVE  \A k \in DOMAIN batches' : Decided(batches'[k])
BY DEF DecisionsInv

LEMMA PublishSteps ==
    ASSUME DecisionsInv, NEW e \in EventIds \cup {Manual}, CreatePublishRecord(e), PoolOK(pool)'
    PROVE  DecisionsInv'
<1>1. FeedbackTypeOK /\ Supported
      /\ publications' = Append(publications, e)
      /\ UNCHANGED <<policy, described, batches, snapshots, rewarded, lost>>
  BY DEF DecisionsInv, CreatePublishRecord
<1>2. e \in Nat \X Nat /\ (e = Manual \/ IsEvent(e))
  BY DEF EventIds, Manual
<1>3. publications \in Seq(Nat \X Nat)
  BY <1>1 DEF FeedbackTypeOK
<1>4. /\ publications' \in Seq(Nat \X Nat)
      /\ DOMAIN publications' = DOMAIN publications \cup {Len(publications) + 1}
      /\ publications'[Len(publications) + 1] = e
      /\ \A p \in DOMAIN publications : publications'[p] = publications[p]
  BY <1>1, <1>2, <1>3
<1>5. FeedbackTypeOK'
  BY <1>1, <1>4 DEF FeedbackTypeOK, Imported
<1>6. Supported'
  <2>1. \A p \in DOMAIN publications' :
           publications'[p] = Manual \/ IsEvent(publications[p])'
    BY <1>1, <1>2, <1>4 DEF Supported, IsEvent, Events
  <2>2. \A s \in DOMAIN snapshots' :
          /\ snapshots'[s] \in DOMAIN publications'
          /\ publications'[snapshots'[s]] = Manual \/ snapshots'[s] \in rewarded' \cup lost'
    BY <1>1, <1>4 DEF Supported
  <2> QED
    BY <1>1, <2>1, <2>2 DEF Supported
<1> QED
  BY <1>1, <1>5, <1>6, DecidedStays DEF DecisionsInv, Decided, KeepsQuotas

LEMMA ImportSteps ==
    ASSUME DecisionsInv, NEW p \in DOMAIN publications, ImportPerformance(p)
    PROVE  DecisionsInv'
<1>1. FeedbackTypeOK /\ Supported /\ PoolOK(pool)
      /\ snapshots' = Append(snapshots, p) /\ Len(snapshots) < MaxSnapshots
      /\ UNCHANGED <<policy, described, batches, pool, publications>>
  BY DEF DecisionsInv, ImportPerformance
<1>2. snapshots \in Seq(Nat) /\ p \in Nat /\ Len(snapshots) \in Nat
  BY <1>1 DEF FeedbackTypeOK, Imported
<1>3. /\ snapshots' \in Seq(Nat) /\ Len(snapshots') = Len(snapshots) + 1
      /\ DOMAIN snapshots' = DOMAIN snapshots \cup {Len(snapshots) + 1}
      /\ snapshots'[Len(snapshots) + 1] = p
      /\ \A s \in DOMAIN snapshots : snapshots'[s] = snapshots[s]
  BY <1>1, <1>2
<1>4. Imported'
  BY <1>1, <1>2, <1>3, DecisionsAssumption DEF Imported
<1>5. /\ rewarded \subseteq rewarded' /\ lost \subseteq lost'
      /\ rewarded' \subseteq Nat /\ lost' \subseteq Nat
      /\ publications[p] = Manual \/ p \in rewarded' \cup lost'
  BY <1>1, <1>2 DEF ImportPerformance, FeedbackTypeOK
<1>6. FeedbackTypeOK'
  BY <1>1, <1>4, <1>5 DEF FeedbackTypeOK
<1>7. PoolOK(pool)'
  <2>1. \A i \in Items : pool[i].known \in Int /\ pool[i].known <= Len(snapshots)
    BY <1>1, DecisionsAssumption DEF PoolOK, PoolItem, Never
  <2>2. \A i \in Items : pool[i].known <= Len(snapshots')
    BY <1>2, <1>3, <2>1
  <2> QED
    BY <1>1, <2>2 DEF PoolOK
<1>8. Supported'
  <2>1. \A q \in DOMAIN publications' :
           publications'[q] = Manual \/ IsEvent(publications[q])'
    BY <1>1 DEF Supported, IsEvent, Events
  <2>2. \A s \in DOMAIN snapshots' :
          /\ snapshots'[s] \in DOMAIN publications'
          /\ publications'[snapshots'[s]] = Manual \/ snapshots'[s] \in rewarded' \cup lost'
    BY <1>1, <1>3, <1>5 DEF Supported
  <2> QED
    BY <1>1, <2>1, <2>2 DEF Supported
<1> QED
  BY <1>1, <1>6, <1>7, <1>8, DecidedStays DEF DecisionsInv, Decided, KeepsQuotas

LEMMA DecisionSteps == ASSUME DecisionsInv, Next PROVE DecisionsInv'
<1>1. FeedbackTypeOK /\ Supported /\ PoolOK(pool) /\ Imported
  BY DEF DecisionsInv, FeedbackTypeOK
<1>2. CASE UNCHANGED snapshots
  <2>1. PoolOK(pool)'
    BY <1>1, <1>2, PoolSteps
  <2>2. ASSUME UNCHANGED <<batches, publications, snapshots, rewarded, lost>>,
               policy' \in DOMAIN Policies \cup {0}, described' \in BOOLEAN,
               described => described'
        PROVE  DecisionsInv'
    <3>1. \A p \in DOMAIN publications' :
             publications'[p] = Manual \/ IsEvent(publications[p])'
      BY <1>1, <2>2 DEF Supported, IsEvent, Events
    <3> QED
      BY <1>1, <2>1, <2>2, <3>1, DecidedStays DEF DecisionsInv, Decided, KeepsQuotas,
         FeedbackTypeOK, Imported, Supported
  <2>3. policy \in DOMAIN Policies \cup {0} /\ described \in BOOLEAN
    BY <1>1 DEF FeedbackTypeOK
  <2>4. ASSUME NEW n \in Slots, RunDecisionBatch(n) PROVE DecisionsInv'
    BY <2>1, <2>4, BatchSteps
  <2>5. ASSUME NEW e \in EventIds \cup {Manual}, CreatePublishRecord(e) PROVE DecisionsInv'
    BY <2>1, <2>5, PublishSteps
  <2>6. ASSUME NEW p \in DOMAIN publications, ImportPerformance(p) PROVE DecisionsInv'
    BY <2>6, ImportSteps
  <2> QED
    BY <2>2, <2>3, <2>4, <2>5, <2>6 DEF Next, ReplaceActivePolicy, CreateStateSnapshot, Elapse,
       ListTopicPool, RefreshTopicPool, CreateEvaluationRun
<1>3. CASE \E p \in DOMAIN publications : ImportPerformance(p)
  BY <1>3, ImportSteps
<1> QED
  BY <1>2, <1>3 DEF Next, ReplaceActivePolicy, CreateStateSnapshot, Elapse, ListTopicPool,
     RefreshTopicPool, RunDecisionBatch, CreatePublishRecord, CreateEvaluationRun

----------------------------------------------------------------------------
(* Theorems *)

IInv == IngestionInv /\ DecisionsInv

LEMMA InvInit == Init => IInv
<1> SUFFICES ASSUME Init PROVE IInv
  OBVIOUS
<1>1. IngestionInv
  BY IngestionInit DEF Init
<1>2. PoolOK(pool)
  <2>1. Never \in Never..MaxSnapshots /\ Never <= 0
    BY DecisionsAssumption DEF Never
  <2> QED
    BY <2>1, LeastScore DEF Init, PoolOK, PoolItem
<1>3. FeedbackTypeOK
  <2>1. batches \in Seq(Batch)
    BY DEF Init
  <2>2. publications \in Seq(Nat \X Nat) /\ Imported
    BY DecisionsAssumption DEF Init, Imported
  <2> QED
    BY <2>1, <2>2 DEF Init, FeedbackTypeOK
<1>4. Supported
  BY DEF Init, Supported
<1>5. \A k \in DOMAIN batches : Decided(batches[k])
  BY DEF Init
<1> QED
  BY <1>1, <1>2, <1>3, <1>4, <1>5 DEF IInv, DecisionsInv

LEMMA InvNext == IInv /\ [Next]_vars => IInv'
<1> SUFFICES ASSUME IInv, [Next]_vars PROVE IInv'
  OBVIOUS
<1>1. CASE Next
  <2>1. DecisionsInv'
    BY <1>1, DecisionSteps DEF IInv
  <2>2. ASSUME UNCHANGED ingestionVars, cuts' \in 0..MaxCuts PROVE IngestionInv'
    <3>1. IngestionTypeOK' /\ Written'
      BY <2>2 DEF IInv, IngestionInv, IngestionTypeOK, Written, WellFormed
    <3>2. ReceiptsAreBacked'
      BY <2>2 DEF IInv, IngestionInv, ReceiptsAreBacked, Backed
    <3> QED
      BY <3>1, <3>2 DEF IngestionInv
  <2>3. (cuts' = cuts \/ (cuts < MaxCuts /\ cuts' = cuts + 1)) => cuts' \in 0..MaxCuts
    BY IngestionAssumption DEF IInv, IngestionInv, IngestionTypeOK
  <2>4. ASSUME IngestionNext PROVE IngestionInv'
    BY <2>4, IngestionSteps DEF IInv
  <2>5. ASSUME NEW span, Elapse(span) PROVE IngestionInv'
    <3>1. /\ capture' \in Capture /\ capture'.status = capture.status
          /\ capture'.receipt = capture.receipt /\ capture'.payload = capture.payload
          /\ UNCHANGED <<content, runs, previews, cuts>>
      BY <2>5 DEF Elapse, IInv, IngestionInv, IngestionTypeOK, Capture
    <3>2. Grows /\ Written'
      BY <3>1, NothingIngested DEF IInv, IngestionInv
    <3>3. capture'.status = "accepted" => Backed(capture)'
      BY <3>1 DEF IInv, IngestionInv, ReceiptsAreBacked, Backed
    <3> QED
      BY <2>3, <3>1, <3>2, <3>3, SessionSaved DEF IInv
  <2>6. ASSUME NEW p, EnsureFresh(p) PROVE cuts' \in 0..MaxCuts
    BY <2>3, <2>6 DEF EnsureFresh, Cut
  <2>7. ASSUME ListTopicPool PROVE IngestionInv'
    BY <2>2, <2>6, <2>7 DEF ListTopicPool
  <2>8. ASSUME RefreshTopicPool PROVE IngestionInv'
    <3>1. cuts' \in 0..MaxCuts
      BY <2>3, <2>6, <2>8 DEF RefreshTopicPool, Cut
    <3> QED
      BY <2>2, <2>8, <3>1 DEF RefreshTopicPool
  <2>9. ASSUME NEW n, RunDecisionBatch(n) PROVE IngestionInv'
    <3>1. cuts' \in 0..MaxCuts
      BY <2>3, <2>9 DEF RunDecisionBatch, Cut
    <3> QED
      BY <2>2, <2>9, <3>1 DEF RunDecisionBatch
  <2>10. ASSUME NEW p, ImportPerformance(p) PROVE IngestionInv'
    BY <2>2, <2>3, <2>10 DEF ImportPerformance, Cut
  <2>11. ASSUME CreateEvaluationRun PROVE IngestionInv'
    BY <2>2, <2>3, <2>11 DEF CreateEvaluationRun, Cut
  <2>12. IngestionInv'
    <3>1. ASSUME UNCHANGED <<ingestionVars, cuts>> PROVE IngestionInv'
      BY <2>2, <2>3, <3>1
    <3> QED
      BY <1>1, <2>4, <2>5, <2>7, <2>8, <2>9, <2>10, <2>11, <3>1 DEF Next,
         ReplaceActivePolicy, CreateStateSnapshot, CreatePublishRecord
  <2> QED
    BY <2>1, <2>12 DEF IInv
<1>2. CASE UNCHANGED vars
  <2>1. IngestionTypeOK' /\ Written'
    BY <1>2 DEF vars, IInv, IngestionInv, IngestionTypeOK, Written, WellFormed
  <2>2. ReceiptsAreBacked'
    BY <1>2 DEF vars, IInv, IngestionInv, ReceiptsAreBacked, Backed
  <2>3. FeedbackTypeOK' /\ PoolOK(pool)'
    BY <1>2 DEF vars, IInv, DecisionsInv, FeedbackTypeOK, PoolOK, Imported
  <2>4. Supported'
    BY <1>2 DEF vars, IInv, DecisionsInv, Supported, IsEvent, Events
  <2>5. \A k \in DOMAIN batches' : Decided(batches'[k])
    BY <1>2, DecidedStays DEF vars, IInv
  <2> QED
    BY <2>1, <2>2, <2>3, <2>4, <2>5 DEF IInv, IngestionInv, DecisionsInv, Decided, KeepsQuotas
<1> QED
  BY <1>1, <1>2

\* The invariant: what each ingestion run left behind, what every score knows,
\* and what is on record before a publication names it.
THEOREM InductiveInvariant == Spec => []IInv
BY InvInit, InvNext, PTL DEF Spec

\* An accepted capture or import is backed by its run, for any payloads, however
\* calls are retried, cut short or broken.
THEOREM ReceiptsStayBacked == Spec => []ReceiptsAreBacked
<1>1. IInv => ReceiptsAreBacked
  BY DEF IInv, IngestionInv
<1> QED
  BY <1>1, InductiveInvariant, PTL

\* Of a policy that names no type twice a batch keeps all quotas; of any other
\* that validate_policy_targets accepts, with ratios and boosts that are not
\* negative, it keeps what KeepsMaxima says: there a type may exceed its maximum.
THEOREM QuotasStayKept == Spec => []QuotasAreKept
<1>1. IInv => QuotasAreKept
  BY DEF IInv, DecisionsInv, Decided, QuotasAreKept
<1> QED
  BY <1>1, InductiveInvariant, PTL

\* What a row of the evaluation needs is on record, the chosen topic among the
\* ranked ones with it, unless an import of its publication was cut short.
THEOREM RefusalsHaveACause == Spec => []RefusalHasACause
<1>1. IInv => RefusalHasACause
  <2> SUFFICES ASSUME IInv, NEW s \in Rows, snapshots[s] \notin lost
               PROVE  Usable(s)
    BY DEF RefusalHasACause
  <2> DEFINE e == publications[snapshots[s]]
             b == batches[e[1]]
  <2>1. /\ s \in DOMAIN snapshots /\ e # Manual
        /\ snapshots[s] \in DOMAIN publications
        /\ snapshots[s] \in rewarded \cup lost
        /\ IsEvent(e)
    BY DEF Rows, IInv, DecisionsInv, Supported
  <2>2. e \in Nat \X Nat /\ e[1] \in DOMAIN batches /\ b \in Batch /\ Decided(b)
    BY <2>1 DEF IInv, DecisionsInv, FeedbackTypeOK, IsEvent
  <2>3. described
    BY <2>2 DEF IInv, DecisionsInv, FeedbackTypeOK, Supported
  <2>4. Contains(b.ranked, b.chosen[e[2]])
    <3>1. e[2] \in 1..((b.written + 2) \div 3)
      BY <2>1 DEF IsEvent, Events
    <3> HIDE DEF e, b
    <3>2. b.chosen \in Seq(Items) /\ b.ranked \in Seq(Items) /\ b.written \in Nat
      BY <2>2 DEF Batch
    <3>3. b.written <= 3 * Len(b.chosen) /\ ToSet(b.chosen) \subseteq ToSet(b.ranked)
      BY <2>2 DEF Decided
    <3>4. (b.written + 2) \div 3 <= Len(b.chosen) /\ Len(b.chosen) \in Nat
      BY <3>2, <3>3
    <3>5. e[2] \in 1..Len(b.chosen)
      BY <3>1, <3>2, <3>4
    <3>6. DOMAIN b.chosen = 1..Len(b.chosen) /\ DOMAIN b.ranked = 1..Len(b.ranked)
      BY <3>2
    <3>7. b.chosen[e[2]] \in ToSet(b.chosen)
      BY <3>5, <3>6 DEF ToSet
    <3>8. PICK k \in 1..Len(b.ranked) : b.chosen[e[2]] = b.ranked[k]
      BY <3>3, <3>6, <3>7 DEF ToSet
    <3> QED
      BY <3>8 DEF Contains
  <2> QED
    BY <2>1, <2>3, <2>4 DEF Usable
<1> QED
  BY <1>1, InductiveInvariant, PTL

\* A decision ranks every candidate and nothing else, each on a score that is
\* not older than six hours and knows all performance imported so far, however
\* refreshes were cut short before.
THEOREM DecisionsAreFresh == Spec => DecidedOnFreshScores
<1>1. ASSUME IInv, NEW n, RunDecisionBatch(n), NEW i \in Candidates(pool')
      PROVE  ~pool'[i].aged /\ pool'[i].known = Len(snapshots)
  <2>1. PICK score \in [Stale(pool) -> Scores] : pool' = Rescored(pool, Stale(pool), score)
    BY <1>1 DEF RunDecisionBatch
  <2>2. i \in Items
    BY <1>1 DEF Candidates
  <2>3. CASE i \in Stale(pool)
    BY <2>1, <2>2, <2>3 DEF Rescored
  <2>4. CASE i \notin Stale(pool)
    <3>1. pool'[i] = pool[i] /\ i \in Candidates(pool)
      BY <1>1, <2>1, <2>2, <2>4 DEF Rescored, Candidates
    <3>2. ~pool[i].aged /\ ~(pool[i].known < Len(snapshots))
      BY <2>4, <3>1 DEF Stale
    <3>3. /\ pool[i].known \in Int /\ Len(snapshots) \in Nat
          /\ pool[i].known <= Len(snapshots)
      BY <1>1, <2>2, KnownNow, DecisionsAssumption DEF IInv, DecisionsInv, FeedbackTypeOK,
         PoolOK, PoolItem, Never
    <3> QED
      BY <3>1, <3>2, <3>3
  <2> QED
    BY <2>3, <2>4
<1>2. ASSUME IInv, Next, Len(batches') > Len(batches)
      PROVE  /\ ToSet(batches'[Len(batches')].ranked) = Candidates(pool')
             /\ \A i \in Candidates(pool') : ~pool'[i].aged /\ pool'[i].known = Len(snapshots)
  <2>1. FeedbackTypeOK /\ PoolOK(pool) /\ batches \in Seq(Batch) /\ Len(batches) \in Nat
    BY <1>2 DEF IInv, DecisionsInv, FeedbackTypeOK
  <2>2. ~UNCHANGED batches
    BY <1>2, <2>1
  <2>3. PICK n \in Slots : RunDecisionBatch(n)
    BY <1>2, <2>2 DEF Next, ReplaceActivePolicy, CreateStateSnapshot, Elapse, ListTopicPool,
       RefreshTopicPool, CreatePublishRecord, ImportPerformance, CreateEvaluationRun
  <2>4. PICK b \in Batch : batches' = Append(batches, b) /\ ToSet(b.ranked) = Candidates(pool')
    BY <2>1, <2>3, BatchAppended
  <2>5. batches'[Len(batches')] = b
    BY <2>1, <2>4
  <2> QED
    BY <1>1, <1>2, <2>3, <2>4, <2>5
<1> DEFINE ranked == ToSet(batches'[Len(batches')].ranked)
           Step == Len(batches') > Len(batches) =>
                      /\ ranked = {i \in Items : pool'[i].status = "candidate"}
                      /\ \A i \in ranked : ~pool'[i].aged /\ pool'[i].known = Len(snapshots)
<1>3. IInv /\ [Next]_vars => [Step]_vars
  BY <1>2 DEF Candidates
<1> QED
  BY <1>3, InductiveInvariant, PTL DEF Spec, DecidedOnFreshScores

=============================================================================
