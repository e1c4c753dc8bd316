------------------------------ MODULE Ingestion ------------------------------
(***************************************************************************)
(* How notes reach the evidence of a brand (app/v2/ingestion/service.py):  *)
(* synchronisations of a source, imports of rows with their preview, and   *)
(* the session in which a browser extension hands in what it captured.     *)
(* Calls do not overlap, but every save is a transaction of its own: a     *)
(* call that ends early, or whose store fails, leaves what it has written. *)
(***************************************************************************)
EXTENDS Integers, SequencesExt

CONSTANTS
    Notes,          \* notes of the platform, each known by its identity
    Brands, Brand,  \* brands of the workspace, and the one observed here
    Broken,         \* an entry no payload may hold
    Payloads,       \* sequences of notes, some with a broken entry
    MaxRuns,        \* bound on the ingestion runs of a behaviour
    MaxCuts         \* bound on the calls that are cut short

ASSUME IngestionAssumption ==
    /\ Brand \in Brands
    /\ Payloads \subseteq Seq(Notes \cup {Broken}) \ {<<>>}
    /\ MaxRuns \in Nat /\ MaxCuts \in Nat

VARIABLES
    content,        \* the run that wrote each note last, 0 for none
    runs,           \* ingestion_runs
    capture,        \* the capture session
    previews,       \* data_import_previews
    cuts            \* calls cut short so far

ingestionVars == <<content, runs, capture, previews>>

Run     == [brand : Brands, payload : Payloads, status : {"running", "completed", "failed"}]
Capture == [status : {"none", "pending_capture", "syncing", "accepted", "failed", "expired"},
            payload : Payloads \cup {<<>>}, late : BOOLEAN, receipt : Nat]
Preview == [status : {"parsed", "accepted", "failed"}, payload : Payloads, receipt : Nat]

InitIngestion ==
    /\ content = [n \in Notes |-> 0]
    /\ runs = <<>> /\ previews = <<>>
    /\ capture = [status |-> "none", payload |-> <<>>, late |-> FALSE, receipt |-> 0]
    /\ cuts = 0

WellFormed(p) == Broken \notin ToSet(p)

----------------------------------------------------------------------------
(* One run over a payload.  The payload is normalised as a whole first, so  *)
(* that a broken entry stores nothing; a failing store or the end of the    *)
(* process leaves a prefix of the notes.                                    *)

Endings(p) ==
    LET prefixes == IF WellFormed(p) THEN 0..Len(p) ELSE {0}
    IN  [status : {"running", "failed"}, stored : prefixes]
            \cup {e \in [status : {"completed"}, stored : {Len(p)}] : WellFormed(p)}

\* What the run comes to when nothing interrupts it.
Undisturbed(p, e) == e.status = IF WellFormed(p) THEN "completed" ELSE "failed"

Ingest(brand, p, e) ==
    /\ Len(runs) < MaxRuns
    /\ runs' = Append(runs, [brand |-> brand, payload |-> p, status |-> e.status])
    /\ content' = [n \in Notes |->
                      IF n \in ToSet(SubSeq(p, 1, e.stored)) THEN Len(runs) + 1
                                                             ELSE content[n]]

\* Counts a call that did not run undisturbed to its end.
Cut(isCut) ==
    /\ isCut => cuts < MaxCuts
    /\ cuts' = IF isCut THEN cuts + 1 ELSE cuts

CreateSourceSync(brand, p) ==
    \E e \in Endings(p) :
        /\ Ingest(brand, p, e)
        /\ Cut(~Undisturbed(p, e))
        /\ UNCHANGED <<capture, previews>>

----------------------------------------------------------------------------
(* Imports of rows: a preview is saved, the rows are ingested, and the      *)
(* preview is saved again with the receipt of the run or its failure.       *)

\* The last save of a record around a run; without it the record stays.
Records(p, e, status, unsaved) ==
    CASE status = "accepted" -> e.status = "completed"
      [] status = "failed"   -> TRUE
      [] status = unsaved    -> TRUE

CreateDataImportPreview(p) ==
    /\ Len(previews) < MaxRuns
    /\ \/ \E e \in Endings(p), status \in {"parsed", "accepted", "failed"} :
             /\ Records(p, e, status, "parsed")
             /\ Ingest(Brand, p, e)
             /\ previews' = Append(previews,
                    [status  |-> status, payload |-> p,
                     receipt |-> IF status = "accepted" THEN Len(runs') ELSE 0])
             /\ Cut(~(/\ Undisturbed(p, e)
                      /\ status = IF WellFormed(p) THEN "accepted" ELSE "failed"))
       \/ \E status \in {"parsed", "failed"} :
             /\ previews' = Append(previews, [status |-> status, payload |-> p, receipt |-> 0])
             /\ Cut(TRUE)
             /\ UNCHANGED <<content, runs>>
    /\ UNCHANGED capture

\* A retry is a new preview of the rows of the old one.
RetryDataImportSync(i) == CreateDataImportPreview(previews[i].payload)

----------------------------------------------------------------------------
(* The capture session.  Only its token and its age are asked: whatever its *)
(* status, another payload may be handed in, and is ingested again.         *)

CreateCaptureSession ==
    /\ capture.status = "none"
    /\ capture' = [capture EXCEPT !.status = "pending_capture"]
    /\ UNCHANGED <<content, runs, previews, cuts>>

GetCaptureSession ==
    /\ capture.status = "pending_capture" /\ capture.late
    /\ capture' = [capture EXCEPT !.status = "expired"]
    /\ UNCHANGED <<content, runs, previews, cuts>>

SubmitLate ==
    /\ capture.late
    /\ capture' = [capture EXCEPT !.status = "expired"]
    /\ UNCHANGED <<content, runs, cuts>>

\* Mutant: the session keeps its status until the run has ended.
SubmitKeepingStatus(p) ==
    /\ ~capture.late
    /\ \/ \E e \in Endings(p), status \in {"accepted", "failed"} :
             /\ Records(p, e, status, "failed")
             /\ Ingest(Brand, p, e)
             /\ capture' = [capture EXCEPT !.status = status, !.payload = p,
                    !.receipt = IF status = "accepted" THEN Len(runs') ELSE @]
             /\ UNCHANGED cuts
       \/ /\ capture' = [capture EXCEPT !.payload = p]
          /\ Cut(TRUE)
          /\ UNCHANGED <<content, runs>>
SubmitInTime(p) ==
    /\ ~capture.late
    /\ \/ \E e \in Endings(p), status \in {"syncing", "accepted", "failed"} :
             /\ Records(p, e, status, "syncing")
             /\ Ingest(Brand, p, e)
             /\ capture' = [capture EXCEPT !.status = status, !.payload = p,
                    !.receipt = IF status = "accepted" THEN Len(runs') ELSE @]
             /\ Cut(~(/\ Undisturbed(p, e)
                      /\ status = IF WellFormed(p) THEN "accepted" ELSE "failed"))
       \/ \E status \in {"syncing", "failed"} :
             /\ capture' = [capture EXCEPT !.status = status, !.payload = p]
             /\ Cut(TRUE)
             /\ UNCHANGED <<content, runs>>

SubmitCapture(p) ==
    /\ capture.status # "none"
    /\ SubmitLate \/ SubmitInTime(p)
    /\ UNCHANGED previews

RetryCaptureSync ==
    /\ capture.payload # <<>>
    /\ SubmitCapture(capture.payload)

IngestionNext ==
    \/ \E brand \in Brands, p \in Payloads : CreateSourceSync(brand, p)
    \/ \E p \in Payloads : CreateDataImportPreview(p) \/ SubmitCapture(p)
    \/ \E i \in DOMAIN previews : RetryDataImportSync(i)
    \/ CreateCaptureSession \/ GetCaptureSession \/ RetryCaptureSync
=============================================================================
