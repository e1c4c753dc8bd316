---------------------------- MODULE RunLifecycle ----------------------------
(***************************************************************************)
(* What a workflow run promises whoever follows it: its status moves only  *)
(* along the documented edges, steps are finished only while it runs, and  *)
(* no output of a step appears once it is being cancelled or has ended.    *)
(* The edges are those of the transition table of the workflow design      *)
(* (docs/refactor/20260517_refactor_0.1.0.md), with the finalizing_report  *)
(* status that content research added to it.                               *)
(***************************************************************************)
CONSTANTS StepNames, FinalResult

VARIABLES
    status,
    done,           \* steps that have succeeded
    outputs         \* steps with a committed artifact, and the final result

view == <<status, done, outputs>>

Edges ==
    {"created"} \X {"running"}
    \cup {"running"} \X {"pausing", "cancelling", "waiting_user",
                         "finalizing_report", "succeeded", "failed"}
    \cup {"pausing"} \X {"paused", "cancelling", "failed"}
    \cup {"paused"} \X {"running", "cancelling"}
    \cup {"waiting_user"} \X {"running"}
    \cup {"finalizing_report"} \X {"cancelling", "succeeded", "failed"}
    \cup {"cancelling"} \X {"cancelled"}
    \cup {"failed"} \X {"finalizing_report"}  \* a failed publication, again

Open   == {"running", "pausing", "paused", "waiting_user", "finalizing_report"}

Init == status = "created" /\ done = {} /\ outputs = {}

Move ==
    /\ status' \in {e[2] : e \in {x \in Edges : x[1] = status}}
    /\ UNCHANGED <<done, outputs>>

FinishStep(s) ==
    /\ status = "running" /\ s \notin done
    /\ done' = done \cup {s}
    /\ UNCHANGED <<status, outputs>>

Deliver(o) ==
    /\ \/ status \in Open
       \/ status = "succeeded" /\ o = FinalResult
    /\ outputs' = outputs \cup {o}
    /\ UNCHANGED <<status, done>>

Next ==
    \/ Move
    \/ \E s \in StepNames : FinishStep(s)
    \/ \E o \in StepNames \cup {FinalResult} : Deliver(o)

Spec == Init /\ [][Next]_view
=============================================================================
