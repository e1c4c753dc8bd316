------------------------- MODULE ResearchLifecycle -------------------------
(***************************************************************************)
(* What a content research run promises: its state follows the table, and  *)
(* one report is published by the step that makes the run ready, none by   *)
(* any other.                                                              *)
(***************************************************************************)
EXTENDS Naturals, ResearchTransitions

VARIABLES
    state,      \* workflow_runs.content_research_state
    reports     \* final reports exposed to the user

LifecycleInit == state = "presearch_running" /\ reports = 0

Advance(event) ==
    \E to \in States :
        /\ <<state, event, to>> \in Transitions
        /\ state' = to
        /\ reports' = IF event = "report_published" THEN reports + 1 ELSE reports

LifecycleNext == \E edge \in Transitions : Advance(edge[2])

LifecycleSpec == LifecycleInit /\ [][LifecycleNext]_<<state, reports>>
=============================================================================
