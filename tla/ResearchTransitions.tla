------------------------ MODULE ResearchTransitions ------------------------
(***************************************************************************)
(* lifecycle/transitions.py: the one table of the states of a content      *)
(* research run and the events that move it.                               *)
(***************************************************************************)

Terminal == {"report_ready", "cancelled_or_failed"}

Forward ==
    { <<"presearch_running", "presearch_completed", "brief_confirmation_required">>,
      <<"brief_confirmation_required", "revise_subject", "presearch_running">>,
      <<"brief_confirmation_required", "confirm_brief", "scope_confirmation_required">>,
      <<"scope_confirmation_required", "replace_scope_draft", "scope_confirmation_required">>,
      <<"scope_confirmation_required", "confirm_scope", "retrieval_queued">>,
      <<"retrieval_queued", "worker_claimed", "retrieval_running">>,
      <<"retrieval_running", "retrieval_completed", "coverage_evaluating">>,
      <<"coverage_evaluating", "coverage_satisfied", "report_composing">>,
      <<"coverage_evaluating", "coverage_insufficient", "coverage_decision_required">>,
      <<"coverage_decision_required", "expand_coverage", "retrieval_queued">>,
      <<"coverage_decision_required", "relax_coverage", "retrieval_queued">>,
      <<"coverage_decision_required", "generate_limited_report", "report_composing">>,
      <<"report_composing", "report_published", "report_ready">>,
      <<"recovery_required", "retry_presearch", "presearch_running">>,
      <<"recovery_required", "retry_retrieval", "retrieval_queued">>,
      <<"recovery_required", "retry_report", "report_composing">>,
      <<"recovery_required", "retry_analysis", "report_composing">> }

States == {edge[1] : edge \in Forward} \cup Terminal

\* Any run that is not over may fail or be cancelled.
Transitions ==
    Forward \cup {<<s, "fail", "recovery_required">> : s \in States \ Terminal}
            \cup {<<s, "cancel", "cancelled_or_failed">> : s \in States \ Terminal}
=============================================================================
