--------------------------- MODULE MCWorkflowRun ---------------------------
\* Two steps and one job attempt are enough for arbitrary callers: every guard
\* reads one step, and a pair of steps lets one be live when another ends.
EXTENDS WorkflowRun
CONSTANTS pub1, other, none, final
MCPublications == {pub1}
=============================================================================
