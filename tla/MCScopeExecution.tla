-------------------------- MODULE MCScopeExecution --------------------------
\* One decision, two lanes of one worker.
EXTENDS ScopeExecution
CONSTANTS l1, l2
TwoLanes == {l1, l2}
=============================================================================
