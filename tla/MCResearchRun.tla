---------------------------- MODULE MCResearchRun ----------------------------
\* One run, two lanes of the dispatch worker and the analysis worker.
EXTENDS ResearchRun, TLC
CONSTANTS l1, l2
TwoLanes == {l1, l2}
\* The lanes of a worker differ in nothing.
LaneSymmetry == Permutations(TwoLanes)
=============================================================================
