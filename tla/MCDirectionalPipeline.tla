----------------------- MODULE MCDirectionalPipeline -----------------------
\* Small instances of DirectionalPipeline for TLC.
EXTENDS DirectionalPipeline
CONSTANTS w1, w2, none
Notes == {1, 2}
RelevantNotes == {2}
=============================================================================
