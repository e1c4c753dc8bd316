---------------------------- MODULE MCJobWorker ----------------------------
\* A run of three steps.
EXTENDS JobWorker
CONSTANTS other, none, final
NoPublications == {}
AllErrors      == {"retryable", "permanent"}
AllCommands    == {"pause_run", "resume_run", "cancel_run", "complete_run",
                   "pause_job", "resume_job", "cancel_job"}
ControlCommands == {"pause_run", "resume_run", "cancel_run"}
=============================================================================
