--------------------------- MODULE MCSessionJobs ---------------------------
(***************************************************************************)
(* A session whose strategy is asked for twice under one key, with every   *)
(* other request, a worker that may crash once, and the user's commands.   *)
(***************************************************************************)
EXTENDS SessionJobs

CONSTANTS h1, h2, worker

MCHandlers == {h1, h2}
MCRequests == {[what |-> "strategy", key |-> "client"],
               [what |-> "generate", key |-> "none"],
               [what |-> "resume", key |-> "none"]}
=============================================================================
