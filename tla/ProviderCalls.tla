--------------------------- MODULE ProviderCalls ---------------------------
(***************************************************************************)
(* What the record of its provider operations promises a collection task:  *)
(* a request is claimed before it is sent, sent once for a claim, and      *)
(* never again once it may have taken effect, except after the provider    *)
(* has refused it in a way that can be recovered and the user has asked    *)
(* for a retry.  A request whose answer got lost stays sent for good.      *)
(* (docs/bugfix/20260723_f003_formal_research_runtime_isolation.md, the    *)
(* state machine of a provider operation.)                                 *)
(***************************************************************************)
CONSTANT Requests

VARIABLE phase

Phases == {"idle", "claimed", "sent", "refused", "settled"}

Init == phase = [o \in Requests |-> "idle"]

Claim(o) == phase[o] = "idle" /\ phase' = [phase EXCEPT ![o] = "claimed"]

Send(o) == phase[o] = "claimed" /\ phase' = [phase EXCEPT ![o] = "sent"]

Settle(o) ==
    /\ phase[o] = "sent"
    /\ \E p \in {"refused", "settled"} : phase' = [phase EXCEPT ![o] = p]

\* One retry gives back every request that was refused.
Reopen ==
    /\ \E o \in Requests : phase[o] = "refused"
    /\ phase' = [o \in Requests |-> IF phase[o] = "refused" THEN "idle" ELSE phase[o]]

Next ==
    \/ \E o \in Requests : Claim(o) \/ Send(o) \/ Settle(o)
    \/ Reopen

Spec == Init /\ [][Next]_phase
=============================================================================
