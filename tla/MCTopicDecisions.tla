-------------------------- MODULE MCTopicDecisions --------------------------
EXTENDS TopicDecisions

CONSTANT broken

MCPayloads == {<<1, 2, 3>>, <<2, broken>>}
MCTypeOf   == (1 :> 1) @@ (2 :> 1) @@ (3 :> 2)
MCTopicOf  == (1 :> 1) @@ (2 :> 2) @@ (3 :> 3)

\* Numbers of two binary digits: nine quarters, the least number of topics of
\* type 2 that the first policy asks for in three slots, are rounded to two.
MCFloats == {0, 1, 2, 3, 4, 6, 8, 12}

\* Quotas that contradict each other in one slot by their sum; a type that is
\* named twice, and in one slot has a minimum above its maximum; and a maximum
\* for whoever is next.
MCPolicies == <<
    <<[type |-> 1, min |-> 1, max |-> 4, boost |-> 0],
      [type |-> 2, min |-> 3, max |-> 4, boost |-> 1]>>,
    <<[type |-> 1, min |-> 1, max |-> 2, boost |-> 0],
      [type |-> 1, min |-> 1, max |-> 2, boost |-> 1]>>,
    <<[type |-> 1, min |-> 0, max |-> 2, boost |-> 0]>> >>

\* A behaviour uses previews and captures, or one synchronisation and then
\* decisions; once there is a batch it is its effect that is followed.
Handing  == capture.status # "none" \/ previews # <<>>
Deciding ==
    \/ policy # 0 \/ described \/ publications # <<>>
    \/ \E i \in Items : pool[i].status # "absent"

MCNext ==
    /\ Next
    /\ ~(Handing /\ Deciding)'
    /\ Deciding' => Len(runs') <= 1
    /\ batches # <<>> => UNCHANGED <<runs, pool, policy>>
MCSpec == Init /\ [][MCNext]_vars
=============================================================================
