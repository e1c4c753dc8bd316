--------------------------- MODULE TopicSelection ---------------------------
(***************************************************************************)
(* Which topics a decision batch takes: the quotas a brand's policy gives  *)
(* to types of topics, and the selection that fills the requested slots    *)
(* within them (app/v2/decision/service.py).  A floating point number is   *)
(* its numerator over Unit, and a product or a sum is rounded to one;      *)
(* types are numbered in their lexical order.                              *)
(***************************************************************************)
EXTENDS Integers, FiniteSets, SequencesExt

CONSTANTS
    Items,          \* topics
    Types,          \* types of topics
    TypeOf,         \* the type of each topic
    Unit,           \* the denominator of every number
    Floats          \* the numerators of the numbers that are not rounded

ASSUME SelectionAssumption ==
    /\ IsFiniteSet(Items) /\ Types \subseteq Nat
    /\ TypeOf \in [Items -> Types]
    /\ Unit \in Nat \ {0}
    /\ Floats \subseteq Nat /\ {0, Unit} \subseteq Floats

Distance(a, b) == IF a < b THEN b - a ELSE a - b

\* The nearest number; of two that are equally near, either.
Rounded(x) ==
    IF x \in Floats THEN x
    ELSE CHOOSE r \in Floats : \A s \in Floats : Distance(x, r) <= Distance(x, s)

\* Ratios and boosts are not negative.
Target == [type : Types, min : Floats \cap 0..Unit, max : Floats, boost : Nat]

\* validate_policy_targets.  A type may be named more than once.
Valid(targets) ==
    /\ targets \in Seq(Target)
    /\ \A i \in DOMAIN targets : targets[i].min <= targets[i].max
    /\ FoldLeft(LAMBDA sum, t : Rounded(sum + t.min), 0, targets) <= Unit

----------------------------------------------------------------------------
(* The entries of a type.  The plan is kept by type, so the last entry of a *)
(* type has the word; the place of a type in the order of trimming is that  *)
(* of its first entry in that order.                                        *)

Named(targets)           == {t.type : t \in ToSet(targets)}
Entries(targets, type)   == {i \in DOMAIN targets : targets[i].type = type}
LastEntry(targets, type) == targets[Max(Entries(targets, type))]
NamesOnce(targets)       == \A i, j \in DOMAIN targets : targets[i].type = targets[j].type => i = j

TrimsBefore(s, t) ==
    \/ s.boost < t.boost
    \/ s.boost = t.boost /\ s.min < t.min
    \/ s.boost = t.boost /\ s.min = t.min /\ s.type < t.type

Lead(targets, type) ==
    CHOOSE t \in ToSet(targets) :
        t.type = type /\ \A u \in ToSet(targets) : u.type = type => ~TrimsBefore(u, t)

----------------------------------------------------------------------------
(* The quotas of n slots (_build_constraint_plan). *)

MinSlots(t, n) ==
    LET least == (Rounded(t.min * n) + Unit - 1) \div Unit
    IN  IF t.min > 0 THEN Max({1, least}) ELSE least
MaxSlots(t, n)  == Rounded(t.max * n) \div Unit
Guarantee(t, n) == Min({MinSlots(t, n), MaxSlots(t, n)})

\* The slots of each type, numbered, if f says how many it has.
SlotsOf(f) == UNION {{type} \X (1..f[type]) : type \in DOMAIN f}

Promised(targets, n) ==
    SlotsOf([type \in Named(targets) |-> Guarantee(LastEntry(targets, type), n)])
Excess(targets, n) == Cardinality(Promised(targets, n)) - n

Infeasible(targets, n) ==
    \/ \E t \in ToSet(targets) : MinSlots(t, n) > MaxSlots(t, n)
    \/ Excess(targets, n) > 0

\* Who gives up promised slots first, and of two of its own the later one.
GivenUpBefore(p, q, targets) ==
    \/ TrimsBefore(Lead(targets, p[1]), Lead(targets, q[1]))
    \/ p[1] = q[1] /\ p[2] > q[2]

\* One slot after the other is given up until the others fit.
Kept(targets, n) ==
    LET slots  == Promised(targets, n)
        excess == Excess(targets, n)
    IN  {p \in slots : Cardinality({q \in slots : GivenUpBefore(q, p, targets)}) >= excess}

----------------------------------------------------------------------------
(* The selection from candidates ranked by score and boost. *)

\* _topic_type_boost: the first entry of the type has the word.
Boost(targets, type) ==
    IF type \in Named(targets) THEN targets[Min(Entries(targets, type))].boost ELSE 0

\* _rank_candidates; what decides between topics of equal value is left open.
Rankings(candidates, score, targets) ==
    LET value(i) == Rounded(score[i] + Boost(targets, TypeOf[i]))
    IN  {s \in SetToSeqs(candidates) :
            \A k, m \in DOMAIN s : k < m => value(s[k]) >= value(s[m])}

OfType(items, type) == {i \in ToSet(items) : TypeOf[i] = type}

\* Mutant: the limit of the type is counted from none chosen.
HasRoomAfterFirst(chosen, i, limit) ==
    Cardinality(OfType(chosen, TypeOf[i])) <= limit[TypeOf[i]]
HasRoom(chosen, i, limit) ==
    Cardinality(OfType(chosen, TypeOf[i])) < limit[TypeOf[i]]

TakeNext(chosen, i, limit, n) ==
    IF /\ Len(chosen) < n
       /\ ~Contains(chosen, i)
       /\ HasRoom(chosen, i, limit)
    THEN Append(chosen, i)
    ELSE chosen

\* One pass over the ranked candidates, with a limit for each type.
Fill(chosen, ranked, limit, n) ==
    LET after[k \in 0..Len(ranked)] ==
            IF k = 0 THEN chosen ELSE TakeNext(after[k - 1], ranked[k], limit, n)
    IN  after[Len(ranked)]

\* First the kept slots, entry by entry: each entry of a type takes them anew,
\* on top of what is chosen already.
KeptLimit(chosen, type, kept) ==
    [u \in Types |-> IF u = type
                     THEN Cardinality(OfType(chosen, u)) + Cardinality({p \in kept : p[1] = u})
                     ELSE 0]

TakeKept(chosen, ranked, type, kept, n) == Fill(chosen, ranked, KeptLimit(chosen, type, kept), n)

TakeGuaranteed(ranked, targets, n) ==
    LET kept == Kept(targets, n)
        after[k \in 0..Len(targets)] ==
            IF k = 0 THEN <<>> ELSE TakeKept(after[k - 1], ranked, targets[k].type, kept, n)
    IN  after[Len(targets)]

\* Then whoever is next; a type without an entry has no limit of its own.
MaxLimit(targets, n) ==
    [type \in Types |-> IF type \in Named(targets) THEN MaxSlots(LastEntry(targets, type), n) ELSE n]

SelectCandidates(ranked, targets, n) ==
    Fill(TakeGuaranteed(ranked, targets, n), ranked, MaxLimit(targets, n), n)
=============================================================================
