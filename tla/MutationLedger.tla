-------------------------- MODULE MutationLedger ---------------------------
(***************************************************************************)
(* What the runtime writer promises its callers: a ledger to which every   *)
(* mutation identity is added at most once and never changed, whose        *)
(* revisioned entries are numbered per run, and of which callers are shown *)
(* entries only once they are in it.                                       *)
(***************************************************************************)
EXTENDS Integers

CONSTANTS Kinds, Ids, Runs, Payloads, NoRun, DiagnosticKind, TraceKinds

VARIABLES ledger, shown

Entry == [kind : Kinds, id : Ids, run : Runs \cup {NoRun}, fp : Payloads,
          rev : Nat]

\* Entries numbered in one series: diagnostic facts of a run, and mutations of
\* a run that advance its trace.
Series(e) ==
    IF e.kind = DiagnosticKind
    THEN {d \in ledger : d.kind = DiagnosticKind /\ d.run = e.run}
    ELSE {d \in ledger : d.kind \in TraceKinds /\ d.run = e.run}

Init == ledger = {} /\ shown = {}

Record(e) ==
    /\ \A d \in ledger : ~(d.kind = e.kind /\ d.id = e.id)
    /\ IF e.kind \in {DiagnosticKind} \cup TraceKinds
       THEN /\ e.run \in Runs
            /\ \A d \in Series(e) : d.rev < e.rev
            /\ e.rev = 1 \/ \E d \in Series(e) : d.rev + 1 = e.rev
       ELSE e.rev = 0
    /\ ledger' = ledger \cup {e}
    /\ UNCHANGED shown

Show(e) ==
    /\ shown' = shown \cup {e}
    /\ UNCHANGED ledger

Next == \/ \E e \in ledger' : e \in Entry /\ Record(e)
        \/ \E e \in ledger : Show(e)

Spec == Init /\ [][Next]_<<ledger, shown>>
=============================================================================
