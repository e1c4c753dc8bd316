-------------------------- MODULE MCRuntimeWriter --------------------------
(* Small instances of RuntimeWriter for TLC. *)
EXTENDS RuntimeWriter

CONSTANTS c1, c2, k1, k2, diag, domain, trace, other, i1, i2, runA, p1, p2

Req(kind, id, run, fp) == [kind |-> kind, id |-> id, run |-> run, fp |-> fp]

MCKinds == {diag, domain, trace, other}

\* A fact and a mutation that advances the trace of the same run, the latter
\* also under another payload; one without its run; one domain mutation; and
\* a kind nobody registered.
AllRequests == {Req(diag, i1, runA, p1), Req(trace, i1, runA, p1),
                Req(trace, i1, runA, p2), Req(trace, i2, NoRun, p1),
                Req(domain, i1, runA, p1), Req(other, i1, runA, p1)}
=============================================================================
