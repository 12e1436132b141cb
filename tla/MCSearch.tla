------------------------------ MODULE MCSearch ------------------------------
(* Small instances of Search. *)
EXTENDS Search, TLC

CONSTANTS c1, warmer

\* A date and none, two degrees of a match and none.
Brought == {[posted |-> 0, text |-> 1], [posted |-> 1, text |-> 2],
            [posted |-> 2, text |-> 0]}

\* Fusion against its definition, for all lists of these postings: nobody
\* is silenced, and one that is before another in both lists stays before.
Lists == {f \in [Postings -> 0 .. Cardinality(Postings)] :
             \A p, q \in Postings : f[p] = f[q] /\ f[p] > 0 => p = q}
Ahead(f, p, q) == f[p] > 0 /\ (f[q] = 0 \/ f[p] < f[q])

ASSUME FusionAssumption ==
    \A f, g \in Lists :
        LET m == Fused(f, g) IN
        /\ \A p \in Postings : m[p] > 0 <=> f[p] > 0 \/ g[p] > 0
        /\ {m[p] : p \in Candidates(m)} = 1 .. Cardinality(Candidates(m))
        /\ \A p, q \in Postings : Ahead(f, p, q) /\ Ahead(g, p, q) => m[p] < m[q] \/ m[q] = 0
=============================================================================
