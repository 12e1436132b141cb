----------------------------- MODULE MCQABudget -----------------------------
(* Small instances of QABudget. *)
EXTENDS QABudget, TLC

CONSTANTS r1, r2, c1, c2, q1, q2

Symmetry == Permutations(Requests) \cup Permutations(Clients) \cup Permutations(Questions)
=============================================================================
