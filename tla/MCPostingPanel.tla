--------------------------- MODULE MCPostingPanel ---------------------------
(* Small instances of PostingPanel. *)
EXTENDS PostingPanel, TLC

CONSTANTS p1, p2, f1, f2, c1, c1x, c2, h1, h2

\* One board of one source.
OneBoard == [p \in Postings |-> "acme"]
OneSource == [b \in Boards |-> "greenhouse"]

\* p1 on the company's own board, p2 on an aggregator.
TwoBoards == (p1 :> "acme" @@ p2 :> "adzuna")
TwoSources == [b \in Boards |-> IF b = "adzuna" THEN "adzuna" ELSE "greenhouse"]

\* Twins while their contents are the same, ...
SameKey == [p \in Postings |-> [c \in Contents |-> c]]
\* ... or never.
OwnKey == [p \in Postings |-> [c \in Contents |-> p]]

\* c1 and c1x differ in layout only; c2 differs in substance.
Hashing == [c \in Contents |-> IF c = c2 THEN h2 ELSE h1]

OwnHash == [c \in Contents |-> c]

Symmetry == Permutations(Fetchers)
SymmetryOfContents == Symmetry \cup Permutations(Contents)
=============================================================================
