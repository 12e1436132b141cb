--------------------------- MODULE MCTrackedTasks ---------------------------
(* Small instances of TrackedTasks. *)
EXTENDS TrackedTasks, TLC

CONSTANTS w1, w2

\* Two clusterings, two fetches whose companies come in opposite orders, and
\* a dispatcher of boards.
AllTasks == {"c1", "c2", "f1", "f2", "d1"}
OneRetry == [t \in AllTasks |-> IF t = "d1" THEN 0 ELSE 1]
Pairs == {{"c1", "c2"}, {"f1", "f2"}, {"f1", "d1"}}

\* "a-b" is the slug of the names A B and A-B.
ItemsOf ==
    [t \in {"f1", "f2", "d1"} |->
        CASE t = "f1" -> <<[name |-> "A B", slug |-> "a-b"], [name |-> "C", slug |-> "c"]>>
          [] t = "f2" -> <<[name |-> "C", slug |-> "c"], [name |-> "A-B", slug |-> "a-b"]>>
          [] t = "d1" -> <<[name |-> "C", slug |-> "c"], [name |-> "A-B", slug |-> "a-b"]>>]
=============================================================================
