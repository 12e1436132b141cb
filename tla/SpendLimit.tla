----------------------------- MODULE SpendLimit -----------------------------
(***************************************************************************)
(* What a counted allowance promises to whoever pays for it, whatever      *)
(* counts it: each key (a UTC day, for the Q&A budget) is good for Limit   *)
(* grants; once somebody has been told that nothing is left of a key,      *)
(* nothing more is granted of it.  A counter that loses its values may     *)
(* give the allowance out once more, and nothing else may.                 *)
(***************************************************************************)
EXTENDS Naturals

CONSTANTS Keys, Limit

VARIABLES
    granted,   \* grants of each key
    ceiling,   \* how many a key may reach
    closed     \* keys somebody was told nothing is left of

limitVars == <<granted, ceiling, closed>>

Init ==
    /\ granted = [k \in Keys |-> 0]
    /\ ceiling = Limit
    /\ closed = {}

Grant(k) ==
    /\ k \notin closed
    /\ granted[k] < ceiling
    /\ granted' = [granted EXCEPT ![k] = @ + 1]
    /\ UNCHANGED <<ceiling, closed>>

Close(k) ==
    /\ closed' = closed \cup {k}
    /\ UNCHANGED <<granted, ceiling>>

Lose ==
    /\ ceiling' = ceiling + Limit
    /\ closed' = {}
    /\ UNCHANGED granted

Next == Lose \/ \E k \in Keys : Grant(k) \/ Close(k)

Spec == Init /\ [][Next]_limitVars
=============================================================================
