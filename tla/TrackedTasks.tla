---------------------------- MODULE TrackedTasks ----------------------------
(***************************************************************************)
(* Tracked tasks on the worker processes of one host: clustering runs and  *)
(* tasks that need companies, with the lifecycle around them.  A process   *)
(* that is lost or killed takes its transaction with it.                   *)
(***************************************************************************)
EXTENDS Clustering, CompanyDirectory

ASSUME TrackedTasksAssumption == Clusterings \cap Fetches = {}

allVars == <<lifecycleVars, clusteringVars, directoryVars>>

Init == LifecycleInit /\ ClusteringInit /\ DirectoryInit

Lost(w) ==
    /\ Crash(w) \/ HardTimeLimit(w)
    /\ run' = [run EXCEPT ![w] = NoRun]
    /\ fetch' = [fetch EXCEPT ![w] = NoFetch]
    /\ UNCHANGED <<embedded, clusters, label, clock, overlapped, company, resolved>>

Takes(w) ==
    /\ \E t \in Tasks : \E r \in 0 .. MaxRetries[t] : Receive(w, Message(t, r))
    /\ UNCHANGED <<clusteringVars, directoryVars>>

Handles(w) == HandlerStep(w) /\ UNCHANGED <<clusteringVars, directoryVars>>

Works(w) ==
    \/ ClusteringStep(w) /\ UNCHANGED directoryVars
    \/ DirectoryStep(w) /\ UNCHANGED clusteringVars

Fails(w) ==
    \/ ClusteringFails(w) /\ UNCHANGED directoryVars
    \/ FetchFails(w) /\ UNCHANGED clusteringVars

Next ==
    \/ \E w \in Workers : Takes(w) \/ Handles(w) \/ Works(w) \/ Fails(w) \/ Lost(w)
    \/ \E p \in Postings : Embed(p) /\ UNCHANGED directoryVars

\* A process that has something to do goes on: it takes a message when it is
\* idle, calls the handlers and runs the body, and Postgres ends deadlocks.
Fairness == \A w \in Workers : WF_allVars(Takes(w) \/ Handles(w) \/ Works(w))

Spec == Init /\ [][Next]_allVars /\ Fairness

TypeOK == LifecycleTypeOK /\ ClusteringTypeOK /\ DirectoryTypeOK

\* Every task ends, deadlocks over companies and lost processes included.
EveryTaskEnds == <>[](\A t \in Tasks : Over(t))
=============================================================================
