----------------------------- MODULE Clustering -----------------------------
(***************************************************************************)
(* The body of run_clustering_task (app/tasks/clustering.py): one run of   *)
(* run_clustering (app/ml/clustering.py) in one READ COMMITTED transaction *)
(* that replaces the rows of skill_clusters and relabels the postings.     *)
(*                                                                         *)
(* A run is named by its run_at.  Its rows come and go together and stand  *)
(* as that name in clusters; a posting's cluster_id is the name of the run *)
(* that assigned it.  The k-means and the labels are left out.             *)
(***************************************************************************)
EXTENDS TaskLifecycle, FiniteSets

CONSTANTS
    Postings,
    Embedded,     \* the postings that have a vector in the beginning
    MinEmbedded,  \* fewer than that are not clustered
    Clusterings   \* the tasks that cluster

ASSUME ClusteringAssumption ==
    /\ Embedded \subseteq Postings /\ IsFiniteSet(Postings)
    /\ MinEmbedded \in Nat \ {0}
    /\ Clusterings \subseteq Tasks

VARIABLES
    embedded,   \* the postings with a vector
    clusters,   \* skill_clusters: the runs whose rows are in it
    label,      \* postings.cluster_id: the run that set it, 0 for none
    run,        \* the transaction of each worker
    clock,      \* the last run_at given out
    overlapped  \* history: two runs have been under way at once

clusteringVars == <<embedded, clusters, label, run, clock, overlapped>>

NoRun == [step |-> "none", read |-> {}, runAt |-> 0, seen |-> {}]

ClusteringInit ==
    /\ embedded = Embedded
    /\ clusters = {}
    /\ label = [p \in Postings |-> 0]
    /\ run = [w \in Workers |-> NoRun]
    /\ clock = 0
    /\ overlapped = FALSE

Clusters(w) == worker[w].step = "body" /\ worker[w].task \in Clusterings

\* The embedding pipeline fills in a vector, while somebody may look at it.
Embed(p) ==
    /\ p \notin embedded
    /\ \E t \in Clusterings : ~Over(t)
    /\ embedded' = embedded \cup {p}
    /\ UNCHANGED <<lifecycleVars, clusters, label, run, clock, overlapped>>

RunStep(w, from, to) ==
    /\ Clusters(w)
    /\ run[w].step = from
    /\ run' = [run EXCEPT ![w] = to]

\* The postings are read in one statement, and fitted.
ReadEmbeddings(w) ==
    /\ Cardinality(embedded) >= MinEmbedded
    /\ RunStep(w, "none", [NoRun EXCEPT !.step = "fit", !.read = embedded])
    /\ overlapped' = (overlapped \/ \E v \in Workers \ {w} : run[v].step # "none")
    /\ UNCHANGED <<lifecycleVars, embedded, clusters, label, clock>>

\* Too few postings, or vectors that are too much alike for any k or for the
\* k asked for.  The error in the result is a result: the task has succeeded.
NothingToCluster(w) ==
    /\ RunStep(w, "none", NoRun)
    /\ Returns(w)
    /\ UNCHANGED <<embedded, clusters, label, clock, overlapped>>

\* run_at is taken, and DELETE sees the rows that are committed by then.
BeginDelete(w) ==
    /\ RunStep(w, "fit", [run[w] EXCEPT !.step = "delete", !.runAt = clock + 1,
                                        !.seen = clusters])
    /\ clock' = clock + 1
    /\ UNCHANGED <<lifecycleVars, embedded, clusters, label, overlapped>>

\* The transactions that hold a row another one wants.
Deletes(v) == run[v].step \in {"insert", "commit"}
BlockedDelete(w) == \E v \in Workers \ {w} : Deletes(v) /\ run[v].seen \cap run[w].seen # {}
BlockedUpdate(w) ==
    \E v \in Workers \ {w} : run[v].step = "commit" /\ run[v].read \cap run[w].read # {}

\* Mutant of Delete: DELETE commits on its own.
DeleteAndCommit(w) ==
    /\ ~BlockedDelete(w)
    /\ RunStep(w, "delete", [run[w] EXCEPT !.step = "insert", !.seen = @ \cap clusters])
    /\ clusters' = clusters \ run[w].seen
    /\ UNCHANGED <<lifecycleVars, embedded, label, clock, overlapped>>

\* It waits for the rows it has seen; those gone by then, it skips.
Delete(w) ==
    /\ ~BlockedDelete(w)
    /\ RunStep(w, "delete", [run[w] EXCEPT !.step = "insert", !.seen = @ \cap clusters])
    /\ UNCHANGED <<lifecycleVars, embedded, clusters, label, clock, overlapped>>

InsertAndUpdate(w) ==
    /\ ~BlockedUpdate(w)
    /\ RunStep(w, "insert", [run[w] EXCEPT !.step = "commit"])
    /\ UNCHANGED <<lifecycleVars, embedded, clusters, label, clock, overlapped>>

\* Mutant of Relabelled: the postings that have a label keep it.
LabelledOnce(w) ==
    [p \in Postings |-> IF p \in run[w].read /\ label[p] = 0 THEN run[w].runAt ELSE label[p]]

\* Every posting of the run, whether it had a label before or not.
Relabelled(w) ==
    [p \in Postings |-> IF p \in run[w].read THEN run[w].runAt ELSE label[p]]

Commit(w) ==
    /\ RunStep(w, "commit", NoRun)
    /\ clusters' = (clusters \ run[w].seen) \cup {run[w].runAt}
    /\ label' = Relabelled(w)
    /\ Returns(w)
    /\ UNCHANGED <<embedded, clock, overlapped>>

\* A statement fails, or the soft limit strikes: rollback, and raise.
ClusteringFails(w) ==
    /\ Clusters(w)
    /\ Happens("error")
    /\ run' = [run EXCEPT ![w] = NoRun]
    /\ Raises(w)
    /\ UNCHANGED <<embedded, clusters, label, clock, overlapped>>

ClusteringStep(w) ==
    \/ ReadEmbeddings(w) \/ NothingToCluster(w) \/ BeginDelete(w) \/ Delete(w)
    \/ InsertAndUpdate(w) \/ Commit(w)

(***************************************************************************)
(* What the runs promise.                                                  *)
(***************************************************************************)
\* The run that GET /analytics/clusters (app/api/analytics.py) is after.  It
\* reads max(run_at) and the rows of that run in two statements: when a run
\* commits between them, that one answer is empty.
LatestRun == IF clusters = {} THEN 0 ELSE CHOOSE c \in clusters : \A d \in clusters : d <= c

ClusteringTypeOK ==
    /\ embedded \subseteq Postings
    /\ clusters \subseteq 1 .. clock
    /\ label \in [Postings -> 0 .. clock]
    /\ run \in [Workers -> [step : {"none", "fit", "delete", "insert", "commit"},
                            read : SUBSET Postings, runAt : 0 .. clock,
                            seen : SUBSET (1 .. clock)]]
    /\ clock \in Nat
    /\ overlapped \in BOOLEAN

\* Each run replaces the one before as a whole: the postings carry cluster
\* ids of the latest committed run, however many runs failed, died before or
\* after their commit, or were delivered again, as long as no two overlap.
LatestRunOwnsLabels ==
    ~overlapped => \A p \in Postings : label[p] \in {0, LatestRun}

\* No committed state has labelled postings and no rows of any run, even
\* while runs overlap, wait for each other's rows, and fail wherever they
\* are.  It speaks of what is committed, which a request that reads in two
\* statements need not see at one moment.
LabelsHaveARun ==
    (\E p \in Postings : label[p] # 0) => LatestRun # 0
=============================================================================
