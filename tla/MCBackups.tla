----------------------------- MODULE MCBackups -----------------------------
(* Small instances of Deployment and Backups. *)
EXTENDS Backups, TLC

CONSTANTS v1, v2, v3

\* v2 migrates, v3 is broken and does not.
Revisions == v1 :> 1 @@ v2 :> 2 @@ v3 :> 1

Bounds(builds, deploys, rollbacks, teardowns, backups, restores, stops) ==
    "build" :> builds @@ "deploy" :> deploys @@ "rollback" :> rollbacks
    @@ "teardown" :> teardowns @@ "backup" :> backups @@ "restore" :> restores @@ "stop" :> stops

\* Releases among themselves and with teardowns; backups restored beside a
\* release; a deployment rolled back and torn down under them.
Mixtures ==
    {Bounds(1, 3, 2, 0, 0, 0, 1), Bounds(0, 2, 1, 2, 0, 0, 1), Bounds(0, 1, 0, 0, 2, 1, 1), Bounds(0, 1, 0, 0, 1, 2, 1),
     Bounds(0, 1, 0, 1, 1, 1, 1), Bounds(0, 2, 0, 1, 1, 1, 0), Bounds(0, 2, 1, 0, 1, 1, 1)}

\* A deploy that fails, or a teardown that keeps the data, and another deploy.
ReleasesOnly == {Bounds(0, 2, 0, 1, 0, 0, 0)}
=============================================================================
