------------------------------- MODULE Backups -------------------------------
(***************************************************************************)
(* The database scripts (scripts/backup_db.sh, restore_db.sh and           *)
(* _compose.sh) beside the release scripts and the worker that goes on     *)
(* ingesting: the backups bucket, the local directory the scripts share,   *)
(* and one run of each, a step per command that reads or changes           *)
(* something.  No lock keeps any of them apart.                            *)
(*                                                                         *)
(* An archive is the content it was dumped from, or Bad when a transfer    *)
(* cut or replaced it; a manifest has the row counts that were read before *)
(* the dump and, for its byte count and checksum, the archive itself.      *)
(* Keys are numbered in the order of their timestamps.                     *)
(***************************************************************************)
EXTENDS Deployment

CONSTANTS Bad, MaxBackups

Keys == 1 .. MaxBackups
Content == [rows : Nat, schema : Nat]
Listing == [counts : Nat, archive : Content]
Archives == Content \cup {None, Bad}
Manifests == Listing \cup {None, Bad}

ASSUME BackupsAssumption ==
    /\ MaxBackups \in Nat
    /\ Bad # None /\ {None, Bad} \cap (Content \cup Listing) = {}

VARIABLES
    bucketArchive,   \* by key, None where there is no object
    bucketManifest,
    localArchive,    \* the files of LOCAL_DIR
    localManifest,
    backup,          \* the run of backup_db.sh
    restore,         \* the run of restore_db.sh; its verdict stays
    nextKey,
    verified,        \* history: the keys backup_db.sh has reported as verified
    replaced         \* history: the keys whose database lost rows under a script

bucketVars == <<bucketArchive, bucketManifest>>
localVars == <<localArchive, localManifest>>
backupVars == <<bucketVars, localVars, backup, restore, nextKey, verified, replaced>>
allVars == <<vars, backupVars>>

Rested == [step |-> "idle", stack |-> "dev", key |-> 0, counts |-> 0, archive |-> None,
           archiveUp |-> FALSE, manifestUp |-> FALSE]
Undone == [step |-> "idle", stack |-> "dev", key |-> 0, archive |-> None,
           manifest |-> None, verdict |-> "none"]

BackupsInit ==
    /\ Init
    /\ bucketArchive = [k \in Keys |-> None]
    /\ bucketManifest = [k \in Keys |-> None]
    /\ localArchive = [k \in Keys |-> None]
    /\ localManifest = [k \in Keys |-> None]
    /\ backup = Rested
    /\ restore = Undone
    /\ nextKey = 1
    /\ verified = {}
    /\ replaced = {}

Dump(rows, schema) == [rows |-> rows, schema |-> schema]
Manifest(counts, archive) == [counts |-> counts, archive |-> archive]

(***************************************************************************)
(* _compose.sh: the state file decides which stack is meant, and one that  *)
(* lacks the values docker-compose.deploy.yml requires stops the script.   *)
(***************************************************************************)
StackMeant == IF stateFile.there THEN "deploy" ELSE "dev"

\* The values are read once.  Without them a script fails at its first
\* command in a container, before it has published or changed anything.
HasValues == stateFile.there => stateFile.password # None

Reachable(s) == IF s = "deploy" THEN up ELSE db["dev"].status # "none"

\* The worker of the deployed stack ingests a posting.
Ingest ==
    /\ api.started /\ up /\ api.password = volume
    /\ HasTables(db["deploy"])
    /\ db["deploy"].rows < MaxRows
    /\ db' = [db EXCEPT !["deploy"].rows = @ + 1]
    /\ UNCHANGED <<images, stateFile, up, volume, api, release, good, torn, restored,
                   left, backupVars>>

(***************************************************************************)
(* backup_db.sh                                                            *)
(***************************************************************************)
StartBackup ==
    /\ backup.step = "idle" /\ HasValues /\ Happens("backup")
    /\ nextKey <= MaxBackups
    /\ localArchive[nextKey] = None /\ localManifest[nextKey] = None
    /\ backup' = [Rested EXCEPT !.step = "count", !.stack = StackMeant, !.key = nextKey]
    /\ nextKey' = nextKey + 1
    /\ UNCHANGED <<images, stateFile, up, volume, db, api, release, good, torn, restored,
                   bucketVars, localVars, restore, verified, replaced>>

\* The steps of a backup that only the backup itself can see.
BackupStep(from, record) ==
    /\ backup.step = from
    /\ backup' = record
    /\ UNCHANGED <<vars, bucketVars, localVars, restore, nextKey, verified, replaced>>

\* Mutant of ReadSource: the dump, then the counts.
DumpThenCount ==
    LET source == db[backup.stack] IN
    /\ Reachable(backup.stack) /\ HasTables(source)
    /\ \/ BackupStep("count", [backup EXCEPT !.step = "dump",
                                   !.archive = Dump(source.rows, source.schema)])
       \/ BackupStep("dump", [backup EXCEPT !.step = "publish", !.counts = source.rows])

\* Two statements, two snapshots: the counts, then pg_dump.
ReadSource ==
    LET source == db[backup.stack] IN
    /\ Reachable(backup.stack) /\ HasTables(source)
    /\ \/ BackupStep("count", [backup EXCEPT !.step = "dump", !.counts = source.rows])
       \/ BackupStep("dump", [backup EXCEPT !.step = "publish",
                                   !.archive = Dump(source.rows, source.schema)])

\* The archive is parsed in the postgres container and its manifest written:
\* both get their names.
PublishBackup ==
    /\ backup.step = "publish"
    /\ Reachable(backup.stack)
    /\ localArchive' = [localArchive EXCEPT ![backup.key] = backup.archive]
    /\ localManifest' = [localManifest EXCEPT ![backup.key] =
                             Manifest(backup.counts, backup.archive)]
    /\ \/ backup' = [backup EXCEPT !.step = "head"]
       \/ backup' = Rested  \* --local-only
    /\ UNCHANGED <<vars, bucketVars, restore, nextKey, verified, replaced>>

\* Neither object may exist.
HeadObjects ==
    /\ BackupStep("head", [backup EXCEPT !.step = "archive"])
    /\ bucketArchive[backup.key] = None /\ bucketManifest[backup.key] = None

\* A transfer that succeeds may still have stored something else.
Stored(content) == {content, Bad}

PutArchive ==
    /\ backup.step = "archive"
    /\ localArchive[backup.key] # None
    /\ \E content \in Stored(backup.archive) :
           bucketArchive' = [bucketArchive EXCEPT ![backup.key] = content]
    /\ backup' = [backup EXCEPT !.step = "manifest", !.archiveUp = TRUE]
    /\ UNCHANGED <<vars, bucketManifest, localVars, restore, nextKey, verified, replaced>>

PutManifest ==
    /\ backup.step = "manifest"
    /\ localManifest[backup.key] # None
    /\ \E content \in Stored(localManifest[backup.key]) :
           bucketManifest' = [bucketManifest EXCEPT ![backup.key] = content]
    /\ backup' = [backup EXCEPT !.step = "verify", !.manifestUp = TRUE]
    /\ UNCHANGED <<vars, bucketArchive, localVars, restore, nextKey, verified, replaced>>

\* Mutant of ReadsBack: the objects are there.
ObjectsExist ==
    bucketArchive[backup.key] # None /\ bucketManifest[backup.key] # None

ReadsBack ==
    /\ bucketArchive[backup.key] = backup.archive
    /\ bucketManifest[backup.key] = localManifest[backup.key]
    /\ bucketManifest[backup.key] # None

VerifyUpload ==
    /\ backup.step = "verify"
    /\ ReadsBack
    /\ verified' = verified \cup {backup.key}
    /\ backup' = Rested
    /\ UNCHANGED <<vars, bucketVars, localVars, restore, nextKey, replaced>>

(***************************************************************************)
(* The script stops.  Its EXIT trap removes what it has uploaded, each     *)
(* object if it can; a script that is killed removes nothing, and a        *)
(* transfer that fails may have stored its object.                         *)
(***************************************************************************)
BackupBlocked ==
    \/ backup.step = "gone"
    \/ /\ backup.step \in {"count", "dump"}
       /\ ~(Reachable(backup.stack) /\ HasTables(db[backup.stack]))
    \/ backup.step = "publish" /\ ~Reachable(backup.stack)
    \/ /\ backup.step = "head"
       /\ bucketArchive[backup.key] # None \/ bucketManifest[backup.key] # None
    \/ backup.step = "archive" /\ localArchive[backup.key] = None
    \/ backup.step = "manifest" /\ localManifest[backup.key] = None
    \/ backup.step = "verify" /\ ~ReadsBack

Left(object, uploaded, transfers, content) ==
    {object} \cup (IF uploaded THEN {None} ELSE {})
             \cup (IF transfers THEN Stored(content) ELSE {})

StopBackup ==
    /\ backup.step # "idle"
    /\ (BackupBlocked /\ UNCHANGED left) \/ Happens("stop")
    /\ backup' = Rested
    /\ \E a \in Left(bucketArchive[backup.key], backup.archiveUp,
                    backup.step = "archive", backup.archive) :
           bucketArchive' = [bucketArchive EXCEPT ![backup.key] = a]
    /\ \E m \in Left(bucketManifest[backup.key], backup.manifestUp,
                    backup.step = "manifest", localManifest[backup.key]) :
           bucketManifest' = [bucketManifest EXCEPT ![backup.key] = m]
    /\ \/ UNCHANGED localArchive
       \/ /\ backup.step = "publish"  \* between the two mv
          /\ localArchive' = [localArchive EXCEPT ![backup.key] = backup.archive]
    /\ UNCHANGED <<images, stateFile, up, volume, db, api, release, good, torn, restored,
                   localManifest, restore, nextKey, verified, replaced>>

(***************************************************************************)
(* restore_db.sh, by key; --latest is the key that is last.                *)
(***************************************************************************)
RestoreStep(from, record) ==
    /\ restore.step = from
    /\ restore' = record
    /\ UNCHANGED <<images, stateFile, up, volume, api, release, good, torn,
                   bucketVars, backup, nextKey, verified>>

StartRestore(k) ==
    /\ HasValues /\ Happens("restore")
    /\ bucketArchive[k] # None
    /\ localArchive[k] = None /\ localManifest[k] = None
    /\ RestoreStep("idle", [Undone EXCEPT !.step = "download", !.stack = StackMeant,
                                          !.key = k])
    /\ UNCHANGED <<db, restored, replaced, localVars>>

Download ==
    /\ restore.step = "download"
    /\ bucketArchive[restore.key] # None
    /\ \E content \in Stored(bucketArchive[restore.key]) :
           RestoreStep("download", [restore EXCEPT !.step = "manifest", !.archive = content])
    /\ UNCHANGED <<db, restored, replaced, left, localVars>>

\* A manifest that is missing must have been waived with --allow-unverified.
DownloadManifest ==
    /\ restore.step = "manifest"
    /\ LET object == bucketManifest[restore.key] IN
       \E manifest \in IF object = None THEN {None} ELSE Stored(object) :
           RestoreStep("manifest", [restore EXCEPT !.step = "check", !.manifest = manifest])
    /\ UNCHANGED <<db, restored, replaced, left, localVars>>

\* Mutant of Acceptable: only the manifest is held against the download.
AsListed(archive, manifest) ==
    manifest # None => manifest # Bad /\ manifest.archive = archive

\* gzip -t and pg_restore --list can read the archive, and the manifest
\* has its size and checksum.
Acceptable(archive, manifest) ==
    /\ archive # Bad
    /\ manifest # None => manifest # Bad /\ manifest.archive = archive

\* pg_restore runs in the postgres container.
CheckDownload ==
    /\ Acceptable(restore.archive, restore.manifest)
    /\ Reachable(restore.stack)
    /\ RestoreStep("check", [restore EXCEPT !.step = "publish"])
    /\ UNCHANGED <<db, restored, replaced, left, localVars>>

\* Complete, validated downloads only.
PublishDownload ==
    /\ RestoreStep("publish", [restore EXCEPT !.step = "drop"])
    /\ localArchive' = [localArchive EXCEPT ![restore.key] = restore.archive]
    /\ localManifest' = [localManifest EXCEPT ![restore.key] = restore.manifest]
    /\ UNCHANGED <<db, restored, replaced, left>>

\* Rows are lost between what a script has counted or loaded and what it
\* dumps or counts next.
Loses(script, step) ==
    script.step = step /\ db'[script.stack].rows < db[script.stack].rows

ReplacedNow ==
    replaced \cup (IF Loses(backup, "dump") THEN {backup.key} ELSE {})
             \cup (IF Loses(restore, "compare") THEN {restore.key} ELSE {})

\* A step of psql or pg_restore inside the postgres container.
DatabaseStep(from, to, was, database) ==
    /\ Reachable(restore.stack)
    /\ db[restore.stack].status \in was
    /\ RestoreStep(from, [restore EXCEPT !.step = to])
    /\ db' = [db EXCEPT ![restore.stack] = database]
    /\ restored' = (restored \/ restore.stack = "deploy")
    /\ replaced' = ReplacedNow
    /\ UNCHANGED <<left, localVars>>

\* DROP DATABASE IF EXISTS, unless a session has come back meanwhile.
DropDatabase ==
    DatabaseStep("drop", "create", {"dropped", "partial", "whole"},
                 [status |-> "dropped", schema |-> 0, rows |-> 0])

CreateDatabase ==
    DatabaseStep("create", "load", {"dropped"}, [status |-> "partial", schema |-> 0, rows |-> 0])

Loadable == localArchive[restore.key] # None /\ restore.archive # Bad

\* pg_restore creates the tables, from then on the worker can write, ...
BeginLoad ==
    /\ restore.step = "load" /\ Loadable
    /\ DatabaseStep("load", "rows", {"partial"},
                    [status |-> "partial", schema |-> restore.archive.schema, rows |-> 0])

\* ... and copies the rows.
EndLoad ==
    DatabaseStep("rows", "compare", {"partial"},
                 [status |-> "whole", schema |-> db[restore.stack].schema,
                  rows |-> db[restore.stack].rows + restore.archive.rows])

Verdict ==
    IF restore.manifest = None THEN "unchecked"
    ELSE IF db[restore.stack].rows = restore.manifest.counts THEN "complete"
    ELSE "mismatch"

CompareCounts ==
    /\ Reachable(restore.stack) /\ HasTables(db[restore.stack])
    /\ RestoreStep("compare", [restore EXCEPT !.step = "idle", !.verdict = Verdict])
    /\ UNCHANGED <<db, restored, replaced, left, localVars>>

(***************************************************************************)
(* The script stops: downloads that are not published are removed, the     *)
(* database is left as it is.                                              *)
(***************************************************************************)
RestoreBlocked ==
    \/ restore.step = "gone"
    \/ restore.step = "load" /\ ~Loadable
    \/ restore.step = "download" /\ bucketArchive[restore.key] = None
    \/ /\ restore.step = "check"
       /\ ~Acceptable(restore.archive, restore.manifest) \/ ~Reachable(restore.stack)
    \/ /\ restore.step \in {"drop", "create", "load", "rows", "compare"}
       /\ \/ ~Reachable(restore.stack)
          \/ restore.step = "create" /\ db[restore.stack].status # "dropped"
          \/ restore.step \in {"load", "rows"} /\ db[restore.stack].status # "partial"
          \/ restore.step = "compare" /\ ~HasTables(db[restore.stack])

StopRestore ==
    /\ restore.step # "idle"
    /\ (RestoreBlocked /\ UNCHANGED left) \/ Happens("stop")
    /\ RestoreStep(restore.step, Undone)
    /\ \/ UNCHANGED localArchive
       \/ /\ restore.step = "publish"  \* between the two mv
          /\ localArchive' = [localArchive EXCEPT ![restore.key] = restore.archive]
    /\ UNCHANGED <<db, restored, replaced, localManifest>>

(***************************************************************************)
(* teardown.sh removes LocalStack, and the bucket in it, and last backups/; *)
(* a script whose temporary files it deletes can only stop.                *)
(***************************************************************************)
TakeDown ==
    /\ Down
    /\ replaced' = ReplacedNow
    /\ UNCHANGED <<bucketVars, localVars, backup, restore, nextKey, verified>>

EmptyBucket ==
    /\ RemoveLocalStack
    /\ bucketArchive' = [k \in Keys |-> None]
    /\ bucketManifest' = [k \in Keys |-> None]
    /\ verified' = {}
    /\ UNCHANGED <<localVars, backup, restore, nextKey, replaced>>

RemoveCopies ==
    /\ release.step = "copies"
    /\ release' = Idle
    /\ localArchive' = [k \in Keys |-> None]
    /\ localManifest' = [k \in Keys |-> None]
    /\ backup' = IF backup.step \in {"count", "dump", "publish"}
                 THEN [backup EXCEPT !.step = "gone"] ELSE backup
    /\ restore' = IF restore.step \in {"manifest", "check", "publish"}
                  THEN [restore EXCEPT !.step = "gone"] ELSE restore
    /\ UNCHANGED <<images, stateFile, up, volume, db, api, good, torn, restored, left,
                   bucketVars, nextKey, verified, replaced>>

\* restore_db.sh refuses while the local copy is there: the operator moves
\* away one that the bucket has.
ClearLocalCopy(k) ==
    /\ backup.step = "idle" /\ restore.step = "idle"
    /\ localArchive[k] # None /\ bucketArchive[k] # None
    /\ localArchive' = [localArchive EXCEPT ![k] = None]
    /\ localManifest' = [localManifest EXCEPT ![k] = None]
    /\ UNCHANGED <<vars, bucketVars, backup, restore, nextKey, verified, replaced>>

BackupNext ==
    \/ StartBackup \/ ReadSource \/ PublishBackup \/ HeadObjects \/ PutArchive
    \/ PutManifest \/ VerifyUpload \/ StopBackup

RestoreNext ==
    \/ \E k \in Keys : StartRestore(k)
    \/ Download \/ DownloadManifest \/ CheckDownload \/ PublishDownload \/ DropDatabase \/ CreateDatabase
    \/ BeginLoad \/ EndLoad \/ CompareCounts \/ StopRestore

Next ==
    \/ ReleaseStep /\ UNCHANGED backupVars
    \/ TakeDown \/ EmptyBucket \/ RemoveCopies
    \/ \E k \in Keys : ClearLocalCopy(k)
    \/ Ingest
    \/ BackupNext
    \/ RestoreNext

Spec == BackupsInit /\ [][Next]_allVars

(***************************************************************************)
(* What the database scripts promise.                                      *)
(***************************************************************************)
TypeOK ==
    /\ DeploymentTypeOK
    /\ bucketArchive \in [Keys -> Archives]
    /\ bucketManifest \in [Keys -> Manifests]
    /\ localArchive \in [Keys -> Archives]
    /\ localManifest \in [Keys -> Manifests]
    /\ backup \in [step : {"idle", "count", "dump", "publish", "head", "archive", "manifest",
                           "verify", "gone"},
                   stack : Stacks, key : 0 .. MaxBackups, counts : Nat,
                   archive : Content \cup {None}, archiveUp : BOOLEAN, manifestUp : BOOLEAN]
    /\ restore \in [step : {"idle", "download", "manifest", "check", "publish", "drop", "create", "load",
                            "rows", "compare", "gone"},
                    stack : Stacks, key : 0 .. MaxBackups, archive : Archives,
                    manifest : Manifests,
                    verdict : {"none", "unchecked", "complete", "mismatch"}]
    /\ nextKey \in 1 .. MaxBackups + 1
    /\ verified \subseteq Keys /\ replaced \subseteq Keys

\* Whenever a restore has dropped a database and not put it back, whether
\* it still runs, failed, was killed or is tried again, a readable archive
\* lies in the local directory or in the bucket, until a teardown has begun
\* to remove them.
DropNeedsIntactCopy ==
    \A s \in Stacks :
        db[s].status \in {"dropped", "partial"} =>
            torn \/ \E k \in Keys : {localArchive[k], bucketArchive[k]} \ {None, Bad} # {}

\* A backup reported as verified stays in the bucket as it was taken: what
\* other backups and restores that fail or are killed leave behind, and
\* what traps remove, is never it.
VerifiedBackupIsThere ==
    \A k \in verified :
        /\ bucketArchive[k] \notin {None, Bad}
        /\ Acceptable(bucketArchive[k], bucketManifest[k])
        /\ bucketManifest[k] # None

\* A restore that reports matching counts has put back what the dump held
\* and no more, although the worker writes while the backup counts and
\* dumps and while the restore loads; unless the database was replaced
\* between the counts and the dump, or between the load and the comparison,
\* which no lock prevents.
CompleteMeansTheDump ==
    [][restore.step = "compare" /\ restore'.verdict = "complete"
           /\ restore.key \notin replaced =>
               db[restore.stack].rows = restore.archive.rows]_allVars
=============================================================================
