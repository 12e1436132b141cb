--------------------------- MODULE Backups_proofs ---------------------------
(***************************************************************************)
(* Theorems about Deployment and Backups: for any tags, trees, schemas and *)
(* passwords, any number of rows, backups and script runs, and any stops.  *)
(***************************************************************************)
EXTENDS Backups, FiniteSetTheorems, TLAPS

\* Of four passwords one is new, whichever three are in use.
LEMMA PasswordIsNew ==
  (CHOOSE p \in Passwords : p \notin {volume, stateFile.password, api.password}) \in Passwords
  <1> DEFINE Used == {volume, stateFile.password, api.password}
  <1>1. \E p \in Passwords : p \notin Used
    <2>1. SUFFICES ASSUME Passwords \subseteq Used PROVE FALSE
      OBVIOUS
    <2>2. /\ IsFiniteSet({}) /\ Cardinality({}) = 0
      BY FS_EmptySet
    <2>3. /\ IsFiniteSet({volume})
          /\ Cardinality({volume}) = 1
      BY FS_Singleton
    <2>4. /\ IsFiniteSet({volume, stateFile.password})
          /\ Cardinality({volume, stateFile.password}) <= 2
      <3>1. {volume, stateFile.password} = {volume} \cup {stateFile.password}
        OBVIOUS
      <3>2. QED BY <2>3, <3>1, FS_AddElement
    <2>5. /\ IsFiniteSet(Used)
          /\ Cardinality(Used) <= 3
      <3>1. Used = {volume, stateFile.password} \cup {api.password}
        OBVIOUS
      <3>2. Cardinality({volume, stateFile.password}) \in Nat
        BY <2>4, FS_CardinalityType
      <3>3. QED BY <2>4, <3>1, <3>2, FS_AddElement
    <2>6. Cardinality(Passwords) <= Cardinality(Used)
      BY <2>1, <2>5, FS_Subset
    <2>7. Cardinality(Used) \in Nat /\ Cardinality(Passwords) \in Nat
      BY <2>5, FS_CardinalityType, DeploymentAssumption
    <2>8. QED BY <2>5, <2>6, <2>7, DeploymentAssumption
  <1>2. QED
    BY <1>1

LEMMA PasswordIsDrawn ==
  DeploymentTypeOK => DeployPassword \in PasswordOrNone
  BY PasswordIsNew DEF DeployPassword, DeploymentTypeOK, PasswordOrNone

-----------------------------------------------------------------------------
(***************************************************************************)
(* The release scripts.  What a deploy creates containers from has an      *)
(* image, and so it knows a revision to migrate to.  The password a script *)
(* works with is the recorded one, if any, until its containers have it;   *)
(* and a script that has seen /ready has one that opens the volume.        *)
(***************************************************************************)
HasImage ==
    /\ release.step = "create" => release.tag \in Tags /\ images[release.tag] \in Tags
    /\ release.step \in {"migrate", "start"} => api.tree \in Tags
    /\ release.step = "recreate" => release.tag \in Tags

PasswordInHand ==
    /\ release.step = "create" => stateFile.password \in {None, release.password}
    /\ release.step \in {"migrate", "start", "verify"} => api.password = release.password
    /\ release.step = "record" => volume = release.password

\* What the container of the service migrate leaves to that of the api.
MigratedForApi ==
    release.step = "start" /\ ~restored => db["deploy"].schema = Revision[api.tree]

DeploymentInv ==
    /\ DeploymentTypeOK
    /\ HasImage
    /\ MigratedForApi
    /\ PasswordInHand
    /\ RecordedPasswordOpensVolume
    /\ DeployedCodeHasItsSchema

LEMMA InitialDeployment == Init => DeploymentInv
  <1>1. SUFFICES ASSUME Init PROVE DeploymentInv
    OBVIOUS
  <1>2. DeploymentTypeOK
    BY <1>1, DeploymentAssumption
    DEF Init, DeploymentTypeOK, NoState, NoDatabase, NoContainer, Idle, Stacks, Database,
        Container, Release, TagOrNone, PasswordOrNone
  <1>3. QED
    BY <1>1, <1>2
    DEF Init, DeploymentInv, HasImage, MigratedForApi, PasswordInHand, RecordedPasswordOpensVolume,
        DeployedCodeHasItsSchema, NoState, NoContainer, Idle

USE DEF DeploymentTypeOK, Database, Container, Release, TagOrNone, PasswordOrNone, Idle

\* The file is cut before its last line, the password.
LEMMA UnfinishedIs ==
  ASSUME DeploymentTypeOK, NEW file \in Unfinished
  PROVE  /\ file \in [there : BOOLEAN, current : TagOrNone, previous : TagOrNone,
                     password : PasswordOrNone]
         /\ file.password = None
  <1>1. Previous \in TagOrNone /\ release.tag \in TagOrNone
    BY DEF Previous
  <1>2. EmptiedState = [there |-> TRUE, current |-> None, previous |-> None, password |-> None]
    BY DEF EmptiedState
  <1>3. CASE file = EmptiedState
    BY <1>2, <1>3
  <1>4. ASSUME NEW previous \in {None, Previous},
               file = [EmptiedState EXCEPT !.current = release.tag, !.previous = previous]
        PROVE  /\ file \in [there : BOOLEAN, current : TagOrNone, previous : TagOrNone,
                            password : PasswordOrNone]
               /\ file.password = None
    <2>1. file = [there |-> TRUE, current |-> release.tag, previous |-> previous,
                  password |-> None]
      BY <1>2, <1>4
    <2>2. QED BY <1>1, <2>1
  <1>5. file = EmptiedState \/ \E previous \in {None, Previous} :
            file = [EmptiedState EXCEPT !.current = release.tag, !.previous = previous]
    BY DEF Unfinished
  <1>6. QED BY <1>3, <1>4, <1>5

LEMMA ReleaseStepInv == DeploymentInv /\ ReleaseStep => DeploymentInv'
  <1>1. SUFFICES ASSUME DeploymentInv, ReleaseStep PROVE DeploymentInv'
    OBVIOUS
  <1> USE <1>1, DeploymentAssumption
      DEF DeploymentInv, HasImage, MigratedForApi, PasswordInHand, RecordedPasswordOpensVolume,
          DeployedCodeHasItsSchema, Happens, Events
  <1>2. ASSUME NEW t \in Tags, NEW tree \in Tags, BuildOnly(t, tree)
        PROVE  DeploymentInv'
    BY <1>2 DEF BuildOnly, Built
  <1>3. ASSUME NEW t \in Tags, NEW tree \in Tags, StartDeploy(t, tree)
        PROVE  DeploymentInv'
    <2>1. DeployPassword \in PasswordOrNone
      BY PasswordIsDrawn
    <2>2. stateFile.password \in {None, DeployPassword}
      BY DEF DeployPassword
    <2>3. images' \in [Tags -> TagOrNone] /\ images'[t] \in Tags
      BY <1>3 DEF StartDeploy, Built
    <2>4. release' \in Release
      BY <1>3, <2>1 DEF StartDeploy
    <2>5. DeploymentTypeOK'
      BY <1>3, <2>3, <2>4 DEF StartDeploy
    <2>6. QED
      BY <1>3, <2>2, <2>3, <2>5 DEF StartDeploy
  <1>4. ASSUME NEW arg \in TagOrNone, StartRollback(arg)
        PROVE  DeploymentInv'
    <2>1. RollbackTarget(arg) \in Tags /\ RunningTag \in TagOrNone
      BY <1>4 DEF StartRollback, RollbackTarget, RunningTag
    <2>2. /\ release' \in Release
          /\ release'.step = "recreate" /\ release'.tag \in Tags
      BY <1>4, <2>1 DEF StartRollback
    <2>3. left' \in [Events -> Nat]
      BY <1>4 DEF StartRollback
    <2>4. QED
      BY <1>4, <2>2, <2>3 DEF StartRollback
  <1>5. ASSUME NEW keepData \in BOOLEAN, NEW keepImages \in BOOLEAN,
               StartTeardown(keepData, keepImages)
        PROVE  DeploymentInv'
    <2>1. release' \in Release /\ release'.step = "down"
      BY <1>5 DEF StartTeardown
    <2>2. left' \in [Events -> Nat]
      BY <1>5 DEF StartTeardown
    <2>3. QED
      BY <1>5, <2>1, <2>2 DEF StartTeardown
  <1>6. CASE CreateContainers
    <2>1. api' \in Container
      BY <1>6 DEF CreateContainers
    <2>2. db' \in [Stacks -> Database]
      BY <1>6 DEF CreateContainers, NewDatabase
    <2>3. DeploymentTypeOK'
      BY <1>6, <2>1, <2>2 DEF CreateContainers
    <2>4. QED
      BY <1>6, <2>3 DEF CreateContainers
  <1>7. CASE Migrate
    <2>1. Revision[api.tree] \in Nat
      BY <1>7 DEF Migrate
    <2>2. db' \in [Stacks -> Database] /\ db'["deploy"].schema = Revision[api.tree]
      BY <1>7, <2>1 DEF Migrate, Stacks
    <2>3. release' \in Release /\ release'.step = "start"
      BY <1>7 DEF Migrate
    <2>4. DeploymentTypeOK'
      <3>1. restored' \in BOOLEAN
        BY <1>7 DEF Migrate
      <3>2. UNCHANGED <<images, stateFile, up, volume, api, good, torn, left>>
        BY <1>7 DEF Migrate
      <3>3. QED
        BY <2>2, <2>3, <3>1, <3>2
    <2>5. QED
      BY <1>7, <2>2, <2>4 DEF Migrate
  <1>8. CASE Recreate
    BY <1>8 DEF Recreate
  <1>9. CASE Verify
    BY <1>9 DEF Verify, Ready
  <1>10. CASE Record
    <2>1. stateFile' \in [there : BOOLEAN, current : TagOrNone, previous : TagOrNone,
                          password : PasswordOrNone]
      BY <1>10 DEF Record, Previous
    <2>2. QED
      BY <1>10, <2>1 DEF Record
  <1>11. CASE DownFails
    BY <1>11 DEF DownFails
  <1>12. CASE Fail
    BY <1>12 DEF Fail
  <1>13. CASE Stop
    <2>1. left' \in [Events -> Nat]
      BY <1>13 DEF Stop
    <2>3. release' \in Release /\ release'.step = "idle"
      BY <1>13 DEF Stop
    <2>4. stateFile' \in [there : BOOLEAN, current : TagOrNone, previous : TagOrNone,
                          password : PasswordOrNone]
          /\ stateFile'.password \in {None, stateFile.password}
      <3>1. CASE stateFile' = stateFile
        BY <3>1
      <3>2. CASE stateFile' \in Unfinished
        BY <3>2, UnfinishedIs
      <3>3. QED
        BY <1>13, <3>1, <3>2 DEF Stop
    <2>5. UNCHANGED <<images, up, volume, db, api, good, torn, restored>>
      BY <1>13 DEF Stop
    <2>6. QED
      BY <2>1, <2>3, <2>4, <2>5
  <1>14. CASE StartApi
    <2>1. release' \in Release /\ release'.step = "verify" /\ release'.password = release.password
      BY <1>14 DEF StartApi
    <2>2. /\ api' \in Container /\ api'.tree = api.tree /\ api'.password = api.password
          /\ release.step = "start"
      BY <1>14 DEF StartApi, Due
    <2>3. UNCHANGED <<images, stateFile, up, volume, db, good, torn, restored, left>>
      BY <1>14 DEF StartApi
    <2>4. QED
      BY <2>1, <2>2, <2>3
  <1>15. CASE RemoveImages
    <2>1. images' \in [Tags -> TagOrNone]
      BY <1>15 DEF RemoveImages
    <2>2. QED
      BY <1>15, <2>1 DEF RemoveImages
  <1>16. CASE RemoveStateFile
    <2>1. stateFile' \in [there : BOOLEAN, current : TagOrNone, previous : TagOrNone,
                          password : PasswordOrNone]
          /\ stateFile'.password = None
      BY <1>16 DEF RemoveStateFile, NoState
    <2>2. release' \in Release /\ release'.step \in {"idle", "copies"}
      BY <1>16 DEF RemoveStateFile
    <2>3. QED
      BY <1>16, <2>1, <2>2 DEF RemoveStateFile
  <1>17. QED
    BY <1>2, <1>3, <1>4, <1>5, <1>6, <1>7, <1>8, <1>9, <1>10, <1>11, <1>12, <1>13,
       <1>14, <1>15, <1>16
    DEF ReleaseStep

\* A teardown takes containers, volumes and files away together with their
\* passwords, or leaves them as they are.
LEMMA DownInv == DeploymentInv /\ Down => DeploymentInv'
  <1>1. SUFFICES ASSUME DeploymentInv, Down PROVE DeploymentInv'
    OBVIOUS
  <1> USE <1>1, DeploymentAssumption
      DEF DeploymentInv, HasImage, MigratedForApi, PasswordInHand, RecordedPasswordOpensVolume,
          DeployedCodeHasItsSchema, Down
  <1>2. api' \in Container /\ ~api'.started
    BY DEF NoContainer
  <1>3. db' \in [Stacks -> Database]
    BY DEF NoDatabase
  <1>4. release' \in Release /\ release'.step = "bucket"
    OBVIOUS
  <1>5. QED
    BY <1>2, <1>3, <1>4

LEMMA RemoveLocalStackInv == DeploymentInv /\ RemoveLocalStack => DeploymentInv'
  BY DeploymentAssumption
  DEF DeploymentInv, HasImage, MigratedForApi, PasswordInHand, RecordedPasswordOpensVolume,
      DeployedCodeHasItsSchema, RemoveLocalStack

\* A script that has nothing left to do.
LEMMA ScriptEnds ==
  ASSUME DeploymentInv, release' = Idle,
         UNCHANGED <<images, stateFile, up, volume, db, api, good, torn, restored, left>>
  PROVE  DeploymentInv'
  BY DeploymentAssumption
  DEF DeploymentInv, HasImage, MigratedForApi, PasswordInHand, RecordedPasswordOpensVolume,
      DeployedCodeHasItsSchema

\* What only the database scripts do: at most, it uses up an event, ...
LEMMA LeftInv ==
  ASSUME DeploymentInv, left' \in [Events -> Nat],
         UNCHANGED <<images, stateFile, up, volume, db, api, release, good, torn, restored>>
  PROVE  DeploymentInv'
  BY DEF DeploymentInv, HasImage, MigratedForApi, PasswordInHand, RecordedPasswordOpensVolume,
         DeployedCodeHasItsSchema

\* ... and changes a database, of the deployed stack only as a restore does.
LEMMA DatabaseInv ==
  ASSUME DeploymentInv, db' \in [Stacks -> Database], restored' \in BOOLEAN,
         restored' \/ (restored' = restored /\ db'["deploy"].schema = db["deploy"].schema),
         UNCHANGED <<images, stateFile, up, volume, api, release, good, torn, left>>
  PROVE  DeploymentInv'
  BY DEF DeploymentInv, HasImage, MigratedForApi, PasswordInHand, RecordedPasswordOpensVolume,
         DeployedCodeHasItsSchema

-----------------------------------------------------------------------------
(***************************************************************************)
(* The database scripts.  An archive is loaded once it is known to be one, *)
(* and a backup has something to upload.                                   *)
(***************************************************************************)
HasArchive ==
    /\ restore.step \in {"manifest", "check", "publish", "drop", "create", "load", "rows"} =>
           restore.archive # None
    /\ restore.step = "rows" => restore.archive \in Content
    /\ backup.step \in {"publish", "head", "archive", "manifest", "verify"} =>
           backup.archive \in Content
    /\ backup.step # "idle" => backup.key \in Keys
    /\ restore.step # "idle" => restore.key \in Keys

BackupsInv == DeploymentInv /\ TypeOK /\ HasArchive

Backup == [step : {"idle", "count", "dump", "publish", "head", "archive", "manifest",
                   "verify", "gone"},
           stack : Stacks, key : 0 .. MaxBackups, counts : Nat,
           archive : Content \cup {None}, archiveUp : BOOLEAN, manifestUp : BOOLEAN]
Restore == [step : {"idle", "download", "manifest", "check", "publish", "drop", "create",
                    "load", "rows", "compare", "gone"},
            stack : Stacks, key : 0 .. MaxBackups, archive : Archives,
            manifest : Manifests,
            verdict : {"none", "unchecked", "complete", "mismatch"}]

LEMMA InitialBackups == BackupsInit => BackupsInv
  <1>1. SUFFICES ASSUME BackupsInit PROVE BackupsInv
    OBVIOUS
  <1>2. DeploymentInv
    BY <1>1, InitialDeployment DEF BackupsInit
  <1>3. backup \in Backup /\ restore \in Restore
    BY <1>1, BackupsAssumption
    DEF BackupsInit, Backup, Restore, Rested, Undone, Stacks, Archives, Manifests, Listing
  <1>4. TypeOK
    BY <1>1, <1>2, <1>3, BackupsAssumption
    DEF BackupsInit, TypeOK, Backup, Restore, DeploymentInv, Archives, Manifests
  <1>5. QED
    BY <1>1, <1>2, <1>4 DEF BackupsInit, BackupsInv, HasArchive, Rested, Undone

USE DEF Backup, Restore, Archives, Manifests, Listing

LEMMA IngestInv == BackupsInv /\ Ingest => BackupsInv'
  <1>1. SUFFICES ASSUME BackupsInv, Ingest PROVE BackupsInv'
    OBVIOUS
  <1> USE <1>1, BackupsAssumption DEF BackupsInv
  <1>2. /\ db' \in [Stacks -> Database]
        /\ db'["deploy"].schema = db["deploy"].schema
    BY DEF Ingest, DeploymentInv, Stacks
  <1>3. restored' = restored /\ restored' \in BOOLEAN
    BY DEF Ingest, DeploymentInv
  <1>4. DeploymentInv'
    BY <1>2, <1>3, DatabaseInv DEF Ingest
  <1>5. QED
    BY <1>4 DEF Ingest, TypeOK, HasArchive, DeploymentInv, backupVars, bucketVars, localVars

\* An event is used up.
LEMMA EventUsed ==
  ASSUME DeploymentInv, NEW event \in Events, Happens(event)
  PROVE  left' \in [Events -> Nat]
  BY DEF DeploymentInv, Happens

LEMMA BackupInv == BackupsInv /\ BackupNext => BackupsInv'
  <1>1. SUFFICES ASSUME BackupsInv, BackupNext PROVE BackupsInv'
    OBVIOUS
  <1> USE <1>1, BackupsAssumption DEF BackupsInv
  <1>2. /\ left' \in [Events -> Nat]
        /\ UNCHANGED <<images, stateFile, up, volume, db, api, release, good, torn, restored>>
        /\ UNCHANGED restore
    <2>1. CASE StartBackup
      BY <2>1, EventUsed DEF StartBackup, Events
    <2>2. CASE ReadSource
      BY <2>2 DEF ReadSource, BackupStep, vars, DeploymentInv
    <2>3. CASE PublishBackup
      BY <2>3 DEF PublishBackup, vars, DeploymentInv
    <2>4. CASE HeadObjects
      BY <2>4 DEF HeadObjects, BackupStep, vars, DeploymentInv
    <2>5. CASE PutArchive
      BY <2>5 DEF PutArchive, vars, DeploymentInv
    <2>6. CASE PutManifest
      BY <2>6 DEF PutManifest, vars, DeploymentInv
    <2>7. CASE VerifyUpload
      BY <2>7 DEF VerifyUpload, vars, DeploymentInv
    <2>8. CASE StopBackup
      BY <2>8, EventUsed DEF StopBackup, Events, DeploymentInv
    <2>9. QED
      BY <2>1, <2>2, <2>3, <2>4, <2>5, <2>6, <2>7, <2>8 DEF BackupNext
  <1>3. DeploymentInv'
    BY <1>2, LeftInv
  <1>4. CASE StartBackup
    <2>1. nextKey \in Keys /\ nextKey' \in 1 .. MaxBackups + 1
      BY <1>4 DEF StartBackup, TypeOK, Keys
    <2>2. StackMeant \in Stacks
      BY DEF StackMeant, Stacks
    <2>3. backup' = [step |-> "count", stack |-> StackMeant, key |-> nextKey, counts |-> 0,
                     archive |-> None, archiveUp |-> FALSE, manifestUp |-> FALSE]
      BY <1>4 DEF StartBackup, Rested
    <2>4. backup' \in Backup
      BY <2>1, <2>2, <2>3 DEF Keys
    <2>5. QED
      BY <1>2, <1>3, <1>4, <2>1, <2>3, <2>4
      DEF StartBackup, TypeOK, HasArchive, DeploymentInv, bucketVars, localVars
  <1>5. CASE ReadSource
    <2> DEFINE source == db[backup.stack]
    <2>1. source.rows \in Nat /\ source.schema \in Nat
      BY DEF DeploymentInv, TypeOK
    <2>2. Dump(source.rows, source.schema) \in Content
      BY <2>1 DEF Dump, Content
    <2>3. \/ /\ BackupStep("count", [backup EXCEPT !.step = "dump", !.counts = source.rows])
             /\ backup' \in Backup /\ backup'.step = "dump"
          \/ /\ BackupStep("dump", [backup EXCEPT !.step = "publish",
                                          !.archive = Dump(source.rows, source.schema)])
             /\ backup' \in Backup /\ backup'.step = "publish"
             /\ backup'.archive \in Content
      <3>1. CASE BackupStep("count", [backup EXCEPT !.step = "dump", !.counts = source.rows])
        BY <2>1, <3>1 DEF BackupStep, TypeOK
      <3>2. CASE BackupStep("dump", [backup EXCEPT !.step = "publish",
                                          !.archive = Dump(source.rows, source.schema)])
        BY <2>2, <3>2 DEF BackupStep, TypeOK
      <3>3. QED
        BY <1>5, <3>1, <3>2 DEF ReadSource
    <2>4. backup'.key = backup.key /\ backup.step # "idle"
      BY <2>3 DEF BackupStep, TypeOK
    <2>5. /\ backup' \in Backup /\ backup'.step \in {"dump", "publish"}
          /\ backup'.step = "publish" => backup'.archive \in Content
      BY <2>3
    <2>6. UNCHANGED <<bucketVars, localVars, nextKey, verified, replaced>>
      BY <2>3 DEF BackupStep
    <2>7. TypeOK'
      BY <1>2, <1>3, <2>5, <2>6 DEF TypeOK, DeploymentInv, bucketVars, localVars
    <2>8. backup.key \in Keys
      BY <2>4 DEF HasArchive
    <2>9. HasArchive'
      BY <1>2, <2>4, <2>5, <2>8 DEF HasArchive
    <2>10. QED
      BY <1>3, <2>7, <2>9
  <1>6. CASE PublishBackup
    <2>1. backup.key \in Keys /\ backup.archive \in Content /\ backup.counts \in Nat
      BY <1>6 DEF PublishBackup, HasArchive, TypeOK
    <2>2. localArchive' \in [Keys -> Archives] /\ localManifest' \in [Keys -> Manifests]
      BY <1>6, <2>1 DEF PublishBackup, TypeOK, Manifest
    <2>3. /\ backup' \in Backup /\ backup'.step \in {"head", "idle"}
          /\ backup'.step = "head" => backup'.key = backup.key /\ backup'.archive = backup.archive
      <3>1. CASE backup' = [backup EXCEPT !.step = "head"]
        BY <3>1 DEF TypeOK
      <3>2. CASE backup' = Rested
        BY <3>2 DEF Rested, Stacks
      <3>3. QED
        BY <1>6, <3>1, <3>2 DEF PublishBackup
    <2>4. UNCHANGED <<bucketVars, nextKey, verified, replaced>>
      BY <1>6 DEF PublishBackup
    <2>5. TypeOK'
      BY <1>2, <1>3, <2>2, <2>3, <2>4 DEF TypeOK, DeploymentInv, bucketVars
    <2>6. HasArchive'
      BY <1>2, <2>1, <2>3 DEF HasArchive
    <2>7. QED
      BY <1>3, <2>5, <2>6
  <1>7. CASE HeadObjects
    <2>1. backup' \in Backup /\ backup'.step = "archive" /\ backup.step = "head"
          /\ backup'.key = backup.key /\ backup'.archive = backup.archive
      BY <1>7 DEF HeadObjects, BackupStep, TypeOK
    <2>2. QED
      BY <1>2, <1>3, <1>7, <2>1
      DEF HeadObjects, BackupStep, TypeOK, HasArchive, DeploymentInv, bucketVars, localVars
  <1>8. CASE PutArchive
    <2>1. backup.key \in Keys /\ backup.archive \in Content
      BY <1>8 DEF PutArchive, HasArchive
    <2>2. bucketArchive' \in [Keys -> Archives]
      BY <1>8, <2>1 DEF PutArchive, TypeOK, Stored
    <2>3. backup' \in Backup /\ backup'.step = "manifest"
          /\ backup'.key = backup.key /\ backup'.archive = backup.archive
      BY <1>8 DEF PutArchive, TypeOK
    <2>4. QED
      BY <1>2, <1>3, <1>8, <2>1, <2>2, <2>3
      DEF PutArchive, TypeOK, HasArchive, DeploymentInv, localVars
  <1>9. CASE PutManifest
    <2>1. backup.key \in Keys /\ backup.archive \in Content
      BY <1>9 DEF PutManifest, HasArchive
    <2>2. bucketManifest' \in [Keys -> Manifests]
      BY <1>9, <2>1 DEF PutManifest, TypeOK, Stored
    <2>3. backup' \in Backup /\ backup'.step = "verify"
          /\ backup'.key = backup.key /\ backup'.archive = backup.archive
      BY <1>9 DEF PutManifest, TypeOK
    <2>4. QED
      BY <1>2, <1>3, <1>9, <2>1, <2>2, <2>3
      DEF PutManifest, TypeOK, HasArchive, DeploymentInv, localVars
  <1>10. CASE VerifyUpload
    <2>1. backup' \in Backup /\ backup'.step = "idle"
      BY <1>10 DEF VerifyUpload, Rested, Stacks
    <2>2. verified' \subseteq Keys
      BY <1>10 DEF VerifyUpload, HasArchive, TypeOK
    <2>3. QED
      BY <1>2, <1>3, <1>10, <2>1, <2>2
      DEF VerifyUpload, TypeOK, HasArchive, DeploymentInv, bucketVars, localVars
  <1>11. CASE StopBackup
    <2>1. backup' \in Backup /\ backup'.step = "idle"
      BY <1>11 DEF StopBackup, Rested, Stacks
    <2>2. backup.key \in Keys
      BY <1>11 DEF StopBackup, HasArchive
    <2>3. backup.step \in {"publish", "archive"} => backup.archive \in Content
      BY DEF HasArchive
    <2>4. bucketArchive' \in [Keys -> Archives]
      BY <1>11, <2>2, <2>3 DEF StopBackup, TypeOK, Left, Stored
    <2>5. bucketManifest' \in [Keys -> Manifests]
      BY <1>11, <2>2 DEF StopBackup, TypeOK, Left, Stored
    <2>6. localArchive' \in [Keys -> Archives]
      BY <1>11, <2>2, <2>3 DEF StopBackup, TypeOK
    <2>7. QED
      BY <1>2, <1>3, <1>11, <2>1, <2>4, <2>5, <2>6
      DEF StopBackup, TypeOK, HasArchive, DeploymentInv
  <1>12. QED
    BY <1>4, <1>5, <1>6, <1>7, <1>8, <1>9, <1>10, <1>11 DEF BackupNext

\* What a run of restore_db.sh has in hand.
HasDownload(r) ==
    /\ r.step \in {"manifest", "check", "publish", "drop", "create", "load", "rows"} =>
           r.archive # None
    /\ r.step = "rows" => r.archive \in Content
    /\ r.step # "idle" => r.key \in Keys

\* A step of a restore leaves the backup and the bucket alone.
LEMMA Restored ==
  ASSUME BackupsInv, DeploymentInv', UNCHANGED <<bucketVars, backup, nextKey, verified>>,
         localArchive' \in [Keys -> Archives], localManifest' \in [Keys -> Manifests],
         replaced' \subseteq Keys, restore' \in Restore, HasDownload(restore')
  PROVE  BackupsInv'
  <1>1. TypeOK'
    BY DEF BackupsInv, DeploymentInv, TypeOK, bucketVars
  <1>2. HasArchive'
    BY DEF BackupsInv, HasArchive, HasDownload, bucketVars
  <1>3. QED
    BY <1>1, <1>2 DEF BackupsInv

\* psql and pg_restore replace a database; of the deployed stack, restored
\* remembers it.
LEMMA DatabaseStepInv ==
  ASSUME BackupsInv, NEW from, NEW to, NEW was, NEW database,
         DatabaseStep(from, to, was, database), database \in Database,
         restore' \in Restore, HasDownload(restore')
  PROVE  BackupsInv'
  <1> USE DEF DatabaseStep, RestoreStep
  <1>1. /\ db' \in [Stacks -> Database]
        /\ restored' \/ (restored' = restored /\ db'["deploy"].schema = db["deploy"].schema)
        /\ restored' \in BOOLEAN
    <2>1. db \in [Stacks -> Database] /\ restored \in BOOLEAN
      BY DEF BackupsInv, DeploymentInv
    <2>2. CASE restore.stack = "deploy"
      BY <2>1, <2>2
    <2>3. CASE restore.stack # "deploy"
      BY <2>1, <2>3 DEF Stacks
    <2>4. QED
      BY <2>2, <2>3
  <1>2. DeploymentInv'
    BY <1>1, DatabaseInv DEF BackupsInv
  <1>3. replaced' \subseteq Keys
    BY DEF ReplacedNow, Loses, BackupsInv, TypeOK, HasArchive
  <1>4. QED
    BY <1>2, <1>3, Restored DEF BackupsInv, TypeOK, localVars

LEMMA RestoreInv == BackupsInv /\ RestoreNext => BackupsInv'
  <1>1. SUFFICES ASSUME BackupsInv, RestoreNext PROVE BackupsInv'
    OBVIOUS
  <1>2. /\ restore \in Restore /\ HasDownload(restore)
        /\ bucketArchive \in [Keys -> Archives] /\ bucketManifest \in [Keys -> Manifests]
        /\ localArchive \in [Keys -> Archives] /\ localManifest \in [Keys -> Manifests]
        /\ replaced \subseteq Keys /\ restored \in BOOLEAN
        /\ left \in [Events -> Nat] /\ db \in [Stacks -> Database]
    BY <1>1 DEF BackupsInv, DeploymentInv, TypeOK, HasArchive, HasDownload
  <1>3. ASSUME left' \in [Events -> Nat], UNCHANGED <<db, restored, replaced>>,
               RestoreStep(restore.step, restore'), restore' \in Restore,
               HasDownload(restore'),
               localArchive' \in [Keys -> Archives], localManifest' \in [Keys -> Manifests]
        PROVE  BackupsInv'
    <2>1. DeploymentInv'
      BY <1>1, <1>3, LeftInv DEF RestoreStep, BackupsInv
    <2>2. QED
      BY <1>1, <1>2, <1>3, <2>1, Restored DEF RestoreStep
  <1>4. ASSUME NEW k \in Keys, StartRestore(k)
        PROVE  BackupsInv'
    <2>1. left' \in [Events -> Nat]
      BY <1>1, <1>4, EventUsed DEF StartRestore, BackupsInv, Events
    <2>2. StackMeant \in Stacks /\ k \in 0 .. MaxBackups
      BY <1>4, BackupsAssumption DEF StackMeant, Stacks, Keys
    <2>3. restore' = [step |-> "download", stack |-> StackMeant, key |-> k, archive |-> None,
                      manifest |-> None, verdict |-> "none"]
      BY <1>4 DEF StartRestore, RestoreStep, Undone
    <2>4. restore' \in Restore /\ HasDownload(restore')
      BY <1>4, <2>2, <2>3 DEF HasDownload
    <2>5. QED
      BY <1>2, <1>3, <1>4, <2>1, <2>4 DEF StartRestore, RestoreStep, localVars
  <1>5. CASE Download
    <2>1. restore.key \in Keys /\ bucketArchive[restore.key] \in Content \cup {Bad}
      BY <1>2, <1>5 DEF Download, HasDownload
    <2>2. PICK content \in Stored(bucketArchive[restore.key]) :
              RestoreStep("download", [restore EXCEPT !.step = "manifest", !.archive = content])
      BY <1>5 DEF Download
    <2>3. content \in Content \cup {Bad} /\ content # None
      BY <1>2, <1>5, <2>1, <2>2, BackupsAssumption DEF Download, Stored
    <2>4. restore' = [restore EXCEPT !.step = "manifest", !.archive = content]
      BY <2>2 DEF RestoreStep
    <2>5. restore' \in Restore /\ HasDownload(restore')
      BY <1>2, <2>1, <2>3, <2>4 DEF HasDownload
    <2>6. QED
      BY <1>2, <1>3, <1>5, <2>2, <2>5 DEF Download, RestoreStep, localVars
  <1>6. CASE CheckDownload
    <2>1. restore.step = "check" /\ restore.key \in Keys /\ restore.archive # None
      BY <1>2, <1>6 DEF CheckDownload, RestoreStep, HasDownload
    <2>2. restore' \in Restore /\ HasDownload(restore')
      BY <1>2, <1>6, <2>1 DEF CheckDownload, RestoreStep, HasDownload
    <2>3. QED
      BY <1>2, <1>3, <1>6, <2>2 DEF CheckDownload, RestoreStep, localVars
  <1>7. CASE PublishDownload
    <2>1. restore.step = "publish" /\ restore.key \in Keys /\ restore.archive # None
      BY <1>2, <1>7 DEF PublishDownload, RestoreStep, HasDownload
    <2>2. restore' \in Restore /\ HasDownload(restore')
      BY <1>2, <1>7, <2>1 DEF PublishDownload, RestoreStep, HasDownload
    <2>3. localArchive' \in [Keys -> Archives] /\ localManifest' \in [Keys -> Manifests]
      BY <1>2, <1>7 DEF PublishDownload
    <2>4. QED
      BY <1>2, <1>3, <1>7, <2>2, <2>3 DEF PublishDownload, RestoreStep
  <1>8. CASE DropDatabase
    <2>1. restore.step = "drop" /\ restore' = [restore EXCEPT !.step = "create"]
      BY <1>8 DEF DropDatabase, DatabaseStep, RestoreStep
    <2>2. restore' \in Restore /\ HasDownload(restore')
      BY <1>2, <2>1 DEF HasDownload
    <2>3. QED
      BY <1>1, <1>8, <2>2, DatabaseStepInv DEF DropDatabase
  <1>9. CASE CreateDatabase
    <2>1. restore.step = "create" /\ restore' = [restore EXCEPT !.step = "load"]
      BY <1>9 DEF CreateDatabase, DatabaseStep, RestoreStep
    <2>2. restore' \in Restore /\ HasDownload(restore')
      BY <1>2, <2>1 DEF HasDownload
    <2>3. QED
      BY <1>1, <1>9, <2>2, DatabaseStepInv DEF CreateDatabase
  <1>10. CASE BeginLoad
    <2>1. restore.step = "load" /\ restore' = [restore EXCEPT !.step = "rows"]
      BY <1>10 DEF BeginLoad, DatabaseStep, RestoreStep
    <2>2. restore.archive \in Content
      BY <1>2, <1>10 DEF BeginLoad, Loadable, HasDownload
    <2>3. restore' \in Restore /\ HasDownload(restore')
      BY <1>2, <2>1, <2>2 DEF HasDownload
    <2>4. [status |-> "partial", schema |-> restore.archive.schema, rows |-> 0] \in Database
      BY <2>2 DEF Content
    <2>5. QED
      BY <1>1, <1>10, <2>3, <2>4, DatabaseStepInv DEF BeginLoad
  <1>11. CASE EndLoad
    <2>1. restore.step = "rows" /\ restore' = [restore EXCEPT !.step = "compare"]
      BY <1>11 DEF EndLoad, DatabaseStep, RestoreStep
    <2>2. restore.archive.rows \in Nat
      BY <1>2, <2>1 DEF HasDownload, Content
    <2>3. restore' \in Restore /\ HasDownload(restore')
      BY <1>2, <2>1 DEF HasDownload
    <2>4. db[restore.stack] \in Database
      BY <1>2
    <2>5. [status |-> "whole", schema |-> db[restore.stack].schema,
           rows |-> db[restore.stack].rows + restore.archive.rows] \in Database
      BY <2>2, <2>4
    <2>6. QED
      BY <1>1, <1>11, <2>3, <2>5, DatabaseStepInv DEF EndLoad
  <1>12. CASE CompareCounts
    <2>1. Verdict \in {"none", "unchecked", "complete", "mismatch"}
      BY DEF Verdict
    <2>2. restore.step = "compare"
          /\ restore' = [restore EXCEPT !.step = "idle", !.verdict = Verdict]
      BY <1>12 DEF CompareCounts, RestoreStep
    <2>3. restore' \in Restore /\ HasDownload(restore')
      BY <1>2, <2>1, <2>2 DEF HasDownload
    <2>4. QED
      BY <1>2, <1>3, <1>12, <2>3 DEF CompareCounts, RestoreStep, localVars
  <1>13. CASE StopRestore
    <2>1. left' \in [Events -> Nat]
      BY <1>1, <1>2, <1>13, EventUsed DEF StopRestore, BackupsInv, Events
    <2>2. restore' \in Restore /\ HasDownload(restore')
      BY <1>13, BackupsAssumption DEF StopRestore, RestoreStep, Undone, HasDownload, Stacks
    <2>3. localArchive' \in [Keys -> Archives] /\ localManifest' \in [Keys -> Manifests]
      BY <1>2, <1>13 DEF StopRestore
    <2>4. QED
      BY <1>3, <1>13, <2>1, <2>2, <2>3 DEF StopRestore, RestoreStep
  <1>14. CASE DownloadManifest
    <2> DEFINE object == bucketManifest[restore.key]
    <2>1. restore.step = "manifest" /\ restore.key \in Keys /\ restore.archive # None
      BY <1>2, <1>14 DEF DownloadManifest, RestoreStep, HasDownload
    <2>2. PICK manifest \in IF object = None THEN {None} ELSE Stored(object) :
              RestoreStep("manifest", [restore EXCEPT !.step = "check",
                                                      !.manifest = manifest])
      BY <1>14 DEF DownloadManifest
    <2>3. manifest \in Manifests
      BY <1>2, <2>1, <2>2 DEF Stored
    <2>4. restore' = [restore EXCEPT !.step = "check", !.manifest = manifest]
      BY <2>2 DEF RestoreStep
    <2>5. restore' \in Restore /\ HasDownload(restore')
      BY <1>2, <2>1, <2>3, <2>4 DEF HasDownload
    <2>6. QED
      BY <1>2, <1>3, <1>14, <2>1, <2>2, <2>5 DEF DownloadManifest, RestoreStep, localVars
  <1>15. QED
    BY <1>1, <1>4, <1>5, <1>6, <1>7, <1>8, <1>9, <1>10, <1>11, <1>12, <1>13, <1>14
    DEF RestoreNext

-----------------------------------------------------------------------------
\* The release scripts and the worker leave the files of the database
\* scripts alone, a teardown removes them.
LEMMA ScriptsInv ==
  ASSUME BackupsInv, [Next]_allVars
  PROVE  BackupsInv'
  <1>1. /\ DeploymentInv
        /\ bucketArchive \in [Keys -> Archives] /\ bucketManifest \in [Keys -> Manifests]
        /\ localArchive \in [Keys -> Archives] /\ localManifest \in [Keys -> Manifests]
        /\ backup \in Backup /\ restore \in Restore
        /\ nextKey \in 1 .. MaxBackups + 1
        /\ verified \subseteq Keys /\ replaced \subseteq Keys
        /\ HasArchive
    BY DEF BackupsInv, TypeOK
  <1>2. ASSUME DeploymentInv', UNCHANGED backupVars
        PROVE  BackupsInv'
    BY <1>1, <1>2
    DEF BackupsInv, TypeOK, HasArchive, DeploymentInv, backupVars, bucketVars, localVars
  <1>3. CASE ReleaseStep /\ UNCHANGED backupVars
    BY <1>1, <1>2, <1>3, ReleaseStepInv
  <1>4. CASE TakeDown
    <2>1. DeploymentInv'
      BY <1>1, <1>4, DownInv DEF TakeDown
    <2>2. replaced' \subseteq Keys
      BY <1>1, <1>4 DEF TakeDown, ReplacedNow, Loses, HasArchive
    <2>3. QED
      BY <1>1, <1>4, <2>1, <2>2
      DEF TakeDown, BackupsInv, TypeOK, HasArchive, DeploymentInv, bucketVars, localVars
  <1>5. CASE EmptyBucket
    <2>1. DeploymentInv'
      BY <1>1, <1>5, RemoveLocalStackInv DEF EmptyBucket
    <2>2. bucketArchive' \in [Keys -> Archives] /\ bucketManifest' \in [Keys -> Manifests]
          /\ verified' \subseteq Keys
      BY <1>5 DEF EmptyBucket
    <2>3. QED
      BY <1>1, <1>5, <2>1, <2>2
      DEF EmptyBucket, BackupsInv, TypeOK, HasArchive, DeploymentInv, localVars
  <1>6. CASE RemoveCopies
    <2>1. DeploymentInv'
      BY <1>1, <1>6, ScriptEnds DEF RemoveCopies
    <2>2. localArchive' \in [Keys -> Archives] /\ localManifest' \in [Keys -> Manifests]
      BY <1>1, <1>6 DEF RemoveCopies, localVars
    <2>3. \/ backup' = backup
          \/ backup.step # "idle" /\ backup' = [backup EXCEPT !.step = "gone"]
      BY <1>6 DEF RemoveCopies
    <2>4. \/ restore' = restore
          \/ restore.step # "idle" /\ restore' = [restore EXCEPT !.step = "gone"]
      BY <1>6 DEF RemoveCopies
    <2>5. backup' \in Backup /\ restore' \in Restore
      BY <1>1, <2>3, <2>4
    <2>6. HasArchive'
      BY <1>1, <2>3, <2>4 DEF HasArchive
    <2>7. QED
      BY <1>1, <1>6, <2>1, <2>2, <2>5, <2>6
      DEF RemoveCopies, BackupsInv, TypeOK, DeploymentInv, bucketVars
  <1>7. ASSUME NEW k \in Keys, ClearLocalCopy(k)
        PROVE  BackupsInv'
    <2>1. DeploymentInv'
      BY <1>1, <1>7, LeftInv DEF ClearLocalCopy, vars, DeploymentInv
    <2>2. localArchive' \in [Keys -> Archives] /\ localManifest' \in [Keys -> Manifests]
      BY <1>1, <1>7 DEF ClearLocalCopy
    <2>3. QED
      BY <1>1, <1>7, <2>1, <2>2
      DEF ClearLocalCopy, BackupsInv, TypeOK, HasArchive, DeploymentInv, bucketVars
  <1>8. CASE Ingest
    BY <1>8, IngestInv
  <1>9. CASE BackupNext
    BY <1>9, BackupInv
  <1>10. CASE RestoreNext
    BY <1>10, RestoreInv
  <1>11. CASE UNCHANGED allVars
    <2>1. DeploymentInv'
      BY <1>1, <1>11, LeftInv DEF allVars, vars, DeploymentInv
    <2>2. QED
      BY <1>2, <1>11, <2>1 DEF allVars
  <1>12. QED
    BY <1>3, <1>4, <1>5, <1>6, <1>7, <1>8, <1>9, <1>10, <1>11 DEF Next

LEMMA Inductive == Spec => []BackupsInv
  <1>1. BackupsInit => BackupsInv
    BY InitialBackups
  <1>2. BackupsInv /\ [Next]_allVars => BackupsInv'
    BY ScriptsInv
  <1>3. QED
    BY <1>1, <1>2, PTL DEF Spec

\* Every value the scripts hold stays one they can use: records of the two
\* scripts, contents of files and objects, states of the two databases.
THEOREM TypeCorrect == Spec => []TypeOK
  <1>1. BackupsInv => TypeOK
    BY DEF BackupsInv
  <1>2. QED
    BY <1>1, Inductive, PTL

\* deploy.sh:94-101 and teardown.sh: whatever sequence of builds, deploys,
\* rollbacks, teardowns, backups and restores is run and wherever each
\* stops, a password recorded in .deploy-state opens the volume there is.
THEOREM PasswordKept == Spec => []RecordedPasswordOpensVolume
  <1>1. BackupsInv => RecordedPasswordOpensVolume
    BY DEF BackupsInv, DeploymentInv
  <1>2. QED
    BY <1>1, Inductive, PTL

\* docker-compose.deploy.yml: an api that deploy.sh started has the schema
\* of its own tree until a restore replaces the database underneath it.
THEOREM SchemaMatches == Spec => []DeployedCodeHasItsSchema
  <1>1. BackupsInv => DeployedCodeHasItsSchema
    BY DEF BackupsInv, DeploymentInv
  <1>2. QED
    BY <1>1, Inductive, PTL

-----------------------------------------------------------------------------
(***************************************************************************)
(* What the release scripts remember.  The state file, whenever it holds   *)
(* its values, names the tag last seen ready; and no Postgres runs without *)
(* a volume.                                                               *)
(***************************************************************************)
ReleaseHistory ==
    /\ stateFile.password # None => stateFile.current = good
    /\ release.step = "create" => release.password # None
    /\ up => volume # None
    /\ volume = None => db["deploy"].rows = 0
    /\ release.step \in {"images", "state", "copies"} => torn

LEMMA HistoryBegins == BackupsInit => ReleaseHistory
  BY DEF BackupsInit, Init, ReleaseHistory, NoState, NoDatabase, Stacks

LEMMA HistoryContinues ==
  ASSUME BackupsInv, ReleaseHistory, [Next]_allVars
  PROVE  ReleaseHistory'
  <1> USE DEF ReleaseHistory
  <1>1. /\ DeploymentTypeOK /\ restore.stack \in Stacks
        /\ db \in [Stacks -> Database] /\ "deploy" \in Stacks
    BY DEF BackupsInv, TypeOK, DeploymentInv, Stacks
  <1>2. ASSUME UNCHANGED <<stateFile, up, volume, release, good, torn>>,
               db'["deploy"].rows = db["deploy"].rows \/ up
        PROVE  ReleaseHistory'
    BY <1>2
  <1>3. CASE ReleaseStep
    <2>1. ASSUME NEW t \in Tags, NEW tree \in Tags, BuildOnly(t, tree) PROVE ReleaseHistory'
      BY <2>1 DEF BuildOnly
    <2>2. ASSUME NEW t \in Tags, NEW tree \in Tags, StartDeploy(t, tree) PROVE ReleaseHistory'
      <3>1. DeployPassword # None
        BY <1>1, PasswordIsNew, DeploymentAssumption DEF DeployPassword
      <3>2. QED BY <2>2, <3>1 DEF StartDeploy
    <2>3. ASSUME NEW arg \in TagOrNone, StartRollback(arg) PROVE ReleaseHistory'
      BY <2>3 DEF StartRollback
    <2>4. ASSUME NEW a \in BOOLEAN, NEW b \in BOOLEAN, StartTeardown(a, b) PROVE ReleaseHistory'
      BY <2>4 DEF StartTeardown
    <2>5. CASE CreateContainers
      <3>1. /\ release.password # None /\ up' = TRUE
            /\ release' = [release EXCEPT !.step = "migrate"]
            /\ UNCHANGED <<stateFile, good, torn>>
            /\ volume' \in {volume, release.password} /\ (volume = None => volume' = release.password)
        BY <2>5 DEF CreateContainers
      <3>2. release'.step = "migrate" /\ volume' # None
        BY <1>1, <3>1
      <3>3. QED BY <3>1, <3>2
    <2>6. CASE Migrate
      <3>1. db'["deploy"].rows = db["deploy"].rows
        BY <1>1, <2>6 DEF Migrate
      <3>2. QED BY <1>1, <2>6, <3>1 DEF Migrate
    <2>7. CASE StartApi \/ Recreate \/ Verify \/ DownFails \/ RemoveImages \/ Fail
      BY <1>1, <2>7 DEF StartApi, Due, Recreate, Verify, DownFails, RemoveImages, Fail
    <2>8. CASE Record
      BY <1>1, <2>8 DEF Record
    <2>9. CASE Stop
      <3>1. stateFile' = stateFile \/ stateFile'.password = None
        BY <1>1, <2>9, UnfinishedIs DEF Stop
      <3>2. release'.step = "idle" /\ UNCHANGED <<up, volume, db, good, torn>>
        BY <2>9 DEF Stop
      <3>3. QED BY <3>1, <3>2
    <2>10. CASE RemoveStateFile
      BY <1>1, <2>10 DEF RemoveStateFile, NoState
    <2>11. QED
      BY <1>3, <2>1, <2>2, <2>3, <2>4, <2>5, <2>6, <2>7, <2>8, <2>9, <2>10 DEF ReleaseStep
  <1>4. CASE TakeDown
    BY <1>1, <1>4 DEF TakeDown, Down, NoDatabase
  <1>5. CASE EmptyBucket
    BY <1>1, <1>5 DEF EmptyBucket, RemoveLocalStack
  <1>6. CASE RemoveCopies
    BY <1>1, <1>6 DEF RemoveCopies
  <1>7. CASE Ingest
    BY <1>1, <1>7 DEF Ingest
  <1>8. CASE BackupNext
    BY <1>2, <1>8 DEF BackupNext, StartBackup, ReadSource, BackupStep, PublishBackup, HeadObjects,
        PutArchive, PutManifest, VerifyUpload, StopBackup, vars
  <1>9. CASE RestoreNext
    <2>1. UNCHANGED <<stateFile, up, volume, release, good, torn>>
      BY <1>9 DEF RestoreNext, RestoreStep, StartRestore, Download, DownloadManifest,
        CheckDownload, PublishDownload,
          DropDatabase, CreateDatabase, BeginLoad, EndLoad, DatabaseStep, CompareCounts, StopRestore
    <2>2. \/ UNCHANGED db
          \/ \E d : Reachable(restore.stack) /\ db' = [db EXCEPT ![restore.stack] = d]
      BY <1>9 DEF RestoreNext, StartRestore, Download, DownloadManifest,
        CheckDownload, PublishDownload,
          DropDatabase, CreateDatabase, BeginLoad, EndLoad, DatabaseStep, CompareCounts, StopRestore
    <2>3. db'["deploy"].rows = db["deploy"].rows \/ up
      BY <1>1, <2>2 DEF Reachable
    <2>4. QED BY <1>2, <2>1, <2>3
  <1>10. ASSUME NEW k \in Keys, ClearLocalCopy(k) PROVE ReleaseHistory'
    BY <1>2, <1>10 DEF ClearLocalCopy, vars
  <1>11. CASE UNCHANGED allVars
    BY <1>2, <1>11 DEF allVars, vars
  <1>12. QED
    BY <1>3, <1>4, <1>5, <1>6, <1>7, <1>8, <1>9, <1>10, <1>11 DEF Next

-----------------------------------------------------------------------------
(***************************************************************************)
(* The keys.  A key is new to everybody when a backup takes it, and only   *)
(* that backup uploads under it; so all there ever is of a key, wherever   *)
(* it has been copied, is one content, cut or replaced ones apart.         *)
(***************************************************************************)
Transfers == {"head", "archive", "manifest", "verify"}
Accepted == {"publish", "drop", "create", "load", "rows", "compare"}
Readable(object) == object \notin {None, Bad}

Untouched(k) ==
    /\ bucketArchive[k] = None /\ bucketManifest[k] = None
    /\ localArchive[k] = None /\ localManifest[k] = None
    /\ restore.step # "idle" => restore.key # k

KeysInv ==
    /\ \A k \in Keys : k >= nextKey => Untouched(k)
    /\ backup.step \in {"count", "dump", "publish"} => Untouched(backup.key)
    /\ backup.step # "idle" => backup.key < nextKey /\ backup.key \notin verified
    /\ \A k \in Keys : localArchive[k] # Bad /\ localManifest[k] # Bad
    /\ restore.step \in Accepted => restore.archive # Bad /\ restore.manifest # Bad
    /\ \A k \in verified :
           k < nextKey /\ Readable(bucketArchive[k]) /\ Readable(bucketManifest[k])

Lists(manifest, content) == Readable(manifest) => manifest.archive = content

CopiesOf(k, content) ==
    /\ bucketArchive[k] \in {None, Bad, content} /\ localArchive[k] \in {None, content}
    /\ Lists(bucketManifest[k], content) /\ Lists(localManifest[k], content)
    /\ restore.step # "idle" /\ restore.key = k =>
           restore.archive \in {None, Bad, content} /\ Lists(restore.manifest, content)
    /\ backup.step \in {"publish"} \cup Transfers /\ backup.key = k => backup.archive = content

OneContent == \A k \in Keys : \E content \in Content : CopiesOf(k, content)

Files == <<bucketVars, localVars, backup, restore, nextKey, verified>>

LEMMA KeysBegin == BackupsInit => KeysInv /\ OneContent
  <1>1. SUFFICES ASSUME BackupsInit PROVE KeysInv /\ OneContent
    OBVIOUS
  <1>2. Dump(0, 0) \in Content
    BY DEF Dump, Content
  <1>3. KeysInv
    BY <1>1, BackupsAssumption DEF BackupsInit, KeysInv, Untouched, Accepted, Rested, Undone
  <1>4. \A k \in Keys : CopiesOf(k, Dump(0, 0))
    BY <1>1 DEF BackupsInit, CopiesOf, Lists, Readable, Rested, Undone, Transfers
  <1>5. QED BY <1>2, <1>3, <1>4 DEF OneContent

\* What the proofs below need of the types.
LEMMA FilesAre ==
  ASSUME BackupsInv
  PROVE  /\ backup \in Backup /\ restore \in Restore
         /\ bucketArchive \in [Keys -> Archives] /\ bucketManifest \in [Keys -> Manifests]
         /\ localArchive \in [Keys -> Archives] /\ localManifest \in [Keys -> Manifests]
         /\ nextKey \in Nat /\ verified \subseteq Keys
         /\ \A k \in Keys : k \in Nat
         /\ backup.step # "idle" => backup.key \in Keys
         /\ restore.step # "idle" => restore.key \in Keys
         /\ HasArchive
  BY DEF BackupsInv, TypeOK, HasArchive, Keys

\* An archive or a manifest is neither missing nor cut.
LEMMA ContentIsNot == \A c \in Content : c # None /\ c # Bad
  BY BackupsAssumption

LEMMA ManifestIsNot ==
  ASSUME NEW counts \in Nat, NEW c \in Content
  PROVE  Manifest(counts, c) \in Listing /\ Readable(Manifest(counts, c))
  BY BackupsAssumption DEF Manifest, Readable

\* A step that writes no file leads from one set of copies to a smaller one.
LEMMA FilesKept ==
  ASSUME KeysInv, OneContent, UNCHANGED Files
  PROVE  KeysInv' /\ OneContent'
  BY DEF KeysInv, OneContent, CopiesOf, Lists, Readable, Untouched, Files, bucketVars, localVars

\* What a stopped backup may leave, under its own key.
LEMMA StoppedBackup ==
  ASSUME BackupsInv, StopBackup
  PROVE  /\ backup.step # "idle" /\ backup'.step = "idle" /\ backup.key \in Keys
         /\ UNCHANGED <<localManifest, restore, nextKey, verified>>
         /\ \A k \in Keys \ {backup.key} :
                /\ bucketArchive'[k] = bucketArchive[k] /\ bucketManifest'[k] = bucketManifest[k]
                /\ localArchive'[k] = localArchive[k]
         /\ \/ localArchive'[backup.key] = localArchive[backup.key]
            \/ backup.step = "publish" /\ localArchive'[backup.key] = backup.archive
         /\ bucketArchive'[backup.key] \in Left(bucketArchive[backup.key], backup.archiveUp,
                                                backup.step = "archive", backup.archive)
         /\ bucketManifest'[backup.key] \in
                Left(bucketManifest[backup.key], backup.manifestUp,
                     backup.step = "manifest", localManifest[backup.key])
  <1>1. /\ backup.step # "idle" /\ backup' = Rested
        /\ UNCHANGED <<localManifest, restore, nextKey, verified>>
    BY DEF StopBackup
  <1>2. PICK a \in Left(bucketArchive[backup.key], backup.archiveUp,
                        backup.step = "archive", backup.archive) :
            bucketArchive' = [bucketArchive EXCEPT ![backup.key] = a]
    BY DEF StopBackup
  <1>3. PICK m \in Left(bucketManifest[backup.key], backup.manifestUp,
                        backup.step = "manifest", localManifest[backup.key]) :
            bucketManifest' = [bucketManifest EXCEPT ![backup.key] = m]
    BY DEF StopBackup
  <1>4. \/ localArchive' = localArchive
        \/ /\ backup.step = "publish"
           /\ localArchive' = [localArchive EXCEPT ![backup.key] = backup.archive]
    BY DEF StopBackup
  <1>5. backup'.step = "idle"
    BY <1>1 DEF Rested
  <1>6. \A k \in Keys \ {backup.key} : localArchive'[k] = localArchive[k]
    BY <1>4, FilesAre
  <1>7. \/ localArchive'[backup.key] = localArchive[backup.key]
        \/ backup.step = "publish" /\ localArchive'[backup.key] = backup.archive
    BY <1>1, <1>4, FilesAre
  <1>8. QED BY <1>1, <1>2, <1>3, <1>5, <1>6, <1>7, FilesAre

LEMMA BackupKeys ==
  ASSUME BackupsInv, KeysInv, BackupNext
  PROVE  KeysInv'
  <1> USE FilesAre DEF Transfers, Accepted, bucketVars, localVars
  <1>1. CASE StartBackup
    <2>1. /\ nextKey \in Keys /\ nextKey' = nextKey + 1
          /\ backup' = [Rested EXCEPT !.step = "count", !.stack = StackMeant, !.key = nextKey]
          /\ UNCHANGED <<bucketVars, localVars, restore, verified>>
      BY <1>1 DEF StartBackup, Keys, TypeOK, BackupsInv
    <2>2. backup'.step = "count" /\ backup'.key = nextKey
      BY <2>1 DEF Rested
    <2>3. nextKey \notin verified
      BY <2>1 DEF KeysInv
    <2>4. QED BY <2>1, <2>2, <2>3 DEF KeysInv, Untouched
  <1>2. CASE ReadSource
    <2>1. /\ backup.step \in {"count", "dump"} /\ backup'.step \in {"dump", "publish"}
          /\ backup'.key = backup.key
          /\ UNCHANGED <<bucketVars, localVars, restore, nextKey, verified>>
      BY <1>2 DEF ReadSource, BackupStep
    <2>2. QED BY <2>1 DEF KeysInv, Untouched
  <1>3. CASE PublishBackup
    <2>1. /\ backup.step = "publish" /\ backup'.step \in {"head", "idle"}
          /\ backup'.step # "idle" => backup'.key = backup.key
          /\ UNCHANGED <<bucketVars, restore, nextKey, verified>>
          /\ \A k \in Keys \ {backup.key} :
                 localArchive'[k] = localArchive[k] /\ localManifest'[k] = localManifest[k]
          /\ localArchive'[backup.key] = backup.archive
          /\ localManifest'[backup.key] = Manifest(backup.counts, backup.archive)
      BY <1>3 DEF PublishBackup, Rested
    <2>2. backup.archive # Bad /\ backup.archive \in Content
      BY <2>1, ContentIsNot DEF HasArchive
    <2>3. Manifest(backup.counts, backup.archive) # Bad
      BY <2>1, <2>2, ManifestIsNot DEF Readable
    <2>4. QED BY <2>1, <2>2, <2>3 DEF KeysInv, Untouched
  <1>4. CASE HeadObjects
    BY <1>4 DEF HeadObjects, BackupStep, KeysInv, Untouched
  <1>5. CASE PutArchive
    <2>1. /\ backup.step = "archive" /\ backup'.step = "manifest" /\ backup'.key = backup.key
          /\ UNCHANGED <<bucketManifest, localVars, restore, nextKey, verified>>
          /\ \A k \in Keys \ {backup.key} : bucketArchive'[k] = bucketArchive[k]
      BY <1>5 DEF PutArchive
    <2>2. QED BY <2>1 DEF KeysInv, Untouched
  <1>6. CASE PutManifest
    <2>1. /\ backup.step = "manifest" /\ backup'.step = "verify" /\ backup'.key = backup.key
          /\ UNCHANGED <<bucketArchive, localVars, restore, nextKey, verified>>
          /\ \A k \in Keys \ {backup.key} : bucketManifest'[k] = bucketManifest[k]
      BY <1>6 DEF PutManifest
    <2>2. QED BY <2>1 DEF KeysInv, Untouched
  <1>7. CASE VerifyUpload
    <2>1. /\ backup.step = "verify" /\ backup'.step = "idle" /\ ReadsBack
          /\ UNCHANGED <<bucketVars, localVars, restore, nextKey>>
          /\ verified' = verified \cup {backup.key}
      BY <1>7 DEF VerifyUpload, Rested
    <2>2. backup.archive # Bad /\ backup.archive # None
      BY <2>1, ContentIsNot DEF HasArchive
    <2>3. Readable(bucketArchive[backup.key]) /\ Readable(bucketManifest[backup.key])
      BY <2>1, <2>2 DEF ReadsBack, Readable, KeysInv
    <2>4. QED BY <2>1, <2>3 DEF KeysInv, Untouched
  <1>8. CASE StopBackup
    <2>1. /\ backup.step # "idle" /\ backup'.step = "idle"
          /\ UNCHANGED <<localManifest, restore, nextKey, verified>>
          /\ \A k \in Keys \ {backup.key} :
                 /\ bucketArchive'[k] = bucketArchive[k] /\ bucketManifest'[k] = bucketManifest[k]
                 /\ localArchive'[k] = localArchive[k]
          /\ \/ localArchive'[backup.key] = localArchive[backup.key]
             \/ backup.step = "publish" /\ localArchive'[backup.key] = backup.archive
      BY <1>8, StoppedBackup
    <2>2. backup.step = "publish" => backup.archive # Bad
      BY ContentIsNot DEF HasArchive
    <2>3. QED BY <2>1, <2>2 DEF KeysInv, Untouched
  <1>9. QED
    BY <1>1, <1>2, <1>3, <1>4, <1>5, <1>6, <1>7, <1>8 DEF BackupNext

LEMMA BackupCopies ==
  ASSUME BackupsInv, KeysInv, OneContent, BackupNext
  PROVE  OneContent'
  <1> USE FilesAre DEF Transfers, Lists, Readable, bucketVars, localVars
  <1>1. SUFFICES ASSUME NEW k \in Keys PROVE \E content \in Content : CopiesOf(k, content)'
    BY DEF OneContent
  <1>2. PICK c \in Content : CopiesOf(k, c)
    BY DEF OneContent
  <1>3. CopiesOf(k, c)' => \E content \in Content : CopiesOf(k, content)'
    OBVIOUS
  <1>4. CASE StartBackup
    <2>1. backup'.step = "count" /\ UNCHANGED <<bucketVars, localVars, restore>>
      BY <1>4 DEF StartBackup, Rested
    <2>2. CopiesOf(k, c)'
      BY <1>2, <2>1 DEF CopiesOf
    <2>3. QED BY <1>3, <2>2
  <1>5. CASE ReadSource
    <2>1. /\ backup.step \in {"count", "dump"} /\ backup'.key = backup.key
          /\ backup'.step = "dump" \/ (backup'.step = "publish" /\ backup'.archive \in Content)
          /\ UNCHANGED <<bucketVars, localVars, restore, nextKey, verified>>
      <3>1. db[backup.stack].rows \in Nat /\ db[backup.stack].schema \in Nat
        BY DEF DeploymentInv, TypeOK, BackupsInv
      <3>2. Dump(db[backup.stack].rows, db[backup.stack].schema) \in Content
        BY <3>1 DEF Dump, Content
      <3>3. QED BY <1>5, <3>2 DEF ReadSource, BackupStep
    <2>2. CASE k = backup.key /\ backup'.step = "publish"
      <3>1. Untouched(k)
        BY <2>1, <2>2 DEF KeysInv
      <3>2. PICK new \in Content : backup'.archive = new
        BY <2>1, <2>2
      <3>3. CopiesOf(k, new)'
        BY <2>1, <2>2, <3>1, <3>2 DEF CopiesOf, Untouched
      <3>4. QED BY <3>3
    <2>3. CASE ~(k = backup.key /\ backup'.step = "publish")
      <3>1. CopiesOf(k, c)'
        BY <1>2, <2>1, <2>3 DEF CopiesOf
      <3>2. QED BY <1>3, <3>1
    <2>4. QED BY <2>2, <2>3
  <1>6. CASE PublishBackup
    <2>1. /\ backup.step = "publish" /\ backup'.step \in {"head", "idle"}
          /\ backup'.step # "idle" => backup'.key = backup.key /\ backup'.archive = backup.archive
          /\ UNCHANGED <<bucketVars, restore>>
          /\ localArchive'[k] = IF k = backup.key THEN backup.archive ELSE localArchive[k]
          /\ localManifest'[k] = IF k = backup.key THEN Manifest(backup.counts, backup.archive)
                                 ELSE localManifest[k]
      BY <1>6 DEF PublishBackup, Rested
    <2>2. CopiesOf(k, c)'
      BY <1>2, <2>1 DEF CopiesOf, Manifest
    <2>3. QED BY <1>3, <2>2
  <1>7. CASE HeadObjects \/ VerifyUpload
    <2>1. /\ backup'.step \in {"archive", "idle"} /\ backup.step \in Transfers
          /\ backup'.step # "idle" => backup'.key = backup.key /\ backup'.archive = backup.archive
          /\ UNCHANGED <<bucketVars, localVars, restore>>
      BY <1>7 DEF HeadObjects, BackupStep, VerifyUpload, Rested
    <2>2. CopiesOf(k, c)'
      BY <1>2, <2>1 DEF CopiesOf
    <2>3. QED BY <1>3, <2>2
  <1>8. CASE PutArchive
    <2>1. /\ backup.step = "archive" /\ backup'.step = "manifest"
          /\ backup'.key = backup.key /\ backup'.archive = backup.archive
          /\ UNCHANGED <<bucketManifest, localVars, restore>>
          /\ bucketArchive'[k] \in IF k = backup.key THEN {backup.archive, Bad} ELSE {bucketArchive[k]}
      BY <1>8 DEF PutArchive, Stored
    <2>2. CopiesOf(k, c)'
      BY <1>2, <2>1 DEF CopiesOf
    <2>3. QED BY <1>3, <2>2
  <1>9. CASE PutManifest
    <2>1. /\ backup.step = "manifest" /\ backup'.step = "verify"
          /\ backup'.key = backup.key /\ backup'.archive = backup.archive
          /\ UNCHANGED <<bucketArchive, localVars, restore>>
          /\ bucketManifest'[k] \in IF k = backup.key THEN {localManifest[k], Bad}
                                    ELSE {bucketManifest[k]}
      BY <1>9 DEF PutManifest, Stored
    <2>2. CopiesOf(k, c)'
      BY <1>2, <2>1 DEF CopiesOf
    <2>3. QED BY <1>3, <2>2
  <1>10. CASE StopBackup
    <2>1. backup'.step = "idle" /\ UNCHANGED <<localManifest, restore>>
      BY <1>10, StoppedBackup
    <2>2. CASE k # backup.key
      <3>1. /\ bucketArchive'[k] = bucketArchive[k] /\ bucketManifest'[k] = bucketManifest[k]
            /\ localArchive'[k] = localArchive[k]
        BY <1>10, <2>2, StoppedBackup
      <3>2. CopiesOf(k, c)'
        BY <1>2, <2>1, <3>1 DEF CopiesOf
      <3>3. QED BY <1>3, <3>2
    <2>3. CASE k = backup.key
      <3>1. \/ bucketArchive'[k] \in {bucketArchive[k], None, Bad}
            \/ backup.step = "archive" /\ bucketArchive'[k] = backup.archive
        <4>1. bucketArchive'[k] \in Left(bucketArchive[k], backup.archiveUp,
                                        backup.step = "archive", backup.archive)
          BY <1>10, <2>3, StoppedBackup
        <4>2. CASE backup.step = "archive"
          BY <4>1, <4>2 DEF Left, Stored
        <4>3. CASE backup.step # "archive"
          BY <4>1, <4>3 DEF Left
        <4>4. QED BY <4>2, <4>3
      <3>2. bucketManifest'[k] \in {bucketManifest[k], None, Bad, localManifest[k]}
        BY <1>10, <2>3, StoppedBackup DEF Left, Stored
      <3>3. \/ localArchive'[k] = localArchive[k]
            \/ backup.step = "publish" /\ localArchive'[k] = backup.archive
        BY <1>10, <2>3, StoppedBackup
      <3>4. CopiesOf(k, c)'
        BY <1>2, <2>1, <2>3, <3>1, <3>2, <3>3 DEF CopiesOf
      <3>5. QED BY <1>3, <3>4
    <2>4. QED BY <2>2, <2>3
  <1>11. QED
    BY <1>4, <1>5, <1>6, <1>7, <1>8, <1>9, <1>10 DEF BackupNext

\* The steps of a restore by what they do to its record and to the files.
LEMMA RestoreSteps ==
  ASSUME BackupsInv, RestoreNext
  PROVE  /\ UNCHANGED <<bucketVars, backup, nextKey, verified>>
         /\ \/ /\ restore.step = "idle" /\ restore'.step = "download" /\ restore'.key \in Keys
               /\ restore'.stack = StackMeant
               /\ restore'.archive = None /\ restore'.manifest = None
               /\ bucketArchive[restore'.key] # None /\ localArchive[restore'.key] = None
               /\ UNCHANGED localVars
            \/ /\ restore.step = "download" /\ restore'.step = "manifest"
               /\ restore'.key = restore.key
               /\ bucketArchive[restore.key] # None
               /\ restore'.archive \in {bucketArchive[restore.key], Bad}
               /\ restore'.manifest = restore.manifest
               /\ UNCHANGED localVars
            \/ /\ restore.step = "manifest" /\ restore'.step = "check" /\ restore'.key = restore.key
               /\ restore'.archive = restore.archive
               /\ restore'.manifest \in {bucketManifest[restore.key], Bad}
               /\ UNCHANGED localVars
            \/ /\ restore.step = "check" /\ restore'.step = "publish" /\ restore'.key = restore.key
               /\ restore'.archive = restore.archive /\ restore.archive # Bad
               /\ restore'.manifest = restore.manifest
               /\ Acceptable(restore.archive, restore.manifest)
               /\ UNCHANGED localVars
            \/ /\ restore.step = "publish" /\ restore'.step = "drop" /\ restore'.key = restore.key
               /\ restore'.archive = restore.archive /\ restore'.manifest = restore.manifest
               /\ \A k \in Keys : /\ localArchive'[k] = IF k = restore.key THEN restore.archive
                                                        ELSE localArchive[k]
                                  /\ localManifest'[k] = IF k = restore.key THEN restore.manifest
                                                         ELSE localManifest[k]
            \/ /\ restore.step \in {"drop", "create", "load", "rows"}
               /\ restore'.step \in {"create", "load", "rows", "compare"}
               /\ restore'.step = "compare" => restore.step = "rows"
               /\ restore'.stack = restore.stack
               /\ restore'.key = restore.key /\ restore'.archive = restore.archive
               /\ restore'.manifest = restore.manifest /\ UNCHANGED localVars
            \/ /\ restore'.step = "idle"
               /\ UNCHANGED localManifest
               /\ \A k \in Keys : \/ localArchive'[k] = localArchive[k]
                                  \/ /\ restore.step = "publish" /\ k = restore.key
                                     /\ localArchive'[k] = restore.archive
  <1> USE FilesAre DEF RestoreStep, bucketVars, localVars
  <1>1. ASSUME NEW k \in Keys, StartRestore(k)
        PROVE  /\ restore.step = "idle" /\ restore'.step = "download" /\ restore'.key \in Keys
               /\ restore'.stack = StackMeant
               /\ restore'.archive = None /\ restore'.manifest = None
               /\ bucketArchive[restore'.key] # None /\ localArchive[restore'.key] = None
               /\ UNCHANGED localVars
    BY <1>1 DEF StartRestore, Undone
  <1>2. CASE Download
    BY <1>2 DEF Download, Stored
  <1>3. CASE CheckDownload
    BY <1>3 DEF CheckDownload, Acceptable
  <1>4. CASE PublishDownload
    BY <1>4 DEF PublishDownload
  <1>5. CASE DropDatabase
    BY <1>5 DEF DropDatabase, DatabaseStep
  <1>6. CASE CreateDatabase
    BY <1>6 DEF CreateDatabase, DatabaseStep
  <1>7. CASE BeginLoad
    BY <1>7 DEF BeginLoad, DatabaseStep
  <1>8. CASE EndLoad
    BY <1>8 DEF EndLoad, DatabaseStep
  <1>9. CASE CompareCounts
    BY <1>9 DEF CompareCounts
  <1>10. CASE StopRestore
    BY <1>10 DEF StopRestore, Undone
  <1>11. UNCHANGED <<bucketVars, backup, nextKey, verified>>
    BY DEF RestoreNext, StartRestore, Download, DownloadManifest,
        CheckDownload, PublishDownload,
        DropDatabase, CreateDatabase, BeginLoad, EndLoad, DatabaseStep, CompareCounts, StopRestore
  <1>12. CASE DownloadManifest
    BY <1>12 DEF DownloadManifest, Stored
  <1>13. QED
    BY <1>1, <1>2, <1>3, <1>4, <1>5, <1>6, <1>7, <1>8, <1>9, <1>10, <1>11, <1>12 DEF RestoreNext

LEMMA RestoreKeys ==
  ASSUME BackupsInv, KeysInv, RestoreNext
  PROVE  KeysInv'
  <1>1. restore.step \in {"publish", "drop", "create", "load", "rows", "compare"} =>
            restore.archive # Bad /\ restore.manifest # Bad
    BY DEF KeysInv, Accepted
  <1>2. \A k \in Keys : /\ localArchive'[k] # Bad /\ localManifest'[k] # Bad
                        /\ localArchive'[k] # localArchive[k] \/ localManifest'[k] # localManifest[k]
                               => k = restore.key /\ restore.step = "publish"
    BY <1>1, RestoreSteps DEF KeysInv, localVars
  <1>3. restore'.step \in Accepted => restore'.archive # Bad /\ restore'.manifest # Bad
    <2>1. CASE restore.step = "check" /\ restore'.step = "publish"
      <3>1. /\ restore'.archive = restore.archive /\ restore'.manifest = restore.manifest
            /\ Acceptable(restore.archive, restore.manifest)
        BY <2>1, RestoreSteps
      <3>2. None # Bad
        BY BackupsAssumption
      <3>3. QED BY <3>1, <3>2 DEF Acceptable
    <2>2. CASE restore.step \in Accepted /\ restore'.step \in Accepted
      BY <1>1, <2>2, RestoreSteps DEF Accepted
    <2>3. QED BY <2>1, <2>2, RestoreSteps DEF Accepted
  <1>4. restore'.step # "idle" => \/ restore.step # "idle" /\ restore'.key = restore.key
                                  \/ bucketArchive[restore'.key] # None
    BY RestoreSteps
  <1>5. \A k \in Keys : Untouched(k) => Untouched(k)'
    BY <1>2, <1>4, RestoreSteps DEF Untouched, bucketVars
  <1>6. backup.step \in {"count", "dump", "publish"} => backup.key \in Keys
    BY FilesAre
  <1>7. QED
    BY <1>2, <1>3, <1>5, <1>6, RestoreSteps DEF KeysInv, bucketVars

LEMMA RestoreCopies ==
  ASSUME BackupsInv, KeysInv, OneContent, RestoreNext
  PROVE  OneContent'
  <1>1. SUFFICES ASSUME NEW k \in Keys, NEW c \in Content, CopiesOf(k, c)
                 PROVE  CopiesOf(k, c)'
    BY DEF OneContent
  <1>2. UNCHANGED <<bucketVars, backup>>
    BY RestoreSteps
  <1>3. restore.step = "publish" => restore.archive # Bad /\ restore.archive # None
    BY FilesAre DEF KeysInv, Accepted, HasArchive
  <1>4. localArchive'[k] \in {None, c} /\ Lists(localManifest'[k], c)
    BY <1>1, <1>3, RestoreSteps DEF CopiesOf, Lists, localVars
  <1>5. restore'.step # "idle" /\ restore'.key = k =>
            restore'.archive \in {None, Bad, c} /\ Lists(restore'.manifest, c)
    BY <1>1, RestoreSteps DEF CopiesOf, Lists, Readable
  <1>6. QED
    BY <1>1, <1>2, <1>4, <1>5 DEF CopiesOf, Lists, bucketVars

\* A teardown only takes copies away.
LEMMA KeysContinue ==
  ASSUME BackupsInv, KeysInv, OneContent, [Next]_allVars
  PROVE  KeysInv' /\ OneContent'
  <1> USE FilesAre DEF Transfers, Accepted, bucketVars, localVars
  <1>1. CASE BackupNext
    BY <1>1, BackupKeys, BackupCopies
  <1>2. CASE RestoreNext
    BY <1>2, RestoreKeys, RestoreCopies
  <1>3. CASE \/ ReleaseStep /\ UNCHANGED backupVars
             \/ TakeDown \/ Ingest \/ UNCHANGED allVars
    <2>1. UNCHANGED Files
      BY <1>3 DEF TakeDown, Ingest, backupVars, allVars, Files
    <2>2. QED BY <2>1, FilesKept
  <1>4. CASE EmptyBucket
    <2>1. /\ \A k \in Keys : bucketArchive'[k] = None /\ bucketManifest'[k] = None
          /\ verified' = {}
          /\ UNCHANGED <<localVars, backup, restore, nextKey>>
      BY <1>4 DEF EmptyBucket
    <2>2. KeysInv'
      BY <2>1 DEF KeysInv, Untouched
    <2>3. ASSUME NEW k \in Keys, NEW c \in Content, CopiesOf(k, c) PROVE CopiesOf(k, c)'
      BY <2>1, <2>3 DEF CopiesOf, Lists, Readable
    <2>4. QED BY <2>2, <2>3 DEF OneContent
  <1>5. CASE RemoveCopies
    <2>1. /\ \A k \in Keys : /\ localArchive'[k] \in {None, localArchive[k]}
                             /\ localManifest'[k] \in {None, localManifest[k]}
          /\ UNCHANGED <<bucketVars, nextKey, verified>>
      BY <1>5 DEF RemoveCopies
    <2>2. /\ backup'.key = backup.key /\ backup'.archive = backup.archive
          /\ \/ backup'.step = backup.step
             \/ backup.step \in {"count", "dump", "publish"} /\ backup'.step = "gone"
      BY <1>5 DEF RemoveCopies
    <2>3. /\ restore'.key = restore.key /\ restore'.archive = restore.archive
          /\ restore'.manifest = restore.manifest
          /\ \/ restore'.step = restore.step
             \/ restore.step \in {"manifest", "check", "publish"} /\ restore'.step = "gone"
      BY <1>5 DEF RemoveCopies
    <2>4. None # Bad
      BY BackupsAssumption
    <2>5. KeysInv'
      <3>1. \A k \in Keys : Untouched(k) => Untouched(k)'
        BY <2>1, <2>3 DEF Untouched
      <3>2. QED BY <2>1, <2>2, <2>3, <2>4, <3>1 DEF KeysInv
    <2>6. ASSUME NEW k \in Keys, NEW c \in Content, CopiesOf(k, c) PROVE CopiesOf(k, c)'
      BY <2>1, <2>2, <2>3, <2>6 DEF CopiesOf, Lists, Readable
    <2>7. QED BY <2>5, <2>6 DEF OneContent
  <1>6. ASSUME NEW key \in Keys, ClearLocalCopy(key) PROVE KeysInv' /\ OneContent'
    <2>1. /\ \A k \in Keys : /\ localArchive'[k] \in {None, localArchive[k]}
                             /\ localManifest'[k] \in {None, localManifest[k]}
          /\ UNCHANGED <<bucketVars, backup, restore, nextKey, verified>>
      BY <1>6 DEF ClearLocalCopy
    <2>2. None # Bad
      BY BackupsAssumption
    <2>3. KeysInv'
      BY <2>1, <2>2 DEF KeysInv, Untouched
    <2>4. ASSUME NEW k \in Keys, NEW c \in Content, CopiesOf(k, c) PROVE CopiesOf(k, c)'
      BY <2>1, <2>4 DEF CopiesOf, Lists, Readable
    <2>5. QED BY <2>3, <2>4 DEF OneContent
  <1>7. QED
    BY <1>1, <1>2, <1>3, <1>4, <1>5, <1>6 DEF Next

LEMMA HistoryAndKeys == Spec => [](BackupsInv /\ ReleaseHistory /\ KeysInv /\ OneContent)
  <1>1. BackupsInit => BackupsInv /\ ReleaseHistory /\ KeysInv /\ OneContent
    BY InitialBackups, HistoryBegins, KeysBegin
  <1>2. BackupsInv /\ ReleaseHistory /\ KeysInv /\ OneContent /\ [Next]_allVars
            => (BackupsInv /\ ReleaseHistory /\ KeysInv /\ OneContent)'
    BY ScriptsInv, HistoryContinues, KeysContinue
  <1>3. QED
    BY <1>1, <1>2, PTL DEF Spec

\* backup_db.sh:155-215: however backups and restores are interleaved, cut
\* short or killed, an upload that was read back and reported as verified
\* stays in the bucket as it was taken, for as long as the bucket exists.
THEOREM VerifiedStays == Spec => []VerifiedBackupIsThere
  <1>1. BackupsInv /\ KeysInv /\ OneContent => VerifiedBackupIsThere
    <2>1. SUFFICES ASSUME BackupsInv, KeysInv, OneContent, NEW k \in verified
                   PROVE  /\ bucketArchive[k] \notin {None, Bad}
                          /\ Acceptable(bucketArchive[k], bucketManifest[k])
                          /\ bucketManifest[k] # None
      BY DEF VerifiedBackupIsThere
    <2>2. k \in Keys /\ Readable(bucketArchive[k]) /\ Readable(bucketManifest[k])
      BY <2>1, FilesAre DEF KeysInv
    <2>3. PICK c \in Content : CopiesOf(k, c)
      BY <2>1, <2>2 DEF OneContent
    <2>4. bucketArchive[k] = c /\ bucketManifest[k].archive = c
      BY <2>2, <2>3 DEF CopiesOf, Lists, Readable
    <2>5. QED BY <2>2, <2>4 DEF Acceptable, Readable
  <1>2. QED
    BY <1>1, HistoryAndKeys, PTL

\* rollback.sh:44-60: without an argument, and while something else than
\* the version last seen ready is running, a rollback goes back to it.
THEOREM RollbackTargetIsGood == Spec => RollbackReturnsToGood
  <1>1. ReleaseHistory =>
            [StartRollback(None) /\ api.tag \notin {None, good} => release'.tag = good]_vars
    BY DEF ReleaseHistory, StartRollback, RollbackTarget, Idle
  <1>2. QED
    BY <1>1, HistoryAndKeys, PTL DEF RollbackReturnsToGood

-----------------------------------------------------------------------------
(***************************************************************************)
(* A readable object of a finished backup stays readable until a teardown  *)
(* empties the bucket; and what a restore has accepted is one.             *)
(***************************************************************************)
SafeInBucket(k) ==
    /\ Readable(bucketArchive[k]) /\ k < nextKey
    /\ backup.step # "idle" => backup.key # k

HalfDone(s) == db[s].status \in {"dropped", "partial"}

CopyInv ==
    /\ backup.step = "gone" => torn
    /\ ~torn =>
        /\ backup.step \in Transfers => localArchive[backup.key] # None
        /\ backup.step # "idle" /\ restore.step # "idle" => restore.key # backup.key
        /\ restore.step \in {"manifest", "check"} \cup Accepted /\ Readable(restore.archive) =>
               SafeInBucket(restore.key)
        /\ (\E s \in Stacks : HalfDone(s)) => \E k \in Keys : SafeInBucket(k)

LEMMA CopiesBegin == BackupsInit => CopyInv
  BY DEF BackupsInit, Init, CopyInv, Rested, Undone, Transfers, Accepted, HalfDone, NoDatabase, Stacks

\* A backup touches no file but its own.
LEMMA BackupFiles ==
  ASSUME BackupsInv, BackupNext
  PROVE  /\ UNCHANGED <<db, torn, restore>>
         /\ \A k \in Keys : backup.step = "idle" \/ k # backup.key =>
                bucketArchive'[k] = bucketArchive[k] /\ localArchive'[k] = localArchive[k]
         /\ \/ /\ backup.step = "idle" /\ backup'.step = "count"
               /\ backup'.key = nextKey /\ nextKey \in Keys /\ nextKey' = nextKey + 1
            \/ /\ backup.step # "idle" /\ nextKey' = nextKey
               /\ backup'.step # "idle" => backup'.key = backup.key
         /\ backup'.step # "gone"
         /\ backup'.step \in Transfers =>
                \/ backup.step \in Transfers /\ localArchive' = localArchive
                \/ localArchive'[backup.key] \in Content
  <1> USE FilesAre DEF Transfers, bucketVars, localVars
  <1>1. UNCHANGED <<db, torn, restore>>
    BY DEF BackupNext, StartBackup, ReadSource, BackupStep, PublishBackup, HeadObjects,
        PutArchive, PutManifest, VerifyUpload, StopBackup, vars
  <1>2. CASE StartBackup
    <2>1. nextKey \in Keys
      BY <1>2 DEF StartBackup, Keys, TypeOK, BackupsInv
    <2>2. QED BY <1>1, <1>2, <2>1 DEF StartBackup, Rested
  <1>3. CASE ReadSource
    BY <1>1, <1>3 DEF ReadSource, BackupStep
  <1>4. CASE PublishBackup
    <2>1. backup.archive \in Content /\ backup.key \in Keys
      BY <1>4 DEF PublishBackup, HasArchive
    <2>2. backup'.step \in {"head", "idle"} /\ backup'.step # "idle" => backup'.key = backup.key
      BY <1>4 DEF PublishBackup, Rested
    <2>3. /\ localArchive'[backup.key] = backup.archive
          /\ \A k \in Keys : k # backup.key => localArchive'[k] = localArchive[k]
          /\ bucketArchive' = bucketArchive /\ nextKey' = nextKey /\ backup.step = "publish"
      BY <1>4, <2>1 DEF PublishBackup
    <2>4. backup'.step \in {"head", "idle"}
      BY <1>4 DEF PublishBackup, Rested
    <2>5. QED BY <1>1, <2>1, <2>2, <2>3, <2>4
  <1>5. CASE HeadObjects
    BY <1>1, <1>5 DEF HeadObjects, BackupStep
  <1>6. CASE PutArchive
    BY <1>1, <1>6 DEF PutArchive
  <1>7. CASE PutManifest
    BY <1>1, <1>7 DEF PutManifest
  <1>8. CASE VerifyUpload
    BY <1>1, <1>8 DEF VerifyUpload, Rested
  <1>9. CASE StopBackup
    BY <1>1, <1>9, StoppedBackup
  <1>10. QED
    BY <1>2, <1>3, <1>4, <1>5, <1>6, <1>7, <1>8, <1>9 DEF BackupNext

LEMMA BackupSafe ==
  ASSUME BackupsInv, KeysInv, CopyInv, BackupNext
  PROVE  CopyInv'
  <1> USE FilesAre, BackupFiles
  <1>1. \A k \in Keys : SafeInBucket(k) => SafeInBucket(k)'
    BY DEF SafeInBucket, Readable
  <1>2. SUFFICES ASSUME ~torn
                 PROVE  /\ backup'.step \in Transfers => localArchive'[backup'.key] # None
                        /\ backup'.step # "idle" /\ restore'.step # "idle" =>
                               restore'.key # backup'.key
                        /\ restore'.step \in {"manifest", "check"} \cup Accepted
                               /\ Readable(restore'.archive) =>
                               SafeInBucket(restore.key)'
                        /\ (\E s \in Stacks : HalfDone(s)') => \E k \in Keys : SafeInBucket(k)'
    BY DEF CopyInv, SafeInBucket, HalfDone
  <1>3. backup'.step \in Transfers => localArchive'[backup'.key] # None
    BY <1>2, ContentIsNot DEF CopyInv, Transfers
  <1>4. backup'.step # "idle" /\ restore'.step # "idle" => restore'.key # backup'.key
    <2>1. CASE backup.step = "idle"
      <3>1. nextKey \in Keys /\ backup'.key = nextKey
        BY <2>1
      <3>2. Untouched(nextKey)
        BY <3>1 DEF KeysInv
      <3>3. QED BY <3>1, <3>2 DEF Untouched
    <2>2. CASE backup.step # "idle"
      BY <1>2, <2>2 DEF CopyInv
    <2>3. QED BY <2>1, <2>2
  <1>5. restore'.step \in {"manifest", "check"} \cup Accepted /\ Readable(restore'.archive) =>
            SafeInBucket(restore.key)'
    BY <1>1, <1>2 DEF CopyInv, Accepted
  <1>6. (\E s \in Stacks : HalfDone(s)') => \E k \in Keys : SafeInBucket(k)'
    BY <1>1, <1>2 DEF CopyInv, HalfDone
  <1>7. QED BY <1>3, <1>4, <1>5, <1>6

\* While a restore has a database dropped, its own archive is safe.
LEMMA RestoreSafe ==
  ASSUME BackupsInv, KeysInv, CopyInv, RestoreNext
  PROVE  CopyInv'
  <1> USE FilesAre
  <1>1. UNCHANGED <<bucketVars, backup, nextKey, verified>> /\ UNCHANGED torn
    BY RestoreSteps DEF RestoreNext, RestoreStep, StartRestore, Download, DownloadManifest,
        CheckDownload,
        PublishDownload, DropDatabase, CreateDatabase, BeginLoad, EndLoad, DatabaseStep,
        CompareCounts, StopRestore
  <1>2. \A k \in Keys : SafeInBucket(k) <=> SafeInBucket(k)'
    BY <1>1 DEF SafeInBucket, bucketVars
  <1>3. SUFFICES ASSUME ~torn
                 PROVE  /\ backup.step \in Transfers => localArchive'[backup.key] # None
                        /\ backup.step # "idle" /\ restore'.step # "idle" =>
                               restore'.key # backup.key
                        /\ restore'.step \in {"manifest", "check"} \cup Accepted
                               /\ Readable(restore'.archive) =>
                               restore'.key \in Keys /\ SafeInBucket(restore'.key)
                        /\ (\E s \in Stacks : HalfDone(s)') => \E k \in Keys : SafeInBucket(k)
    BY <1>1, <1>2 DEF CopyInv, SafeInBucket, bucketVars
  <1>4. backup.step \in Transfers => localArchive'[backup.key] # None
    <2>1. restore.step = "publish" => restore.archive # None
      BY DEF HasArchive
    <2>2. QED BY <1>3, <2>1, RestoreSteps DEF CopyInv, Transfers, localVars
  <1>5. backup.step # "idle" /\ restore'.step # "idle" => restore'.key # backup.key
    <2>1. SUFFICES ASSUME backup.step # "idle", restore.step = "idle", restore'.step = "download"
                   PROVE  restore'.key # backup.key
      BY <1>3, RestoreSteps DEF CopyInv
    <2>2. bucketArchive[restore'.key] # None /\ localArchive[restore'.key] = None
      BY <2>1, RestoreSteps
    <2>3. backup.step \in {"count", "dump", "publish"} \cup Transfers
      BY <1>3, <2>1 DEF CopyInv, Transfers
    <2>4. QED BY <1>3, <2>2, <2>3 DEF CopyInv, KeysInv, Untouched
  <1>6. restore'.step \in {"manifest", "check"} \cup Accepted /\ Readable(restore'.archive) =>
            restore'.key \in Keys /\ SafeInBucket(restore'.key)
    <2>1. CASE restore.step = "download" /\ restore'.step = "manifest"
      <3>1. /\ restore'.key = restore.key /\ restore.key \in Keys
            /\ restore'.archive \in {bucketArchive[restore.key], Bad}
        BY <2>1, RestoreSteps
      <3>2. Readable(restore'.archive) => Readable(bucketArchive[restore.key])
        BY <3>1 DEF Readable
      <3>3. Readable(bucketArchive[restore.key]) => restore.key < nextKey
        BY <3>1 DEF KeysInv, Untouched, Readable
      <3>4. backup.step # "idle" => backup.key # restore.key
        BY <1>3, <2>1 DEF CopyInv
      <3>5. QED BY <3>1, <3>2, <3>3, <3>4 DEF SafeInBucket
    <2>2. CASE /\ restore.step \in {"manifest", "check"} \cup Accepted
               /\ restore'.step \in {"check"} \cup Accepted
      <3>1. restore'.key = restore.key /\ restore'.archive = restore.archive
        BY <2>2, RestoreSteps DEF Accepted
      <3>2. QED BY <1>3, <2>2, <3>1 DEF CopyInv, Accepted
    <2>3. QED BY <2>1, <2>2, RestoreSteps DEF Accepted
  <1>7. (\E s \in Stacks : HalfDone(s)') => \E k \in Keys : SafeInBucket(k)
    <2>1. CASE UNCHANGED db
      BY <1>3, <2>1 DEF CopyInv, HalfDone
    <2>2. CASE restore.step \in {"drop", "create", "load", "rows"}
      <3>1. Readable(restore.archive) /\ restore.key \in Keys
        BY <2>2 DEF HasArchive, KeysInv, Accepted, Readable
      <3>2. SafeInBucket(restore.key)
        BY <1>3, <2>2, <3>1 DEF CopyInv, Accepted
      <3>3. QED BY <3>1, <3>2
    <2>3. QED
      BY <2>1, <2>2 DEF RestoreNext, RestoreStep, StartRestore, Download, DownloadManifest,
        CheckDownload,
          PublishDownload, DropDatabase, CreateDatabase, BeginLoad, EndLoad, DatabaseStep,
          CompareCounts, StopRestore
  <1>8. QED BY <1>4, <1>5, <1>6, <1>7

\* Releases never leave a database dropped or half loaded.
LEMMA ReleaseWhole ==
  ASSUME BackupsInv, ReleaseStep \/ Down \/ Ingest
  PROVE  /\ torn' = torn
         /\ \A s \in Stacks : HalfDone(s)' => HalfDone(s)
  <1>1. db \in [Stacks -> Database] /\ Stacks = {"dev", "deploy"}
    BY DEF BackupsInv, DeploymentInv, Stacks
  <1>2. torn' = torn
    BY DEF ReleaseStep, BuildOnly, StartDeploy, StartRollback, StartTeardown, CreateContainers,
        Migrate, StartApi, Recreate, Verify, Record, DownFails, RemoveImages, RemoveStateFile,
        Fail, Stop, Down, Ingest
  <1>3. \/ UNCHANGED db
        \/ CreateContainers \/ Migrate \/ Down \/ Ingest
    BY DEF ReleaseStep, BuildOnly, StartDeploy, StartRollback, StartTeardown,
        StartApi, Recreate, Verify, Record, DownFails, RemoveImages, RemoveStateFile, Fail, Stop
  <1>4. CASE UNCHANGED db
    BY <1>2, <1>4 DEF HalfDone
  <1>5. CASE CreateContainers
    BY <1>1, <1>2, <1>5 DEF HalfDone, CreateContainers, NewDatabase
  <1>6. CASE Migrate
    BY <1>1, <1>2, <1>6 DEF HalfDone, Migrate
  <1>7. CASE Down
    BY <1>1, <1>2, <1>7 DEF HalfDone, Down, NoDatabase
  <1>8. CASE Ingest
    BY <1>1, <1>2, <1>8 DEF HalfDone, Ingest
  <1>9. QED BY <1>3, <1>4, <1>5, <1>6, <1>7, <1>8

LEMMA CopiesContinue ==
  ASSUME BackupsInv, ReleaseHistory, KeysInv, CopyInv, [Next]_allVars
  PROVE  CopyInv'
  <1> USE FilesAre DEF bucketVars, localVars
  <1>1. CASE BackupNext
    BY <1>1, BackupSafe
  <1>2. CASE RestoreNext
    BY <1>2, RestoreSafe
  <1>3. CASE \/ ReleaseStep /\ UNCHANGED backupVars
             \/ TakeDown \/ Ingest \/ UNCHANGED allVars
    <2>1. UNCHANGED Files
      BY <1>3 DEF TakeDown, Ingest, backupVars, allVars, Files
    <2>2. torn' = torn /\ \A s \in Stacks : HalfDone(s)' => HalfDone(s)
      BY <1>3, ReleaseWhole DEF TakeDown, allVars, vars, HalfDone
    <2>3. \A k \in Keys : SafeInBucket(k) <=> SafeInBucket(k)'
      BY <2>1 DEF SafeInBucket, Files
    <2>4. restore' = restore /\ (restore.step # "idle" => restore.key \in Keys)
      BY <2>1 DEF Files
    <2>5. QED BY <2>1, <2>2, <2>3, <2>4 DEF CopyInv, Files, Accepted
  <1>4. CASE EmptyBucket
    BY <1>4 DEF EmptyBucket, RemoveLocalStack, CopyInv
  <1>5. CASE RemoveCopies
    BY <1>5 DEF RemoveCopies, CopyInv, ReleaseHistory, Transfers, Accepted, SafeInBucket
  <1>6. ASSUME NEW key \in Keys, ClearLocalCopy(key) PROVE CopyInv'
    <2>1. /\ backup.step = "idle" /\ restore.step = "idle"
          /\ UNCHANGED <<bucketVars, backup, restore, nextKey, db, torn>>
      BY <1>6 DEF ClearLocalCopy, vars
    <2>2. QED BY <2>1 DEF CopyInv, SafeInBucket, Transfers, Accepted, HalfDone
  <1>7. QED
    BY <1>1, <1>2, <1>3, <1>4, <1>5, <1>6 DEF Next

LEMMA HistoryAndCopies == Spec => [](BackupsInv /\ ReleaseHistory /\ KeysInv /\ OneContent /\ CopyInv)
  <1>1. BackupsInit => CopyInv
    BY CopiesBegin
  <1>2. BackupsInv /\ ReleaseHistory /\ KeysInv /\ CopyInv /\ [Next]_allVars => CopyInv'
    BY CopiesContinue
  <1>3. QED
    BY <1>1, <1>2, HistoryAndKeys, PTL DEF Spec

\* restore_db.sh:260-289: a database is only ever missing or half loaded
\* while a readable archive lies in the bucket, unless a teardown removes
\* the bucket itself.
THEOREM DropsAreCovered == Spec => []DropNeedsIntactCopy
  <1>1. CopyInv => DropNeedsIntactCopy
    BY DEF CopyInv, DropNeedsIntactCopy, SafeInBucket, Readable, HalfDone
  <1>2. QED
    BY <1>1, HistoryAndCopies, PTL

-----------------------------------------------------------------------------
(***************************************************************************)
(* The row counts.  The counts of a manifest were read before the dump,    *)
(* the counts of the comparison after the load: rows that arrive meanwhile *)
(* make the first too small and the second too large, so that both agree   *)
(* only if none arrived.                                                   *)
(***************************************************************************)
Covers(manifest) == Readable(manifest) => manifest.counts <= manifest.archive.rows

CountsInv ==
    /\ restore.step \in Accepted => Lists(restore.manifest, restore.archive)
    /\ restore.step = "compare" => restore.archive \in Content
    /\ restore.step # "idle" => restore.verdict = "none"
    /\ backup.step = "dump" /\ backup.key \notin replaced =>
           backup.counts <= db[backup.stack].rows
    /\ backup.step \in {"publish"} \cup Transfers /\ backup.key \notin replaced =>
           backup.counts <= backup.archive.rows
    /\ \A k \in Keys \ replaced : Covers(localManifest[k]) /\ Covers(bucketManifest[k])
    /\ restore.step # "idle" /\ restore.key \notin replaced =>
           /\ Covers(restore.manifest)
           /\ restore.step = "compare" => restore.archive.rows <= db[restore.stack].rows

LEMMA CountsBegin == BackupsInit => CountsInv
  BY DEF BackupsInit, CountsInv, Rested, Undone, Transfers, Accepted, Covers, Readable

\* Rows are lost under a script only where replaced notes it.
LEMMA LossIsNoted ==
  ASSUME BackupsInv, ReleaseHistory, [Next]_allVars
  PROVE  /\ replaced \subseteq replaced'
         /\ backup.step = "dump" /\ backup.key \notin replaced' =>
                db[backup.stack].rows <= db'[backup.stack].rows
         /\ restore.step = "compare" /\ restore.key \notin replaced' =>
                db[restore.stack].rows <= db'[restore.stack].rows
  <1>1. /\ db \in [Stacks -> Database] /\ db' \in [Stacks -> Database]
        /\ backup.stack \in Stacks /\ restore.stack \in Stacks
    BY ScriptsInv DEF BackupsInv, DeploymentInv, TypeOK
  <1>2. \A s \in Stacks : db[s].rows \in Nat /\ db'[s].rows \in Nat
    BY <1>1
  <1>3. SUFFICES \/ replaced' = ReplacedNow
                 \/ replaced' = replaced /\ \A s \in Stacks : db[s].rows <= db'[s].rows
    <2>1. CASE replaced' = ReplacedNow
      BY <1>1, <1>2, <2>1 DEF ReplacedNow, Loses
    <2>2. CASE replaced' = replaced /\ \A s \in Stacks : db[s].rows <= db'[s].rows
      BY <1>1, <2>2
    <2>3. QED BY <2>1, <2>2
  <1>4. CASE UNCHANGED <<db, replaced>>
    BY <1>2, <1>4
  <1>5. CASE TakeDown
    BY <1>5 DEF TakeDown
  <1>6. CASE Ingest
    <2>1. replaced' = replaced
      BY <1>6 DEF Ingest, backupVars
    <2>2. ASSUME NEW s \in Stacks PROVE db[s].rows <= db'[s].rows
      BY <1>1, <1>2, <1>6, <2>2 DEF Ingest
    <2>3. QED BY <2>1, <2>2
  <1>7. CASE CreateContainers /\ UNCHANGED backupVars
    <2>1. replaced' = replaced
      BY <1>7 DEF backupVars
    <2>2. \/ db' = db
          \/ volume = None /\ db' = [db EXCEPT !["deploy"] = NewDatabase]
      BY <1>7 DEF CreateContainers
    <2>3. ASSUME NEW s \in Stacks PROVE db[s].rows <= db'[s].rows
      BY <1>1, <1>2, <2>2, <2>3 DEF NewDatabase, ReleaseHistory, Stacks
    <2>4. QED BY <2>1, <2>3
  <1>8. CASE Migrate /\ UNCHANGED backupVars
    <2>1. replaced' = replaced /\ db' = [db EXCEPT !["deploy"].schema = Revision[api.tree]]
      BY <1>8 DEF backupVars, Migrate
    <2>2. ASSUME NEW s \in Stacks PROVE db[s].rows <= db'[s].rows
      BY <1>1, <1>2, <2>1, <2>2
    <2>3. QED BY <2>1, <2>2
  <1>9. CASE RestoreNext
    BY <1>4, <1>9 DEF RestoreNext, StartRestore, Download, DownloadManifest,
        CheckDownload, PublishDownload,
        DropDatabase, CreateDatabase, BeginLoad, EndLoad, DatabaseStep, CompareCounts, StopRestore
  <1>10. CASE BackupNext
    BY <1>4, <1>10 DEF BackupNext, StartBackup, ReadSource, BackupStep, PublishBackup, HeadObjects,
        PutArchive, PutManifest, VerifyUpload, StopBackup, vars
  <1>11. CASE EmptyBucket \/ RemoveCopies \/ (\E k \in Keys : ClearLocalCopy(k))
              \/ UNCHANGED allVars
    BY <1>4, <1>11 DEF EmptyBucket, RemoveLocalStack, RemoveCopies, ClearLocalCopy,
        allVars, vars, backupVars
  <1>12. CASE ReleaseStep /\ ~CreateContainers /\ ~Migrate /\ UNCHANGED backupVars
    BY <1>4, <1>12 DEF ReleaseStep, BuildOnly, StartDeploy, StartRollback, StartTeardown,
        StartApi, Recreate, Verify, Record, DownFails, RemoveImages, RemoveStateFile, Fail, Stop,
        backupVars
  <1>13. QED
    BY <1>5, <1>6, <1>7, <1>8, <1>9, <1>10, <1>11, <1>12 DEF Next

LEMMA BackupCounts ==
  ASSUME BackupsInv, ReleaseHistory, CountsInv, BackupNext
  PROVE  CountsInv'
  <1> USE FilesAre DEF Transfers, bucketVars, localVars
  <1>1. UNCHANGED <<db, restore, replaced>>
    BY BackupFiles DEF BackupNext, StartBackup, ReadSource, BackupStep, PublishBackup, HeadObjects,
        PutArchive, PutManifest, VerifyUpload, StopBackup
  <1>2. SUFFICES
           /\ backup'.step = "dump" /\ backup'.key \notin replaced =>
                  backup'.counts <= db[backup'.stack].rows
           /\ backup'.step \in {"publish"} \cup Transfers /\ backup'.key \notin replaced =>
                  backup'.counts <= backup'.archive.rows
           /\ \A k \in Keys \ replaced : Covers(localManifest'[k]) /\ Covers(bucketManifest'[k])
    BY <1>1 DEF CountsInv, Accepted, Lists, Covers, Readable
  <1>3. CASE StartBackup
    BY <1>3 DEF StartBackup, Rested, CountsInv
  <1>4. CASE ReadSource
    <2>1. db[backup.stack].rows \in Nat
      BY DEF DeploymentInv, TypeOK, BackupsInv
    <2>2. CASE BackupStep("count", [backup EXCEPT !.step = "dump",
                                        !.counts = db[backup.stack].rows])
      <3>1. /\ backup'.step = "dump" /\ backup'.counts = db[backup.stack].rows
            /\ backup'.stack = backup.stack /\ UNCHANGED <<localManifest, bucketManifest>>
        BY <2>2 DEF BackupStep
      <3>2. QED BY <2>1, <3>1 DEF CountsInv
    <2>3. CASE BackupStep("dump", [backup EXCEPT !.step = "publish",
                     !.archive = Dump(db[backup.stack].rows, db[backup.stack].schema)])
      <3>1. /\ backup.step = "dump" /\ backup'.step = "publish" /\ backup'.key = backup.key
            /\ backup'.counts = backup.counts /\ backup'.archive.rows = db[backup.stack].rows
            /\ UNCHANGED <<localManifest, bucketManifest>>
        BY <2>3 DEF BackupStep, Dump
      <3>2. QED BY <3>1 DEF CountsInv
    <2>4. QED BY <1>4, <2>2, <2>3 DEF ReadSource
  <1>5. CASE PublishBackup
    <2>1. /\ backup.step = "publish" /\ backup'.step \in {"head", "idle"}
          /\ bucketManifest' = bucketManifest
          /\ localManifest' = [localManifest EXCEPT ![backup.key] =
                                   Manifest(backup.counts, backup.archive)]
      BY <1>5 DEF PublishBackup, Rested
    <2>2. backup'.step = "head" => /\ backup'.key = backup.key /\ backup'.counts = backup.counts
                                   /\ backup'.archive = backup.archive
      BY <1>5 DEF PublishBackup, Rested
    <2>3. backup.key \notin replaced => Covers(Manifest(backup.counts, backup.archive))
      BY <2>1 DEF CountsInv, Covers, Manifest
    <2>4. QED BY <2>1, <2>2, <2>3 DEF CountsInv
  <1>6. CASE HeadObjects \/ PutArchive
    <2>1. /\ backup.step \in Transfers /\ backup'.step \in Transfers
          /\ backup'.key = backup.key /\ backup'.counts = backup.counts
          /\ backup'.archive = backup.archive
          /\ UNCHANGED <<localManifest, bucketManifest>>
      BY <1>6 DEF HeadObjects, PutArchive, BackupStep
    <2>2. QED BY <2>1 DEF CountsInv
  <1>7. CASE PutManifest
    <2>1. /\ backup.step \in Transfers /\ backup'.step = "verify"
          /\ backup'.key = backup.key /\ backup'.counts = backup.counts
          /\ backup'.archive = backup.archive /\ backup.key \in Keys
          /\ UNCHANGED localManifest
      BY <1>7 DEF PutManifest
    <2>2. \A k \in Keys : \/ bucketManifest'[k] = bucketManifest[k]
                          \/ bucketManifest'[k] \in {localManifest[k], Bad}
      BY <1>7 DEF PutManifest, Stored
    <2>3. QED BY <2>1, <2>2 DEF CountsInv, Covers, Readable
  <1>8. CASE VerifyUpload
    BY <1>8 DEF VerifyUpload, Rested, CountsInv
  <1>9. CASE StopBackup
    <2>1. backup'.step = "idle" /\ UNCHANGED localManifest
      BY <1>9, StoppedBackup
    <2>2. \A k \in Keys : bucketManifest'[k] \in {bucketManifest[k], None, Bad, localManifest[k]}
      BY <1>9, StoppedBackup DEF Left, Stored
    <2>3. QED BY <2>1, <2>2 DEF CountsInv, Covers, Readable
  <1>10. QED
    BY <1>3, <1>4, <1>5, <1>6, <1>7, <1>8, <1>9 DEF BackupNext

LEMMA RestoreCounts ==
  ASSUME BackupsInv, ReleaseHistory, KeysInv, CountsInv, RestoreNext
  PROVE  CountsInv'
  <1> USE FilesAre
  <1>1. /\ UNCHANGED <<bucketVars, backup>> /\ replaced \subseteq replaced'
        /\ backup.step = "dump" /\ backup.key \notin replaced' =>
                db[backup.stack].rows <= db'[backup.stack].rows
    BY RestoreSteps, LossIsNoted DEF Next
  <1>2. backup.step = "dump" /\ backup.key \notin replaced' =>
            backup.counts <= db'[backup.stack].rows
    <2>1. backup.counts \in Nat /\ db[backup.stack].rows \in Nat /\ db'[backup.stack].rows \in Nat
      BY ScriptsInv DEF Next, DeploymentInv, TypeOK, BackupsInv
    <2>2. QED BY <1>1, <2>1 DEF CountsInv
  <1>3. restore'.step \in Accepted => Lists(restore'.manifest, restore'.archive)
    BY RestoreSteps DEF CountsInv, Accepted, Lists, Readable, Acceptable
  <1>4. restore'.step = "compare" => restore'.archive \in Content
    BY RestoreSteps DEF HasArchive
  <1>5. \A k \in Keys \ replaced' : Covers(localManifest'[k])
    BY <1>1, RestoreSteps DEF CountsInv, localVars
  <1>6. restore'.step # "idle" /\ restore'.key \notin replaced' => Covers(restore'.manifest)
    BY <1>1, RestoreSteps DEF CountsInv, Covers, Readable
  <1>7. restore'.step = "compare" => restore'.archive.rows <= db'[restore'.stack].rows
    <2>1. SUFFICES ASSUME restore'.step = "compare"
                   PROVE  restore'.archive.rows <= db'[restore'.stack].rows
      OBVIOUS
    <2>2. EndLoad
      <3>1. restore.step = "rows"
        BY <2>1, RestoreSteps
      <3>2. ~StopRestore
        BY <2>1 DEF StopRestore, RestoreStep, Undone
      <3>3. QED
        BY <3>1, <3>2 DEF RestoreNext, RestoreStep, StartRestore, Download, DownloadManifest,
        CheckDownload,
            PublishDownload, DropDatabase, CreateDatabase, BeginLoad, DatabaseStep, CompareCounts
    <2>3. /\ restore.step = "rows" /\ restore' = [restore EXCEPT !.step = "compare"]
          /\ db' = [db EXCEPT ![restore.stack] =
                        [status |-> "whole", schema |-> db[restore.stack].schema,
                         rows |-> db[restore.stack].rows + restore.archive.rows]]
      BY <2>2 DEF EndLoad, DatabaseStep, RestoreStep
    <2>4. /\ restore'.archive = restore.archive /\ restore'.stack = restore.stack
          /\ db'[restore.stack].rows = db[restore.stack].rows + restore.archive.rows
      BY <2>3 DEF DeploymentInv, BackupsInv
    <2>5. restore.archive.rows \in Nat /\ db[restore.stack].rows \in Nat
      BY <2>3 DEF HasArchive, Content, DeploymentInv, BackupsInv
    <2>6. QED BY <2>4, <2>5
  <1>8. restore'.step # "idle" => restore'.verdict = "none"
    <2>1. ASSUME NEW k \in Keys, StartRestore(k) PROVE restore'.verdict = "none"
      BY <2>1 DEF StartRestore, RestoreStep, Undone
    <2>2. CASE Download \/ DownloadManifest \/ CheckDownload \/ PublishDownload
      BY <2>2 DEF Download, DownloadManifest, CheckDownload, PublishDownload, RestoreStep, CountsInv
    <2>3. CASE DropDatabase \/ CreateDatabase \/ BeginLoad \/ EndLoad
      BY <2>3 DEF DropDatabase, CreateDatabase, BeginLoad, EndLoad, DatabaseStep, RestoreStep,
          CountsInv
    <2>4. CASE CompareCounts
      BY <2>4 DEF CompareCounts, RestoreStep
    <2>5. CASE StopRestore
      BY <2>5 DEF StopRestore, RestoreStep, Undone
    <2>6. QED BY <2>1, <2>2, <2>3, <2>4, <2>5 DEF RestoreNext
  <1>9. QED
    BY <1>1, <1>2, <1>3, <1>4, <1>5, <1>6, <1>7, <1>8 DEF CountsInv, bucketVars

LEMMA CountsContinue ==
  ASSUME BackupsInv, ReleaseHistory, KeysInv, CountsInv, [Next]_allVars
  PROVE  CountsInv'
  <1> USE FilesAre DEF bucketVars, localVars
  <1>1. CASE BackupNext
    BY <1>1, BackupCounts
  <1>2. CASE RestoreNext
    BY <1>2, RestoreCounts
  <1>3. CASE ~BackupNext /\ ~RestoreNext
    <2>1. /\ \A k \in Keys : /\ localManifest'[k] \in {None, localManifest[k]}
                             /\ bucketManifest'[k] \in {None, bucketManifest[k]}
          /\ \/ backup' = backup
             \/ backup'.step = "gone"
          /\ \/ restore' = restore
             \/ /\ restore'.step = "gone" /\ restore.step # "idle" /\ restore'.key = restore.key
                /\ restore'.manifest = restore.manifest /\ restore'.verdict = restore.verdict
      BY <1>3 DEF Next, TakeDown, Ingest, EmptyBucket, RemoveCopies, ClearLocalCopy,
          backupVars, allVars
    <2>2. /\ replaced \subseteq replaced'
          /\ backup.step = "dump" /\ backup.key \notin replaced' =>
                db[backup.stack].rows <= db'[backup.stack].rows
          /\ restore.step = "compare" /\ restore.key \notin replaced' =>
                db[restore.stack].rows <= db'[restore.stack].rows
      BY LossIsNoted
    <2>3. /\ backup.counts \in Nat /\ db[backup.stack].rows \in Nat /\ db'[backup.stack].rows \in Nat
          /\ db[restore.stack].rows \in Nat /\ db'[restore.stack].rows \in Nat
          /\ restore.archive \in Content => restore.archive.rows \in Nat
      BY ScriptsInv DEF DeploymentInv, TypeOK, BackupsInv, Content
    <2>4. backup'.step = "dump" /\ backup'.key \notin replaced' =>
              backup'.counts <= db'[backup'.stack].rows
      BY <2>1, <2>2, <2>3 DEF CountsInv
    <2>5. restore'.step = "compare" /\ restore'.key \notin replaced' =>
              restore'.archive.rows <= db'[restore'.stack].rows
      BY <2>1, <2>2, <2>3 DEF CountsInv
    <2>6. \A k \in Keys \ replaced' : Covers(localManifest'[k]) /\ Covers(bucketManifest'[k])
      BY <2>1, <2>2 DEF CountsInv, Covers, Readable
    <2>7. QED
      BY <2>1, <2>2, <2>4, <2>5, <2>6 DEF CountsInv, Accepted, Transfers
  <1>4. QED BY <1>1, <1>2, <1>3

LEMMA HistoryAndCounts ==
  Spec => [](BackupsInv /\ ReleaseHistory /\ KeysInv /\ OneContent /\ CopyInv /\ CountsInv)
  <1>1. BackupsInit => CountsInv
    BY CountsBegin
  <1>2. BackupsInv /\ ReleaseHistory /\ KeysInv /\ CountsInv /\ [Next]_allVars => CountsInv'
    BY CountsContinue
  <1>3. QED
    BY <1>1, <1>2, HistoryAndCopies, PTL DEF Spec

\* restore_db.sh:291-321: matching counts mean that the database has the
\* rows of the dump and no others, unless it lost rows between the counts
\* and the dump or between the load and the comparison.
THEOREM MatchMeansTheDump == Spec => CompleteMeansTheDump
  <1>1. BackupsInv /\ KeysInv /\ CountsInv /\ [Next]_allVars =>
            [restore.step = "compare" /\ restore'.verdict = "complete"
                 /\ restore.key \notin replaced =>
                     db[restore.stack].rows = restore.archive.rows]_allVars
    <2>1. SUFFICES ASSUME BackupsInv, KeysInv, CountsInv, Next,
                          restore.step = "compare", restore'.verdict = "complete",
                          restore.key \notin replaced
                   PROVE  db[restore.stack].rows = restore.archive.rows
      OBVIOUS
    <2>2. CompareCounts
      <3>1. restore.verdict = "none"
        BY <2>1 DEF CountsInv
      <3>2. ~BackupNext
        BY <2>1, <3>1, BackupFiles
      <3>3. restore'.verdict # restore.verdict /\ restore'.verdict # "none"
        BY <2>1, <3>1
      <3>4. ~RemoveCopies /\ ~StopRestore
        <4>1. ASSUME RemoveCopies PROVE FALSE
          BY <2>1, <3>3, <4>1, FilesAre DEF RemoveCopies
        <4>2. ASSUME StopRestore PROVE FALSE
          BY <3>3, <4>2 DEF StopRestore, RestoreStep, Undone
        <4>3. QED BY <4>1, <4>2
      <3>5. RestoreNext
        BY <2>1, <3>2, <3>3, <3>4 DEF Next, TakeDown, EmptyBucket, ClearLocalCopy, Ingest,
            backupVars
      <3>6. QED
        BY <2>1, <3>4, <3>5 DEF RestoreNext, RestoreStep, StartRestore, Download, DownloadManifest,
        CheckDownload,
            PublishDownload, DropDatabase, CreateDatabase, BeginLoad, EndLoad, DatabaseStep
    <2>3. restore'.verdict = Verdict
      BY <2>2, FilesAre, <2>1 DEF CompareCounts, RestoreStep
    <2>4. restore.manifest # None /\ db[restore.stack].rows = restore.manifest.counts
      BY <2>1, <2>3 DEF Verdict
    <2>5. Readable(restore.manifest) /\ restore.manifest.archive = restore.archive
      BY <2>1, <2>4 DEF KeysInv, CountsInv, Accepted, Readable, Lists
    <2>6. /\ restore.manifest.counts <= restore.archive.rows
          /\ restore.archive.rows <= db[restore.stack].rows
      BY <2>1, <2>5 DEF CountsInv, Covers
    <2>7. restore.archive.rows \in Nat /\ db[restore.stack].rows \in Nat
      BY <2>1 DEF CountsInv, Content, DeploymentInv, BackupsInv, TypeOK
    <2>8. QED BY <2>4, <2>6, <2>7
  <1>2. QED
    BY <1>1, HistoryAndCounts, PTL DEF CompleteMeansTheDump, Spec
=============================================================================
