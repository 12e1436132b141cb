----------------------------- MODULE Deployment -----------------------------
(***************************************************************************)
(* The release scripts (scripts/deploy.sh, rollback.sh, teardown.sh) and   *)
(* the stack they act on (docker-compose.deploy.yml): images by tag, the   *)
(* file .deploy-state, the Postgres volume with the password it was        *)
(* initialised with, the schema revision Alembic has brought it to, and    *)
(* the container of the api, which stands for the worker and beat too.     *)
(*                                                                         *)
(* One release script runs at a time, a step per command that changes      *)
(* something; it may stop after any of them.  An image is the tree it was  *)
(* built from, and a tree is named by the tag deploy.sh derives from it:   *)
(* the commit, or the commit and a hash of the uncommitted content.        *)
(***************************************************************************)
EXTENDS Integers, FiniteSets

CONSTANTS
    Tags,        \* image tags
    Revision,    \* the head revision of each tree's alembic directory
    Working,     \* the trees whose api becomes ready
    Passwords,   \* what openssl rand can return
    None,
    MaxRows,     \* bound on the rows of a database
    Drills       \* bounds: how often each script is started, and any stopped

Events == {"build", "deploy", "rollback", "teardown", "backup", "restore", "stop"}

ASSUME DeploymentAssumption ==
    /\ IsFiniteSet(Tags)
    /\ Revision \in [Tags -> Nat \ {0}]
    /\ Working \subseteq Tags
    /\ IsFiniteSet(Passwords) /\ Cardinality(Passwords) > 3
    /\ None \notin Tags \cup Passwords
    /\ Drills \subseteq [Events -> Nat]
    /\ MaxRows \in Nat

Stacks == {"deploy", "dev"}
TagOrNone == Tags \cup {None}
PasswordOrNone == Passwords \cup {None}

VARIABLES
    images,     \* the tree each local image was built from
    stateFile,  \* .deploy-state; "there" while its values are None: emptied
    up,         \* whether the deployed stack's Postgres runs
    volume,     \* the password the postgres_data volume was initialised with
    db,         \* the database of each stack
    api,        \* the api container of the deployed stack
    release,    \* the release script that runs
    good,       \* history: the tag of the last complete state file
    torn,       \* history: a teardown has begun to remove files
    restored,   \* history: the database was replaced since the last migration
    left        \* the events that may still happen

vars == <<images, stateFile, up, volume, db, api, release, good, torn, restored,
          left>>

NoState == [there |-> FALSE, current |-> None, previous |-> None, password |-> None]
EmptiedState == [there |-> TRUE, current |-> None, previous |-> None, password |-> None]
NoDatabase == [status |-> "none", schema |-> 0, rows |-> 0]
NewDatabase == [status |-> "whole", schema |-> 0, rows |-> 0]
NoContainer == [tag |-> None, tree |-> None, password |-> None, started |-> FALSE, by |-> None]
Idle == [step |-> "idle", script |-> "none", tag |-> None, password |-> None,
         outgoing |-> None, keepData |-> FALSE, keepImages |-> FALSE]

\* A database that answers SELECT 1, and one that has tables besides.
Connectable(d) == d.status \in {"partial", "whole"}
HasTables(d) == Connectable(d) /\ d.schema > 0

(***************************************************************************)
(* The dev stack holds some postings and is written by nobody here.        *)
(***************************************************************************)
Init ==
    /\ images = [t \in Tags |-> None]
    /\ stateFile = NoState
    /\ up = FALSE
    /\ volume = None
    /\ db = [s \in Stacks |->
                 IF s = "dev" THEN [status |-> "whole", schema |-> 1, rows |-> MaxRows]
                              ELSE NoDatabase]
    /\ api = NoContainer
    /\ release = Idle
    /\ good = None
    /\ torn = FALSE
    /\ restored = FALSE
    /\ left \in Drills

Happens(event) == left[event] > 0 /\ left' = [left EXCEPT ![event] = @ - 1]

(***************************************************************************)
(* deploy.sh                                                               *)
(***************************************************************************)
\* Mutant of DeployPassword: always a new one.
NewPassword ==
    CHOOSE p \in Passwords : p \notin {volume, stateFile.password, api.password}

DeployPassword ==
    IF stateFile.password # None
    THEN stateFile.password
    ELSE CHOOSE p \in Passwords : p \notin {volume, stateFile.password, api.password}

\* docker build -t talentscope:TAG . unless there is an image of that name.
Built(t, tree) == IF images[t] = None THEN [images EXCEPT ![t] = tree] ELSE images

\* deploy.sh --build-only: the working tree, under its own tag or a given one.
BuildOnly(t, tree) ==
    /\ release = Idle /\ Happens("build")
    /\ images' = Built(t, tree)
    /\ UNCHANGED <<stateFile, up, volume, db, api, release, good, torn, restored>>

StartDeploy(t, tree) ==
    /\ release = Idle /\ Happens("deploy")
    /\ images' = Built(t, tree)
    /\ release' = [Idle EXCEPT !.step = "create", !.script = "deploy", !.tag = t,
                               !.password = DeployPassword,
                               !.outgoing = stateFile.current]
    /\ UNCHANGED <<stateFile, up, volume, db, api, good, torn, restored>>

(***************************************************************************)
(* docker compose up creates every container before it starts any: the old *)
(* api is gone, and Postgres initialises a volume that is new with the     *)
(* password it is given and ignores it otherwise.                          *)
(***************************************************************************)
CreateContainers ==
    /\ release.step = "create"
    /\ api' = [tag |-> release.tag, tree |-> images[release.tag],
               password |-> release.password, started |-> FALSE, by |-> "deploy"]
    /\ IF volume = None
       THEN volume' = release.password /\ db' = [db EXCEPT !["deploy"] = NewDatabase]
       ELSE UNCHANGED <<volume, db>>
    /\ up' = TRUE
    /\ release' = [release EXCEPT !.step = "migrate"]
    /\ UNCHANGED <<images, stateFile, good, torn, restored, left>>

\* alembic upgrade head can log in, has a database, and knows its revision.
Migrates ==
    /\ api.password = volume
    /\ Connectable(db["deploy"])
    /\ db["deploy"].schema <= Revision[api.tree]

\* The container of the service migrate.
Migrate ==
    /\ release.step = "migrate"
    /\ Migrates
    /\ db' = [db EXCEPT !["deploy"].schema = Revision[api.tree]]
    /\ restored' = FALSE
    /\ release' = [release EXCEPT !.step = "start"]
    /\ UNCHANGED <<images, stateFile, up, volume, api, good, torn, left>>

\* Mutant of Due: the api does not depend on the service migrate.
DueAnyway == release.step \in {"migrate", "start"} /\ ~api.started

\* The service migrate has completed successfully.
Due == release.step = "start"

\* The container of the api.
StartApi ==
    /\ Due
    /\ api' = [api EXCEPT !.started = TRUE]
    /\ release' = [release EXCEPT !.step = "verify"]
    /\ UNCHANGED <<images, stateFile, up, volume, db, good, torn, restored, left>>

(***************************************************************************)
(* rollback.sh.  None stands for no argument; what runs is read from the   *)
(* container, not from the state file.                                     *)
(***************************************************************************)
RunningTag == IF api.tag # None THEN api.tag ELSE stateFile.current

\* Mutant of RollbackTarget: what it was before the drill of 2026-09-07.
RecordedPrevious(arg) == IF arg # None THEN arg ELSE stateFile.previous

RollbackTarget(arg) ==
    IF arg # None THEN arg
    ELSE IF api.tag \notin {None, stateFile.current} THEN stateFile.current
    ELSE stateFile.previous

StartRollback(arg) ==
    LET target == RollbackTarget(arg) IN
    /\ release = Idle /\ Happens("rollback")
    /\ stateFile.there
    /\ target \notin {None, RunningTag}
    /\ images[target] # None
    /\ stateFile.password # None
    /\ release' = [Idle EXCEPT !.step = "recreate", !.script = "rollback", !.tag = target,
                               !.password = stateFile.password,
                               !.outgoing = RunningTag]
    /\ UNCHANGED <<images, stateFile, up, volume, db, api, good, torn, restored>>

\* up --no-deps --force-recreate: neither Postgres nor migrate is touched.
Recreate ==
    /\ release.step = "recreate"
    /\ api' = [tag |-> release.tag, tree |-> images[release.tag],
               password |-> release.password, started |-> TRUE, by |-> "rollback"]
    /\ release' = [release EXCEPT !.step = "verify"]
    /\ UNCHANGED <<images, stateFile, up, volume, db, good, torn, restored, left>>

(***************************************************************************)
(* Both scripts ask /ready (app/main.py) and record what they have seen.   *)
(* /ready runs SELECT 1: it does not look at the schema.                   *)
(***************************************************************************)
Ready ==
    /\ api.started /\ up
    /\ api.tree \in Working
    /\ api.password = volume
    /\ Connectable(db["deploy"])

Verify ==
    /\ release.step = "verify"
    /\ Ready
    /\ release' = [release EXCEPT !.step = "record"]
    /\ UNCHANGED <<images, stateFile, up, volume, db, api, good, torn, restored,
                   left>>

\* Mutant of Previous: the arguments of the script that writes, swapped.
SwappedArguments == release.password

\* deploy.sh leaves a previous tag out that is the new one; rollback.sh
\* writes the tag it rolled away from.
Previous ==
    IF release.script = "deploy" /\ release.outgoing = release.tag
    THEN None ELSE release.outgoing

Record ==
    /\ release.step = "record"
    /\ stateFile' = [there |-> TRUE, current |-> release.tag, previous |-> Previous,
                     password |-> release.password]
    /\ good' = release.tag
    /\ release' = Idle
    /\ UNCHANGED <<images, up, volume, db, api, torn, restored, left>>

(***************************************************************************)
(* teardown.sh: the stacks, LocalStack, the images, the state file, and    *)
(* the local copies, which are left to Backups.  A command that fails is   *)
(* reported and passed over.                                               *)
(***************************************************************************)
StartTeardown(keepData, keepImages) ==
    /\ release = Idle /\ Happens("teardown")
    /\ release' = [Idle EXCEPT !.step = "down", !.script = "teardown",
                               !.keepData = keepData, !.keepImages = keepImages]
    /\ UNCHANGED <<images, stateFile, up, volume, db, api, good, torn, restored>>

\* docker compose down of both stacks, with -v unless the data is kept.
Down ==
    /\ release.step = "down"
    /\ up' = FALSE
    /\ api' = NoContainer
    /\ IF release.keepData
       THEN UNCHANGED <<volume, db>>
       ELSE volume' = None /\ db' = [s \in Stacks |-> NoDatabase]
    /\ release' = [release EXCEPT !.step = "bucket"]
    /\ UNCHANGED <<images, stateFile, good, torn, restored, left>>

DownFails ==
    /\ release.step = "down"
    /\ Happens("stop")
    /\ release' = [release EXCEPT !.step = "bucket"]
    /\ UNCHANGED <<images, stateFile, up, volume, db, api, good, torn, restored>>

\* docker rm -f of LocalStack, which holds the bucket: Backups says what goes.
RemoveLocalStack ==
    /\ release.step = "bucket"
    /\ torn' = TRUE
    /\ release' = [release EXCEPT !.step = "images"]
    /\ UNCHANGED <<images, stateFile, up, volume, db, api, good, restored, left>>

\* docker rmi spares the image of a container.
RemoveImages ==
    /\ release.step = "images"
    /\ images' = [t \in Tags |->
                     IF release.keepImages \/ t = api.tag THEN images[t] ELSE None]
    /\ release' = [release EXCEPT !.step = "state"]
    /\ UNCHANGED <<stateFile, up, volume, db, api, good, torn, restored, left>>

\* .deploy-state goes in any case.
RemoveStateFile ==
    /\ release.step = "state"
    /\ stateFile' = NoState
    /\ good' = None
    /\ release' = IF release.keepData THEN Idle ELSE [release EXCEPT !.step = "copies"]
    /\ UNCHANGED <<images, up, volume, db, api, torn, restored, left>>

(***************************************************************************)
(* A script may stop before each of its steps: the command fails, a        *)
(* deadline passes, the host goes down.  The state file is truncated       *)
(* before it is written, by both scripts, and deploy.sh writes it line by  *)
(* line: the tags before the password.                                     *)
(***************************************************************************)
Unfinished ==
    {EmptiedState} \cup
        (IF release.script = "deploy"
         THEN {[EmptiedState EXCEPT !.current = release.tag, !.previous = previous] :
                   previous \in {None, Previous}}
         ELSE {})

Stop ==
    /\ release # Idle
    /\ Happens("stop")
    /\ release' = Idle
    /\ \/ UNCHANGED stateFile
       \/ release.step = "record" /\ stateFile' \in Unfinished
    /\ UNCHANGED <<images, up, volume, db, api, good, torn, restored>>

\* What cannot succeed, fails.
Fail ==
    /\ \/ release.step = "migrate" /\ ~Migrates
       \/ release.step = "verify" /\ ~Ready
    /\ release' = Idle
    /\ UNCHANGED <<images, stateFile, up, volume, db, api, good, torn, restored,
                   left>>

ReleaseStep ==
    \/ \E t, tree \in Tags : BuildOnly(t, tree) \/ StartDeploy(t, tree)
    \/ \E arg \in TagOrNone : StartRollback(arg)
    \/ \E keepData, keepImages \in BOOLEAN : StartTeardown(keepData, keepImages)
    \/ CreateContainers \/ Migrate \/ StartApi \/ Recreate \/ Verify \/ Record
    \/ DownFails \/ RemoveImages \/ RemoveStateFile \/ Fail \/ Stop

(***************************************************************************)
(* What the scripts promise.                                               *)
(***************************************************************************)
Database == [status : {"none", "dropped", "partial", "whole"}, schema : Nat, rows : Nat]
Container == [tag : TagOrNone, tree : TagOrNone, password : PasswordOrNone,
              started : BOOLEAN, by : {"deploy", "rollback", None}]
Release == [step : {"idle", "create", "migrate", "start", "recreate", "verify", "record", "down",
                    "bucket", "images", "state", "copies"},
            script : {"none", "deploy", "rollback", "teardown"}, tag : TagOrNone,
            password : PasswordOrNone, outgoing : TagOrNone, keepData : BOOLEAN,
            keepImages : BOOLEAN]

DeploymentTypeOK ==
    /\ images \in [Tags -> TagOrNone]
    /\ stateFile \in [there : BOOLEAN, current : TagOrNone, previous : TagOrNone,
                      password : PasswordOrNone]
    /\ up \in BOOLEAN
    /\ volume \in PasswordOrNone
    /\ db \in [Stacks -> Database]
    /\ api \in Container
    /\ release \in Release
    /\ good \in TagOrNone
    /\ torn \in BOOLEAN /\ restored \in BOOLEAN
    /\ left \in [Events -> Nat]

\* The password in the state file is the one the volume was initialised
\* with: rollback.sh, which reuses it so that a rollback does not become a
\* second outage, and every later deploy can reach the database with it.
RecordedPasswordOpensVolume ==
    stateFile.password # None /\ volume # None => stateFile.password = volume

\* An api that deploy.sh started has its own migrations applied, and none
\* that it does not know, whatever was built, rolled back or torn down in
\* between and wherever the script stopped between the two containers, until
\* a restore replaces the database underneath it.
DeployedCodeHasItsSchema ==
    api.started /\ api.by = "deploy" /\ ~restored =>
        db["deploy"].schema = Revision[api.tree]

\* rollback.sh without an argument, run while something else than the last
\* version seen ready is running, goes back to that version: not past it,
\* which the drill of 2026-09-07 found it did after a failed deploy.
RollbackReturnsToGood ==
    [][StartRollback(None) /\ api.tag \notin {None, good} => release'.tag = good]_vars

\* docker-compose.deploy.yml:28-31: a fresh password never meets a volume
\* that was created with an old one.
FreshPasswordMeetsFreshVolume ==
    release.step = "migrate" => release.password = volume
=============================================================================
