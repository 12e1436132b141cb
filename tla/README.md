# TLA+ verification of TalentScope

TalentScope collects job postings from company boards and an aggregator, keeps a daily
panel of them in PostgreSQL, embeds them for vector search and answers questions over
them. This directory holds a TLA+ model of the parts of it where order, overlap and
failure matter, the TLC configurations that check the model on small instances, and
TLAPS proofs of the results that hold for every instance. `PROJECT.json` lists, machine
readable, the components, the runs, the source lines behind each definition, the hazards
and the theorems.

Paths are relative to the repository. Modules are read in this order:

| module | models | checked by | proved in |
|---|---|---|---|
| `PostingPanel` | fetch tasks, ingestion transaction, check records, nightly rollup | `MCPostingPanel`, 3 configurations | `PostingPanel_proofs` |
| `EmbeddingPipeline` | dispatch after a fetch, `embed_posting`, the backfill and its claims, the embedding queue | `MCEmbeddingPipeline`, 3 configurations | `EmbeddingPipeline_proofs` |
| `BatchRotation` | the batch cursor and the dispatch tasks of one source | `MCBatchRotation`, 1 configuration | `BatchRotation_proofs` |
| `QABudget` | `POST /qa/ask`: rate limit, cache, daily budget, provider call, over Redis | `MCQABudget`, 1 configuration | `QABudget_proofs` |
| `SpendLimit` | what a counted allowance promises (abstract) | `QABudget_spend` | `QABudget_proofs` |
| `TaskLifecycle` | Celery's delivery around the body of a tracked task, and the signal handlers that log it | `TrackedTasks_faults` | `TrackedTasks_proofs` |
| `Clustering` | a body: one clustering run and its transaction (extends `TaskLifecycle`) | `TrackedTasks_faults` | `TrackedTasks_proofs` |
| `CompanyDirectory` | a body: get-or-create of companies (extends `TaskLifecycle`) | `TrackedTasks_faults` | `TrackedTasks_proofs` |
| `TrackedTasks` | both bodies on the worker processes of one host | `MCTrackedTasks`, 1 configuration | `TrackedTasks_proofs` |
| `Deployment` | `deploy.sh`, `rollback.sh`, `teardown.sh` and the deployed stack | `Backups_drills`, `Backups_password` | `Backups_proofs` |
| `Backups` | `backup_db.sh`, `restore_db.sh` and the bucket, beside `Deployment` (extends it) | `MCBackups`, 2 configurations | `Backups_proofs` |
| `Search` | `GET /postings` in its three modes as a client pages through it, rank fusion, the warm-up of the encoder | `MCSearch`, 1 configuration | `Search_proofs` |

To check: `tlc -config PostingPanel_overlaps.cfg MCPostingPanel.tla` (the name of a
configuration starts with that of its module); to prove: `tlapm PostingPanel_proofs.tla`.

## 1. Inventory

Everything runs as Celery tasks over one Redis (broker, results, claims, cursors, budgets;
a restart brings back its last snapshot, at best a minute old, or nothing where it has no
volume) and one PostgreSQL (READ COMMITTED). Tasks are acked
late and redelivered when their worker is lost: at least once, in any order. ORM sessions
have `autoflush=False`; an UPDATE names only the columns whose value changed since the row
was loaded.

| component | state | operations | talks to | hard behaviour |
|---|---|---|---|---|
| Fetch tasks (`app/tasks/greenhouse.py`, `lever.py`, `ashby.py`, `adzuna.py`), ingestion (`app/ingestion/ingest.py`, `panel.py`, `deduplicator.py`) | postings, versions, snapshots, check records | request, ingest each job, commit, record the check, dispatch embeddings | boards over HTTP, the rollup through the tables, the embedding queue | two fetches of one board, retries, two transactions per fetch, check-then-insert, midnight |
| Daily rollup (`app/tasks/panel.py`) | `disappeared_at`, `collection_runs` | select candidates, look up each check, mark, summarise, alert | the tables of the fetches | reads a moving database in several statements |
| Embedding pipeline (`app/tasks/embedding.py`) | `embedding`, claims in Redis | embed one posting, hourly backfill | queue, Redis, encoder | redelivery, stale results, claims that outlive or precede their work |
| Scheduler (`app/tasks/scheduler.py`, `celery_app.py`) | cursor in Redis | dispatch the next batch, create companies | Redis, queue | doubled and lost dispatches, fallbacks, coverage of the boards |
| Company directory (`scheduler.py`, `adzuna.py`, `app/ingestion/company_registry.py`) | companies, monitored_companies | get-or-create, sync with the YAML list | PostgreSQL | unique keys as the arbiter, slug collisions, lock order |
| Task lifecycle log (`app/tasks/monitoring.py`) | task_executions, failed_tasks, heartbeats | signal handlers | every task | retried and redelivered tasks, lost signals, processes lost between commit and acknowledgement |
| Question answering (`app/search/rag.py`, `budget.py`, `app/api/qa.py`) | rate counters, daily budget, cache | ask | Redis, LLM | fail open against fail closed, cache stampede, TTL boundaries |
| Encoder and readiness (`app/search/encoder.py`, `app/main.py`) | singleton model | load, probe | API, workers | lazy initialisation races, a warm-up that fails |
| Hybrid search and postings API (`app/search/hybrid.py`, `app/api/postings.py`) | none | candidates, rank fusion, a page | PostgreSQL, encoder | ties and page boundaries, rows that arrive between two pages or two statements |
| Clustering (`app/ml/clustering.py`, `app/tasks/clustering.py`) | clusters, `cluster_id` | recluster | PostgreSQL | concurrent runs that do not see each other's rows |
| Deployment (`scripts/deploy.sh`, `rollback.sh`, `teardown.sh`) | state file, images, containers, the volume and its password | deploy, roll back, tear down | Docker | failure between steps; a file that trails what runs |
| Backup (`scripts/backup_db.sh`, `restore_db.sh`) | dump files and manifests, here and in the bucket | back up, restore | PostgreSQL, S3, the stack of the day | a database that is written meanwhile, uploads that fail half way, a restore that fails after the drop |

What makes each correct, in one line: the *panel* tells a closed requisition from a failed
look, keeps a gapless history and counts each absence once; the *pipeline* gives every
posting the vector of its current content, and never an older one; the *rotation* reaches
every board and takes no batch out of turn; the *directory* never attaches two companies
to one row nor one company to two; the *budget* is never exceeded and fails to the safe
side; the *lifecycle log* tells a task that failed for good from one that was retried; a
*deployment* can always be rolled back to what ran before and reaches its own database; a
*backup* that is reported is there, and a *restore* never drops what it cannot put back;
a *search* shows on its pages, in some order, all it found, and no request waits for a model.

What is not modelled is listed in the last section.

## 2. Plan

1. `PostingPanel`, `EmbeddingPipeline`, `BatchRotation`, and `QABudget` with its abstract
   specification `SpendLimit`: done, with their proofs.
2. `Deployment` and `Backups`; `TaskLifecycle` with two task bodies, `Clustering` and
   `CompanyDirectory`, composed in `TrackedTasks`: done.
3. `Search`, with the encoder its requests need: done.
4. Proofs of the type invariants, the safety invariants and the action properties of all
   passing runs, and of `SpendLimit` by refinement: done.
5. Left: an abstract specification of the panel (what a reader may conclude from
   `disappeared_at`) that `PostingPanel` implements without overlaps, and one of a backup
   store that `Backups` implements; boards that leave the YAML list and return.

## 3. PostingPanel

One step is one SELECT or one commit. `row`, `snapshots`, `versions`, `checks` and `runs`
are the tables `postings`, `posting_snapshots`, `posting_description_versions`,
`collection_run_companies` and `collection_runs`; `pc`, `board`, `resp`, `todo`, `staged`
and `missed` are a fetch task's program counter, arguments, response, ORM session and the
posting it has looked up in vain; `rpc`, `rday`, `mday`, `cands` and `marks` are the
rollup's. `everOk`, `listed`, `marked` and `raced` are history: they only record. `raced`
has the postings whose last UPDATE was computed from a row that another fetch had changed
meanwhile.

| code | actions |
|---|---|
| request of a fetch task | `HttpOk`, `HttpFail` |
| `ingest_posting`, the lookup by key | `StageUpdate`, `FindNone` |
| `find_fuzzy_duplicate`, the next statement | `SkipDuplicate`, `StageInsert`; it sees the titles of that moment, and of its own session what has been flushed (`Views`) |
| `apply_panel_fields_on_update`, a new hash | `ReadVersionSeq` |
| `db.commit()` at the end of ingestion | `Commit` (row, versions, snapshots; enabled when no uniqueness constraint is violated) |
| exceptions, time limits, lost workers | `Abort`; the retry or redelivery starts over from the request |
| `record_company_check` | `RecordSuccess`, `RecordFailure` (a transaction and a clock of its own) |
| `run_daily_rollup` | `RollupStart` (the day), `RollupSelect` (the candidates, and the clock once more for the mark), `RollupCheck` per candidate, `RollupMark`, `RollupSummarise`, `RollupAbort` |

The boards are the environment: two requests may see any two sets of requisitions with any
contents (`Responses`). Title, company, location and description are one content; two
contents may have the same normalised hash, and a fuzzy key of their own. `Overlap` says
which activities may run into each other: two fetches of one *company's* board, a fetch and
the rollup, midnight and either. The beat schedule keeps these apart in a normal day (a
board is in one batch, fetches start on the hour and half hour, the rollup at 07:00), and
nothing in the code does when a queue is backed up, a retry waits or beat fires twice.

Adzuna is different: `dispatch_adzuna_batch` queues thirty fetches at once
(`app/tasks/scheduler.py:144-148`), pages of ten queries whose results overlap, for a
worker with two processes (`docker-compose.deploy.yml:155`). Two fetches that store the
same Adzuna posting side by side are a normal day, so `MayFetch` never keeps the fetches
of an aggregator apart, whatever `Overlap` is.

*What holds under every overlap* (`PostingPanel_overlaps`): `VersionChain` (versions are
numbered 1..n and the last one is the live hash; the unique key on `(posting_id,
version_seq)` is what saves it), `NoPhantomEpisode` (two fetches that both find a marked
posting back count its absence once), `GoneOnlyAfterCheck` (a mark always rests on a success
of the posting's own board recorded that day, or the day before if midnight passes between
the two clock readings of the rollup, although later outcomes overwrite the record),
`SuccessIsDurable` (a success is recorded only for a response that is fully in the tables).

*What holds in a normal day* (`PostingPanel_schedule`, `Overlap = {}`, the fetches of the
aggregator overlapping): `GoneMeansUnseen`, `HashDescribesRow`, `FailedRunMarksNothing`.
The theorems say which distance each of them needs, and that the others do not matter to it:

| property | holds unless `Overlap` has |
|---|---|
| `HashDescribesRow` | (holds under every overlap) |
| `FailedRunMarksNothing` | `fetch_rollup` |
| `GoneMeansUnseen` | `fetch_rollup` or `midnight` |

`HashDescribesRow` relates `description_hash` to the description in the same row.
Two fetches with different contents write disjoint columns of one row, and then the hash is
that of one and the description that of the other; the property exempts the row while it is
in `raced` and says that the first fetch that nobody overtakes has repaired it, since it
compares with the hash and not with the text. Overlapping fetches of one board never make the
rollup mark a posting that was seen.

*What fails* is the reason for that division:

- `PostingPanel_stale_candidates` (`fetch_rollup` allowed): the rollup selects its
  candidates, a fetch commits snapshots and records its success, the rollup finds the
  success and marks a posting that was in that very response.
- Seen with the same modules, and not kept as runs. With `midnight` in `Overlap` of
  `PostingPanel_schedule.cfg`, a fetch that ingests before and records after midnight leaves
  a success without snapshots on the new day, and `GoneMeansUnseen` fails. With the
  configuration as it is, add `VersionsAreChanges` to its INVARIANTS: of two Adzuna fetches
  that bring the same edit, the second repeats the version of the first, although
  `app/models.py:139` says "written only when description_hash changes". Two sources can also both
  insert a posting that either would have skipped: the duplicate check is a SELECT without a
  constraint behind it.
- Without any overlap `find_fuzzy_duplicate` does not look at the source, so of two
  requisitions of one board with the same title and location the second is not stored,
  while `app/ingestion/ingest.py:18` documents `skipped` as "True only for a cross-source
  fuzzy duplicate". To see it, add `PROPERTY SkipsAreCrossSource` to
  `PostingPanel_schedule.cfg` with `BoardOf <- OneBoard`.

Bounds: two postings, two fetch tasks, four requests. A mark and its removal take one fetch
before, one rollup and one fetch after, so four requests reach two absences in a row and a
pair of overlapping fetches on either side of a rollup. Two days are enough for every
property that compares days, three in the schedule run. The postings are twins (`SameKey`)
so that skipping occurs. Symmetry: fetchers, and contents where each has its own
hash; no run with symmetry checks liveness. The model stops at its
bounds, so deadlock is not checked.

## 4. EmbeddingPipeline

`content` and `embedding` are the two columns, a vector being represented by the content it
was computed from; `queue` counts copies of each message; `job` is what each worker slot
does; `claims` are the keys `embed:pending:<id>`; `owed` is what a fetch has committed and
not dispatched. `IngestCommit`, `IngestDispatch` and `IngestLost` are the end of a fetch;
`Load`, `Publish`, `Finish` and the failures `Raise`, `Crash`, `HardTimeLimit`,
`FinishWithoutRedis` are `embed_posting`; `BackfillSelect` to `BackfillDone` are
`embed_missing_postings`, with a SET or DEL that raises, applied or not
(`BackfillUnanswered`, `BackfillRefused`); `ExpireClaim` is the TTL and `RedisRestored` a
Redis that restarts from a snapshot. One backfill runs at a time: a second one, which the
hourly firing only meets when the first takes longer than an hour, is left out.

Eight kinds of fault may occur, `MaxFaults` in all, and `suffered` remembers which. Two sets
of kinds carry the guarantees: after a fault of `Lossy` (a fetch that fails between commit
and delay, a killed or given-up task, a restored Redis) nobody may remember that a posting
is to be embedded; a fault of `Leaking` (a lost process, a killed task, Redis away or restored) may
leave a claim nobody clears before its TTL.

- `EmbeddingPipeline_faults`: two postings, two slots, any two faults. `NoStalePublish`
  (the predicate of the UPDATE keeps a slow task from overwriting a newer vector),
  `StaleIsInFlight` (until a `Lossy` fault, an outdated posting is owed, queued or being
  embedded with its current content), `ClaimsAreWork` (until a `Leaking` fault, a claim
  stands for work).
- `EmbeddingPipeline_live`: one posting, two slots, any one fault. `NeverStuck` (every
  ingested posting gets a vector) and `IndexTracksUnlessLost` (the right one, unless the
  fault was `Lossy`).
- `EmbeddingPipeline_lost_change`: `IndexTracksContent` fails. After a fetch that dies
  between `db.commit()` and `embed_posting.delay`, its retry finds the content unchanged
  and dispatches nothing, and the backfill looks for NULL vectors only: an *edited* posting
  keeps its old vector for ever. Inserted ones are saved by the backfill.

Fairness, and why the code gives it: a started task goes on (`Publish \/ Finish`); queued
messages are served in order, so each is eventually loaded by some slot that keeps becoming
free (strong fairness of `Load` per message); beat fires the backfill every hour and its
loop is finite (`Backfill`); Redis deletes keys whose TTL has passed (`ExpireClaim`); a
fetch that is not lost dispatches (`IngestDispatch`). No fault is fair. Faults are bounded,
so a posting whose encoding fails for ever is outside the model; such ids would also
keep their place among the `batch_size` lowest of the backfill.

Bounds: two tasks of one posting and a backfill are the least that overlap; two edits give
a task an older and a newer content; `Batch = 1` with two postings makes the backfill leave
one out; one retry reaches both branches of `MaxRetries`.

## 5. BatchRotation

One source's list, the cursor in Redis modulo the number of batches (all the code reads of
it), the dispatch tasks and the fetches they send, in periods of four hours. `Fire` is beat
(once, or twice for a doubled message) and passes the rollup and midnight on the way;
`TakeBatch` is INCR and the slice, `TakeFirstBatch` the fallback without an answer from Redis
(an INCR that was applied has advanced the cursor all the same), `SendFetch` a turn of the loop, `Refused` an exception in it (the dispatch tasks have no retry), `Crash`
a lost worker whose message is redelivered, at any point before its acknowledgement. A period is long enough for what it starts:
overlap between fetches is the subject of `PostingPanel`.

- `BatchRotation_turns`: 9 boards in batches of 2, which is 5 batches, as the largest list
  of `config/target_companies.yml` has (46 greenhouse boards in batches of 10) including a
  short last one; 6 firings a day, 2 of them before the 07:00 rollup; any one fault; two
  dispatch tasks at once, which is what a doubled firing needs. `NoBatchTwice`, and under fairness `EveryBoardCovered`: every
  board is again and again checked since midnight when a rollup runs, although a single
  rollup only finds two of the five batches checked. It depends on the numbers: six firings
  a day and a number of batches divisible by 3 (21–30 boards, 51–60, ...) always put the
  same batches before the rollup, and the others never have a disappearance detected. Set
  `NBoards = 6` to see it fail. The comment at `app/tasks/celery_app.py:101`, "after all
  source cadences have run", holds for sources of at most 20 boards.
- `NoUnknownAgeTaken` fails without any fault (add it to the INVARIANTS of the same
  configuration). The window of 8 hours assumes that a new board is fetched within a cadence
  or two (`app/ingestion/panel.py:27`); the third batch is first fetched after it, and the
  postings it already had are recorded with a known age, which
  `app/ingestion/company_registry.py:104` says the flag is there to prevent.

Fairness: beat fires, idle workers take what is queued, a fetch ends one way or another.

A dispatch lost after INCR is redelivered into the *next* batch; the rest of its own batch
waits a whole round. `EveryBoardCovered` shows that this delays and does not exclude.

## 6. QABudget and SpendLimit

A request is a thread with a program counter; a step is one call to Redis or the provider.

| code | actions |
|---|---|
| `_get_redis` | `Connect`, `ConnectFails` (no limit, cache or counter for this request: sources only) |
| `check_rate_limit` | `CountRate`, `CountRateLate` (the window passed between clock and INCR), `SkipRate` (an error fails open) |
| cache lookup | `ServeCached`, `MissCache` (also an unreadable entry) |
| `llm_gate`, `consume_budget` | `Claim` (INCR, then compare), `ClaimFails` (an error, counted or not, fails closed) |
| provider call, cache write | `Call`, `Answer`, `ProviderFails` |
| `budget_remaining`, gauge | `ReadRemaining`, `ReadFails`, `Reply`; `Restart` seeds the gauge |

`hits` and `used` are the counters in Redis, `cached` the answers. Time is a number of rate
windows and a number of UTC days; a day may have any number of windows, so that midnight
may come at any of them. `granted`, `calledOn`, `admitted`, `ceiling`, `closed`, `excused`
and `drifted` are history. Retrieval, prompt and citations do not matter to spending and
are left out, and so are a limit set to 0, `qa_llm_enabled = False` and
`qa_require_budget_counter = False`; the last is the mutant of `RemainingIsSafe`.

`SpendLimit` says what a payer may rely on: at most `Limit` grants of a key, none once
somebody was told that nothing is left, and one more allowance for each loss of the
counters. `QABudget_spend` checks that the request path implements it for the days
(`SpendIsLimited`), with

- `RemainingIsSafe`: the header never promises a call that would exceed the budget;
- `RefusedOnlyWhenSpent`: a day is refused only when exactly the budget was allowed;
- `CallsPerDay`: `app/config.py:116` promises a ceiling "on provider calls per UTC day". A
  claim just before midnight is called after it, so a UTC day may see the budget and
  one call more per thread (never more than another budget); the ceiling is exact per
  *key*, which is what `SpendIsLimited` says;
- `BurstBounded`: the rate limit holds in every window whose checks were counted. A request
  that counts late, in the key of a window that has passed (`CountRateLate`), is let through
  and is not one of them: the code has no other way to count it.

A call here is one call of the provider's client; retries inside that library are not
seen by the code and not counted by it.

Seen with the same module, and not kept as a run (add `ZeroMeansSpent` to the INVARIANTS of
`QABudget_spend.cfg`): the gauge is set by replies and by the start of the process only, so
after midnight the alert `QaBudgetExhausted` goes on until the next question.

Bounds: budget and rate limit 1, two threads, three requests, two midnights, one loss. Two
threads are what a race for the last unit needs, one request more follows it; the first
midnight separates claim and call, the second lets a counter expire. Time passes a window
only when no request is still about to count in the one before the last, and a day
likewise: Redis calls have a 2 s socket timeout. Without that assumption a request stalled
for a day would count in an expired key. No step is assumed fair and no liveness checked:
every request ends because every step of it returns. The cache only saves units; that two
requests for one uncached question both pay is reachable and within the budget.

## 7. TrackedTasks: TaskLifecycle, Clustering, CompanyDirectory

`TaskLifecycle` is what Celery and `app/tasks/monitoring.py` do around the body of a task:
`queue` is a bag of messages (a task id and its retries), `worker` what each process does,
`execution` and `deadLetter` the tables `task_executions` and `failed_tasks`.

| code | actions |
|---|---|
| delivery, `task_acks_late`, `task_reject_on_worker_lost`, `task_time_limit` | `Receive`, `Acknowledge`, `Crash` (the message goes back), `HardTimeLimit` (it does not: the parent acknowledges it and sends `task_failure` itself, so `_on_task_failure` runs there) |
| `autoretry_for`, `max_retries` | `Raises`: published again, or given up |
| `_on_task_prerun`, `_on_task_postrun`, `_on_task_retry` | `Prerun`, `Postrun`, `Retry`: each a transaction of its own, which may fail and is then only logged |
| `_on_task_failure` | `DeadLetter`, then `Failure`: two transactions |
| `run_clustering` | `ReadEmbeddings`, `NothingToCluster` (any result that is an error), `BeginDelete` and `Delete` (the snapshot of a DELETE and the wait for its row locks), `InsertAndUpdate`, `Commit`; `ClusteringFails` |
| `_get_or_create_company` of `adzuna.py` and `scheduler.py` | `InsertCompany`, `FindCompany`, `TrySuffix`; `CommitOne` (the dispatchers commit per company), `CommitFetch` (Adzuna per page) |
| lock waits on `companies.slug` | `Waits`, and `DeadlockAbort` by Postgres, which the task answers with a retry |

Clusters, labels and k-means are left out: the rows of a run come and go together, so a run
is its `run_at` in `clusters`, and `label` says which run gave a posting its `cluster_id`.
A company row is its slug and name; `Suffixed` stands for the slug with the digest, of which
only matters that it is the name's own.
`Update` is a SELECT and the UPDATE of a row in one step: two handlers of one task only meet
where a retry handler is overtaken, and that task is exempt (`untold`).
`done`, `untold`, `overlapped` and `resolved` are history.

`TrackedTasks_faults`: two processes (`WORKER_CONCURRENCY` defaults to 2), two tasks of one
retry each, submitted together: two clusterings; two fetches that want a shared company and
two names with one slug, in opposite orders; a fetch and a dispatcher. Any two faults among
errors, lost processes, hard time limits, failed log writes and a retry handler that is held
up past the next attempt. Two transactions are what a lock wait and a deadlock need; two
faults exhaust the retry of one task or hit both.

- `LogTellsTheEnd`: once nothing of a task is under way, its body has returned or it is a
  dead letter, and its execution row says which came last, also for a task killed at the
  hard limit. The exceptions are the code's own: a handler that could not write; one that was
  overtaken (the retry's backoff has full jitter, so it may be 0, and the row is left at RETRY
  or finished with a later state); a parent lost while it wrote of a killed task. A task
  killed before it had a row has a dead letter only, and a dead letter stays when a
  redelivered attempt succeeds.
- `LatestRunOwnsLabels`: the postings carry cluster ids of the latest committed run, whatever
  failed or was delivered twice, *unless two runs overlapped*. Then each DELETE misses the
  other's uncommitted rows, the table holds both runs, and the labels may be of the older
  one, although `app/ml/clustering.py:193` calls a run "Idempotent: each call replaces the
  previous clustering run". Drop `~overlapped` to see it.
- `LabelsHaveARun`: even then no committed state has labelled postings and no rows of a run.
  It says so of what is committed, not of an answer: `GET /analytics/clusters` reads
  `max(run_at)` and the rows of that run in two statements (`app/api/analytics.py:129` and
  `135-139`), and a run that commits between them makes that one answer empty.
- `CompanyIsItsOwn`: committed work refers to a row of its own company's name, and one name
  with one readable slug to one row, through collisions, lock waits and rollbacks.
- `EveryTaskEnds`: under weak fairness of each process (a process that has something to do
  does it: Celery's loop, and Postgres' deadlock detector, which runs after
  `deadlock_timeout`), every task ends, deadlocks included. No fault is fair, and
  `MaxFaults` bounds them. Runs end when all tasks have, so deadlock is not checked;
  a run that stopped earlier would violate this property.

## 8. Deployment and Backups

`images` is what each tag was built from, `stateFile` is `.deploy-state`, `volume` the
password the Postgres volume was initialised with (it ignores later ones), `db` the database
of the deployed and of the dev stack (status, Alembic revision, rows), `api` the container
that stands for api, worker and beat, `release` the release script that runs. A tree is
named by the tag `deploy.sh` derives from it; `deploy.sh <tag>` may build another tree under
a tag that has no image (lines 39-40, 57-59), and the model does. `Revision` and `Working`
say of each tree which schema it migrates to and whether its api becomes ready.

| code | actions |
|---|---|
| `deploy.sh` | `BuildOnly`; `StartDeploy` (image, password, outgoing tag), `CreateContainers`, `Migrate` and `StartApi` (two containers, the second due when the first has succeeded), `Verify` (`/ready`), `Record` |
| `rollback.sh` | `StartRollback` (target, guards), `Recreate`, `Verify`, `Record` |
| `teardown.sh` | `StartTeardown`, `Down` or `DownFails`, `RemoveLocalStack`, `RemoveImages`, `RemoveStateFile`; `Backups` adds what becomes of the bucket (`TakeDown`, `EmptyBucket`) and the local copies (`RemoveCopies`) |
| `_compose.sh` | `StackMeant` and `HasValues`, both read once when a script starts; `Reachable` |
| `backup_db.sh` | `StartBackup`, `ReadSource` (counts, then dump), `PublishBackup`, `HeadObjects`, `PutArchive`, `PutManifest`, `VerifyUpload`; `StopBackup` with its traps |
| `restore_db.sh` | `StartRestore`, `Download`, `DownloadManifest`, `CheckDownload`, `PublishDownload`, `DropDatabase`, `CreateDatabase`, `BeginLoad`, `EndLoad`, `CompareCounts`; `StopRestore` |
| a script that stops | `Fail` and the `Blocked` operators for what cannot succeed; `Stop`, `StopBackup`, `StopRestore` before any step, out of a bounded number of stops |

One release script, one backup and one restore run at a time, and nothing keeps the three
apart. An archive is its content, or `Bad` when a transfer, up or down, delivered something else;
a manifest names its archive, as byte count and checksum do, and may itself arrive `Bad`. The worker ingests whenever it can
(`Ingest`). The operator may move a local copy away (`ClearLocalCopy`): on the host that took
the backup `restore_db.sh` refuses while it is there (lines 119-122;
`docs/incidents/2026-09-07-data-loss-restore.md:55` met it), and so it does on a second attempt.

`Backups_drills` bounds how often each script is started, in seven mixtures (`Mixtures`): three
deploys and two rollbacks with a build; deploys, a rollback and two teardowns; two backups
and a restore, and the reverse, beside a deploy; a backup and a restore beside a teardown,
beside a teardown and another deploy, and beside a rollback. Each allows one stop, except
that with another deploy, which needs none to lose rows under a restore. Three trees (one migrates ahead, one is broken),
two backups, two rows. Three releases are what going back past a good version takes; two
backups are what a wrong clean-up or a later key needs; one row more than none tells an
emptied database from a restored one, two a partial count from both.

- `RecordedPasswordOpensVolume`: whatever is torn down, stopped or rolled back, a password in
  the state file opens the volume there is.
- `DeployedCodeHasItsSchema`: the api of a deploy has its own migrations and none it does not
  know, although rollbacks leave the schema ahead and a script may stop between the two
  containers; until a restore replaces the database.
- `RollbackReturnsToGood`: with anything else running than the version last seen ready, a
  rollback without argument goes there. (With the good version running it goes to
  `PREVIOUS_TAG`: a second rollback returns to the version rolled away from. With no api
  container at all it also does, `rollback.sh:52-59`.)
- `DropNeedsIntactCopy`: while a dropped database is not back there is a readable archive,
  here or in the bucket, until a teardown begins to remove them.
- `VerifiedBackupIsThere`: nothing another run leaves behind or cleans up is a backup that
  was reported as verified.
- `CompleteMeansTheDump`: a restore that says its counts match has put back what the dump
  held. The counts come before the dump and the comparison after the worker can write
  again, so an ingesting worker can make a good restore say MISMATCH, never a bad one say
  complete; unless rows are lost between counts and dump, or between load and comparison,
  because another script dropped or removed the database meanwhile (`replaced`), which no
  lock prevents. The second of the two only occurs with a teardown and another deploy under
  a restore: the attempt to prove the property for any number of scripts showed it.
`Backups_password`: `FreshPasswordMeetsFreshVolume` fails. `deploy.sh` generates a password,
Postgres initialises its volume with it, and the state file is written only once `/ready` has
answered. After a first deploy that fails, or `teardown.sh --keep-data`, which keeps the
volume and removes the file, the next deploy generates another password and cannot log in;
the old one is only in the environment of the containers, if those are left.

Seen in the code and not stated as a property: `/ready` is `SELECT 1`, so that a rollback to
an image older than the schema counts as ready (the script says so); the state file is
truncated and then written line by line, and a stop in between leaves one without a
password (`Unfinished`), which the database scripts refuse to work with; which stack they mean
is only a question of that file, so that after a first deploy that failed, or a teardown
whose `down` did, they take the dev stack while containers of the deployment run; a killed backup
leaves an archive without manifest, which `restore_db.sh --latest` then picks and refuses; a
teardown whose `down` failed still removes the state file and, with `--keep-data`, the bucket
in LocalStack. No step is assumed fair and no liveness is stated: every script is started by
a person and may be interrupted. Deadlock is not checked: the drills end.

## 9. Search

A client walks through the pages of one query, one request a page, as the dashboard does
while the last `total` promises more. A step is one statement: requests read what is
committed by then, and fetches and embedding tasks write between them. Of a posting the
query sees a date (`posted`), a degree of the text's match (`text`) and the nearness of its
vector (`near`); 0 is NULL or no match, and also what the skill and location filters take
out. `ORDER BY` may return rows it finds equal in any order: `Rankings` are all numberings
that agree with it, and only the id as the last column leaves one. `model`, `lock` and `ready`
are the encoder's; `step` is where each thread is; `walk` has a client's mode, page and last
total, and as history the postings it has not been shown (`unseen`) and whether its list
was left in order (`calm`).

| code | actions |
|---|---|
| `get_model` | `GetModel` (the check without the lock), `LockModel` (the one with it), `BuildModel` |
| `warm_model` on its thread | the same, then `MarkReady`; `WarmUpFails`; `Restart` of the process |
| `require_model_ready`, `search_postings` | `StartRequest`; a 503 leaves the client where it was |
| `_fts_results` | `CountRows`, `ReadRows` |
| `fts_search`, `vector_search`, `reciprocal_rank_fusion`, the page | `TextCandidates`, `Encode`, `NearCandidates` with `Fused` and `Page` |
| the tasks beside it | `Insert`, `Edit`, `Embed` |

`Fused` is reciprocal rank fusion in exact fractions. `FusionAssumption` compares it, for all
pairs of lists of the instance, with what fusion should do: nobody is lost, the result
numbers its postings without gaps, and one that is before another in both lists stays so.

`Search_pages`: three postings, one client, a page of one, two candidates per source
(`TOP_K`), two pages, one edit, one failed warm-up or restart. A page boundary that falls
between equal keys takes two rows and a page of one; the third posting is the one inserted
or cut off by `TOP_K`. Clients do not affect each other, so one is enough. The model stops
at its bounds, so deadlock is not checked.

- `NothingSkipped`: a posting that was there when the walk began has been shown or is still
  to come, although others are inserted and embedded between requests and between the two
  statements of one. That is what the second column of each `ORDER BY` and the direction of
  `id DESC` are for. It is *not* promised once a row of the list has changed, since a posting
  whose date or vector changes may move to a page that was already read; nor in hybrid mode
  once anything has changed, since a new candidate can push one out of a list of `TOP_K`
  and lower its fused score; nor, in vector mode, beyond the nearest `TOP_K`.
- `OnlyWarmUpLoads`: a request never constructs the model nor waits for the thread that does
  (`app/search/encoder.py:16`), through failures of the warm-up, after which the process
  answers 503 until it is restarted.

`total` may be stale by the time the rows are read (two statements), which is why a client's
last page may be empty or one more may appear; the index of pgvector is taken to be exact.

## 10. Proofs

All theorems hold for arbitrary constants within the named assumptions
(`DirectoryAssumption`, `BoundAssumption`, `NoneAssumption`, `PipelineAssumption`,
`RotationAssumption`, `BudgetAssumption`, `DeploymentAssumption`, `BackupsAssumption`,
`TaskLifecycleAssumption`, `ClusteringAssumption`, `CompanyDirectoryAssumption`,
`TrackedTasksAssumption`, `SearchAssumption`): any numbers of postings, boards, tasks,
workers, days, faults, edits, tags, script runs and stops, any finite set of threads, any
positive limits, and any `Overlap` that the theorem does not exclude. TLC evaluates the
assumptions on every run. Every invariant that a proof adds was first checked by TLC, under
the overlaps its theorem allows.

- `PostingPanel_proofs`. `TypeCorrect` needs `RowsStay`: what is staged as an update or
  about to be marked has a row, otherwise a commit would build an ill-formed one.
  `VersionsChained` strengthens `VersionChain` by `SeqsNeverAhead`: the number a fetch has
  looked up is at most one past the last version, which stays true while others commit,
  so either the unique key rejects the commit or the chain grows by exactly its next
  number (lemmas `ChainGrows`, `ChainCommit`). `GoneAfterCheck` and `EpisodesCounted`
  share `GoneInv`: a recorded success stays in the history, the marks a rollup has chosen
  rest on one, and no row a fetch has loaded accounts for more marks than were made.
  `SuccessesAreDurable`, under any overlap, rests on `NothingLeftOut`: before the commit, a
  posting of the response is still to do, staged, or has a twin that has a row or is staged.
  `TypeCorrect` also needs `MissedInIngest` (only a fetch in its ingestion is between the two
  lookups), and `GoneInv` needs `RollupLocal`: before it has selected its candidates a rollup
  holds none, and the day of its mark is that of the run or the next.
  `HashesDescribe` holds under every overlap by cases of the commit (`HashStep`): who is not
  overtaken writes the hash if and only if it differs from the one that is there, and who is
  leaves the row in `raced`.
  `FailedRunsMarkNothing` excludes `fetch_rollup`: the checks that justified a mark are
  there until the run is summarised (`MarksChecked`), even across midnight. `GoneIsUnseen`
  excludes `fetch_rollup` and `midnight` and allows two fetches of one board; its `CalmInv`
  says that what a success lists has a snapshot of that day, or no row and never one
  (`ListedIsKept`), and that whoever still carries a posting staged it today, so that
  its commit adds the snapshot and clears the mark (`StagedToday`, `PassedSeen`).
- `EmbeddingPipeline_proofs`. `StaleNeverPublished` follows from the guard of `Publish`
  and typing. `StaleRemembered` and `ClaimsBacked` are inductive with `TypeOK`; each action
  that takes a message, a job or a claim away is shown to leave another witness, and each
  fault of `Lossy` or `Leaking` to end the obligation (`SufferedGrows`).
- `BatchRotation_proofs`. `SlicesPartition`: for any list and batch size the slices cover
  the boards and do not meet. `TakenOnceARound` rests on `RoundIsPrefix`, which says that
  the batches given in the round are those below the cursor.
- `QABudget_proofs`. `BudgetInv` strengthens `RemainingIsSafe` by what carries it over a
  claim: claims are for keys that have not expired (`ClaimsAreRecent`), the counter of a
  closed day is at least the budget, and where no reply or counter was lost, what was
  allowed and what is left add up to the budget. `SpendLimited` maps each step to one of
  `SpendLimit` or a stutter (lemma `BudgetSteps` singles out the steps that matter); a
  claim that is allowed is a `Grant` because the counter was below the budget, hence the
  day not closed and its grants below the ceiling. `CallsAreBounded` counts threads: the
  calls made on a day and those about to be made under its key are at most its grants and
  the threads midnight caught (`CallsInv`); it needs the finite set of threads.
- `Backups_proofs`, about `Deployment` composed with `Backups`. `PasswordKept` rests on
  `PasswordInHand`: a script that is to create containers works with the recorded password
  if there is one, its containers then have that password, and one that has seen `/ready`
  has the password of the volume, so that `Record` writes no other. `SchemaMatches` rests on
  `HasImage` (what containers are created from has an image, which has a revision), on
  `MigratedForApi` (between the two containers the schema is that of the api to come) and on
  `DatabaseInv`: apart from a deploy, only a restore changes a schema, and it leaves
  `restored`. `TypeCorrect` adds `HasArchive`: a restore creates tables from an archive
  only, a backup uploads one. `PasswordIsDrawn` is where four passwords are needed.
  `RollbackTargetIsGood` rests on `ReleaseHistory`: the state file, while it has its
  password, names the tag last seen ready; one that was cut short has none (`UnfinishedIs`). `VerifiedStays` rests on
  `KeysInv`: a key is new to everybody when a backup takes it, and only that backup uploads
  or cleans up under it; `OneContent` adds that all copies of a key are one content, or cut.
  `DropsAreCovered` rests on `CopyInv`: what a restore accepted is readable in the bucket
  under a key no backup works on, until a teardown. `MatchMeansTheDump` rests on
  `CountsInv`: counts read before a dump are at most its rows, and rows read after a load
  at least as many, so that they agree only if nothing arrived in between.
- `TrackedTasks_proofs`, about the lifecycle composed with both bodies. `LogIsComplete`: a
  message, or a worker short of its last handler, stands for a task until the log has been
  told its end (`UnderWay`, `Told`), a retry being in the queue before its handler runs.
  `LatestLabelsOnly` and `LabelledAfterARun` share `ClusteringInv`: unless two runs
  overlapped, at most one set of rows is committed, it is what the run under way has seen,
  and every labelled posting is among those it read. `CompaniesAreTheirOwn` rests on
  `RowsAreNew` (a slug is inserted by one transaction at most, and over no committed row)
  and `Placed` (a company has the suffixed slug only where the readable one is another's).
- `Search_proofs`. `RankingIsPlaces`: the order with the id is total, so a statement has
  exactly one ranking, a row's place in it being one more than the rows before it; this is
  where a missing tie-break would show. `PlacesOnlyGrow`: what arrives brings no row
  forward, so a posting awaited on a later page stays there (`WalkInv`, `PagesSkipNothing`).
  `NoRequestLoads` rests on `EncoderInv`: the event is set by a thread that has the model,
  and only a new process, which has no requests, clears either. `TypeCorrect` is proved of
  `Search` and left out of its run.

Every safety invariant and action property that a passing run checks is the statement of a
theorem. Only model-checked are the liveness properties (`NeverStuck`,
`IndexTracksUnlessLost`, `EveryBoardCovered`, `EveryTaskEnds`), which TLAPS does not reach;
and `FusionAssumption`, which TLC evaluates for the lists of its instance: that the fused
ranks have no gaps is a counting argument over all lists that no theorem needs. The properties
of the runs that find a violation are false and have counterexamples instead.

Each property of a passing run has a mutant, an operator next to the one it replaces that
makes a plausible mistake (a dropped predicate, a value that is not cleared, a lost constraint); TLC
finds the property violated under it.

## 11. Not modelled

- The statistics of the HTTP API (`app/api/analytics.py` except its clusters): each request
  is one query that changes nothing; what it reports is the SQL, not an order of steps.
- Text: parsing and normalising postings (`app/ingestion/normalizer.py`), skill extraction,
  the text an embedding is made of. They are pure functions of strings whose effect on the
  system is the content hash, and that is a value here.
- Numbers: k-means, the choice of k, cluster labels and silhouettes; the values of `ts_rank`
  and of distances. Clustering is modelled as the rows it replaces and the members it
  assigns, a search as the order those numbers put postings in.
- The warm-up of a Celery worker (`worker_process_init`), and an encoder whose warm-up is
  switched off. The readiness probe is `Ready` of `Deployment`.
- Parts of modelled files: `sync_monitored_companies` for boards that leave the list or come
  back, a second backfill beside the first, clustering asked for with `sync=true`, worker heartbeats
  and the durations in the lifecycle log.
- Configuration, metrics and tracing (`app/config.py`, `app/observability.py`): read once, or
  written and never read by the program.
- Infrastructure beside the compose stack: Terraform, the kind cluster and `k8s/`, secrets,
  the Grafana password (handled as the Postgres one is), the dashboard. They are declarations
  or user interface; the deployment modules cover the scripts that change state.
- Benchmarks, engineering reports and demo data: single-process tools run by hand,
  no part of the running system.
