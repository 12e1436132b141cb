------------------------- MODULE EmbeddingPipeline -------------------------
(***************************************************************************)
(* How the embedding of a posting follows its content: the dispatch at the *)
(* end of a fetch (app/tasks/greenhouse.py and its twins), the tasks       *)
(* embed_posting and embed_missing_postings (app/tasks/embedding.py), the  *)
(* embedding queue under acks_late and reject_on_worker_lost               *)
(* (app/tasks/celery_app.py), and the Redis keys that claim a posting for  *)
(* the backfill.                                                           *)
(*                                                                         *)
(* Postings are row ids, so that ORDER BY id is the order on integers.  A  *)
(* vector is represented by the content it was computed from.  An          *)
(* ingester is a fetch task reduced to one posting: what it does to the    *)
(* posting's row is the subject of PostingPanel.                           *)
(***************************************************************************)
EXTENDS Integers, FiniteSets

CONSTANTS
    Postings,     \* row ids
    Contents,     \* contents (title and description) a posting may have
    Ingesters,    \* fetch tasks that may be in flight at once
    Workers,      \* slots of the embedding queue's workers
    Batch,        \* batch_size of the backfill
    MaxRetries,   \* max_retries of embed_posting
    Faults,       \* which faults may occur, see below
    MaxFaults,    \* bound on their number
    MaxEdits,     \* bound on the number of ingested contents
    None

(***************************************************************************)
(* "dispatch"  a fetch dies, or the broker refuses, after the ingestion    *)
(*             commit and before embed_posting.delay                       *)
(* "broker"    embed_posting.delay raises in the backfill                  *)
(* "crash"     a worker process is lost and its message redelivered        *)
(* "timeout"   the hard time limit kills a task; its message is acked      *)
(* "encode"    the encoder or the database raises inside embed_posting     *)
(* "redis"     get_redis returns None, or a SET or DEL of a claim fails,   *)
(*             the SET after it was applied or before                      *)
(* "restore"   Redis, broker and claims, comes back from a snapshot, or    *)
(*             empty                                                       *)
(* "slow"      a claim outlives its hour while its task still waits        *)
(***************************************************************************)
AllFaults == {"dispatch", "broker", "crash", "timeout", "encode", "redis", "restore", "slow"}

\* The faults after which nobody may remember that a posting is to be embedded, and
\* those that may leave a claim nobody is going to clear.
Lossy == {"dispatch", "timeout", "encode", "restore"}
Leaking == {"crash", "timeout", "redis", "restore"}

Origins == {"ingest", "backfill"}
Message == [posting : Postings, attempt : 0 .. MaxRetries, origin : Origins]
Job == [msg : Message, loaded : Contents, phase : {"encode", "clear"}]

ASSUME PipelineAssumption ==
    /\ Postings \subseteq Nat
    /\ Batch \in Nat \ {0}
    /\ MaxRetries \in Nat
    /\ MaxFaults \in Nat
    /\ MaxEdits \in Nat
    /\ Faults \subseteq AllFaults
    /\ None \notin Contents
    /\ None \notin Job
    /\ None \notin Postings

VARIABLES
    content,    \* content of each posting's row, None before it is ingested
    embedding,  \* the content its vector was computed from, None for NULL
    owed,       \* the posting each ingester has committed and not dispatched
    queue,      \* number of copies of each message in the embedding queue
    job,        \* what each worker slot is doing
    claims,     \* the ids whose pending key exists in Redis
    bpc, ids, cur, useClaims,   \* the backfill task
    edits,      \* number of contents ingested so far
    faults,     \* number of faults so far
    suffered    \* which faults have occurred

backfillVars == <<bpc, ids, cur, useClaims>>
faultVars == <<faults, suffered>>
vars == <<content, embedding, owed, queue, job, claims, backfillVars, edits, faultVars>>

TypeOK ==
    /\ content \in [Postings -> Contents \cup {None}]
    /\ embedding \in [Postings -> Contents \cup {None}]
    /\ owed \in [Ingesters -> Postings \cup {None}]
    /\ queue \in [Message -> Nat]
    /\ job \in [Workers -> Job \cup {None}]
    /\ claims \subseteq Postings
    /\ bpc \in {"idle", "loop", "claimed"}
    /\ ids \subseteq Postings
    /\ cur \in Postings \cup {None}
    /\ bpc = "claimed" => cur \in Postings
    /\ useClaims \in BOOLEAN
    /\ edits \in Nat
    /\ faults \in Nat
    /\ suffered \subseteq Faults

Init ==
    /\ content = [p \in Postings |-> None]
    /\ embedding = [p \in Postings |-> None]
    /\ owed = [i \in Ingesters |-> None]
    /\ queue = [m \in Message |-> 0]
    /\ job = [w \in Workers |-> None]
    /\ claims = {}
    /\ bpc = "idle"
    /\ ids = {}
    /\ cur = None
    /\ useClaims = TRUE
    /\ edits = 0
    /\ faults = 0
    /\ suffered = {}

Fault(kind) ==
    /\ kind \in Faults
    /\ faults < MaxFaults
    /\ faults' = faults + 1
    /\ suffered' = suffered \cup {kind}

Send(p, attempt, origin) ==
    queue' = [queue EXCEPT ![[posting |-> p, attempt |-> attempt, origin |-> origin]] = @ + 1]

\* Some message for p is queued, or some slot is working on one.
InFlight(p, origins) ==
    \/ \E m \in Message : m.posting = p /\ m.origin \in origins /\ queue[m] > 0
    \/ \E w \in Workers : job[w] # None /\ job[w].msg.posting = p /\ job[w].msg.origin \in origins

-----------------------------------------------------------------------------
(* The end of a fetch: commit, then delay. *)

\* A new posting, or one whose title or description changed, is committed.
IngestCommit(i, p, c) ==
    /\ edits < MaxEdits
    /\ owed[i] = None
    /\ c # content[p]
    /\ content' = [content EXCEPT ![p] = c]
    /\ owed' = [owed EXCEPT ![i] = p]
    /\ edits' = edits + 1
    /\ UNCHANGED <<embedding, queue, job, claims, backfillVars, faultVars>>

IngestDispatch(i) ==
    /\ owed[i] # None
    /\ Send(owed[i], 0, "ingest")
    /\ owed' = [owed EXCEPT ![i] = None]
    /\ UNCHANGED <<content, embedding, job, claims, backfillVars, edits, faultVars>>

\* The retried or redelivered fetch finds the content it has already committed:
\* neither is_new nor content_changed, so it dispatches nothing.
IngestLost(i) ==
    /\ owed[i] # None
    /\ Fault("dispatch")
    /\ owed' = [owed EXCEPT ![i] = None]
    /\ UNCHANGED <<content, embedding, queue, job, claims, backfillVars, edits>>

-----------------------------------------------------------------------------
(* embed_posting. *)

\* The task starts and loads the row.  The message is acked only at the end.
Load(w, m) ==
    /\ job[w] = None
    /\ queue[m] > 0
    /\ content[m.posting] # None
    /\ queue' = [queue EXCEPT ![m] = @ - 1]
    /\ job' = [job EXCEPT ![w] = [msg |-> m, loaded |-> content[m.posting], phase |-> "encode"]]
    /\ UNCHANGED <<content, embedding, owed, claims, backfillVars, edits, faultVars>>

\* Mutant of StillCurrent: an unconditional UPDATE.
AlwaysCurrent(p, loaded) == p \in Postings

\* The predicate of the UPDATE that publishes the vector.
StillCurrent(p, loaded) == content[p] = loaded

Publish(w) ==
    /\ job[w] # None
    /\ job[w].phase = "encode"
    /\ LET p == job[w].msg.posting IN
       embedding' = IF StillCurrent(p, job[w].loaded)
                    THEN [embedding EXCEPT ![p] = job[w].loaded]
                    ELSE embedding
    /\ job' = [job EXCEPT ![w].phase = "clear"]
    /\ UNCHANGED <<content, owed, queue, claims, backfillVars, edits, faultVars>>

\* Mutant of ClearPending: the finally clause is gone.
KeepPending(p) == claims' = claims \cup ({p} \cap claims)

\* The finally clause deletes the claim of the posting, whoever made it.
ClearPending(p) == claims' = claims \ {p}

Finish(w) ==
    /\ job[w] # None
    /\ job[w].phase = "clear"
    /\ ClearPending(job[w].msg.posting)
    /\ job' = [job EXCEPT ![w] = None]
    /\ UNCHANGED <<content, embedding, owed, queue, backfillVars, edits, faultVars>>

\* Redis is gone when the claim is to be deleted: it stays until it expires.
FinishWithoutRedis(w) ==
    /\ job[w] # None
    /\ job[w].phase = "clear"
    /\ Fault("redis")
    /\ job' = [job EXCEPT ![w] = None]
    /\ UNCHANGED <<content, embedding, owed, queue, claims, backfillVars, edits>>

\* An exception: rollback, the finally clause, then a retry while there is one left.
Raise(w) ==
    /\ job[w] # None
    /\ job[w].phase = "encode"
    /\ Fault("encode")
    /\ LET m == job[w].msg IN
       /\ ClearPending(m.posting)
       /\ IF m.attempt < MaxRetries THEN Send(m.posting, m.attempt + 1, m.origin)
                                    ELSE UNCHANGED queue
    /\ job' = [job EXCEPT ![w] = None]
    /\ UNCHANGED <<content, embedding, owed, backfillVars, edits>>

\* Mutant of Requeue: acks_late without reject_on_worker_lost drops the message.
DropMessage(m) == m \in Message /\ UNCHANGED queue

\* The worker process is lost: reject_on_worker_lost puts the message back.
Requeue(m) == Send(m.posting, m.attempt, m.origin)

Crash(w) ==
    /\ job[w] # None
    /\ Fault("crash")
    /\ Requeue(job[w].msg)
    /\ job' = [job EXCEPT ![w] = None]
    /\ UNCHANGED <<content, embedding, owed, claims, backfillVars, edits>>

\* The hard time limit: the task is killed before its finally clause and acked.
HardTimeLimit(w) ==
    /\ job[w] # None
    /\ Fault("timeout")
    /\ job' = [job EXCEPT ![w] = None]
    /\ UNCHANGED <<content, embedding, owed, queue, claims, backfillVars, edits>>

-----------------------------------------------------------------------------
(* embed_missing_postings, and the expiry of its claims. *)

\* The ids the query returns: the Batch lowest with a NULL embedding.
Missing ==
    LET null == {p \in Postings : content[p] # None /\ embedding[p] = None}
    IN {p \in null : Cardinality({q \in null : q < p}) < Batch}

BackfillSelect ==
    /\ bpc = "idle"
    /\ ids' = Missing
    /\ bpc' = "loop"
    /\ \/ useClaims' = TRUE /\ UNCHANGED faultVars
       \/ useClaims' = FALSE /\ Fault("redis")
    /\ UNCHANGED <<content, embedding, owed, queue, job, claims, cur, edits>>

\* p is the next id of the loop.
Turn(p) ==
    /\ bpc = "loop"
    /\ p \in ids
    /\ \A q \in ids : p <= q

\* Mutant of BackfillLeave: a refused delay is swallowed and the task stays in its loop.
BackfillSwallow ==
    /\ ids' = {}
    /\ cur' = None
    /\ UNCHANGED bpc
    /\ useClaims' = TRUE

BackfillLeave ==
    /\ ids' = {}
    /\ cur' = None
    /\ bpc' = "idle"
    /\ useClaims' = TRUE

\* SET NX succeeds, or there is no Redis to ask.
BackfillClaim(p) ==
    /\ Turn(p)
    /\ useClaims => p \notin claims
    /\ claims' = IF useClaims THEN claims \cup {p} ELSE claims
    /\ cur' = p
    /\ bpc' = "claimed"
    /\ UNCHANGED <<content, embedding, owed, queue, job, ids, useClaims, edits, faultVars>>

\* SET raises, applied or not: the task fails, and its retry may find its own claim.
BackfillUnanswered(p) ==
    /\ Turn(p)
    /\ useClaims
    /\ Fault("redis")
    /\ claims' \in {claims, claims \cup {p}}
    /\ BackfillLeave
    /\ UNCHANGED <<content, embedding, owed, queue, job, edits>>

BackfillSkip(p) ==
    /\ Turn(p)
    /\ useClaims /\ p \in claims
    /\ ids' = ids \ {p}
    /\ UNCHANGED <<content, embedding, owed, queue, job, claims, bpc, cur, useClaims, edits,
                   faultVars>>

BackfillDispatch ==
    /\ bpc = "claimed"
    /\ Send(cur, 0, "backfill")
    /\ ids' = ids \ {cur}
    /\ cur' = None
    /\ bpc' = "loop"
    /\ UNCHANGED <<content, embedding, owed, job, claims, useClaims, edits, faultVars>>

\* Mutant of ReleasePending: a failed delay leaves the claim behind.
ForgetPending == UNCHANGED claims

ReleasePending == claims' = IF useClaims THEN claims \ {cur} ELSE claims

\* delay raises: release the claim, if Redis still answers, then fail (Celery retries the
\* whole task).
BackfillRefused ==
    /\ bpc = "claimed"
    /\ \/ Fault("broker") /\ ReleasePending
       \/ Fault("redis") /\ UNCHANGED claims
    /\ BackfillLeave
    /\ UNCHANGED <<content, embedding, owed, queue, job, edits>>

BackfillCrash ==
    /\ bpc # "idle"
    /\ Fault("crash")
    /\ BackfillLeave
    /\ UNCHANGED <<content, embedding, owed, queue, job, claims, edits>>

BackfillDone ==
    /\ bpc = "loop"
    /\ ids = {}
    /\ BackfillLeave
    /\ UNCHANGED <<content, embedding, owed, queue, job, claims, edits, faultVars>>

\* Mutant of Expire: claims are set without ex=PENDING_TTL.
NeverExpires(p) == FALSE /\ claims' = claims \ {p} /\ UNCHANGED faultVars

\* The hour of a claim is over.  The task it stands for is presumed lost; it is a
\* fault of the schedule when it is not.
Expire(p) ==
    /\ p \in claims
    /\ ~(bpc = "claimed" /\ cur = p)
    /\ claims' = claims \ {p}
    /\ IF InFlight(p, {"backfill"}) THEN Fault("slow") ELSE UNCHANGED faultVars

ExpireClaim(p) ==
    /\ Expire(p)
    /\ UNCHANGED <<content, embedding, owed, queue, job, backfillVars, edits>>

\* Messages sent since the snapshot are missing, the claims are those of then; the tasks
\* that are running go on.  (A message acked since is back, as after Crash.)
RedisRestored ==
    /\ Fault("restore")
    /\ \E lost \in SUBSET {m \in Message : queue[m] > 0} :
        queue' = [m \in Message |-> IF m \in lost THEN 0 ELSE queue[m]]
    /\ claims' \in SUBSET {p \in Postings : content[p] # None}
    /\ UNCHANGED <<content, embedding, owed, job, backfillVars, edits>>

-----------------------------------------------------------------------------
Ingest(i) ==
    \/ \E p \in Postings, c \in Contents : IngestCommit(i, p, c)
    \/ IngestDispatch(i)
    \/ IngestLost(i)

Embed(w) ==
    \/ \E m \in Message : Load(w, m)
    \/ Publish(w)
    \/ Finish(w)
    \/ FinishWithoutRedis(w)
    \/ Raise(w)
    \/ Crash(w)
    \/ HardTimeLimit(w)

Backfill ==
    \/ BackfillSelect
    \/ \E p \in Postings : BackfillClaim(p) \/ BackfillUnanswered(p) \/ BackfillSkip(p)
    \/ BackfillDispatch
    \/ BackfillRefused
    \/ BackfillCrash
    \/ BackfillDone

Next ==
    \/ \E i \in Ingesters : Ingest(i)
    \/ \E w \in Workers : Embed(w)
    \/ Backfill
    \/ \E p \in Postings : ExpireClaim(p)
    \/ RedisRestored

Spec == Init /\ [][Next]_vars

(***************************************************************************)
(* A task that runs goes on; the queue is served in order, so no message   *)
(* waits for ever while slots keep becoming free; beat fires the backfill  *)
(* every hour; a key with a TTL expires.                                   *)
(***************************************************************************)
Fairness ==
    /\ \A i \in Ingesters : WF_vars(IngestDispatch(i))
    /\ \A w \in Workers : WF_vars(Publish(w) \/ Finish(w))
    /\ \A m \in Message : SF_vars(\E w \in Workers : Load(w, m))
    /\ WF_vars(Backfill)
    /\ \A p \in Postings : WF_vars(ExpireClaim(p) /\ UNCHANGED faultVars)

FairSpec == Spec /\ Fairness

-----------------------------------------------------------------------------
\* A vector is only ever replaced by the vector of the row's current content, never
\* by one that a slower task computed from an earlier content.
NoStalePublish ==
    [][\A p \in Postings : embedding'[p] # embedding[p] => embedding'[p] = content'[p]]_vars

\* Slot w has loaded the current content of p and has yet to publish its vector.
Publishes(w, p) ==
    /\ job[w] # None
    /\ job[w].msg.posting = p
    /\ job[w].phase = "encode"
    /\ job[w].loaded = content[p]

\* Some fetch, message or task is still going to embed the current content of p.
Remembered(p) ==
    \/ \E i \in Ingesters : owed[i] = p
    \/ \E m \in Message : m.posting = p /\ queue[m] > 0
    \/ \E w \in Workers : Publishes(w, p)

\* Until a fetch fails between commit and delay or a task gives up, a posting whose
\* vector is not that of its content is remembered: its fetch is about to dispatch
\* it, a message waits, or a task has loaded the current content.
StaleIsInFlight ==
    suffered \cap Lossy = {} =>
        \A p \in Postings : content[p] # None /\ embedding[p] # content[p] => Remembered(p)

\* Until a process is lost or Redis is away or restored, a claim stands for work: the
\* backfill is about to dispatch the posting, or a task for it is in flight.  A claim without work
\* would withhold the posting from the backfill for an hour.
ClaimsAreWork ==
    suffered \cap Leaking = {} =>
        \A p \in claims :
            \/ bpc = "claimed" /\ cur = p /\ useClaims
            \/ InFlight(p, Origins)

\* A posting with content is never stuck without a vector (docstring of
\* embed_missing_postings).
NeverStuck ==
    \A p \in Postings : content[p] # None ~> embedding[p] # None

\* Once contents stop changing, every vector ends up that of the live content (comment
\* on incremental indexing in ingest_posting).
IndexTracksContent ==
    \A p \in Postings : <>[](embedding[p] = content[p])

\* So it does, unless a fault of Lossy has occurred.
IndexTracksUnlessLost ==
    IndexTracksContent \/ <>(suffered \cap Lossy # {})
=============================================================================
