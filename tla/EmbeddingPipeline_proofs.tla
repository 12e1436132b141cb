----------------------- MODULE EmbeddingPipeline_proofs -----------------------
(***************************************************************************)
(* Theorems about EmbeddingPipeline, for every number of postings, workers *)
(* and fetches, and without a bound on edits and faults.                   *)
(***************************************************************************)
EXTENDS EmbeddingPipeline, TLAPS

LEMMA MessageType ==
  ASSUME NEW p \in Postings, NEW a \in 0 .. MaxRetries, NEW o \in Origins
  PROVE  [posting |-> p, attempt |-> a, origin |-> o] \in Message
  BY DEF Message

\* Sending adds one copy of one message and takes none away.
LEMMA SendAdds ==
  ASSUME TypeOK, NEW p \in Postings, NEW a \in 0 .. MaxRetries, NEW o \in Origins,
         Send(p, a, o)
  PROVE  /\ queue' \in [Message -> Nat]
         /\ \A m \in Message : queue'[m] >= queue[m]
         /\ \E m \in Message : m.posting = p /\ m.attempt = a /\ m.origin = o /\ queue'[m] > 0
  <1> DEFINE n == [posting |-> p, attempt |-> a, origin |-> o]
  <1>1. n \in Message
    BY MessageType
  <1>2. queue' = [queue EXCEPT ![n] = @ + 1] /\ queue \in [Message -> Nat]
    BY DEF Send, TypeOK
  <1> HIDE DEF n
  <1>3. queue' \in [Message -> Nat] /\ \A m \in Message : queue'[m] >= queue[m]
    BY <1>1, <1>2
  <1>4. queue'[n] > 0
    BY <1>1, <1>2
  <1>5. n.posting = p /\ n.attempt = a /\ n.origin = o
    BY DEF n
  <1>6. QED BY <1>1, <1>3, <1>4, <1>5

LEMMA FaultType ==
  ASSUME TypeOK, NEW k, Fault(k)
  PROVE  faults' \in Nat /\ suffered' \subseteq Faults
  BY DEF Fault, TypeOK

\* What a slot works on.
LEMMA JobType ==
  ASSUME TypeOK, NEW w \in Workers, job[w] # None
  PROVE  /\ job[w] \in Job
         /\ job[w].msg \in Message
         /\ job[w].msg.posting \in Postings
         /\ job[w].msg.attempt \in 0 .. MaxRetries
         /\ job[w].msg.origin \in Origins
         /\ job[w].loaded \in Contents
  BY DEF TypeOK, Job, Message

LEMMA MessageFields ==
  ASSUME NEW m \in Message
  PROVE  /\ m.posting \in Postings
         /\ m.attempt \in 0 .. MaxRetries
         /\ m.origin \in Origins
  BY DEF Message

-----------------------------------------------------------------------------
LEMMA TypeInit == Init => TypeOK
  BY PipelineAssumption DEF Init, TypeOK

LEMMA TypeStep == TypeOK /\ [Next]_vars => TypeOK'
  <1> SUFFICES ASSUME TypeOK, [Next]_vars PROVE TypeOK'
    OBVIOUS
  <1> USE PipelineAssumption
  <1>1. ASSUME NEW i \in Ingesters, NEW p \in Postings, NEW c \in Contents, IngestCommit(i, p, c)
        PROVE  TypeOK'
    BY <1>1 DEF IngestCommit, TypeOK, backfillVars, faultVars
  <1>2. ASSUME NEW i \in Ingesters, IngestDispatch(i)
        PROVE  TypeOK'
    <2>1. owed[i] \in Postings /\ 0 \in 0 .. MaxRetries /\ "ingest" \in Origins
      BY <1>2 DEF IngestDispatch, TypeOK, Origins
    <2>2. queue' \in [Message -> Nat]
      BY <1>2, <2>1, SendAdds DEF IngestDispatch
    <2>3. QED BY <1>2, <2>2 DEF IngestDispatch, TypeOK, backfillVars, faultVars
  <1>3. ASSUME NEW i \in Ingesters, IngestLost(i)
        PROVE  TypeOK'
    BY <1>3, FaultType DEF IngestLost, TypeOK, backfillVars, faultVars
  <1>4. ASSUME NEW w \in Workers, NEW m \in Message, Load(w, m)
        PROVE  TypeOK'
    <2>1. queue' \in [Message -> Nat]
      BY <1>4 DEF Load, TypeOK
    <2>2. [msg |-> m, loaded |-> content[m.posting], phase |-> "encode"] \in Job
      BY <1>4, MessageFields DEF Load, TypeOK, Job
    <2>3. job' \in [Workers -> Job \cup {None}]
      BY <1>4, <2>2 DEF Load, TypeOK
    <2>4. QED BY <1>4, <2>1, <2>3 DEF Load, TypeOK, backfillVars, faultVars
  <1>5. ASSUME NEW w \in Workers, Publish(w)
        PROVE  TypeOK'
    <2>1. job[w] \in Job /\ job[w].msg.posting \in Postings /\ job[w].loaded \in Contents
      BY <1>5, JobType DEF Publish
    <2>2. job' = [job EXCEPT ![w].phase = "clear"]
      BY <1>5 DEF Publish
    <2>3. [job[w] EXCEPT !.phase = "clear"] \in Job
      BY <2>1 DEF Job
    <2>4. job' \in [Workers -> Job \cup {None}]
      BY <2>2, <2>3 DEF TypeOK
    <2>5. embedding' \in [Postings -> Contents \cup {None}]
      BY <1>5, <2>1 DEF Publish, TypeOK
    <2>6. QED BY <1>5, <2>4, <2>5 DEF Publish, TypeOK, backfillVars, faultVars
  <1>6. ASSUME NEW w \in Workers, Finish(w)
        PROVE  TypeOK'
    BY <1>6 DEF Finish, ClearPending, TypeOK, backfillVars, faultVars
  <1>7. ASSUME NEW w \in Workers, FinishWithoutRedis(w)
        PROVE  TypeOK'
    BY <1>7, FaultType DEF FinishWithoutRedis, TypeOK, backfillVars, faultVars
  <1>8. ASSUME NEW w \in Workers, Raise(w)
        PROVE  TypeOK'
    <2> DEFINE m == job[w].msg
    <2>1. m.posting \in Postings /\ m.attempt \in 0 .. MaxRetries /\ m.origin \in Origins
      BY <1>8, JobType DEF Raise
    <2>2. CASE m.attempt < MaxRetries
      <3>1. m.attempt + 1 \in 0 .. MaxRetries
        BY <2>1, <2>2
      <3>2. queue' \in [Message -> Nat]
        BY <1>8, <2>1, <2>2, <3>1, SendAdds DEF Raise
      <3>3. QED BY <1>8, <3>2, FaultType DEF Raise, ClearPending, TypeOK, backfillVars, faultVars
    <2>3. CASE ~(m.attempt < MaxRetries)
      BY <1>8, <2>3, FaultType DEF Raise, ClearPending, TypeOK, backfillVars, faultVars
    <2>4. QED BY <2>2, <2>3
  <1>9. ASSUME NEW w \in Workers, Crash(w)
        PROVE  TypeOK'
    <2>1. queue' \in [Message -> Nat]
      BY <1>9, JobType, SendAdds DEF Crash, Requeue
    <2>2. QED BY <1>9, <2>1, FaultType DEF Crash, TypeOK, backfillVars, faultVars
  <1>10. ASSUME NEW w \in Workers, HardTimeLimit(w)
         PROVE  TypeOK'
    BY <1>10, FaultType DEF HardTimeLimit, TypeOK, backfillVars, faultVars
  <1>11. CASE BackfillSelect
    <2>1. Missing \subseteq Postings
      BY DEF Missing
    <2>2. faults' \in Nat /\ suffered' \subseteq Faults /\ useClaims' \in BOOLEAN
      BY <1>11, FaultType DEF BackfillSelect, TypeOK, faultVars
    <2>3. QED BY <1>11, <2>1, <2>2 DEF BackfillSelect, TypeOK
  <1>12. ASSUME NEW p \in Postings, BackfillClaim(p)
         PROVE  TypeOK'
    BY <1>12 DEF BackfillClaim, TypeOK, faultVars
  <1>13. ASSUME NEW p \in Postings, BackfillSkip(p)
         PROVE  TypeOK'
    BY <1>13 DEF BackfillSkip, TypeOK, faultVars
  <1>14. CASE BackfillDispatch
    <2>1. cur \in Postings /\ 0 \in 0 .. MaxRetries /\ "backfill" \in Origins
      BY <1>14 DEF BackfillDispatch, TypeOK, Origins
    <2>2. queue' \in [Message -> Nat]
      BY <1>14, <2>1, SendAdds DEF BackfillDispatch
    <2>3. QED BY <1>14, <2>2 DEF BackfillDispatch, TypeOK, faultVars
  <1>15. CASE BackfillRefused
    BY <1>15, FaultType DEF BackfillRefused, ReleasePending, BackfillLeave, TypeOK
  <1>16. CASE BackfillCrash
    BY <1>16, FaultType DEF BackfillCrash, BackfillLeave, TypeOK
  <1>17. CASE BackfillDone
    BY <1>17 DEF BackfillDone, BackfillLeave, TypeOK, faultVars
  <1>18. ASSUME NEW p \in Postings, ExpireClaim(p)
         PROVE  TypeOK'
    <2>1. claims' \subseteq Postings /\ faults' \in Nat /\ suffered' \subseteq Faults
      BY <1>18, FaultType DEF ExpireClaim, Expire, TypeOK, faultVars
    <2>2. QED BY <1>18, <2>1 DEF ExpireClaim, TypeOK, backfillVars, faultVars
  <1>19. CASE UNCHANGED vars
    BY <1>19 DEF vars, backfillVars, faultVars, TypeOK
  <1>20. CASE RedisRestored
    BY <1>20, FaultType DEF RedisRestored, TypeOK, backfillVars
  <1>21. ASSUME NEW p \in Postings, BackfillUnanswered(p)
         PROVE  TypeOK'
    BY <1>21, FaultType DEF BackfillUnanswered, BackfillLeave, TypeOK
  <1>22. QED
    BY <1>1, <1>2, <1>3, <1>4, <1>5, <1>6, <1>7, <1>8, <1>9, <1>10, <1>11, <1>12, <1>13,
       <1>14, <1>15, <1>16, <1>17, <1>18, <1>19, <1>20, <1>21
    DEF Next, Ingest, Embed, Backfill

\* Every state the pipeline reaches is well formed, whatever faults occur.
THEOREM TypeCorrect == Spec => []TypeOK
  BY TypeInit, TypeStep, PTL DEF Spec

\* No fault is forgotten.
LEMMA SufferedGrows ==
  ASSUME [Next]_vars
  PROVE  suffered \subseteq suffered'
  <1>1. \A k : Fault(k) => suffered \subseteq suffered'
    BY DEF Fault
  <1>2. UNCHANGED faultVars => suffered \subseteq suffered'
    BY DEF faultVars
  <1>3. \A i \in Ingesters : Ingest(i) => suffered \subseteq suffered'
    BY <1>1, <1>2 DEF Ingest, IngestCommit, IngestDispatch, IngestLost
  <1>4. \A w \in Workers : Embed(w) => suffered \subseteq suffered'
    BY <1>1, <1>2 DEF Embed, Load, Publish, Finish, FinishWithoutRedis, Raise, Crash,
                      HardTimeLimit
  <1>5. Backfill => suffered \subseteq suffered'
    BY <1>1, <1>2 DEF Backfill, BackfillSelect, BackfillClaim, BackfillSkip, BackfillDispatch,
                      BackfillUnanswered, BackfillRefused, BackfillCrash, BackfillDone
  <1>6. \A p \in Postings : ExpireClaim(p) => suffered \subseteq suffered'
    BY <1>1, <1>2 DEF ExpireClaim, Expire
  <1>7. UNCHANGED vars => suffered \subseteq suffered'
    BY <1>2 DEF vars
  <1>8. RedisRestored => suffered \subseteq suffered'
    BY <1>1 DEF RedisRestored
  <1>9. QED BY <1>3, <1>4, <1>5, <1>6, <1>7, <1>8 DEF Next

LEMMA FaultRecorded ==
  ASSUME NEW k, Fault(k)
  PROVE  k \in suffered'
  BY DEF Fault

-----------------------------------------------------------------------------
(* Until a fault of Lossy occurs nobody forgets a posting. *)

StaleInv == TypeOK /\ StaleIsInFlight

LEMMA StaleInit == Init => StaleInv
  BY TypeInit DEF Init, StaleInv, StaleIsInFlight

\* What a step that only moves messages, claims and the backfill has to show.
LEMMA StillRemembered ==
  ASSUME NEW p \in Postings, Remembered(p),
         UNCHANGED <<content, owed, job>>,
         \A m \in Message : queue[m] > 0 => queue'[m] > 0
  PROVE  Remembered(p)'
  BY DEF Remembered, Publishes

LEMMA StaleStep ==
  ASSUME StaleInv, [Next]_vars
  PROVE  StaleIsInFlight'
  <1> USE PipelineAssumption
  <1> SUFFICES ASSUME suffered' \cap Lossy = {},
                      NEW p \in Postings, content'[p] # None, embedding'[p] # content'[p]
               PROVE  Remembered(p)'
    BY DEF StaleIsInFlight
  <1>a. TypeOK /\ TypeOK'
    BY TypeStep DEF StaleInv
  <1>b. content[p] # None /\ embedding[p] # content[p] => Remembered(p)
    <2>1. suffered \cap Lossy = {}
      BY SufferedGrows
    <2>2. QED BY <2>1 DEF StaleInv, StaleIsInFlight
  <1>c. ~Fault("dispatch") /\ ~Fault("timeout") /\ ~Fault("encode") /\ ~Fault("restore")
    BY FaultRecorded DEF Lossy
  <1>1. ASSUME NEW i \in Ingesters, NEW q \in Postings, NEW c \in Contents, IngestCommit(i, q, c)
        PROVE  Remembered(p)'
    <2>1. owed'[i] = q
      BY <1>1, <1>a DEF IngestCommit, TypeOK
    <2>2. CASE p = q
      BY <2>1, <2>2 DEF Remembered
    <2>3. CASE p # q
      <3>1. content'[p] = content[p] /\ embedding' = embedding
        BY <1>1, <1>a, <2>3 DEF IngestCommit, TypeOK
      <3>2. Remembered(p)
        BY <1>b, <3>1
      <3>3. \A j \in Ingesters : owed[j] = p => owed'[j] = p
        BY <1>1, <1>a DEF IngestCommit, TypeOK
      <3>4. queue' = queue /\ job' = job
        BY <1>1 DEF IngestCommit
      <3>5. QED BY <3>1, <3>2, <3>3, <3>4 DEF Remembered, Publishes
    <2>4. QED BY <2>2, <2>3
  <1>2. ASSUME NEW i \in Ingesters, IngestDispatch(i)
        PROVE  Remembered(p)'
    <2>1. owed[i] \in Postings /\ 0 \in 0 .. MaxRetries /\ "ingest" \in Origins
      BY <1>2, <1>a DEF IngestDispatch, TypeOK, Origins
    <2>2. /\ \A m \in Message : queue'[m] >= queue[m]
          /\ \E m \in Message : m.posting = owed[i] /\ queue'[m] > 0
      BY <1>2, <1>a, <2>1, SendAdds DEF IngestDispatch
    <2>3. queue \in [Message -> Nat] /\ queue' \in [Message -> Nat]
      BY <1>a DEF TypeOK
    <2>4. Remembered(p) /\ content' = content /\ job' = job
      BY <1>2, <1>b DEF IngestDispatch
    <2>5. \A j \in Ingesters : owed[j] = p => owed'[j] = p \/ owed[i] = p
      BY <1>2, <1>a DEF IngestDispatch, TypeOK
    <2>6. CASE owed[i] = p
      BY <2>2, <2>6 DEF Remembered
    <2>7. CASE owed[i] # p
      <3>1. \A m \in Message : queue[m] > 0 => queue'[m] > 0
        BY <2>2, <2>3
      <3>2. QED BY <2>4, <2>5, <2>7, <3>1 DEF Remembered, Publishes
    <2>8. QED BY <2>6, <2>7
  <1>3. ASSUME NEW i \in Ingesters, IngestLost(i)
        PROVE  Remembered(p)'
    BY <1>3, <1>c DEF IngestLost
  <1>4. ASSUME NEW w \in Workers, NEW m \in Message, Load(w, m)
        PROVE  Remembered(p)'
    <2>1. Remembered(p) /\ content' = content /\ owed' = owed
      BY <1>4, <1>b DEF Load
    <2>2. job' = [job EXCEPT ![w] = [msg |-> m, loaded |-> content[m.posting],
                                      phase |-> "encode"]]
      BY <1>4 DEF Load
    <2>3. job[w] = None /\ job \in [Workers -> Job \cup {None}]
      BY <1>4, <1>a DEF Load, TypeOK
    <2>4. CASE m.posting = p
      <3>1. [msg |-> m, loaded |-> content[m.posting], phase |-> "encode"] \in Job
        BY <1>a, <1>4, MessageFields DEF Load, TypeOK, Job
      <3>2. Publishes(w, p)'
        BY <2>1, <2>2, <2>3, <2>4, <3>1 DEF Publishes
      <3>3. QED BY <3>2 DEF Remembered
    <2>5. CASE m.posting # p
      <3>1. \A n \in Message : n.posting = p => queue'[n] = queue[n]
        BY <1>4, <1>a, <2>5 DEF Load, TypeOK
      <3>2. \A v \in Workers : Publishes(v, p) => Publishes(v, p)'
        BY <2>1, <2>2, <2>3 DEF Publishes
      <3>3. QED BY <2>1, <3>1, <3>2 DEF Remembered
    <2>6. QED BY <2>4, <2>5
  <1>5. ASSUME NEW w \in Workers, Publish(w)
        PROVE  Remembered(p)'
    <2>1. content' = content /\ owed' = owed /\ queue' = queue
      BY <1>5 DEF Publish
    <2>2. job' = [job EXCEPT ![w].phase = "clear"] /\ job \in [Workers -> Job \cup {None}]
      BY <1>5, <1>a DEF Publish, TypeOK
    <2>3. \A v \in Workers : v # w /\ Publishes(v, p) => Publishes(v, p)'
      BY <2>1, <2>2 DEF Publishes
    <2>4. ~Publishes(w, p)
      <3>1. SUFFICES ASSUME Publishes(w, p) PROVE FALSE
        OBVIOUS
      <3>2. StillCurrent(p, job[w].loaded) /\ job[w].msg.posting = p
        BY <3>1 DEF Publishes, StillCurrent
      <3>3. embedding'[p] = job[w].loaded
        BY <1>5, <1>a, <3>2 DEF Publish, TypeOK
      <3>4. QED BY <2>1, <3>1, <3>3 DEF Publishes
    <2>5. embedding'[p] # embedding[p] => embedding'[p] = content[p]
      BY <1>5, <1>a DEF Publish, StillCurrent, TypeOK
    <2>6. Remembered(p)
      BY <1>b, <2>1, <2>5
    <2>7. QED BY <2>1, <2>3, <2>4, <2>6 DEF Remembered
  <1>6. ASSUME NEW w \in Workers, Finish(w) \/ FinishWithoutRedis(w)
        PROVE  Remembered(p)'
    <2>1. /\ Remembered(p) /\ content' = content /\ owed' = owed /\ queue' = queue
          /\ job' = [job EXCEPT ![w] = None] /\ job[w].phase = "clear"
      BY <1>6, <1>b DEF Finish, FinishWithoutRedis
    <2>2. \A v \in Workers : Publishes(v, p) => Publishes(v, p)'
      BY <2>1, <1>a DEF Publishes, TypeOK
    <2>3. QED BY <2>1, <2>2 DEF Remembered
  <1>7. ASSUME NEW w \in Workers, Raise(w) \/ HardTimeLimit(w)
        PROVE  Remembered(p)'
    BY <1>7, <1>c DEF Raise, HardTimeLimit
  <1>8. ASSUME NEW w \in Workers, Crash(w)
        PROVE  Remembered(p)'
    <2>1. /\ Remembered(p) /\ content' = content /\ owed' = owed
          /\ job' = [job EXCEPT ![w] = None] /\ job[w] # None
      BY <1>8, <1>b DEF Crash
    <2>2. /\ \A m \in Message : queue'[m] >= queue[m]
          /\ \E m \in Message : m.posting = job[w].msg.posting /\ queue'[m] > 0
      BY <1>8, <1>a, <2>1, JobType, SendAdds DEF Crash, Requeue
    <2>3. queue \in [Message -> Nat] /\ queue' \in [Message -> Nat]
      BY <1>a DEF TypeOK
    <2>4. CASE job[w].msg.posting = p
      BY <2>2, <2>4 DEF Remembered
    <2>5. CASE job[w].msg.posting # p
      <3>1. \A v \in Workers : Publishes(v, p) => Publishes(v, p)'
        BY <2>1, <2>5, <1>a DEF Publishes, TypeOK
      <3>2. \A m \in Message : queue[m] > 0 => queue'[m] > 0
        BY <2>2, <2>3
      <3>3. QED BY <2>1, <3>1, <3>2 DEF Remembered
    <2>6. QED BY <2>4, <2>5
  <1>9. CASE BackfillDispatch
    <2>1. cur \in Postings /\ 0 \in 0 .. MaxRetries /\ "backfill" \in Origins
      BY <1>9, <1>a DEF BackfillDispatch, TypeOK, Origins
    <2>2. \A m \in Message : queue'[m] >= queue[m]
      BY <1>9, <1>a, <2>1, SendAdds DEF BackfillDispatch
    <2>3. \A m \in Message : queue[m] > 0 => queue'[m] > 0
      BY <2>2, <1>a DEF TypeOK
    <2>4. Remembered(p) /\ UNCHANGED <<content, owed, job>>
      BY <1>9, <1>b DEF BackfillDispatch
    <2>5. QED BY <2>3, <2>4, StillRemembered
  <1>10. ASSUME UNCHANGED <<content, embedding, owed, queue, job>>
         PROVE  Remembered(p)'
    BY <1>10, <1>b, StillRemembered
  <1>11. BackfillSelect \/ BackfillRefused \/ BackfillCrash \/ BackfillDone \/ UNCHANGED vars
         => UNCHANGED <<content, embedding, owed, queue, job>>
    BY DEF BackfillSelect, BackfillRefused, BackfillCrash, BackfillDone, vars
  <1>12. \A q \in Postings :
           BackfillClaim(q) \/ BackfillUnanswered(q) \/ BackfillSkip(q) \/ ExpireClaim(q)
           => UNCHANGED <<content, embedding, owed, queue, job>>
    BY DEF BackfillClaim, BackfillUnanswered, BackfillSkip, ExpireClaim
  <1>13. ~RedisRestored
    BY <1>c DEF RedisRestored
  <1>14. QED
    BY <1>1, <1>2, <1>3, <1>4, <1>5, <1>6, <1>7, <1>8, <1>9, <1>10, <1>11, <1>12, <1>13
    DEF Next, Ingest, Embed, Backfill

\* Losing workers, claims or the backfill's dispatches loses no posting: as
\* long as no fetch fails between commit and delay, no task gives up and Redis keeps the queue, a
\* posting whose vector is not that of its content is still going to be embedded.
THEOREM StaleRemembered == Spec => []StaleIsInFlight
  <1>1. StaleInv /\ [Next]_vars => StaleInv'
    BY StaleStep, TypeStep DEF StaleInv
  <1>2. StaleInv => StaleIsInFlight
    BY DEF StaleInv
  <1>3. QED BY StaleInit, <1>1, <1>2, PTL DEF Spec

-----------------------------------------------------------------------------
(* The predicate of the UPDATE. *)

LEMMA PublishStep ==
  ASSUME TypeOK, [Next]_vars
  PROVE  \A p \in Postings : embedding'[p] # embedding[p] => embedding'[p] = content'[p]
  <1>1. ASSUME NEW w \in Workers, Publish(w)
        PROVE  \A p \in Postings : embedding'[p] # embedding[p] => embedding'[p] = content'[p]
    BY <1>1 DEF Publish, StillCurrent, TypeOK
  <1>2. ASSUME NEW i \in Ingesters, Ingest(i)
        PROVE  embedding' = embedding
    BY <1>2 DEF Ingest, IngestCommit, IngestDispatch, IngestLost
  <1>3. ASSUME NEW w \in Workers, Embed(w)
        PROVE  Publish(w) \/ embedding' = embedding
    BY <1>3 DEF Embed, Load, Finish, FinishWithoutRedis, Raise, Crash, HardTimeLimit
  <1>4. Backfill => embedding' = embedding
    BY DEF Backfill, BackfillSelect, BackfillClaim, BackfillSkip, BackfillDispatch,
           BackfillUnanswered, BackfillRefused, BackfillCrash, BackfillDone
  <1>5. \A p \in Postings : ExpireClaim(p) => embedding' = embedding
    BY DEF ExpireClaim
  <1>6. UNCHANGED vars => embedding' = embedding
    BY DEF vars
  <1>7. RedisRestored => embedding' = embedding
    BY DEF RedisRestored
  <1>8. QED BY <1>1, <1>2, <1>3, <1>4, <1>5, <1>6, <1>7 DEF Next

\* However many tasks overlap on a posting and in whatever order they finish, no
\* vector of an outdated content is ever stored over another vector.
THEOREM StaleNeverPublished == Spec => NoStalePublish
  <1>1. TypeOK /\ [Next]_vars
        => [\A p \in Postings : embedding'[p] # embedding[p] => embedding'[p] = content'[p]]_vars
    BY PublishStep
  <1>2. QED BY TypeCorrect, <1>1, PTL DEF Spec, NoStalePublish

-----------------------------------------------------------------------------
(* Claims.  Only a lost process or Redis itself leaves one without work. *)

LEMMA ClaimsStep ==
  ASSUME TypeOK, ClaimsAreWork, [Next]_vars
  PROVE  ClaimsAreWork'
  <1> USE PipelineAssumption
  <1> SUFFICES ASSUME suffered' \cap Leaking = {}, NEW p \in claims'
               PROVE  \/ bpc' = "claimed" /\ cur' = p /\ useClaims'
                      \/ InFlight(p, Origins)'
    BY DEF ClaimsAreWork
  <1> DEFINE Held == bpc = "claimed" /\ cur = p /\ useClaims
  <1>a. p \in claims => Held \/ InFlight(p, Origins)
    <2>1. suffered \cap Leaking = {}
      BY SufferedGrows
    <2>2. QED BY <2>1 DEF ClaimsAreWork
  <1>b. ~Fault("crash") /\ ~Fault("timeout") /\ ~Fault("redis") /\ ~Fault("restore")
    BY FaultRecorded DEF Leaking
  <1>c. queue \in [Message -> Nat] /\ job \in [Workers -> Job \cup {None}]
    BY DEF TypeOK
  <1>1. ASSUME NEW i \in Ingesters, Ingest(i)
        PROVE  (Held \/ InFlight(p, Origins))'
    <2>1. UNCHANGED <<job, claims, bpc, cur, useClaims>>
      BY <1>1 DEF Ingest, IngestCommit, IngestDispatch, IngestLost, backfillVars
    <2>2. \A m \in Message : queue'[m] >= queue[m]
      <3>1. CASE IngestDispatch(i)
        <4>1. owed[i] \in Postings /\ 0 \in 0 .. MaxRetries /\ "ingest" \in Origins
          BY <3>1 DEF IngestDispatch, TypeOK, Origins
        <4>2. QED BY <3>1, <4>1, SendAdds DEF IngestDispatch
      <3>2. CASE queue' = queue
        BY <3>2, <1>c
      <3>3. QED BY <1>1, <3>1, <3>2 DEF Ingest, IngestCommit, IngestLost
    <2>3. \A m \in Message : queue[m] > 0 => queue'[m] > 0
      BY <2>2, TypeStep, <1>c DEF TypeOK
    <2>4. QED BY <1>a, <2>1, <2>3 DEF InFlight
  <1>2. ASSUME NEW w \in Workers, NEW m \in Message, Load(w, m)
        PROVE  (Held \/ InFlight(p, Origins))'
    <2>1. /\ UNCHANGED <<claims, bpc, cur, useClaims>> /\ job[w] = None
          /\ job' = [job EXCEPT ![w] = [msg |-> m, loaded |-> content[m.posting],
                                         phase |-> "encode"]]
          /\ queue' = [queue EXCEPT ![m] = @ - 1]
      BY <1>2 DEF Load, backfillVars
    <2>2. [msg |-> m, loaded |-> content[m.posting], phase |-> "encode"] \in Job
      BY <1>2, MessageFields DEF Load, TypeOK, Job
    <2>3. job'[w] # None /\ job'[w].msg = m
      BY <2>1, <2>2, <1>c
    <2>4. \A n \in Message : n # m => queue'[n] = queue[n]
      BY <2>1, <1>c
    <2>5. \A v \in Workers : job[v] # None => job'[v] = job[v]
      BY <2>1, <1>c
    <2>6. QED BY <1>a, <2>1, <2>3, <2>4, <2>5 DEF InFlight
  <1>3. ASSUME NEW w \in Workers, Publish(w)
        PROVE  (Held \/ InFlight(p, Origins))'
    <2>1. UNCHANGED <<claims, queue, bpc, cur, useClaims>> /\ job[w] # None
      BY <1>3 DEF Publish, backfillVars
    <2>2. job' = [job EXCEPT ![w].phase = "clear"] /\ job[w] \in Job
      BY <1>3, <1>c DEF Publish
    <2>3. [job[w] EXCEPT !.phase = "clear"] \in Job
      BY <2>2 DEF Job
    <2>4. \A v \in Workers : job[v] # None => job'[v] # None /\ job'[v].msg = job[v].msg
      BY <2>2, <2>3, <1>c DEF Job
    <2>5. QED BY <1>a, <2>1, <2>4 DEF InFlight
  <1>4. ASSUME NEW w \in Workers, Finish(w)
        PROVE  (Held \/ InFlight(p, Origins))'
    <2>1. /\ claims' = claims \ {job[w].msg.posting} /\ job' = [job EXCEPT ![w] = None]
          /\ UNCHANGED <<queue, bpc, cur, useClaims>>
      BY <1>4 DEF Finish, ClearPending, backfillVars
    <2>2. p \in claims /\ job[w].msg.posting # p
      BY <2>1
    <2>3. \A v \in Workers : v # w => job'[v] = job[v]
      BY <2>1, <1>c
    <2>4. QED BY <1>a, <2>1, <2>2, <2>3 DEF InFlight
  <1>5. ASSUME NEW w \in Workers, Raise(w)
        PROVE  (Held \/ InFlight(p, Origins))'
    <2> DEFINE m == job[w].msg
    <2>1. /\ claims' = claims \ {m.posting} /\ job' = [job EXCEPT ![w] = None]
          /\ UNCHANGED <<bpc, cur, useClaims>>
      BY <1>5 DEF Raise, ClearPending, backfillVars
    <2>2. p \in claims /\ m.posting # p
      BY <2>1
    <2>3. \A v \in Workers : v # w => job'[v] = job[v]
      BY <2>1, <1>c
    <2>4. \A n \in Message : queue[n] > 0 => queue'[n] > 0
      <3>1. m.posting \in Postings /\ m.attempt \in 0 .. MaxRetries /\ m.origin \in Origins
        BY <1>5, JobType DEF Raise
      <3>2. CASE m.attempt < MaxRetries
        <4>1. m.attempt + 1 \in 0 .. MaxRetries
          BY <3>1, <3>2
        <4>2. queue' \in [Message -> Nat] /\ \A n \in Message : queue'[n] >= queue[n]
          BY <1>5, <3>1, <3>2, <4>1, SendAdds DEF Raise
        <4>3. QED BY <4>2, <1>c
      <3>3. CASE ~(m.attempt < MaxRetries)
        BY <1>5, <3>3 DEF Raise
      <3>4. QED BY <3>2, <3>3
    <2>5. QED BY <1>a, <2>1, <2>2, <2>3, <2>4 DEF InFlight
  <1>6. ASSUME NEW w \in Workers, FinishWithoutRedis(w) \/ Crash(w) \/ HardTimeLimit(w)
        PROVE  FALSE
    BY <1>6, <1>b DEF FinishWithoutRedis, Crash, HardTimeLimit
  <1>7. BackfillCrash => FALSE
    BY <1>b DEF BackfillCrash
  <1>8. CASE BackfillDispatch
    <2>1. cur \in Postings /\ 0 \in 0 .. MaxRetries /\ "backfill" \in Origins
      BY <1>8 DEF BackfillDispatch, TypeOK, Origins
    <2>2. /\ queue' \in [Message -> Nat]
          /\ \A m \in Message : queue'[m] >= queue[m]
          /\ \E m \in Message : m.posting = cur /\ m.origin = "backfill" /\ queue'[m] > 0
      BY <1>8, <2>1, SendAdds DEF BackfillDispatch
    <2>3. \A m \in Message : queue[m] > 0 => queue'[m] > 0
      BY <2>2, <1>c
    <2>4. p \in claims /\ job' = job
      BY <1>8 DEF BackfillDispatch
    <2>5. CASE cur = p
      BY <2>1, <2>2, <2>5 DEF InFlight
    <2>6. CASE cur # p
      BY <1>a, <2>3, <2>4, <2>6 DEF InFlight
    <2>7. QED BY <2>5, <2>6
  <1>9. ASSUME NEW q \in Postings, BackfillClaim(q)
        PROVE  (Held \/ InFlight(p, Origins))'
    BY <1>9, <1>a DEF BackfillClaim, Turn, InFlight
  <1>10. ASSUME NEW q \in Postings, BackfillSkip(q)
         PROVE  (Held \/ InFlight(p, Origins))'
    BY <1>10, <1>a DEF BackfillSkip, InFlight
  <1>11. CASE BackfillRefused
    BY <1>11, <1>a, <1>b DEF BackfillRefused, ReleasePending, BackfillLeave, InFlight
  <1>12. CASE BackfillSelect \/ BackfillDone
    BY <1>12, <1>a DEF BackfillSelect, BackfillDone, BackfillLeave, InFlight
  <1>13. ASSUME NEW q \in Postings, ExpireClaim(q)
         PROVE  (Held \/ InFlight(p, Origins))'
    BY <1>13, <1>a DEF ExpireClaim, Expire, InFlight, backfillVars
  <1>14. CASE UNCHANGED vars
    BY <1>14, <1>a DEF vars, backfillVars, InFlight
  <1>15. ~RedisRestored /\ \A q \in Postings : ~BackfillUnanswered(q)
    BY <1>b DEF RedisRestored, BackfillUnanswered
  <1>16. QED
    BY <1>1, <1>2, <1>3, <1>4, <1>5, <1>6, <1>7, <1>8, <1>9, <1>10, <1>11, <1>12, <1>13, <1>14,
       <1>15
    DEF Next, Embed, Backfill

\* A posting is never withheld from the backfill by a claim nobody will clear: as
\* long as no process is lost and Redis answers and forgets nothing, a claim stands for work in flight,
\* refused dispatches, retries and expired claims included.
THEOREM ClaimsBacked == Spec => []ClaimsAreWork
  <1>1. Init => ClaimsAreWork
    BY DEF Init, ClaimsAreWork
  <1>2. TypeOK /\ ClaimsAreWork /\ [Next]_vars => ClaimsAreWork'
    BY ClaimsStep
  <1>3. QED BY TypeCorrect, <1>1, <1>2, PTL DEF Spec
=============================================================================
