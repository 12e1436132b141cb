------------------------- MODULE TrackedTasks_proofs -------------------------
(***************************************************************************)
(* Theorems about TrackedTasks: for any tasks, worker processes, retries,  *)
(* workloads, faults, postings, companies and slugs.                       *)
(***************************************************************************)
EXTENDS TrackedTasks, WellFoundedInduction, TLAPS

(***************************************************************************)
(* The queue is a bag.                                                     *)
(***************************************************************************)
LEMMA Put ==
  ASSUME IsABag(queue), NEW m
  PROVE  /\ IsABag(queue (+) SetToBag({m}))
         /\ BagToSet(queue (+) SetToBag({m})) = BagToSet(queue) \cup {m}
         /\ \A e : BagIn(e, queue (+) SetToBag({m})) <=> BagIn(e, queue) \/ e = m
  <1> DEFINE one == SetToBag({m})
  <1>1. DOMAIN one = {m} /\ one[m] = 1
    BY DEF SetToBag
  <1>2. queue \in [DOMAIN queue -> {n \in Nat : n > 0}]
    BY DEF IsABag
  <1> HIDE DEF one
  <1>3. DOMAIN (queue (+) one) = DOMAIN queue \cup {m}
    BY <1>1 DEF (+)
  <1>4. \A e \in DOMAIN queue \cup {m} : (queue (+) one)[e] \in {n \in Nat : n > 0}
    <2>1. SUFFICES ASSUME NEW e \in DOMAIN queue \cup {m}
                   PROVE  (queue (+) one)[e] \in {n \in Nat : n > 0}
      OBVIOUS
    <2>2. (queue (+) one)[e] = (IF e \in DOMAIN queue THEN queue[e] ELSE 0)
                               + (IF e \in DOMAIN one THEN one[e] ELSE 0)
      BY <1>1 DEF (+)
    <2>3. QED BY <1>1, <1>2, <2>2
  <1>5. (queue (+) one) = [e \in DOMAIN (queue (+) one) |-> (queue (+) one)[e]]
    BY DEF (+)
  <1>6. IsABag(queue (+) one)
    BY <1>3, <1>4, <1>5 DEF IsABag
  <1>7. QED
    BY <1>3, <1>6 DEF one, BagToSet, BagIn

LEMMA Take ==
  ASSUME IsABag(queue), NEW m
  PROVE  /\ IsABag(queue (-) SetToBag({m}))
         /\ BagToSet(queue (-) SetToBag({m})) \subseteq BagToSet(queue)
         /\ \A e : BagIn(e, queue) /\ e # m => BagIn(e, queue (-) SetToBag({m}))
  <1> DEFINE one == SetToBag({m})
             B == [e \in DOMAIN queue |-> IF e \in DOMAIN one THEN queue[e] - one[e] ELSE queue[e]]
             left == {d \in DOMAIN B : B[d] > 0}
  <1>1. DOMAIN one = {m} /\ one[m] = 1
    BY DEF SetToBag
  <1>2. queue \in [DOMAIN queue -> {n \in Nat : n > 0}]
    BY DEF IsABag
  <1> HIDE DEF one
  <1>3. (queue (-) one) = [e \in left |-> B[e]]
    BY DEF (-)
  <1>4. \A e \in left : B[e] \in {n \in Nat : n > 0}
    BY <1>1, <1>2
  <1>5. left \subseteq DOMAIN queue
    OBVIOUS
  <1>6. \A e \in DOMAIN queue : e # m => e \in left
    BY <1>1, <1>2
  <1> HIDE DEF B, left
  <1>7. DOMAIN (queue (-) one) = left /\ IsABag(queue (-) one)
    BY <1>3, <1>4 DEF IsABag
  <1>8. QED
    BY <1>5, <1>6, <1>7 DEF one, BagToSet, BagIn

(***************************************************************************)
(* Every step is one of these, as far as the lifecycle is concerned.       *)
(***************************************************************************)
LifecycleStep ==
    \/ UNCHANGED lifecycleVars
    \/ \E w \in Workers :
           \/ \E t \in Tasks : \E r \in 0 .. MaxRetries[t] : Receive(w, Message(t, r))
           \/ HandlerStep(w)
           \/ worker[w].step = "body" /\ Returns(w)
           \/ worker[w].step = "body" /\ Raises(w) /\ faults' \in {faults, faults + 1}
              /\ (faults' # faults => faults < MaxFaults)
           \/ Crash(w) \/ HardTimeLimit(w)

LEMMA StepsOfLifecycle ==
  ASSUME [Next]_allVars
  PROVE  LifecycleStep
  <1>1. CASE UNCHANGED allVars
    BY <1>1 DEF allVars, LifecycleStep
  <1>2. ASSUME NEW w \in Workers, Takes(w) \/ Handles(w) \/ Lost(w) PROVE LifecycleStep
    BY <1>2 DEF Takes, Handles, Lost, LifecycleStep
  <1>3. ASSUME NEW w \in Workers, ClusteringStep(w) PROVE LifecycleStep
    BY <1>3 DEF ClusteringStep, ReadEmbeddings, NothingToCluster, BeginDelete, Delete, InsertAndUpdate,
                Commit, RunStep, Clusters, LifecycleStep
  <1>4. ASSUME NEW w \in Workers, DirectoryStep(w) PROVE LifecycleStep
    BY <1>4 DEF DirectoryStep, InsertCompany, FindCompany, TrySuffix, CommitOne, CommitFetch,
                DeadlockAbort, RollBack, Fetching, LifecycleStep
  <1>5. ASSUME NEW w \in Workers, Fails(w) PROVE LifecycleStep
    BY <1>5 DEF Fails, ClusteringFails, FetchFails, RollBack, Clusters, Fetching, Happens,
                LifecycleStep
  <1>6. ASSUME NEW p \in Postings, Embed(p) PROVE LifecycleStep
    BY <1>6 DEF Embed, LifecycleStep
  <1>7. QED BY <1>1, <1>2, <1>3, <1>4, <1>5, <1>6 DEF Next, Works

-----------------------------------------------------------------------------
(***************************************************************************)
(* The log.  A message or a worker short of its last handler stands for a  *)
(* task until the log has been told its end.  A retry handler is never the *)
(* last one, as the retry is in the queue before it: whoever takes it      *)
(* overtakes the handler.                                                  *)
(***************************************************************************)
WorkerType ==
    worker \in [Workers -> [step : Steps, task : Tasks, retries : Nat]]

Told(t) ==
    \/ /\ execution[t].finished
       /\ \/ execution[t].state = "SUCCESS" /\ t \in done
          \/ execution[t].state = "FAILURE" /\ t \in deadLetter
    \/ execution[t] = NoRow /\ t \in deadLetter

WorkerTells(w) ==
    LET t == worker[w].task IN
    /\ worker[w].step = "postrun" => t \in done
    /\ t \notin untold =>
           /\ worker[w].step \in {"body", "postrun", "retry", "failure", "failed"} =>
                  execution[t] # NoRow
           /\ worker[w].step \in {"failed", "buried"} => t \in deadLetter
           /\ worker[w].step = "retry" => BagIn(Message(t, worker[w].retries + 1), queue)

UnderWay(t) ==
    \/ InQueue(t)
    \/ \E w \in Workers : worker[w].task = t /\ worker[w].step \notin {"idle", "ack"}

LogInv ==
    /\ WorkerType
    /\ LifecycleTypeOK
    /\ \A w \in Workers : WorkerTells(w)
    /\ \A t \in Tasks \ untold : UnderWay(t) \/ Told(t)

LEMMA LogInvIsEnough ==
  LogInv => LogTellsTheEnd
  BY DEF LogInv, LogTellsTheEnd, Over, UnderWay, Told, Busy, InQueue

LEMMA MessageIs ==
  /\ \A t, r : Message(t, r).task = t /\ Message(t, r).retries = r
  /\ \A t, r, u, s : Message(t, r) = Message(u, s) <=> t = u /\ r = s
  BY DEF Message

LEMMA LogInit ==
  ASSUME LifecycleInit
  PROVE  LogInv
  <1>1. PICK workload \in Workloads :
            /\ queue = SetToBag({Message(t, 0) : t \in workload})
            /\ untold = Tasks \ workload
    BY DEF LifecycleInit
  <1>2. workload \subseteq Tasks /\ \A t \in Tasks : MaxRetries[t] \in Nat
    BY TaskLifecycleAssumption
  <1>3. /\ IsABag(queue)
        /\ BagToSet(queue) = {Message(t, 0) : t \in workload}
    <2>1. DOMAIN queue = {Message(t, 0) : t \in workload}
      BY <1>1 DEF SetToBag
    <2>2. queue = [e \in {Message(t, 0) : t \in workload} |-> 1]
      BY <1>1 DEF SetToBag
    <2>3. queue \in [{Message(t, 0) : t \in workload} -> {n \in Nat : n > 0}]
      BY <2>2
    <2>4. QED BY <2>1, <2>3 DEF IsABag, BagToSet
  <1>4. BagToSet(queue) \subseteq UNION {{Message(t, r) : r \in 0 .. MaxRetries[t]} : t \in Tasks}
    BY <1>2, <1>3
  <1>5. /\ AtRest.step = "idle" /\ AtRest.retries = 0
        /\ AtRest.task \in Tasks
        /\ AtRest \in [step : Steps, task : Tasks, retries : Nat]
    BY TaskLifecycleAssumption DEF AtRest, Steps
  <1>6. worker = [w \in Workers |-> AtRest]
    BY DEF LifecycleInit
  <1>7. WorkerType
    BY <1>5, <1>6 DEF WorkerType
  <1>8. LifecycleTypeOK
    <2>1. \A w \in Workers : /\ worker[w].step \in Steps
                             /\ worker[w].task \in Tasks
                             /\ worker[w].retries \in 0 .. MaxRetries[worker[w].task]
      BY <1>2, <1>5, <1>6 DEF Steps
    <2>2. /\ execution \in [Tasks -> [state : {"none", "STARTED", "RETRY", "SUCCESS", "FAILURE"},
                                      finished : BOOLEAN]]
          /\ deadLetter \subseteq Tasks /\ done \subseteq Tasks
      BY DEF LifecycleInit, NoRow
    <2>3. untold \subseteq Tasks /\ faults \in 0 .. MaxFaults
      BY <1>1, TaskLifecycleAssumption DEF LifecycleInit
    <2>4. QED BY <1>3, <1>4, <2>1, <2>2, <2>3 DEF LifecycleTypeOK
  <1>9. \A w \in Workers : WorkerTells(w)
    BY <1>5, <1>6 DEF WorkerTells
  <1>10. \A t \in Tasks \ untold : UnderWay(t)
    BY <1>1, <1>2, <1>3 DEF UnderWay, InQueue, BagIn
  <1>11. QED BY <1>7, <1>8, <1>9, <1>10 DEF LogInv

LEMMA MovesIs ==
  ASSUME WorkerType, NEW w \in Workers, NEW to \in Steps, Moves(w, to)
  PROVE  /\ WorkerType'
         /\ \A v \in Workers : /\ worker'[v].task = worker[v].task
                               /\ worker'[v].retries = worker[v].retries
                               /\ worker'[v].step = IF v = w THEN to ELSE worker[v].step
  BY DEF WorkerType, Moves

\* A message that may be in the queue.
LEMMA MessageFits ==
  ASSUME LifecycleTypeOK, NEW t \in Tasks, NEW r
  PROVE  /\ r \in 0 .. MaxRetries[t] =>
                Message(t, r) \in UNION {{Message(u, s) : s \in 0 .. MaxRetries[u]} : u \in Tasks}
         /\ BagIn(Message(t, r), queue) => r \in 0 .. MaxRetries[t]
  <1>1. ASSUME BagIn(Message(t, r), queue)
        PROVE  r \in 0 .. MaxRetries[t]
    <2>1. PICK u \in Tasks : \E s \in 0 .. MaxRetries[u] : Message(t, r) = Message(u, s)
      BY <1>1 DEF LifecycleTypeOK, BagToSet, BagIn
    <2>2. QED BY <2>1, MessageIs
  <1>2. QED BY <1>1

ExecutionRow == [state : {"none", "STARTED", "RETRY", "SUCCESS", "FAILURE"}, finished : BOOLEAN]

LEMMA UpdateTyped ==
  ASSUME execution \in [Tasks -> ExecutionRow], NEW t \in Tasks,
         NEW state \in {"RETRY", "SUCCESS", "FAILURE"}, NEW finished \in BOOLEAN,
         Update(t, state, finished)
  PROVE  execution' \in [Tasks -> ExecutionRow]
  <1>1. execution[t].finished \in BOOLEAN
    BY DEF ExecutionRow
  <1>2. [state |-> state, finished |-> execution[t].finished \/ finished] \in ExecutionRow
    BY <1>1 DEF ExecutionRow
  <1>3. execution' \in {execution, [execution EXCEPT ![t] =
                [state |-> state, finished |-> execution[t].finished \/ finished]]}
    BY DEF Update
  <1>4. QED BY <1>2, <1>3

\* What the retry limit and the steps bound.
LEMMA TypeStep ==
  ASSUME LogInv, LifecycleStep
  PROVE  WorkerType' /\ LifecycleTypeOK'
  <1> USE DEF LogInv
  <1> DEFINE All == UNION {{Message(t, r) : r \in 0 .. MaxRetries[t]} : t \in Tasks}
             WorkersOK == \A w \in Workers : /\ worker[w].step \in Steps
                                             /\ worker[w].task \in Tasks
                                             /\ worker[w].retries \in 0 .. MaxRetries[worker[w].task]
             QueueOK == IsABag(queue) /\ BagToSet(queue) \subseteq All
             RowsOK == /\ execution \in [Tasks -> [state : {"none", "STARTED", "RETRY", "SUCCESS", "FAILURE"},
                                                   finished : BOOLEAN]]
                       /\ deadLetter \subseteq Tasks /\ done \subseteq Tasks /\ untold \subseteq Tasks
             FaultsOK == faults \in 0 .. MaxFaults
  <1>0. WorkersOK /\ QueueOK /\ RowsOK /\ FaultsOK
    BY DEF LifecycleTypeOK
  <1>1. SUFFICES WorkerType' /\ WorkersOK' /\ QueueOK' /\ RowsOK' /\ FaultsOK'
    BY DEF LifecycleTypeOK
  <1>2. \A kind : Happens(kind) => FaultsOK'
    BY <1>0, TaskLifecycleAssumption DEF Happens
  <1>3. \A m : queue' = queue (-) SetToBag({m}) => QueueOK'
    BY <1>0, Take
  <1>4. ASSUME NEW m \in All, queue' = queue (+) SetToBag({m}) PROVE QueueOK'
    BY <1>0, <1>4, Put
  <1>5. ASSUME NEW w \in Workers, NEW to \in Steps, Moves(w, to) PROVE WorkerType' /\ WorkersOK'
    BY <1>0, <1>5, MovesIs
  <1>6. UNCHANGED worker => WorkerType' /\ WorkersOK'
    BY <1>0 DEF WorkerType
  <1>7. UNCHANGED queue => QueueOK'
    BY <1>0
  <1>8. \A w \in Workers : MessageOf(w) \in All
    BY <1>0 DEF MessageOf
  <1>9. \A w \in Workers : worker[w].retries < MaxRetries[worker[w].task] =>
            Message(worker[w].task, worker[w].retries + 1) \in All
    <2>1. SUFFICES ASSUME NEW w \in Workers, worker[w].retries < MaxRetries[worker[w].task]
                   PROVE  Message(worker[w].task, worker[w].retries + 1) \in All
      OBVIOUS
    <2>2. worker[w].retries + 1 \in 0 .. MaxRetries[worker[w].task]
      BY <1>0, <2>1, TaskLifecycleAssumption
    <2>3. QED BY <1>0, <2>2
  <1>10. CASE UNCHANGED lifecycleVars
    BY <1>0, <1>6, <1>7, <1>10 DEF lifecycleVars
  <1>11. ASSUME NEW w \in Workers, NEW t \in Tasks, NEW r \in 0 .. MaxRetries[t],
                Receive(w, Message(t, r))
         PROVE  WorkerType' /\ WorkersOK' /\ QueueOK' /\ RowsOK' /\ FaultsOK'
    <2>1. r \in Nat
      BY TaskLifecycleAssumption
    <2>2. worker' = [worker EXCEPT ![w] = [step |-> "prerun", task |-> t, retries |-> r]]
      BY <1>11, MessageIs DEF Receive
    <2>3. WorkerType' /\ WorkersOK'
      BY <1>0, <2>1, <2>2 DEF WorkerType, Steps
    <2>4. QueueOK'
      BY <1>3, <1>11 DEF Receive
    <2>5. RowsOK'
      BY <1>0, <1>11, MessageIs DEF Receive
    <2>6. FaultsOK'
      BY <1>0, <1>2, <1>11 DEF Receive
    <2>7. QED BY <2>3, <2>4, <2>5, <2>6
  <1>12. ASSUME NEW w \in Workers, HandlerStep(w)
         PROVE  WorkerType' /\ WorkersOK' /\ QueueOK' /\ RowsOK' /\ FaultsOK'
    <2>1. PICK to \in Steps : Moves(w, to)
      BY <1>12 DEF HandlerStep, Prerun, Postrun, Retry, DeadLetter, Failure, Acknowledge,
                   Handler, Steps
    <2>2. UNCHANGED <<queue, done>>
      BY <1>12 DEF HandlerStep, Prerun, Postrun, Retry, DeadLetter, Failure, Acknowledge, Handler
    <2>3. FaultsOK'
      BY <1>0, <1>2, <1>12
         DEF HandlerStep, Prerun, Postrun, Retry, DeadLetter, Failure, Acknowledge, Handler
    <2>4. worker[w].task \in Tasks
      BY <1>0
    <2>5. RowsOK'
      <3>1. CASE Acknowledge(w)
        BY <1>0, <3>1 DEF Acknowledge
      <3>2. CASE Prerun(w)
        <4>1. StartedRow \in ExecutionRow
          BY DEF StartedRow, ExecutionRow
        <4>2. execution' \in [Tasks -> ExecutionRow]
          BY <1>0, <2>4, <3>2, <4>1 DEF Prerun, Handler, ExecutionRow
        <4>3. QED BY <1>0, <2>4, <3>2, <4>2 DEF Prerun, Handler, ExecutionRow
      <3>3. CASE DeadLetter(w)
        BY <1>0, <2>4, <3>3 DEF DeadLetter, Handler
      <3>4. CASE Postrun(w)
        BY <1>0, <2>4, <3>4, UpdateTyped DEF Postrun, Handler, ExecutionRow
      <3>5. CASE Retry(w)
        BY <1>0, <2>4, <3>5, UpdateTyped DEF Retry, Handler, ExecutionRow
      <3>6. CASE Failure(w)
        BY <1>0, <2>4, <3>6, UpdateTyped DEF Failure, Handler, ExecutionRow
      <3>7. QED BY <1>12, <3>1, <3>2, <3>3, <3>4, <3>5, <3>6 DEF HandlerStep
    <2>6. QED BY <1>5, <1>7, <2>1, <2>2, <2>3, <2>5
  <1>13. ASSUME NEW w \in Workers, Returns(w)
         PROVE  WorkerType' /\ WorkersOK' /\ QueueOK' /\ RowsOK' /\ FaultsOK'
    <2>1. WorkerType' /\ WorkersOK'
      BY <1>5, <1>13 DEF Returns, Steps
    <2>2. QED BY <1>0, <1>7, <1>13, <2>1 DEF Returns
  <1>14. ASSUME NEW w \in Workers, Raises(w), faults' \in {faults, faults + 1},
                faults' # faults => faults < MaxFaults
         PROVE  WorkerType' /\ WorkersOK' /\ QueueOK' /\ RowsOK' /\ FaultsOK'
    <2>1. WorkerType' /\ WorkersOK'
      BY <1>5, <1>14 DEF Raises, Steps
    <2>2. QueueOK'
      BY <1>4, <1>7, <1>9, <1>14 DEF Raises
    <2>3. FaultsOK'
      BY <1>0, <1>14, TaskLifecycleAssumption
    <2>4. QED BY <1>0, <1>14, <2>1, <2>2, <2>3 DEF Raises
  <1>15. ASSUME NEW w \in Workers, Crash(w)
         PROVE  WorkerType' /\ WorkersOK' /\ QueueOK' /\ RowsOK' /\ FaultsOK'
    <2>1. WorkerType' /\ WorkersOK'
      BY <1>5, <1>15 DEF Crash, Steps
    <2>2. QueueOK'
      BY <1>4, <1>7, <1>8, <1>15 DEF Crash, Unacknowledged
    <2>3. worker[w].task \in Tasks
      BY <1>0
    <2>4. QED BY <1>0, <1>2, <1>15, <2>1, <2>2, <2>3 DEF Crash
  <1>16. ASSUME NEW w \in Workers, HardTimeLimit(w)
         PROVE  WorkerType' /\ WorkersOK' /\ QueueOK' /\ RowsOK' /\ FaultsOK'
    <2>1. WorkerType' /\ WorkersOK'
      BY <1>5, <1>16 DEF HardTimeLimit, Steps
    <2>2. QED BY <1>0, <1>2, <1>7, <1>16, <2>1 DEF HardTimeLimit
  <1> HIDE DEF WorkersOK, QueueOK, RowsOK, FaultsOK
  <1>17. QED
    BY <1>10, <1>11, <1>12, <1>13, <1>14, <1>15, <1>16 DEF LifecycleStep

LogTells ==
    /\ \A w \in Workers : WorkerTells(w)
    /\ \A t \in Tasks \ untold : UnderWay(t) \/ Told(t)

\* A step of one worker that only adds to what others rely on.
LEMMA OthersKeepTelling ==
  ASSUME LogInv, NEW w \in Workers, NEW to \in Steps, Moves(w, to),
         \A e : BagIn(e, queue) => BagIn(e, queue'),
         untold \subseteq untold', done \subseteq done', deadLetter \subseteq deadLetter',
         \A t \in Tasks : execution[t] # NoRow => execution'[t] # NoRow,
         \A t \in Tasks \ {worker[w].task} : execution'[t] = execution[t],
         WorkerTells(w)',
         worker[w].task \notin untold' => UnderWay(worker[w].task)' \/ Told(worker[w].task)'
  PROVE  LogTells'
  <1>1. \A v \in Workers : /\ worker'[v].task = worker[v].task
                           /\ worker'[v].retries = worker[v].retries
                           /\ worker'[v].step = IF v = w THEN to ELSE worker[v].step
    BY MovesIs DEF LogInv
  <1>2. ASSUME NEW v \in Workers PROVE WorkerTells(v)'
    <2>1. CASE v = w
      BY <2>1
    <2>2. CASE v # w
      <3>1. WorkerTells(v) /\ worker[v].task \in Tasks
        BY DEF LogInv, LifecycleTypeOK
      <3>2. QED BY <1>1, <2>2, <3>1 DEF WorkerTells, Message
    <2>3. QED BY <2>1, <2>2
  <1>3. ASSUME NEW t \in Tasks \ untold' PROVE UnderWay(t)' \/ Told(t)'
    <2>1. CASE t = worker[w].task
      BY <1>1, <2>1 DEF UnderWay, InQueue, Told, Message
    <2>2. CASE t # worker[w].task
      <3>1. CASE InQueue(t)
        BY <3>1 DEF InQueue, UnderWay, Message
      <3>2. CASE \E v \in Workers : worker[v].task = t /\ worker[v].step \notin {"idle", "ack"}
        BY <1>1, <2>2, <3>2 DEF UnderWay
      <3>3. CASE Told(t)
        BY <2>2, <3>3 DEF Told
      <3>4. QED BY <3>1, <3>2, <3>3 DEF LogInv, UnderWay
    <2>3. QED BY <2>1, <2>2
  <1>4. QED BY <1>2, <1>3 DEF LogTells

LEMMA ReceiveTells ==
  ASSUME LogInv, NEW w \in Workers, NEW t \in Tasks, NEW r \in 0 .. MaxRetries[t],
         Receive(w, Message(t, r))
  PROVE  LogTells'
  <1> DEFINE m == Message(t, r)
  <1>1. /\ worker' = [worker EXCEPT ![w] = [step |-> "prerun", task |-> t, retries |-> r]]
        /\ queue' = queue (-) SetToBag({m})
        /\ UNCHANGED <<execution, deadLetter, done>>
        /\ worker[w].step = "idle"
        /\ untold \subseteq untold'
        /\ t \notin untold' => ~HandlerPending(m)
    BY MessageIs DEF Receive, Busy
  <1>2. \A e : BagIn(e, queue) /\ e # m => BagIn(e, queue')
    BY <1>1, Take DEF LogInv, LifecycleTypeOK
  <1> HIDE DEF m
  <1>3. \A v \in Workers : worker'[v] = IF v = w THEN [step |-> "prerun", task |-> t, retries |-> r]
                                        ELSE worker[v]
    BY <1>1 DEF LogInv, WorkerType
  <1>4. ASSUME NEW v \in Workers PROVE WorkerTells(v)'
    <2>1. CASE v = w
      BY <1>3, <2>1 DEF WorkerTells
    <2>2. CASE v # w
      <3>1. WorkerTells(v) /\ worker'[v] = worker[v]
        BY <1>3, <2>2 DEF LogInv
      <3>2. ASSUME worker[v].task \notin untold', worker[v].step = "retry"
            PROVE  BagIn(Message(worker[v].task, worker[v].retries + 1), queue')
        <4>1. BagIn(Message(worker[v].task, worker[v].retries + 1), queue)
          BY <1>1, <3>1, <3>2 DEF WorkerTells
        <4>2. Message(worker[v].task, worker[v].retries + 1) # m
          BY <1>1, <3>2, MessageIs DEF HandlerPending, m
        <4>3. QED BY <1>2, <4>1, <4>2
      <3>3. QED BY <1>1, <3>1, <3>2 DEF WorkerTells, Message
    <2>3. QED BY <2>1, <2>2
  <1>5. ASSUME NEW u \in Tasks \ untold' PROVE UnderWay(u)' \/ Told(u)'
    <2>1. CASE u = t
      BY <1>3, <2>1 DEF UnderWay
    <2>2. CASE u # t
      <3>1. CASE InQueue(u)
        <4>1. PICK k \in 0 .. MaxRetries[u] : BagIn(Message(u, k), queue)
          BY <3>1 DEF InQueue
        <4>2. BagIn(Message(u, k), queue')
          BY <1>2, <2>2, <4>1, MessageIs DEF m
        <4>3. QED BY <4>2 DEF UnderWay, InQueue, Message
      <3>2. CASE \E v \in Workers : worker[v].task = u /\ worker[v].step \notin {"idle", "ack"}
        BY <1>1, <1>3, <3>2 DEF UnderWay
      <3>3. CASE Told(u)
        BY <1>1, <3>3 DEF Told
      <3>4. QED BY <1>1, <3>1, <3>2, <3>3 DEF LogInv, UnderWay
    <2>3. QED BY <2>1, <2>2
  <1>6. QED BY <1>4, <1>5 DEF LogTells

\* A handler that could not write has said nothing of its task.
LEMMA SilentHandlerTells ==
  ASSUME LogInv, NEW w \in Workers, NEW to \in Steps, Moves(w, to), to # "postrun",
         untold' = untold \cup {worker[w].task}, UNCHANGED <<queue, done, deadLetter, execution>>
  PROVE  LogTells'
  <1>1. WorkerTells(w)'
    BY MovesIs DEF LogInv, WorkerTells
  <1>2. QED BY <1>1, OthersKeepTelling

LEMMA HandlerTells ==
  ASSUME LogInv, NEW w \in Workers, HandlerStep(w)
  PROVE  LogTells'
  <1> DEFINE t == worker[w].task
  <1>1. /\ WorkerType /\ LifecycleTypeOK /\ WorkerTells(w)
        /\ t \in Tasks
        /\ execution \in [Tasks -> ExecutionRow]
        /\ ~execution[t].finished \/ execution[t] # NoRow
    BY DEF LogInv, LifecycleTypeOK, ExecutionRow, NoRow
  <1>2. \A to \in Steps : Moves(w, to) => /\ worker'[w].task = t
                                          /\ worker'[w].retries = worker[w].retries
                                          /\ worker'[w].step = to
    BY <1>1, MovesIs
  <1>3. CASE Acknowledge(w)
    <2>1. worker[w].step = "ack" /\ Moves(w, "idle") /\ "idle" \in Steps
          /\ UNCHANGED <<queue, execution, deadLetter, done, untold>>
      BY <1>3 DEF Acknowledge, Steps
    <2>2. WorkerTells(w)'
      BY <1>2, <2>1 DEF WorkerTells
    <2>3. ASSUME t \notin untold, UnderWay(t) PROVE UnderWay(t)'
      <3>1. CASE InQueue(t)
        BY <1>2, <2>1, <3>1 DEF InQueue, UnderWay, Message
      <3>2. CASE \E v \in Workers : worker[v].task = t /\ worker[v].step \notin {"idle", "ack"}
        BY <1>1, <2>1, <3>2, MovesIs DEF UnderWay
      <3>3. QED BY <2>3, <3>1, <3>2 DEF UnderWay
    <2>4. t \notin untold' => UnderWay(t)' \/ Told(t)'
      BY <1>1, <1>2, <2>1, <2>3 DEF LogInv, Told
    <2>5. QED BY <2>1, <2>2, <2>4, OthersKeepTelling
  <1>4. CASE Prerun(w)
    <2>1. Moves(w, "body") /\ "body" \in Steps /\ UNCHANGED <<queue, done, deadLetter>>
      BY <1>4 DEF Prerun, Handler, Steps
    <2>2. CASE /\ execution' = IF execution[t] = NoRow THEN [execution EXCEPT ![t] = StartedRow] ELSE execution
               /\ UNCHANGED untold
      <3>1. /\ execution'[t] # NoRow
            /\ \A u \in Tasks \ {t} : execution'[u] = execution[u]
        BY <1>1, <2>2 DEF NoRow, StartedRow
      <3>2. WorkerTells(w)' /\ UnderWay(t)'
        BY <1>2, <2>1, <3>1 DEF WorkerTells, UnderWay
      <3>3. \A u \in Tasks : execution[u] # NoRow => execution'[u] # NoRow
        BY <3>1
      <3>4. QED BY <2>1, <2>2, <3>1, <3>2, <3>3, OthersKeepTelling
    <2>3. CASE untold' = untold \cup {t} /\ UNCHANGED execution
      BY <2>1, <2>3, SilentHandlerTells
    <2>4. QED BY <1>4, <2>2, <2>3 DEF Prerun, Handler
  <1>5. CASE DeadLetter(w)
    <2>0. PICK to \in {"failed", "buried"} :
              /\ Moves(w, to) /\ (to = "failed" => worker[w].step = "failure")
              /\ UNCHANGED <<queue, done, execution>>
              /\ \/ deadLetter' = deadLetter \cup {t} /\ UNCHANGED untold
                 \/ untold' = untold \cup {t} /\ UNCHANGED deadLetter
      BY <1>5 DEF DeadLetter, Handler
    <2>1. to \in Steps
      BY DEF Steps
    <2>2. CASE deadLetter' = deadLetter \cup {t} /\ UNCHANGED untold
      <3>1. WorkerTells(w)' /\ UnderWay(t)'
        BY <1>1, <1>2, <2>0, <2>1, <2>2 DEF WorkerTells, UnderWay
      <3>2. QED BY <2>0, <2>1, <2>2, <3>1, OthersKeepTelling
    <2>3. CASE untold' = untold \cup {t} /\ UNCHANGED deadLetter
      BY <2>0, <2>1, <2>3, SilentHandlerTells
    <2>4. QED BY <2>0, <2>2, <2>3
  <1>6. ASSUME NEW from \in {"postrun", "retry", "failed", "buried"}, NEW to \in {"ack", "idle"},
               NEW state \in {"SUCCESS", "RETRY", "FAILURE"},
               NEW finished \in BOOLEAN,
               Handler(w, from, to, Update(t, state, finished) /\ UNCHANGED deadLetter),
               from = "postrun" => state = "SUCCESS" /\ finished,
               from \in {"failed", "buried"} => state = "FAILURE" /\ finished
        PROVE  LogTells'
    <2>1. Moves(w, to) /\ to \in Steps /\ UNCHANGED <<queue, done, deadLetter>>
          /\ worker[w].step = from
      BY <1>6 DEF Handler, Steps
    <2>2. CASE Update(t, state, finished) /\ UNCHANGED untold
      <3>1. \A u \in Tasks \ {t} : execution'[u] = execution[u]
        BY <1>1, <2>2 DEF Update
      <3>2. execution[t] # NoRow => execution'[t] # NoRow /\ execution'[t].state = state
                                    /\ (finished => execution'[t].finished)
        <4>1. execution[t] # NoRow =>
                  execution'[t] = [state |-> state, finished |-> execution[t].finished \/ finished]
          BY <1>1, <2>2 DEF Update
        <4>2. QED BY <4>1 DEF NoRow
      <3>3. WorkerTells(w)'
        BY <1>2, <2>1 DEF WorkerTells
      <3>4. ASSUME t \notin untold PROVE UnderWay(t)' \/ Told(t)'
        <4>1. from # "buried" => execution[t] # NoRow
          BY <1>1, <2>1, <3>4 DEF WorkerTells
        <4>2. CASE from = "retry"
          <5>1. BagIn(Message(t, worker[w].retries + 1), queue)
            BY <1>1, <2>1, <3>4, <4>2 DEF WorkerTells
          <5>2. worker[w].retries + 1 \in 0 .. MaxRetries[t]
            BY <1>1, <5>1, MessageFits
          <5>3. QED BY <1>2, <2>1, <5>1, <5>2 DEF UnderWay, InQueue, Message
        <4>3. CASE from = "postrun"
          BY <1>1, <1>2, <1>6, <2>1, <3>2, <4>1, <4>3 DEF WorkerTells, Told
        <4>4. CASE from = "failed"
          BY <1>1, <1>2, <1>6, <2>1, <3>2, <3>4, <4>1, <4>4 DEF WorkerTells, Told
        <4>5. CASE from = "buried"
          <5>1. t \in deadLetter
            BY <1>1, <2>1, <3>4, <4>5 DEF WorkerTells
          <5>2. CASE execution[t] = NoRow
            <6>1. execution' = execution
              BY <2>2, <5>2 DEF Update
            <6>2. QED BY <1>2, <2>1, <5>1, <5>2, <6>1 DEF Told
          <5>3. CASE execution[t] # NoRow
            BY <1>2, <1>6, <2>1, <3>2, <4>5, <5>1, <5>3 DEF Told
          <5>4. QED BY <5>2, <5>3
        <4>6. QED BY <4>2, <4>3, <4>4, <4>5
      <3>5. \A u \in Tasks : execution[u] # NoRow => execution'[u] # NoRow
        BY <3>1, <3>2
      <3>6. QED BY <2>1, <2>2, <3>1, <3>3, <3>4, <3>5, OthersKeepTelling
    <2>3. CASE untold' = untold \cup {t} /\ UNCHANGED execution
      BY <2>1, <2>3, SilentHandlerTells
    <2>4. QED BY <1>6, <2>2, <2>3 DEF Handler
  <1>7. CASE Postrun(w)
    BY <1>6, <1>7 DEF Postrun
  <1>8. CASE Retry(w)
    BY <1>6, <1>8 DEF Retry
  <1>9. CASE Failure(w)
    <2>1. \/ Handler(w, "failed", "ack", Update(t, "FAILURE", TRUE) /\ UNCHANGED deadLetter)
          \/ Handler(w, "buried", "idle", Update(t, "FAILURE", TRUE) /\ UNCHANGED deadLetter)
      BY <1>9 DEF Failure
    <2>2. QED BY <1>6, <2>1
  <1>10. QED BY <1>3, <1>4, <1>5, <1>7, <1>8, <1>9 DEF HandlerStep

\* The body, and what takes the process from it.
LEMMA BodyTells ==
  ASSUME LogInv, NEW w \in Workers, worker[w].step = "body", Returns(w) \/ Raises(w)
  PROVE  LogTells'
  <1> DEFINE t == worker[w].task
  <1>1. /\ WorkerType /\ IsABag(queue) /\ WorkerTells(w)
        /\ t \in Tasks
    BY DEF LogInv, LifecycleTypeOK
  <1>2. \A to \in Steps : Moves(w, to) => /\ worker'[w].task = t
                                          /\ worker'[w].retries = worker[w].retries
                                          /\ worker'[w].step = to
    BY <1>1, MovesIs
  <1>3. CASE Returns(w)
    <2>1. Moves(w, "postrun") /\ "postrun" \in Steps /\ done' = done \cup {t}
          /\ UNCHANGED <<queue, execution, deadLetter, untold>>
      BY <1>3 DEF Returns, Steps
    <2>2. WorkerTells(w)' /\ UnderWay(t)'
      BY <1>1, <1>2, <2>1 DEF WorkerTells, UnderWay
    <2>3. QED BY <2>1, <2>2, OthersKeepTelling
  <1>4. CASE Raises(w)
    <2>1. UNCHANGED <<execution, deadLetter, done, untold>>
      BY <1>4 DEF Raises
    <2>2. CASE /\ queue' = queue (+) SetToBag({Message(t, worker[w].retries + 1)})
               /\ Moves(w, "retry")
      <3>1. /\ \A e : BagIn(e, queue) => BagIn(e, queue')
            /\ BagIn(Message(t, worker[w].retries + 1), queue')
        BY <1>1, <2>2, Put
      <3>2. "retry" \in Steps
        BY DEF Steps
      <3>3. WorkerTells(w)' /\ UnderWay(t)'
        BY <1>1, <1>2, <2>1, <2>2, <3>1, <3>2 DEF WorkerTells, UnderWay, Message
      <3>4. QED BY <2>1, <2>2, <3>1, <3>2, <3>3, OthersKeepTelling
    <2>3. CASE Moves(w, "failure") /\ UNCHANGED queue
      <3>1. "failure" \in Steps
        BY DEF Steps
      <3>2. WorkerTells(w)' /\ UnderWay(t)'
        BY <1>1, <1>2, <2>1, <2>3, <3>1 DEF WorkerTells, UnderWay
      <3>3. QED BY <2>1, <2>3, <3>1, <3>2, OthersKeepTelling
    <2>4. QED BY <1>4, <2>2, <2>3 DEF Raises
  <1>5. QED BY <1>3, <1>4

LEMMA LossTells ==
  ASSUME LogInv, NEW w \in Workers, Crash(w) \/ HardTimeLimit(w)
  PROVE  LogTells'
  <1> DEFINE t == worker[w].task
  <1>1. /\ WorkerType /\ IsABag(queue)
        /\ t \in Tasks /\ worker[w].retries \in 0 .. MaxRetries[t]
    BY DEF LogInv, LifecycleTypeOK
  <1>2. "idle" \in Steps /\ "killed" \in Steps
    BY DEF Steps
  <1>3. CASE Crash(w) /\ ~Killed(w)
    <2>1. /\ queue' = queue (+) SetToBag({Message(t, worker[w].retries)})
          /\ Moves(w, "idle") /\ UNCHANGED <<execution, deadLetter, done, untold>>
      BY <1>3 DEF Crash, Unacknowledged, MessageOf
    <2>2. /\ \A e : BagIn(e, queue) => BagIn(e, queue')
          /\ BagIn(Message(t, worker[w].retries), queue')
      BY <1>1, <2>1, Put
    <2>3. WorkerTells(w)'
      BY <1>1, <1>2, <2>1, MovesIs DEF WorkerTells
    <2>4. UnderWay(t)'
      BY <1>1, <1>2, <2>1, <2>2, MovesIs DEF UnderWay, InQueue, Message
    <2>5. QED BY <1>2, <2>1, <2>2, <2>3, <2>4, OthersKeepTelling
  <1>4. CASE Crash(w) /\ Killed(w)
    BY <1>2, <1>4, SilentHandlerTells DEF Crash
  <1>5. CASE HardTimeLimit(w)
    <2>1. Moves(w, "killed") /\ UNCHANGED <<queue, execution, deadLetter, done, untold>>
      BY <1>5 DEF HardTimeLimit
    <2>2. WorkerTells(w)' /\ UnderWay(t)'
      BY <1>1, <1>2, <2>1, MovesIs DEF WorkerTells, UnderWay
    <2>3. QED BY <1>2, <2>1, <2>2, OthersKeepTelling
  <1>6. QED BY <1>3, <1>4, <1>5

LEMMA LogStep ==
  ASSUME LogInv, [Next]_allVars
  PROVE  LogInv'
  <1>1. LifecycleStep
    BY StepsOfLifecycle
  <1>2. WorkerType' /\ LifecycleTypeOK'
    BY <1>1, TypeStep
  <1>3. LogTells'
    <2>1. CASE UNCHANGED lifecycleVars
      BY <2>1 DEF lifecycleVars, LogInv, LogTells, WorkerTells, UnderWay, InQueue, Told, Message
    <2>2. QED
      BY <1>1, <2>1, ReceiveTells, HandlerTells, BodyTells, LossTells DEF LifecycleStep
  <1>4. QED BY <1>2, <1>3 DEF LogInv, LogTells

-----------------------------------------------------------------------------
(***************************************************************************)
(* The clusters.  Unless two runs have overlapped, one row set at most is  *)
(* committed, it is the one the run under way has seen, and every posting  *)
(* with a label is read and relabelled by that run.                        *)
(***************************************************************************)
Active(w) == run[w].step # "none"

RunTaken(w) == run[w].step \in {"delete", "insert", "commit"}

OneRunAtATime ==
    ~overlapped =>
        /\ \A v, w \in Workers : Active(v) /\ Active(w) => v = w
        /\ \A c, d \in clusters : c = d
        /\ \A p \in Postings : label[p] # 0 => label[p] \in clusters /\ p \in embedded
        /\ \A w \in Workers :
               /\ Active(w) => \A p \in Postings : label[p] # 0 => p \in run[w].read
               /\ RunTaken(w) => run[w].seen = clusters

ClusteringInv ==
    /\ ClusteringTypeOK
    /\ \A w \in Workers : RunTaken(w) => run[w].runAt # 0
    /\ \A w \in Workers : run[w].read \subseteq embedded
    /\ clusters = {} => \A p \in Postings : label[p] = 0
    /\ OneRunAtATime

\* The transactions, seen at a clock.
RunType(c) == [step : {"none", "fit", "delete", "insert", "commit"},
               read : SUBSET Postings, runAt : 0 .. c, seen : SUBSET (1 .. c)]

LEMMA RunsAre ==
  ASSUME ClusteringTypeOK
  PROVE  /\ run \in [Workers -> RunType(clock)]
         /\ NoRun \in RunType(clock)
         /\ \A w \in Workers : /\ run[w].step \in {"none", "fit", "delete", "insert", "commit"}
                               /\ run[w].read \subseteq Postings
                               /\ run[w].runAt \in 0 .. clock
                               /\ run[w].seen \subseteq 1 .. clock
  <1>1. run \in [Workers -> RunType(clock)] /\ clock \in Nat
    BY DEF ClusteringTypeOK, RunType
  <1>2. NoRun \in RunType(clock)
    BY <1>1 DEF NoRun, RunType
  <1>3. \A w \in Workers : run[w] \in RunType(clock)
    BY <1>1
  <1>4. QED BY <1>1, <1>2, <1>3 DEF RunType

LEMMA ClusteringBegins == ASSUME Init PROVE ClusteringInv
  <1>1. ClusteringInit
    BY DEF Init
  <1>2. NoRun \in RunType(0)
    BY DEF NoRun, RunType
  <1>3. run \in [Workers -> RunType(0)]
    BY <1>1, <1>2 DEF ClusteringInit
  <1>4. ClusteringTypeOK
    <2>1. label \in [Postings -> 0 .. 0]
      BY <1>1 DEF ClusteringInit
    <2>2. QED
      BY <1>1, <1>3, <2>1, ClusteringAssumption DEF ClusteringInit, ClusteringTypeOK, RunType
  <1>5. QED
    BY <1>1, <1>4 DEF ClusteringInit, ClusteringInv, OneRunAtATime, Active, RunTaken, NoRun

\* A run that ends without a commit leaves nothing.
LEMMA DropKeepsClusters ==
  ASSUME ClusteringInv, NEW w \in Workers, run' = [run EXCEPT ![w] = NoRun],
         UNCHANGED <<embedded, clusters, label, clock, overlapped>>
  PROVE  ClusteringInv'
  <1>1. \A v \in Workers : run'[v] = IF v = w THEN NoRun ELSE run[v]
    BY RunsAre DEF ClusteringInv
  <1>2. run' \in [Workers -> RunType(clock)]
    BY RunsAre DEF ClusteringInv
  <1>3. ClusteringTypeOK'
    BY <1>2 DEF ClusteringInv, ClusteringTypeOK, RunType
  <1>4. QED
    BY <1>1, <1>3 DEF ClusteringInv, OneRunAtATime, Active, RunTaken, NoRun

LEMMA ReadKeepsClusters ==
  ASSUME ClusteringInv, NEW w \in Workers, ReadEmbeddings(w)
  PROVE  ClusteringInv'
  <1> DEFINE r == [NoRun EXCEPT !.step = "fit", !.read = embedded]
  <1>1. /\ run[w].step = "none" /\ run' = [run EXCEPT ![w] = r]
        /\ overlapped' = (overlapped \/ \E v \in Workers \ {w} : run[v].step # "none")
        /\ UNCHANGED <<embedded, clusters, label, clock>>
    BY DEF ReadEmbeddings, RunStep
  <1>2. r.step = "fit" /\ r.read = embedded /\ r \in RunType(clock)
    <2>1. NoRun \in RunType(clock) /\ embedded \subseteq Postings
      BY RunsAre DEF ClusteringInv, ClusteringTypeOK
    <2>2. r \in RunType(clock)
      BY <2>1 DEF RunType
    <2>3. r.step = "fit" /\ r.read = embedded
      BY DEF NoRun
    <2>4. QED BY <2>2, <2>3
  <1> HIDE DEF r
  <1>3. \A v \in Workers : run'[v] = IF v = w THEN r ELSE run[v]
    BY <1>1, RunsAre DEF ClusteringInv
  <1>4. run' \in [Workers -> RunType(clock)]
    BY <1>1, <1>2, RunsAre DEF ClusteringInv
  <1>5. ClusteringTypeOK'
    BY <1>1, <1>4 DEF ClusteringInv, ClusteringTypeOK, RunType
  <1>6. ASSUME ~overlapped'
        PROVE  /\ ~overlapped
               /\ \A v \in Workers : v # w => ~Active(v) /\ ~Active(v)'
               /\ ~RunTaken(w)'
    BY <1>1, <1>2, <1>3, <1>6 DEF Active, RunTaken
  <1>7. QED
    <2>1. \A v \in Workers : (RunTaken(v)' => run'[v].runAt # 0) /\ run'[v].read \subseteq embedded'
      BY <1>1, <1>2, <1>3 DEF ClusteringInv, RunTaken
    <2>2. OneRunAtATime'
      <3>1. SUFFICES ASSUME ~overlapped'
                     PROVE  /\ \A v, u \in Workers : Active(v)' /\ Active(u)' => v = u
                            /\ \A c, d \in clusters' : c = d
                            /\ \A p \in Postings : label'[p] # 0 => label'[p] \in clusters' /\ p \in embedded'
                            /\ \A u \in Workers :
                                 /\ Active(u)' => \A p \in Postings : label'[p] # 0 => p \in run'[u].read
                                 /\ RunTaken(u)' => run'[u].seen = clusters'
        BY Zenon DEF OneRunAtATime
      <3>2. /\ \A c, d \in clusters : c = d
            /\ \A p \in Postings : label[p] # 0 => label[p] \in clusters /\ p \in embedded
        BY <1>6, <3>1 DEF ClusteringInv, OneRunAtATime
      <3>3. \A u \in Workers : Active(u)' => u = w /\ run'[u].read = embedded /\ ~RunTaken(u)'
        BY <1>2, <1>3, <1>6, <3>1
      <3>4. \A u \in Workers : RunTaken(u)' => Active(u)'
        BY DEF RunTaken, Active
      <3>5. QED BY <1>1, <3>2, <3>3, <3>4
    <2>3. QED BY <1>1, <1>5, <2>1, <2>2 DEF ClusteringInv

\* The steps of a run up to its commit.
LEMMA RunKeepsClusters ==
  ASSUME ClusteringInv, NEW w \in Workers, NEW r \in RunType(clock'),
         run' = [run EXCEPT ![w] = r],
         clock' \in {clock, clock + 1},
         UNCHANGED <<embedded, clusters, label, overlapped>>,
         Active(w),
         r.read = run[w].read, r.step \in {"delete", "insert", "commit"}, r.runAt # 0,
         OneRunAtATime /\ ~overlapped => r.seen = clusters
  PROVE  ClusteringInv'
  <1>1. \A v \in Workers : run'[v] = IF v = w THEN r ELSE run[v]
    BY RunsAre DEF ClusteringInv
  <1>2. clock \in Nat /\ 0 .. clock \subseteq 0 .. clock' /\ 1 .. clock \subseteq 1 .. clock'
    BY DEF ClusteringInv, ClusteringTypeOK
  <1>3. run \in [Workers -> RunType(clock')]
    BY <1>2, RunsAre DEF ClusteringInv, RunType
  <1>4. run' \in [Workers -> RunType(clock')]
    BY <1>3
  <1>5. ClusteringTypeOK'
    <2>1. label' \in [Postings -> 0 .. clock']
      BY <1>2 DEF ClusteringInv, ClusteringTypeOK
    <2>2. clusters' \subseteq 1 .. clock' /\ clock' \in Nat
      BY <1>2 DEF ClusteringInv, ClusteringTypeOK
    <2>3. QED BY <1>4, <2>1, <2>2 DEF ClusteringInv, ClusteringTypeOK, RunType
  <1>6. OneRunAtATime'
    BY <1>1 DEF ClusteringInv, OneRunAtATime, Active, RunTaken
  <1>7. QED
    BY <1>1, <1>5, <1>6 DEF ClusteringInv, RunTaken

LEMMA CommitKeepsClusters ==
  ASSUME ClusteringInv, NEW w \in Workers, Commit(w)
  PROVE  ClusteringInv'
  <1> DEFINE at == run[w].runAt
  <1>1. /\ run[w].step = "commit" /\ run' = [run EXCEPT ![w] = NoRun]
        /\ clusters' = (clusters \ run[w].seen) \cup {at}
        /\ label' = [p \in Postings |-> IF p \in run[w].read THEN at ELSE label[p]]
        /\ UNCHANGED <<embedded, clock, overlapped>>
    BY DEF Commit, RunStep, Relabelled
  <1>2. at \in 1 .. clock
    BY <1>1, RunsAre DEF ClusteringInv, ClusteringTypeOK, RunTaken
  <1> HIDE DEF at
  <1>3. \A v \in Workers : run'[v] = IF v = w THEN NoRun ELSE run[v]
    BY <1>1, RunsAre DEF ClusteringInv
  <1>4. ClusteringTypeOK'
    <2>1. run' \in [Workers -> RunType(clock)]
      BY <1>1, RunsAre DEF ClusteringInv
    <2>2. at \in 0 .. clock
      BY <1>2 DEF ClusteringInv, ClusteringTypeOK
    <2>3. QED BY <1>1, <1>2, <2>1, <2>2 DEF ClusteringInv, ClusteringTypeOK, RunType
  <1>5. ASSUME ~overlapped'
        PROVE  /\ \A v \in Workers : ~Active(v)'
               /\ \A c, d \in clusters' : c = d
               /\ \A p \in Postings : label'[p] # 0 => label'[p] \in clusters' /\ p \in embedded'
    <2>1. /\ \A v \in Workers : Active(v) => v = w
          /\ run[w].seen = clusters
          /\ run[w].read \subseteq embedded
          /\ \A p \in Postings : label[p] # 0 => p \in run[w].read
      BY <1>1, <1>5 DEF ClusteringInv, OneRunAtATime, Active, RunTaken
    <2>2. clusters' = {at}
      BY <1>1, <2>1
    <2>3. \A v \in Workers : ~Active(v)'
      BY <1>3, <2>1 DEF Active, NoRun
    <2>4. QED BY <1>1, <2>1, <2>2, <2>3
  <1>6. QED
    BY <1>1, <1>3, <1>4, <1>5 DEF ClusteringInv, OneRunAtATime, Active, RunTaken, NoRun

LEMMA RunStepsKeepClusters ==
  ASSUME ClusteringInv, NEW w \in Workers,
         BeginDelete(w) \/ Delete(w) \/ InsertAndUpdate(w)
  PROVE  ClusteringInv'
  <1>1. run[w] \in RunType(clock) /\ clock \in Nat /\ clusters \subseteq 1 .. clock
    BY RunsAre DEF ClusteringInv, ClusteringTypeOK
  <1>2. CASE BeginDelete(w)
    <2> DEFINE r == [run[w] EXCEPT !.step = "delete", !.runAt = clock + 1, !.seen = clusters]
    <2>1. /\ run[w].step = "fit" /\ run' = [run EXCEPT ![w] = r] /\ clock' = clock + 1
          /\ UNCHANGED <<embedded, clusters, label, overlapped>>
      BY <1>2 DEF BeginDelete, RunStep
    <2>2. /\ r.read = run[w].read /\ r.step = "delete" /\ r.runAt = clock + 1 /\ r.seen = clusters
      BY <1>1 DEF RunType
    <2>3. r \in RunType(clock')
      <3>1. clock + 1 \in 0 .. clock' /\ clusters \subseteq 1 .. clock'
        BY <1>1, <2>1
      <3>2. run[w] \in RunType(clock')
        <4>1. 0 .. clock \subseteq 0 .. clock' /\ 1 .. clock \subseteq 1 .. clock'
          BY <1>1, <2>1
        <4>2. QED BY <1>1, <4>1 DEF RunType
      <3>3. QED BY <3>1, <3>2 DEF RunType
    <2> HIDE DEF r
    <2>4. r.runAt # 0
      BY <1>1, <2>2
    <2>5. QED BY <2>1, <2>2, <2>3, <2>4, RunKeepsClusters DEF Active
  <1>3. CASE Delete(w)
    <2> DEFINE r == [run[w] EXCEPT !.step = "insert", !.seen = @ \cap clusters]
    <2>1. /\ run[w].step = "delete" /\ run' = [run EXCEPT ![w] = r]
          /\ UNCHANGED <<embedded, clusters, label, overlapped, clock>>
      BY <1>3 DEF Delete, RunStep
    <2>2. /\ r.read = run[w].read /\ r.step = "insert" /\ r.runAt = run[w].runAt
          /\ r.seen = run[w].seen \cap clusters
          /\ r \in RunType(clock)
      BY <1>1 DEF RunType
    <2> HIDE DEF r
    <2>3. r.runAt # 0 /\ (OneRunAtATime /\ ~overlapped => r.seen = clusters)
      BY <2>1, <2>2 DEF ClusteringInv, RunTaken, OneRunAtATime
    <2>4. QED BY <2>1, <2>2, <2>3, RunKeepsClusters DEF Active
  <1>4. CASE InsertAndUpdate(w)
    <2> DEFINE r == [run[w] EXCEPT !.step = "commit"]
    <2>1. /\ run[w].step = "insert" /\ run' = [run EXCEPT ![w] = r]
          /\ UNCHANGED <<embedded, clusters, label, overlapped, clock>>
      BY <1>4 DEF InsertAndUpdate, RunStep
    <2>2. /\ r.read = run[w].read /\ r.step = "commit" /\ r.runAt = run[w].runAt
          /\ r.seen = run[w].seen
          /\ r \in RunType(clock)
      BY <1>1 DEF RunType
    <2> HIDE DEF r
    <2>3. r.runAt # 0 /\ (OneRunAtATime /\ ~overlapped => r.seen = clusters)
      BY <2>1, <2>2 DEF ClusteringInv, RunTaken, OneRunAtATime
    <2>4. QED BY <2>1, <2>2, <2>3, RunKeepsClusters DEF Active
  <1>5. QED BY <1>2, <1>3, <1>4

LEMMA EmbedKeepsClusters ==
  ASSUME ClusteringInv, NEW p \in Postings, Embed(p)
  PROVE  ClusteringInv'
  <1>1. embedded' = embedded \cup {p} /\ UNCHANGED <<clusters, label, run, clock, overlapped>>
    BY DEF Embed
  <1>2. ClusteringTypeOK'
    BY <1>1 DEF ClusteringInv, ClusteringTypeOK
  <1>3. OneRunAtATime'
    BY <1>1 DEF ClusteringInv, OneRunAtATime, Active, RunTaken
  <1>4. QED BY <1>1, <1>2, <1>3 DEF ClusteringInv, RunTaken

LEMMA ClusteringContinues ==
  ASSUME ClusteringInv, [Next]_allVars
  PROVE  ClusteringInv'
  <1>1. CASE UNCHANGED clusteringVars
    BY <1>1 DEF clusteringVars, ClusteringInv, ClusteringTypeOK, OneRunAtATime, Active, RunTaken
  <1>2. CASE UNCHANGED allVars
    BY <1>1, <1>2 DEF allVars
  <1>3. ASSUME NEW w \in Workers, Takes(w) \/ Handles(w) PROVE ClusteringInv'
    BY <1>1, <1>3 DEF Takes, Handles
  <1>4. ASSUME NEW w \in Workers, Lost(w) PROVE ClusteringInv'
    BY <1>4, DropKeepsClusters DEF Lost
  <1>5. ASSUME NEW w \in Workers, ClusteringFails(w) PROVE ClusteringInv'
    BY <1>5, DropKeepsClusters DEF ClusteringFails
  <1>6. ASSUME NEW w \in Workers, ClusteringStep(w) PROVE ClusteringInv'
    <2>1. CASE NothingToCluster(w)
      BY <2>1, DropKeepsClusters DEF NothingToCluster, RunStep
    <2>2. QED
      BY <1>6, <2>1, ReadKeepsClusters, RunStepsKeepClusters, CommitKeepsClusters
         DEF ClusteringStep
  <1>7. ASSUME NEW w \in Workers, Works(w) \/ Fails(w) PROVE ClusteringInv'
    BY <1>1, <1>5, <1>6, <1>7 DEF Works, Fails
  <1>8. QED BY <1>2, <1>3, <1>4, <1>7, EmbedKeepsClusters DEF Next

\* A set of run times that is not empty has a latest one.
LEMMA LatestRunExists ==
  ASSUME ClusteringTypeOK, clusters # {}
  PROVE  LatestRun \in clusters /\ \A c \in clusters : c <= LatestRun
  <1> DEFINE R == OpToRel(<, Nat)
             T == {clock - c : c \in clusters}
  <1>1. clusters \subseteq 1 .. clock /\ clock \in Nat
    BY DEF ClusteringTypeOK
  <1>2. T \subseteq Nat /\ T # {}
    <2>1. ASSUME NEW c \in clusters PROVE clock - c \in Nat
      BY <1>1
    <2>2. QED BY <2>1
  <1>3. PICK x \in T : \A y \in T : <<y, x>> \notin R
    <2> HIDE DEF T
    <2>1. QED BY <1>2, NatLessThanWellFounded, WFMin
  <1>4. \A y \in T : ~(y < x)
    BY <1>2, <1>3 DEF OpToRel
  <1>5. PICK c \in clusters : x = clock - c
    OBVIOUS
  <1>6. \A d \in clusters : d <= c
    <2>1. SUFFICES ASSUME NEW d \in clusters PROVE d <= c
      OBVIOUS
    <2>2. clock - d \in T
      OBVIOUS
    <2>3. ~(clock - d < clock - c)
      BY <1>4, <1>5, <2>2
    <2>4. QED BY <1>1, <2>3
  <1>7. QED BY <1>6 DEF LatestRun

-----------------------------------------------------------------------------
(***************************************************************************)
(* The companies.  A slug is inserted by one transaction at most and never *)
(* over a committed row, so what a transaction sees under a slug stays     *)
(* what it is; and a company has the suffixed slug only where the readable *)
(* one is another's.                                                       *)
(***************************************************************************)
RowsAreNew ==
    /\ \A w \in Workers : \A r \in fetch[w].inserted : company[r.slug] = None
    /\ \A v, w \in Workers : \A r \in fetch[v].inserted, s \in fetch[w].inserted :
           r.slug = s.slug => v = w /\ r = s

Placed(a, readable) ==
    \/ a.slug = Readable(a.base)
    \/ a.slug = Suffixed(a.base, a.name) /\ readable \notin {None, a.name}

DirectoryInv ==
    /\ DirectoryTypeOK
    /\ \A w \in Workers : ~Fetching(w) => fetch[w] = NoFetch
    /\ RowsAreNew
    /\ \A w \in Workers :
           /\ \A a \in fetch[w].picked :
                  Seen(w, a.slug) = a.name /\ Placed(a, Seen(w, Readable(a.base)))
           /\ Resolving(w) /\ fetch[w].try = "digest" =>
                  Seen(w, Readable(Item(w).slug)) \notin {None, Item(w).name}
    /\ \A a \in resolved : company[a.slug] = a.name /\ Placed(a, company[Readable(a.base)])

FetchType == [next : Nat \ {0}, try : {"readable", "digest"},
              inserted : SUBSET Row, picked : SUBSET Pick]

LEMMA SlugsAre ==
  /\ \A s \in Slugs : Readable(s) \in AllSlugs
  /\ \A s \in Slugs, n \in Names : Suffixed(s, n) \in AllSlugs
  /\ \A r, s, n : Readable(r) # Suffixed(s, n)
  BY DEF Readable, Suffixed, AllSlugs

LEMMA FetchesAre ==
  ASSUME DirectoryTypeOK
  PROVE  /\ fetch \in [Workers -> FetchType]
         /\ NoFetch \in FetchType
         /\ \A w \in Workers : /\ fetch[w] \in FetchType
                               /\ fetch[w].next \in Nat \ {0}
                               /\ fetch[w].inserted \subseteq Row
                               /\ fetch[w].picked \subseteq Pick
         /\ \A w \in Workers : \A a \in fetch[w].picked :
                a.name \in Names /\ a.slug \in AllSlugs /\ Readable(a.base) \in AllSlugs
         /\ \A w \in Workers : \A r \in fetch[w].inserted : r.slug \in AllSlugs /\ r.name \in Names
         /\ \A a \in resolved :
                a.name \in Names /\ a.slug \in AllSlugs /\ Readable(a.base) \in AllSlugs
  <1>1. fetch \in [Workers -> FetchType] /\ resolved \subseteq Pick
    BY DEF DirectoryTypeOK, FetchType
  <1>2. NoFetch \in FetchType
    BY DEF NoFetch, FetchType
  <1>3. \A w \in Workers : /\ fetch[w].next \in Nat \ {0}
                           /\ fetch[w].inserted \subseteq Row
                           /\ fetch[w].picked \subseteq Pick
    BY <1>1 DEF FetchType
  <1>4. \A a \in Pick : a.name \in Names /\ a.slug \in AllSlugs /\ Readable(a.base) \in AllSlugs
    BY SlugsAre DEF Pick
  <1>5. \A r \in Row : r.slug \in AllSlugs /\ r.name \in Names
    BY DEF Row
  <1>6. QED BY <1>1, <1>2, <1>3, <1>4, <1>5

LEMMA ItemIs ==
  ASSUME DirectoryTypeOK, NEW w \in Workers, Resolving(w)
  PROVE  /\ Item(w).name \in Names /\ Item(w).slug \in Slugs
         /\ SlugTried(w) \in AllSlugs
  <1>1. WantedBy(w) \in Seq([name : Names, slug : Slugs])
    BY CompanyDirectoryAssumption DEF Resolving, Fetching, WantedBy
  <1>2. fetch[w].next \in 1 .. Len(WantedBy(w))
    BY <1>1, FetchesAre DEF Resolving
  <1>3. Item(w) \in [name : Names, slug : Slugs]
    <2>1. \A X : \A q \in Seq(X) : \A i \in 1 .. Len(q) : q[i] \in X
      OBVIOUS
    <2>2. QED BY <1>1, <1>2, <2>1 DEF Item
  <1>4. QED BY <1>3, SlugsAre DEF SlugTried

LEMMA SeenIs ==
  ASSUME DirectoryTypeOK, RowsAreNew, NEW w \in Workers
  PROVE  /\ \A r \in fetch[w].inserted : Seen(w, r.slug) = r.name
         /\ \A s : (\A r \in fetch[w].inserted : r.slug # s) => Seen(w, s) = company[s]
         /\ \A s \in AllSlugs : company[s] # None => Seen(w, s) = company[s]
         /\ \A s \in AllSlugs : Seen(w, s) \in Names \cup {None}
  <1>1. ASSUME NEW r \in fetch[w].inserted PROVE Seen(w, r.slug) = r.name
    <2> DEFINE found == CHOOSE row \in fetch[w].inserted : row.slug = r.slug
    <2>1. found \in fetch[w].inserted /\ found.slug = r.slug
      OBVIOUS
    <2>2. found = r
      BY <2>1 DEF RowsAreNew
    <2>3. QED BY <2>2 DEF Seen
  <1>2. \A s : (\A r \in fetch[w].inserted : r.slug # s) => Seen(w, s) = company[s]
    BY DEF Seen
  <1>3. \A s \in AllSlugs : company[s] # None => Seen(w, s) = company[s]
    BY <1>2 DEF RowsAreNew
  <1>4. \A s \in AllSlugs : company[s] \in Names \cup {None}
    BY DEF DirectoryTypeOK
  <1>5. \A s \in AllSlugs : Seen(w, s) \in Names \cup {None}
    BY <1>1, <1>2, <1>4, FetchesAre
  <1>6. QED BY <1>1, <1>2, <1>3, <1>5

\* What a worker sees stays what it is while its rows and the table do.
LEMMA SameSight ==
  ASSUME NEW v \in Workers, fetch'[v] = fetch[v], UNCHANGED company
  PROVE  \A s : Seen(v, s)' = Seen(v, s)
  BY DEF Seen

LEMMA DirectoryBegins == ASSUME Init PROVE DirectoryInv
  <1>1. DirectoryInit
    BY DEF Init
  <1>2. \A w \in Workers : fetch[w] = NoFetch
    BY <1>1 DEF DirectoryInit
  <1>3. DirectoryTypeOK
    BY <1>1 DEF DirectoryInit, DirectoryTypeOK, NoFetch
  <1>4. QED
    BY <1>1, <1>2, <1>3 DEF DirectoryInit, DirectoryInv, RowsAreNew, NoFetch

\* The lifecycle touches a transaction only by ending it.
LEMMA IdleKeepsDirectory ==
  ASSUME DirectoryInv, UNCHANGED directoryVars,
         \A v \in Workers : worker'[v] = worker[v] \/ ~Fetching(v)
  PROVE  DirectoryInv'
  <1>1. UNCHANGED <<company, fetch, resolved>>
    BY DEF directoryVars
  <1>2. ASSUME NEW v \in Workers
        PROVE  /\ ~Fetching(v)' => fetch'[v] = NoFetch
               /\ Resolving(v)' /\ fetch'[v].try = "digest" =>
                      Seen(v, Readable(Item(v).slug))' \notin {None, Item(v)'.name}
    <2>1. CASE worker'[v] = worker[v]
      <3>1. Item(v)' = Item(v) /\ (Fetching(v)' <=> Fetching(v)) /\ (Resolving(v)' <=> Resolving(v))
        BY <1>1, <2>1 DEF Item, WantedBy, Fetching, Resolving
      <3>2. \A s : Seen(v, s)' = Seen(v, s)
        BY <1>1 DEF Seen
      <3>3. QED BY <1>1, <3>1, <3>2 DEF DirectoryInv
    <2>2. CASE ~Fetching(v)
      BY <1>1, <2>2 DEF DirectoryInv, NoFetch
    <2>3. QED BY <2>1, <2>2
  <1>3. \A v \in Workers : \A s : Seen(v, s)' = Seen(v, s)
    BY <1>1 DEF Seen
  <1>4. DirectoryTypeOK' /\ RowsAreNew'
    BY <1>1 DEF DirectoryInv, DirectoryTypeOK, RowsAreNew
  <1>5. QED BY <1>1, <1>2, <1>3, <1>4 DEF DirectoryInv

LEMMA DropKeepsDirectory ==
  ASSUME DirectoryInv, NEW w \in Workers, fetch' = [fetch EXCEPT ![w] = NoFetch],
         UNCHANGED <<company, resolved>>,
         \A v \in Workers \ {w} : worker'[v] = worker[v]
  PROVE  DirectoryInv'
  <1>1. \A v \in Workers : fetch'[v] = IF v = w THEN NoFetch ELSE fetch[v]
    BY FetchesAre DEF DirectoryInv
  <1>2. fetch' \in [Workers -> FetchType]
    BY FetchesAre DEF DirectoryInv
  <1>3. DirectoryTypeOK'
    BY <1>2 DEF DirectoryInv, DirectoryTypeOK, FetchType
  <1>4. RowsAreNew'
    BY <1>1 DEF DirectoryInv, RowsAreNew, NoFetch
  <1>5. ASSUME NEW v \in Workers
        PROVE  /\ ~Fetching(v)' => fetch'[v] = NoFetch
               /\ \A a \in fetch'[v].picked :
                      Seen(v, a.slug)' = a.name /\ Placed(a, Seen(v, Readable(a.base))')
               /\ Resolving(v)' /\ fetch'[v].try = "digest" =>
                      Seen(v, Readable(Item(v).slug))' \notin {None, Item(v)'.name}
    <2>1. CASE v = w
      BY <1>1, <2>1 DEF NoFetch
    <2>2. CASE v # w
      <3>1. fetch'[v] = fetch[v] /\ worker'[v] = worker[v]
        BY <1>1, <2>2
      <3>2. \A s : Seen(v, s)' = Seen(v, s)
        BY <3>1, SameSight
      <3>3. Item(v)' = Item(v) /\ (Fetching(v)' <=> Fetching(v)) /\ (Resolving(v)' <=> Resolving(v))
        BY <3>1 DEF Item, WantedBy, Fetching, Resolving
      <3>4. QED BY <3>1, <3>2, <3>3 DEF DirectoryInv
    <2>3. QED BY <2>1, <2>2
  <1>6. QED BY <1>3, <1>4, <1>5 DEF DirectoryInv, Placed

\* What DirectoryInv asks of one worker.
WorkerFetches(w) ==
    /\ ~Fetching(w) => fetch[w] = NoFetch
    /\ \A a \in fetch[w].picked :
           Seen(w, a.slug) = a.name /\ Placed(a, Seen(w, Readable(a.base)))
    /\ Resolving(w) /\ fetch[w].try = "digest" =>
           Seen(w, Readable(Item(w).slug)) \notin {None, Item(w).name}

\* The others are not disturbed by a step that leaves them what they see.
LEMMA OthersKeepFetching ==
  ASSUME DirectoryInv, NEW v \in Workers,
         fetch'[v] = fetch[v], worker'[v] = worker[v],
         \A s \in AllSlugs : Seen(v, s) # None => Seen(v, s)' = Seen(v, s)
  PROVE  WorkerFetches(v)'
  <1>1. Item(v)' = Item(v) /\ (Fetching(v)' <=> Fetching(v)) /\ (Resolving(v)' <=> Resolving(v))
    BY DEF Item, WantedBy, Fetching, Resolving
  <1>2. WorkerFetches(v)
    BY DEF DirectoryInv, WorkerFetches
  <1>3. \A a \in fetch[v].picked :
            a.name \in Names /\ a.slug \in AllSlugs /\ Readable(a.base) \in AllSlugs
    BY FetchesAre DEF DirectoryInv
  <1>4. ASSUME NEW a \in fetch[v].picked
        PROVE  Seen(v, a.slug)' = a.name /\ Placed(a, Seen(v, Readable(a.base))')
    <2>1. Seen(v, a.slug) = a.name /\ Placed(a, Seen(v, Readable(a.base)))
      BY <1>2 DEF WorkerFetches
    <2>2. a.name # None
      BY <1>3, CompanyDirectoryAssumption
    <2>3. QED BY <1>3, <2>1, <2>2 DEF Placed
  <1>5. ASSUME Resolving(v), fetch[v].try = "digest"
        PROVE  Seen(v, Readable(Item(v).slug))' \notin {None, Item(v).name}
    <2>1. Readable(Item(v).slug) \in AllSlugs
      BY <1>5, ItemIs, SlugsAre DEF DirectoryInv
    <2>2. Seen(v, Readable(Item(v).slug)) \notin {None, Item(v).name}
      BY <1>2, <1>5 DEF WorkerFetches
    <2>3. Readable(Item(v).slug)' = Readable(Item(v).slug)
      BY <1>1
    <2>4. Seen(v, Readable(Item(v).slug))' = Seen(v, Readable(Item(v).slug))
      BY <1>1, <2>1, <2>2
    <2>5. QED BY <2>2, <2>4
  <1>6. QED BY <1>1, <1>2, <1>4, <1>5 DEF WorkerFetches, Placed

\* Several rows of one transaction, or a row of another.
LEMMA PickKeepsDirectory ==
  ASSUME DirectoryInv, NEW w \in Workers, Ready(w), NEW rows,
         NEW s, s = SlugTried(w), NEW item, item = Item(w), NEW f, f = fetch[w],
         Picks(w, s, rows), UNCHANGED <<lifecycleVars, company, resolved>>,
         \/ rows = {} /\ Seen(w, s) = item.name
         \/ rows = {[slug |-> s, name |-> item.name]} /\ Seen(w, s) = None
  PROVE  DirectoryInv'
  <1> DEFINE pick == [name |-> item.name, base |-> item.slug, slug |-> s]
             n == [next |-> f.next + 1, try |-> "readable", inserted |-> f.inserted \cup rows,
                   picked |-> f.picked \cup {pick}]
  <1>1. /\ fetch' = [fetch EXCEPT ![w] = n]
        /\ UNCHANGED <<worker, company, resolved>>
        /\ Resolving(w) /\ \A v \in Workers : ~Waits(w, v)
    BY DEF Picks, Ready, lifecycleVars
  <1>2. /\ DirectoryTypeOK /\ RowsAreNew
        /\ \A v \in Workers : WorkerFetches(v)
    BY DEF DirectoryInv, WorkerFetches
  <1>3. s \in AllSlugs /\ item.name \in Names /\ item.slug \in Slugs /\ item.name # None
    BY <1>1, <1>2, ItemIs, CompanyDirectoryAssumption
  <1>4. \/ rows = {} /\ Seen(w, s) = item.name
        \/ rows = {[slug |-> s, name |-> item.name]} /\ Seen(w, s) = None
    OBVIOUS
  <1>5. \/ s = Readable(item.slug)
        \/ s = Suffixed(item.slug, item.name) /\ Seen(w, Readable(item.slug)) \notin {None, item.name}
    <2>1. f.try \in {"readable", "digest"}
      BY <1>2, FetchesAre DEF FetchType
    <2>2. CASE f.try = "readable"
      <3>1. s = Readable(item.slug)
        BY <2>2 DEF SlugTried
      <3>2. QED BY <3>1
    <2>3. CASE f.try = "digest"
      <3>1. s = Suffixed(item.slug, item.name)
        BY <2>3 DEF SlugTried
      <3>2. WorkerFetches(w)
        BY <1>2
      <3>3. QED BY <1>1, <2>3, <3>1, <3>2 DEF WorkerFetches
    <2>4. QED BY <2>1, <2>2, <2>3
  <1>6. rows \subseteq Row /\ \A r \in rows : r.slug = s /\ r.name = item.name /\ Seen(w, s) = None
    BY <1>3, <1>4 DEF Row
  <1>7. \A v \in Workers : Resolving(w) /\ company[s] = None /\ v # w =>
            \A r \in fetch[v].inserted : r.slug # s
    BY <1>1 DEF Waits
  <1>8. pick \in Pick
    BY <1>3 DEF Pick
  <1>9. n \in FetchType
    <2>1. f \in FetchType /\ f.next \in Nat \ {0} /\ f.inserted \subseteq Row /\ f.picked \subseteq Pick
      BY <1>2, FetchesAre
    <2>2. f.next + 1 \in Nat \ {0}
      BY <2>1
    <2>3. QED BY <1>6, <1>8, <2>1, <2>2 DEF FetchType
  <1>10. n.inserted = f.inserted \cup rows /\ n.picked = f.picked \cup {pick} /\ n.try = "readable"
    OBVIOUS
  <1>11. pick.name = item.name /\ pick.base = item.slug /\ pick.slug = s
    OBVIOUS
  <1> HIDE DEF n, pick
  <1>12. \A v \in Workers : fetch'[v] = IF v = w THEN n ELSE fetch[v]
    BY <1>1, <1>2, FetchesAre
  <1>13. DirectoryTypeOK'
    <2>1. fetch' \in [Workers -> FetchType]
      BY <1>1, <1>2, <1>9, FetchesAre
    <2>2. QED BY <1>1, <1>2, <2>1 DEF DirectoryTypeOK, FetchType
  <1>14. rows # {} => /\ company[s] = None
                      /\ \A v \in Workers : \A r \in fetch[v].inserted : r.slug # s
    <2>1. SUFFICES ASSUME rows # {}
                   PROVE  /\ company[s] = None
                          /\ \A v \in Workers : \A r \in fetch[v].inserted : r.slug # s
      OBVIOUS
    <2>2. Seen(w, s) = None
      BY <1>6, <2>1
    <2>3. \A r \in f.inserted : r.slug # s
      BY <1>2, <2>2, SeenIs, FetchesAre, CompanyDirectoryAssumption
    <2>4. company[s] = None
      BY <1>2, <2>2, <2>3, SeenIs
    <2>5. QED BY <1>1, <1>7, <2>3, <2>4
  <1>15. RowsAreNew'
    <2>1. \A v \in Workers : fetch'[v].inserted = fetch[v].inserted \cup (IF v = w THEN rows ELSE {})
      BY <1>10, <1>12
    <2>2. \A r \in rows : r.slug = s
      BY <1>6
    <2>3. \A r, q \in rows : r = q
      BY <1>4
    <2>4. ASSUME NEW v \in Workers, NEW r \in fetch'[v].inserted PROVE company'[r.slug] = None
      BY <1>1, <1>2, <1>14, <2>1, <2>2, <2>4 DEF RowsAreNew
    <2>5. ASSUME NEW v \in Workers, NEW u \in Workers, NEW r \in fetch'[v].inserted,
                 NEW q \in fetch'[u].inserted, r.slug = q.slug
          PROVE  v = u /\ r = q
      <3>1. r \in fetch[v].inserted \/ (v = w /\ r \in rows)
        BY <2>1
      <3>2. q \in fetch[u].inserted \/ (u = w /\ q \in rows)
        BY <2>1
      <3>3. CASE r \in fetch[v].inserted /\ q \in fetch[u].inserted
        BY <1>2, <2>5, <3>3 DEF RowsAreNew
      <3>4. QED BY <1>14, <2>2, <2>3, <2>5, <3>1, <3>2, <3>3
    <2>6. QED BY <2>4, <2>5 DEF RowsAreNew
  <1>16. /\ Seen(w, s)' = item.name
         /\ \A t : t # s => Seen(w, t)' = Seen(w, t)
    <2>1. CASE rows = {}
      <3>1. fetch'[w].inserted = fetch[w].inserted
        BY <1>10, <1>12, <2>1
      <3>2. \A t : Seen(w, t)' = Seen(w, t)
        BY <1>1, <3>1 DEF Seen
      <3>3. Seen(w, s) = item.name
        BY <1>4, <2>1
      <3>4. QED BY <3>2, <3>3
    <2>2. CASE rows # {}
      <3>1. rows = {[slug |-> s, name |-> item.name]}
        BY <1>4, <2>2
      <3>2. fetch'[w].inserted = f.inserted \cup rows
        BY <1>10, <1>12
      <3>3. PICK r \in fetch'[w].inserted : r.slug = s /\ r.name = item.name
        <4>1. PICK r \in rows : r.slug = s /\ r.name = item.name
          BY <3>1
        <4>2. QED BY <3>2, <4>1
      <3>4. DirectoryTypeOK' /\ RowsAreNew'
        BY <1>13, <1>15
      <3>5. Seen(w, s)' = item.name
        <4> DEFINE found == CHOOSE row \in fetch'[w].inserted : row.slug = s
        <4>1. found \in fetch'[w].inserted /\ found.slug = s
          BY <3>3
        <4>2. found = r
          BY <3>3, <3>4, <4>1 DEF RowsAreNew
        <4>3. Seen(w, s)' = found.name
          BY <3>3 DEF Seen
        <4>4. QED BY <3>3, <4>2, <4>3
      <3>6. ASSUME NEW t, t # s PROVE Seen(w, t)' = Seen(w, t)
        <4>1. \A row \in fetch'[w].inserted : row.slug = t => row \in fetch[w].inserted
          BY <3>1, <3>2, <3>6
        <4>2. CASE \A row \in fetch[w].inserted : row.slug # t
          BY <1>1, <4>1, <4>2 DEF Seen
        <4>3. CASE \E row \in fetch[w].inserted : row.slug = t
          <5>1. PICK row \in fetch[w].inserted : row.slug = t
            BY <4>3
          <5>2. Seen(w, t) = row.name
            BY <1>2, <5>1, SeenIs
          <5>3. row \in fetch'[w].inserted
            BY <3>2, <5>1
          <5> DEFINE found == CHOOSE q \in fetch'[w].inserted : q.slug = t
          <5>4. found \in fetch'[w].inserted /\ found.slug = t
            BY <5>1, <5>3
          <5>5. found = row
            BY <3>4, <5>1, <5>3, <5>4 DEF RowsAreNew
          <5>6. Seen(w, t)' = found.name
            BY <5>1, <5>3 DEF Seen
          <5>7. QED BY <5>2, <5>5, <5>6
        <4>4. QED BY <4>2, <4>3
      <3>7. QED BY <3>5, <3>6
    <2>3. QED BY <2>1, <2>2
  <1>17. \A t : Seen(w, t) # None => Seen(w, t)' = Seen(w, t)
    BY <1>4, <1>16
  <1>18. WorkerFetches(w)'
    <2>1. \A a \in f.picked : Seen(w, a.slug)' = a.name /\ Placed(a, Seen(w, Readable(a.base))')
      <3>1. SUFFICES ASSUME NEW a \in f.picked
                     PROVE  Seen(w, a.slug)' = a.name /\ Placed(a, Seen(w, Readable(a.base))')
        OBVIOUS
      <3>2. Seen(w, a.slug) = a.name /\ Placed(a, Seen(w, Readable(a.base)))
        BY <1>2 DEF WorkerFetches
      <3>3. a.name # None
        BY <1>2, FetchesAre, CompanyDirectoryAssumption
      <3>4. QED BY <1>17, <3>2, <3>3 DEF Placed
    <2>2. Seen(w, pick.slug)' = pick.name /\ Placed(pick, Seen(w, Readable(pick.base))')
      BY <1>5, <1>11, <1>16, <1>17 DEF Placed
    <2>3. Fetching(w)'
      BY <1>1 DEF Resolving, Fetching
    <2>4. QED BY <1>10, <1>12, <2>1, <2>2, <2>3 DEF WorkerFetches
  <1>19. ASSUME NEW v \in Workers, v # w PROVE WorkerFetches(v)'
    BY <1>1, <1>12, <1>19, SameSight, OthersKeepFetching
  <1>20. QED
    BY <1>1, <1>2, <1>13, <1>15, <1>18, <1>19 DEF DirectoryInv, WorkerFetches, Placed

LEMMA SuffixKeepsDirectory ==
  ASSUME DirectoryInv, NEW w \in Workers, TrySuffix(w)
  PROVE  DirectoryInv'
  <1>1. /\ DirectoryTypeOK /\ RowsAreNew
        /\ \A v \in Workers : WorkerFetches(v)
    BY DEF DirectoryInv, WorkerFetches
  <1>2. /\ fetch' = [fetch EXCEPT ![w].try = "digest"]
        /\ UNCHANGED <<worker, company, resolved>>
        /\ Resolving(w)
        /\ Seen(w, Readable(Item(w).slug)) \notin {None, Item(w).name}
    BY DEF TrySuffix, Ready, SlugTried, SameCompany, lifecycleVars
  <1>3. /\ \A v \in Workers \ {w} : fetch'[v] = fetch[v]
        /\ fetch'[w].next = fetch[w].next /\ fetch'[w].inserted = fetch[w].inserted
        /\ fetch'[w].picked = fetch[w].picked
    BY <1>1, <1>2, FetchesAre DEF FetchType
  <1>4. \A v \in Workers : fetch'[v].inserted = fetch[v].inserted
    BY <1>3
  <1>5. DirectoryTypeOK'
    <2>1. fetch' \in [Workers -> FetchType]
      BY <1>1, <1>2, FetchesAre DEF FetchType
    <2>2. QED BY <1>1, <1>2, <2>1 DEF DirectoryTypeOK, FetchType
  <1>6. RowsAreNew'
    BY <1>1, <1>2, <1>4 DEF RowsAreNew
  <1>7. \A s : Seen(w, s)' = Seen(w, s)
    BY <1>2, <1>4 DEF Seen
  <1>8. Item(w)' = Item(w) /\ Fetching(w) /\ Fetching(w)'
    BY <1>2, <1>3 DEF Item, WantedBy, Fetching, Resolving
  <1>9. WorkerFetches(w)'
    BY <1>1, <1>2, <1>3, <1>7, <1>8 DEF WorkerFetches, Placed
  <1>10. ASSUME NEW v \in Workers, v # w PROVE WorkerFetches(v)'
    BY <1>2, <1>3, <1>10, SameSight, OthersKeepFetching
  <1>11. QED
    BY <1>1, <1>2, <1>5, <1>6, <1>9, <1>10 DEF DirectoryInv, WorkerFetches, Placed

\* After a commit everybody sees what the transaction saw, and what the
\* others saw under a slug that was taken has not changed.
LEMMA CommitKeepsDirectory ==
  ASSUME DirectoryInv, NEW w \in Workers, CommitRows(w),
         NEW n \in FetchType, fetch' = [fetch EXCEPT ![w] = n],
         n.inserted = {}, n.picked = {},
         \/ n.next = fetch[w].next /\ n.try = fetch[w].try /\ worker'[w] = worker[w]
         \/ n = NoFetch,
         \A v \in Workers \ {w} : worker'[v] = worker[v],
         Fetching(w)
  PROVE  DirectoryInv'
  <1>1. /\ DirectoryTypeOK /\ RowsAreNew
        /\ \A v \in Workers : WorkerFetches(v)
        /\ \A a \in resolved : company[a.slug] = a.name /\ Placed(a, company[Readable(a.base)])
    BY DEF DirectoryInv, WorkerFetches
  <1>2. /\ \A s \in AllSlugs : company'[s] = Seen(w, s)
        /\ company' \in [AllSlugs -> Names \cup {None}]
        /\ resolved' = resolved \cup fetch[w].picked
    BY <1>1, SeenIs DEF CommitRows
  <1>3. \A v \in Workers : fetch'[v] = IF v = w THEN n ELSE fetch[v]
    BY <1>1, FetchesAre
  <1>4. DirectoryTypeOK'
    <2>1. fetch' \in [Workers -> FetchType]
      BY <1>1, FetchesAre
    <2>2. resolved' \subseteq Pick
      BY <1>1, <1>2, FetchesAre DEF DirectoryTypeOK
    <2>3. QED BY <1>2, <2>1, <2>2 DEF DirectoryTypeOK, FetchType
  <1>5. RowsAreNew'
    <2>1. ASSUME NEW v \in Workers, NEW r \in fetch'[v].inserted PROVE company'[r.slug] = None
      <3>1. v # w /\ r \in fetch[v].inserted
        BY <1>3, <2>1
      <3>2. company[r.slug] = None /\ \A q \in fetch[w].inserted : q.slug # r.slug
        BY <1>1, <3>1 DEF RowsAreNew
      <3>3. r.slug \in AllSlugs
        BY <1>1, <3>1, FetchesAre
      <3>4. QED BY <1>1, <1>2, <3>2, <3>3, SeenIs
    <2>2. \A v \in Workers : fetch'[v].inserted \subseteq fetch[v].inserted
      BY <1>3
    <2>3. ASSUME NEW v \in Workers, NEW u \in Workers, NEW r \in fetch'[v].inserted,
                 NEW q \in fetch'[u].inserted, r.slug = q.slug
          PROVE  v = u /\ r = q
      BY <1>1, <2>2, <2>3 DEF RowsAreNew
    <2>4. QED BY <2>1, <2>3 DEF RowsAreNew
  <1>6. \A s \in AllSlugs : Seen(w, s)' = Seen(w, s)
    BY <1>2, <1>3 DEF Seen
  <1>7. ASSUME NEW v \in Workers, v # w PROVE WorkerFetches(v)'
    <2>1. fetch'[v] = fetch[v] /\ worker'[v] = worker[v]
      BY <1>3, <1>7
    <2>2. ASSUME NEW s \in AllSlugs, Seen(v, s) # None PROVE Seen(v, s)' = Seen(v, s)
      <3>1. CASE \E r \in fetch[v].inserted : r.slug = s
        BY <2>1, <3>1 DEF Seen
      <3>2. CASE ~ \E r \in fetch[v].inserted : r.slug = s
        <4>1. Seen(v, s) = company[s] /\ Seen(v, s)' = company'[s]
          BY <2>1, <3>2 DEF Seen
        <4>2. company'[s] = company[s]
          BY <1>1, <1>2, <2>2, <4>1, SeenIs
        <4>3. QED BY <4>1, <4>2
      <3>3. QED BY <3>1, <3>2
    <2>3. QED BY <2>1, <2>2, OthersKeepFetching
  <1>8. WorkerFetches(w)'
    <2>1. CASE n = NoFetch
      BY <1>3, <2>1 DEF WorkerFetches, NoFetch
    <2>2. CASE n.next = fetch[w].next /\ n.try = fetch[w].try /\ worker'[w] = worker[w]
      <3>1. Item(w)' = Item(w) /\ Fetching(w)' /\ (Resolving(w)' <=> Resolving(w))
        BY <1>3, <2>2 DEF Item, WantedBy, Fetching, Resolving
      <3>2. ASSUME Resolving(w), fetch[w].try = "digest"
            PROVE  Seen(w, Readable(Item(w).slug))' \notin {None, Item(w).name}
        <4>1. Readable(Item(w).slug) \in AllSlugs
          BY <1>1, <3>2, ItemIs, SlugsAre
        <4>2. Seen(w, Readable(Item(w).slug)) \notin {None, Item(w).name}
          BY <1>1, <3>2 DEF WorkerFetches
        <4>3. QED BY <1>6, <3>1, <4>1, <4>2
      <3>3. QED BY <1>3, <2>2, <3>1, <3>2 DEF WorkerFetches
    <2>3. QED BY <2>1, <2>2
  <1>9. ASSUME NEW a \in resolved'
        PROVE  company'[a.slug] = a.name /\ Placed(a, company'[Readable(a.base)])
    <2>1. CASE a \in resolved
      <3>1. company[a.slug] = a.name /\ Placed(a, company[Readable(a.base)])
        BY <1>1, <2>1
      <3>2. a.name # None /\ a.slug \in AllSlugs /\ Readable(a.base) \in AllSlugs
        BY <1>1, <2>1, FetchesAre, CompanyDirectoryAssumption
      <3>3. \A s \in AllSlugs : company[s] # None => company'[s] = company[s]
        BY <1>1, <1>2, SeenIs
      <3>4. QED BY <3>1, <3>2, <3>3 DEF Placed
    <2>2. CASE a \in fetch[w].picked
      <3>1. Seen(w, a.slug) = a.name /\ Placed(a, Seen(w, Readable(a.base)))
        BY <1>1, <2>2 DEF WorkerFetches
      <3>2. a.slug \in AllSlugs /\ Readable(a.base) \in AllSlugs
        BY <1>1, <2>2, FetchesAre
      <3>3. QED BY <1>2, <3>1, <3>2
    <2>3. QED BY <1>2, <2>1, <2>2
  <1>10. QED
    BY <1>4, <1>5, <1>7, <1>8, <1>9 DEF DirectoryInv, WorkerFetches, Placed

LEMMA DirectoryStepKeeps ==
  ASSUME WorkerType, DirectoryInv, NEW w \in Workers, DirectoryStep(w)
  PROVE  DirectoryInv'
  <1>1. DirectoryTypeOK
    BY DEF DirectoryInv
  <1>2. fetch[w] \in FetchType /\ NoFetch \in FetchType
    BY <1>1, FetchesAre
  <1>3. CASE InsertCompany(w)
    BY <1>3, PickKeepsDirectory DEF InsertCompany
  <1>4. CASE FindCompany(w)
    BY <1>4, PickKeepsDirectory DEF FindCompany, SameCompany
  <1>5. CASE CommitOne(w)
    <2> DEFINE n == [fetch[w] EXCEPT !.inserted = {}, !.picked = {}]
    <2>1. fetch' = [fetch EXCEPT ![w] = n]
      BY <1>1, <1>5, FetchesAre DEF CommitOne
    <2>2. n \in FetchType /\ n.inserted = {} /\ n.picked = {}
          /\ n.next = fetch[w].next /\ n.try = fetch[w].try
      BY <1>2 DEF FetchType
    <2>3. CommitRows(w) /\ Fetching(w) /\ UNCHANGED worker
      BY <1>5 DEF CommitOne, Resolving, lifecycleVars
    <2> HIDE DEF n
    <2>4. QED BY <2>1, <2>2, <2>3, CommitKeepsDirectory
  <1>6. CASE CommitFetch(w)
    <2>1. fetch' = [fetch EXCEPT ![w] = NoFetch] /\ CommitRows(w) /\ Fetching(w)
      BY <1>6 DEF CommitFetch
    <2>2. NoFetch.inserted = {} /\ NoFetch.picked = {}
      BY DEF NoFetch
    <2>3. \A v \in Workers \ {w} : worker'[v] = worker[v]
      BY <1>6 DEF CommitFetch, Returns, Moves, WorkerType
    <2>4. QED BY <1>2, <2>1, <2>2, <2>3, CommitKeepsDirectory
  <1>7. CASE DeadlockAbort(w)
    BY <1>7, DropKeepsDirectory DEF DeadlockAbort, RollBack, Raises, Moves, WorkerType
  <1>8. QED BY <1>3, <1>4, <1>5, <1>6, <1>7, SuffixKeepsDirectory DEF DirectoryStep

LEMMA DirectoryContinues ==
  ASSUME WorkerType, DirectoryInv, [Next]_allVars
  PROVE  DirectoryInv'
  <1>1. CASE UNCHANGED allVars
    BY <1>1, IdleKeepsDirectory DEF allVars, lifecycleVars
  <1>2. ASSUME NEW w \in Workers, Takes(w) PROVE DirectoryInv'
    <2>1. worker[w].step = "idle" /\ \A v \in Workers \ {w} : worker'[v] = worker[v]
      BY <1>2 DEF Takes, Receive, Busy, WorkerType
    <2>2. QED BY <1>2, <2>1, IdleKeepsDirectory DEF Takes, Fetching
  <1>3. ASSUME NEW w \in Workers, Handles(w) PROVE DirectoryInv'
    <2>1. worker[w].step # "body" /\ \A v \in Workers \ {w} : worker'[v] = worker[v]
      BY <1>3 DEF Handles, HandlerStep, Prerun, Postrun, Retry, DeadLetter, Failure, Acknowledge,
                  Handler, Moves, WorkerType
    <2>2. QED BY <1>3, <2>1, IdleKeepsDirectory DEF Handles, Fetching
  <1>4. ASSUME NEW w \in Workers, Lost(w) PROVE DirectoryInv'
    BY <1>4, DropKeepsDirectory DEF Lost, Crash, HardTimeLimit, Moves, WorkerType
  <1>5. ASSUME NEW w \in Workers, ClusteringStep(w) \/ ClusteringFails(w), UNCHANGED directoryVars
        PROVE  DirectoryInv'
    <2>1. Clusters(w) /\ \A v \in Workers \ {w} : worker'[v] = worker[v]
      BY <1>5 DEF ClusteringStep, ReadEmbeddings, NothingToCluster, BeginDelete, Delete, InsertAndUpdate,
                  Commit, RunStep, ClusteringFails, Returns, Raises, Moves, lifecycleVars, WorkerType
    <2>2. ~Fetching(w)
      BY <2>1, TrackedTasksAssumption DEF Clusters, Fetching
    <2>3. QED BY <1>5, <2>1, <2>2, IdleKeepsDirectory
  <1>6. ASSUME NEW w \in Workers, FetchFails(w) PROVE DirectoryInv'
    BY <1>6, DropKeepsDirectory DEF FetchFails, RollBack, Raises, Moves, WorkerType
  <1>7. ASSUME NEW p \in Postings, Embed(p), UNCHANGED directoryVars PROVE DirectoryInv'
    BY <1>7, IdleKeepsDirectory DEF Embed, lifecycleVars
  <1>8. QED
    BY <1>1, <1>2, <1>3, <1>4, <1>5, <1>6, <1>7, DirectoryStepKeeps DEF Next, Works, Fails

-----------------------------------------------------------------------------
(***************************************************************************)
(* The three together.                                                     *)
(***************************************************************************)
Inv == LogInv /\ ClusteringInv /\ DirectoryInv

LEMMA InvHolds == Spec => []Inv
  <1>1. Init => Inv
    BY LogInit, ClusteringBegins, DirectoryBegins DEF Init, Inv
  <1>2. Inv /\ [Next]_allVars => Inv'
    BY LogStep, ClusteringContinues, DirectoryContinues DEF Inv, LogInv
  <1>3. QED BY <1>1, <1>2, PTL DEF Spec

\* The state keeps its types: the queue is a bag of messages whose retries
\* are within each task's limit, the rows of a transaction are rows.
THEOREM TypeCorrect == Spec => []TypeOK
  <1>1. Inv => TypeOK
    BY DEF Inv, LogInv, ClusteringInv, DirectoryInv, TypeOK
  <1>2. QED BY <1>1, InvHolds, PTL

\* The execution log tells the end of every task that is not a named
\* exception, whatever the tasks, processes, retries and faults
\* (app/tasks/monitoring.py, app/tasks/celery_app.py).
THEOREM LogIsComplete == Spec => []LogTellsTheEnd
  <1>1. Inv => LogTellsTheEnd
    BY LogInvIsEnough DEF Inv
  <1>2. QED BY <1>1, InvHolds, PTL

\* While runs have not overlapped, every label is of the latest committed run
\* (app/ml/clustering.py, app/api/analytics.py).
THEOREM LatestLabelsOnly == Spec => []LatestRunOwnsLabels
  <1>1. ClusteringInv => LatestRunOwnsLabels
    <2>1. SUFFICES ASSUME ClusteringInv, ~overlapped, NEW p \in Postings, label[p] # 0
                   PROVE  label[p] = LatestRun
      BY DEF LatestRunOwnsLabels
    <2>2. label[p] \in clusters /\ \A c, d \in clusters : c = d
      BY <2>1 DEF ClusteringInv, OneRunAtATime
    <2>3. LatestRun \in clusters
      BY <2>1, <2>2, LatestRunExists DEF ClusteringInv
    <2>4. QED BY <2>2, <2>3
  <1>2. Inv => LatestRunOwnsLabels
    BY <1>1 DEF Inv
  <1>3. QED BY <1>2, InvHolds, PTL

\* Whatever overlaps, fails, dies or is delivered again, there are committed
\* rows of a run when a posting has a label (app/ml/clustering.py).
THEOREM LabelledAfterARun == Spec => []LabelsHaveARun
  <1>1. ClusteringInv => LabelsHaveARun
    <2>1. SUFFICES ASSUME ClusteringInv, NEW p \in Postings, label[p] # 0 PROVE LatestRun # 0
      BY DEF LabelsHaveARun
    <2>2. clusters # {} /\ clusters \subseteq 1 .. clock
      BY <2>1 DEF ClusteringInv, ClusteringTypeOK
    <2>3. LatestRun \in 1 .. clock
      BY <2>1, <2>2, LatestRunExists DEF ClusteringInv
    <2>4. QED BY <2>3
  <1>2. Inv => LabelsHaveARun
    BY <1>1 DEF Inv
  <1>3. QED BY <1>2, InvHolds, PTL

\* Committed work refers to companies of their own names, and to one row for
\* each name and readable slug (app/tasks/adzuna.py, app/tasks/scheduler.py).
THEOREM CompaniesAreTheirOwn == Spec => []CompanyIsItsOwn
  <1>1. DirectoryInv => CompanyIsItsOwn
    <2>1. SUFFICES ASSUME DirectoryInv, NEW a \in resolved, NEW b \in resolved
                   PROVE  /\ company[a.slug] = a.name
                          /\ a.name = b.name /\ a.base = b.base => a.slug = b.slug
      BY DEF CompanyIsItsOwn
    <2>2. /\ company[a.slug] = a.name /\ Placed(a, company[Readable(a.base)])
          /\ company[b.slug] = b.name /\ Placed(b, company[Readable(b.base)])
      BY <2>1 DEF DirectoryInv
    <2>3. QED BY <2>2 DEF Placed
  <1>2. Inv => CompanyIsItsOwn
    BY <1>1 DEF Inv
  <1>3. QED BY <1>2, InvHolds, PTL
=============================================================================
