---------------------------- MODULE BatchRotation ----------------------------
(***************************************************************************)
(* How the boards of one source take turns (app/tasks/scheduler.py): beat  *)
(* fires a dispatch task every four hours, the task takes the next batch   *)
(* of the list with a cursor kept in Redis and sends one fetch task per    *)
(* board.  What the turns are for: the nightly rollup (app/tasks/panel.py) *)
(* can only tell closed requisitions of boards checked since midnight, and *)
(* a board's first fetch decides whether the age of its postings is taken  *)
(* as known (app/ingestion/panel.py).                                      *)
(*                                                                         *)
(* Time advances in periods of the schedule, and a period is long enough   *)
(* for what its firing starts.  The cursor is kept modulo the number of    *)
(* batches, which is all the code reads of it.                             *)
(***************************************************************************)
EXTENDS Integers, FiniteSets

CONSTANTS
    NBoards,       \* length of the source's list in target_companies.yml
    BatchSize,     \* BATCH_SIZE
    PerDay,        \* firings of the dispatch task per UTC day
    BeforeRollup,  \* those of them that precede the rollup at 07:00
    Window,        \* LEFT_TRUNCATION_WINDOW, in periods
    Dispatchers,   \* dispatch tasks that may be in flight at once
    Faults,        \* which faults may occur, see below
    MaxFaults      \* bound on their number

(***************************************************************************)
(* "redis"      get_redis returns None, or INCR raises, applied or not     *)
(* "restore"    Redis, the broker too, comes back from a snapshot, or empty*)
(* "duplicate"  beat publishes one firing twice                            *)
(* "crash"      the worker of a dispatch task is lost                      *)
(* "refused"    delay, or the company's transaction, raises                *)
(* "fetch"      every attempt to fetch the board fails                     *)
(***************************************************************************)
AllFaults == {"redis", "restore", "duplicate", "crash", "refused", "fetch"}

ASSUME RotationAssumption ==
    /\ NBoards \in Nat \ {0}
    /\ BatchSize \in Nat \ {0}
    /\ PerDay \in Nat \ {0}
    /\ BeforeRollup \in 1 .. PerDay - 1
    /\ Window \in Nat
    /\ MaxFaults \in Nat
    /\ Faults \subseteq AllFaults

Boards == 0 .. NBoards - 1
Ages == {"unseen", "truncated", "known"}

\* Mutant of NBatches: the division rounds down.
FullBatches == NBoards \div BatchSize

\* math.ceil(len(items) / batch_size), and the slice of a batch.
NBatches == (NBoards + BatchSize - 1) \div BatchSize
BatchNos == 0 .. NBatches - 1
Slice(k) == {b \in Boards : k * BatchSize <= b /\ b < (k + 1) * BatchSize}

VARIABLES
    slot,      \* the firing of the day that came last
    uptime,    \* firings since the boards were put under monitoring, up to Window + 1
    cursor,    \* the Redis key, modulo NBatches
    firings,   \* dispatch messages in the queue
    todo,      \* the boards each dispatch task has yet to send
    fetches,   \* boards with a fetch task in flight
    today,     \* boards checked since midnight
    covered,   \* boards that were checked in time for the last rollup
    age,       \* whether a board's first postings were taken to have a known age
    round,     \* history: batches the cursor has given since it was last at 0,
               \* as far as Redis remembers
    faults

vars == <<slot, uptime, cursor, firings, todo, fetches, today, covered, age, round, faults>>

TypeOK ==
    /\ slot \in 0 .. PerDay - 1
    /\ uptime \in 0 .. Window + 1
    /\ cursor \in BatchNos
    /\ firings \in Nat
    /\ todo \in [Dispatchers -> SUBSET Boards]
    /\ fetches \subseteq Boards
    /\ today \subseteq Boards
    /\ covered \subseteq Boards
    /\ age \in [Boards -> Ages]
    /\ round \subseteq BatchNos
    /\ faults \in Nat

\* The workers start (sync_monitored_companies) at any time of the day.
Init ==
    /\ slot \in 0 .. PerDay - 1
    /\ uptime = 0
    /\ cursor = 0
    /\ firings = 0
    /\ todo = [d \in Dispatchers |-> {}]
    /\ fetches = {}
    /\ today = {}
    /\ covered = {}
    /\ age = [b \in Boards |-> "unseen"]
    /\ round = {}
    /\ faults = 0

Fault(kind) ==
    /\ kind \in Faults
    /\ faults < MaxFaults
    /\ faults' = faults + 1

Idle == firings = 0 /\ fetches = {} /\ \A d \in Dispatchers : todo[d] = {}

-----------------------------------------------------------------------------
\* The rollup runs after this firing and before the next one.
Covers(s) == s = BeforeRollup - 1

\* The next firing; on the way, the rollup or midnight may pass.
Fire ==
    /\ Idle
    /\ slot' = (slot + 1) % PerDay
    /\ uptime' = IF uptime <= Window THEN uptime + 1 ELSE uptime
    /\ covered' = IF Covers(slot) THEN today ELSE covered
    /\ today' = IF slot' = 0 THEN {} ELSE today
    /\ \/ firings' = 1 /\ UNCHANGED faults
       \/ firings' = 2 /\ Fault("duplicate")
    /\ UNCHANGED <<cursor, todo, fetches, age, round>>

\* Mutant of Advance: the counter is not reduced modulo the number of batches.
WithoutModulo(k) == k + 1

\* Mutant of Advance: the counter is read, and written back by the next task.
ReadOnly(k) == IF \E d \in Dispatchers : todo[d] # {} THEN k ELSE (k + 1) % NBatches

\* INCR.
Advance(k) == (k + 1) % NBatches

Increment ==
    /\ cursor' = Advance(cursor)
    /\ round' = IF cursor' = 0 THEN {} ELSE round \cup {cursor}

\* _next_batch.
TakeBatch(d) ==
    /\ firings > 0
    /\ todo[d] = {}
    /\ firings' = firings - 1
    /\ todo' = [todo EXCEPT ![d] = Slice(cursor)]
    /\ Increment
    /\ UNCHANGED <<slot, uptime, fetches, today, covered, age, faults>>

\* Without an answer from Redis the task dispatches batch 0, and the turn of the batch
\* that the cursor was at is lost if the command was applied all the same.
TakeFirstBatch(d) ==
    /\ firings > 0
    /\ todo[d] = {}
    /\ Fault("redis")
    /\ firings' = firings - 1
    /\ todo' = [todo EXCEPT ![d] = Slice(0)]
    /\ Increment \/ UNCHANGED <<cursor, round>>
    /\ UNCHANGED <<slot, uptime, fetches, today, covered, age>>

\* One turn of the loop, in the order of the list.
SendFetch(d, b) ==
    /\ b \in todo[d]
    /\ \A c \in todo[d] : b <= c
    /\ todo' = [todo EXCEPT ![d] = @ \ {b}]
    /\ fetches' = fetches \cup {b}
    /\ UNCHANGED <<slot, uptime, cursor, firings, today, covered, age, round, faults>>

\* The dispatch task has no retry: what is left of its batch waits for its next turn.
Refused(d) ==
    /\ todo[d] # {}
    /\ Fault("refused")
    /\ todo' = [todo EXCEPT ![d] = {}]
    /\ UNCHANGED <<slot, uptime, cursor, firings, fetches, today, covered, age, round>>

\* The message is redelivered, and the task starts over with the batch that is next now;
\* so it is if the worker is lost between the last delay and the acknowledgement.
Crash(d) ==
    /\ todo[d] # {}
    /\ Fault("crash")
    /\ todo' = [todo EXCEPT ![d] = {}]
    /\ firings' = firings + 1
    /\ \/ UNCHANGED fetches
       \/ \E b \in Boards : todo[d] = {b} /\ fetches' = fetches \cup {b}
    /\ UNCHANGED <<slot, uptime, cursor, today, covered, age, round>>

\* compute_left_truncated, for the postings the first fetch of the board inserts.  The
\* first firing comes within a period of the start, the last one is less than uptime and
\* at least uptime - 1 periods after it.
FirstAge == IF uptime <= Window THEN "truncated" ELSE "known"

FetchOk(b) ==
    /\ b \in fetches
    /\ fetches' = fetches \ {b}
    /\ today' = today \cup {b}
    /\ age' = [age EXCEPT ![b] = IF @ = "unseen" THEN FirstAge ELSE @]
    /\ UNCHANGED <<slot, uptime, cursor, firings, todo, covered, round, faults>>

FetchFailed(b) ==
    /\ b \in fetches
    /\ Fault("fetch")
    /\ fetches' = fetches \ {b}
    /\ UNCHANGED <<slot, uptime, cursor, firings, todo, today, covered, age, round>>

\* Redis has an earlier counter, whatever that is modulo NBatches; messages are missing
\* and the one of a dispatch may be back.  The tasks that are running go on.  (The
\* message of a fetch that is back only repeats what was checked today.)
RedisRestored ==
    /\ Fault("restore")
    /\ cursor' \in BatchNos
    /\ firings' \in 0 .. firings + 1
    /\ fetches' \in SUBSET fetches
    /\ round' = {k \in BatchNos : k < cursor'}
    /\ UNCHANGED <<slot, uptime, todo, today, covered, age>>

-----------------------------------------------------------------------------
Dispatch(d) ==
    \/ TakeBatch(d)
    \/ TakeFirstBatch(d)
    \/ \E b \in Boards : SendFetch(d, b)
    \/ Refused(d)
    \/ Crash(d)

FetchBoard(b) == FetchOk(b) \/ FetchFailed(b)

Next ==
    \/ Fire
    \/ \E d \in Dispatchers : Dispatch(d)
    \/ \E b \in Boards : FetchBoard(b)
    \/ RedisRestored

Spec == Init /\ [][Next]_vars

\* Beat fires, workers take what is queued, tasks that run go on.
FairSpec ==
    /\ Spec
    /\ WF_vars(Fire)
    /\ WF_vars(\E d \in Dispatchers : Dispatch(d))
    /\ \A b \in Boards : WF_vars(FetchBoard(b))

-----------------------------------------------------------------------------
\* Concurrent or duplicate firings, redelivered ones included, never take a batch
\* again before every other has had its turn (docstring of _next_batch).
NoBatchTwice ==
    [][\A d \in Dispatchers : TakeBatch(d) => cursor \notin round]_vars

\* The batches between two turns of a batch are all the others: a round is a prefix
\* of the list.
RoundIsPrefix == round = {k \in BatchNos : k < cursor}

\* No board is left out of the panel: again and again a rollup finds it checked since
\* midnight, although a day's firings before the rollup reach some batches only.
EveryBoardCovered ==
    \A b \in Boards : []<>(b \in covered)

\* The postings a newly monitored board already has are flagged as left-truncated,
\* never as postings whose age is known (comment at LEFT_TRUNCATION_WINDOW).
NoUnknownAgeTaken ==
    \A b \in Boards : age[b] # "known"
=============================================================================
