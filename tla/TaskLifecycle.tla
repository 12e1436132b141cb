--------------------------- MODULE TaskLifecycle ---------------------------
(***************************************************************************)
(* What happens around the body of a tracked task: Celery's delivery, with *)
(* late acknowledgement (app/tasks/celery_app.py), and the signal handlers *)
(* of app/tasks/monitoring.py that write task_executions and failed_tasks. *)
(*                                                                         *)
(* Celery is modelled from the way the code relies on it.  A message is    *)
(* acknowledged after the last handler; one whose process is lost returns  *)
(* to the queue; of one over the hard time limit the parent process takes  *)
(* care: it acknowledges the message, calls task_failure, and kills the    *)
(* process.  A retry is published under the same task id before the        *)
(* handler task_retry runs.                                                *)
(***************************************************************************)
EXTENDS Naturals, Bags

CONSTANTS
    Tasks,      \* task ids
    Workers,    \* worker processes
    MaxRetries, \* of each task
    Workloads,  \* the sets of tasks that may be submitted together
    Faults,     \* the faults to consider
    MaxFaults   \* bound on how many of them happen

FaultKinds == {"error", "crash", "timeout", "write", "overtake"}

ASSUME TaskLifecycleAssumption ==
    /\ Tasks # {}
    /\ MaxRetries \in [Tasks -> Nat]
    /\ Workloads \subseteq SUBSET Tasks
    /\ Faults \subseteq FaultKinds
    /\ MaxFaults \in Nat

VARIABLES
    queue,      \* the messages waiting in the broker
    worker,     \* what each process is doing
    execution,  \* task_executions by task id; "none" where there is no row
    deadLetter, \* failed_tasks: the task ids in it
    done,       \* history: the tasks whose body has returned
    untold,     \* history: the tasks not submitted, and those of which a handler
                \* said nothing
    faults      \* how many faults have happened

lifecycleVars == <<queue, worker, execution, deadLetter, done, untold, faults>>

Message(t, r) == [task |-> t, retries |-> r]
NoRow == [state |-> "none", finished |-> FALSE]
StartedRow == [state |-> "STARTED", finished |-> FALSE]
AtRest == [step |-> "idle", task |-> CHOOSE t \in Tasks : TRUE, retries |-> 0]

LifecycleInit ==
    /\ \E workload \in Workloads :
           /\ queue = SetToBag({Message(t, 0) : t \in workload})
           /\ untold = Tasks \ workload
    /\ worker = [w \in Workers |-> AtRest]
    /\ execution = [t \in Tasks |-> NoRow]
    /\ deadLetter = {}
    /\ done = {}
    /\ faults = 0

Happens(fault) ==
    /\ fault \in Faults
    /\ faults < MaxFaults
    /\ faults' = faults + 1

\* One message of a worker, and whether anything of a task is under way.
MessageOf(w) == Message(worker[w].task, worker[w].retries)
InQueue(t) == \E r \in 0 .. MaxRetries[t] : BagIn(Message(t, r), queue)
Busy(w) == worker[w].step # "idle"
Over(t) == ~InQueue(t) /\ \A w \in Workers : Busy(w) => worker[w].task # t

Moves(w, step) == worker' = [worker EXCEPT ![w].step = step]

(***************************************************************************)
(* Delivery.  A retry is due after its backoff, which ends after the       *)
(* handler of the attempt that published it unless that one is held up.    *)
(***************************************************************************)
HandlerPending(m) ==
    \E w \in Workers :
        /\ worker[w].step = "retry"
        /\ worker[w].task = m.task /\ worker[w].retries + 1 = m.retries

Receive(w, m) ==
    /\ ~Busy(w)
    /\ BagIn(m, queue)
    /\ \/ ~HandlerPending(m) /\ UNCHANGED <<untold, faults>>
       \/ HandlerPending(m) /\ Happens("overtake") /\ untold' = untold \cup {m.task}
    /\ queue' = queue (-) SetToBag({m})
    /\ worker' = [worker EXCEPT ![w] = [step |-> "prerun", task |-> m.task,
                                        retries |-> m.retries]]
    /\ UNCHANGED <<execution, deadLetter, done>>

\* Mutant of Unacknowledged: task_acks_late off, the message has gone.
AcknowledgedEarly(w) == UNCHANGED queue

\* task_acks_late and task_reject_on_worker_lost.
Unacknowledged(w) == queue' = queue (+) SetToBag({MessageOf(w)})

\* The parent is at the handlers of a message it has acknowledged.
Killed(w) == worker[w].step \in {"killed", "buried"}

\* The process of a worker is lost, and replaced; in the last case it is the
\* parent that is lost, and nobody will know of the task.
Crash(w) ==
    /\ Busy(w)
    /\ Happens("crash")
    /\ \/ ~Killed(w) /\ Unacknowledged(w) /\ UNCHANGED untold
       \/ Killed(w) /\ UNCHANGED queue /\ untold' = untold \cup {worker[w].task}
    /\ Moves(w, "idle")
    /\ UNCHANGED <<execution, deadLetter, done>>

\* task_time_limit: no exception reaches the task.  From here on the process
\* is taken to do nothing more, although it is killed only when the parent's
\* handlers are through.
HardTimeLimit(w) ==
    /\ worker[w].step \notin {"idle", "ack"} /\ ~Killed(w)
    /\ Happens("timeout")
    /\ Moves(w, "killed")
    /\ UNCHANGED <<queue, execution, deadLetter, done, untold>>

Acknowledge(w) ==
    /\ worker[w].step = "ack"
    /\ Moves(w, "idle")
    /\ UNCHANGED <<queue, execution, deadLetter, done, untold, faults>>

(***************************************************************************)
(* The handlers.  Each writes a row in a transaction of its own and        *)
(* swallows what goes wrong with it.                                       *)
(***************************************************************************)
Handler(w, from, to, write) ==
    /\ worker[w].step = from
    /\ Moves(w, to)
    /\ \/ write /\ UNCHANGED <<untold, faults>>
       \/ /\ Happens("write")
          /\ untold' = untold \cup {worker[w].task}
          /\ UNCHANGED <<execution, deadLetter>>
    /\ UNCHANGED <<queue, done>>

\* _update_task_execution: a row that is not there is not made up.
Update(t, state, finished) ==
    execution' =
        IF execution[t] = NoRow THEN execution
        ELSE [execution EXCEPT ![t] =
                  [state |-> state, finished |-> @.finished \/ finished]]

\* A redelivered or retried task keeps the row of its first attempt.
Prerun(w) ==
    LET t == worker[w].task IN
    Handler(w, "prerun", "body",
        /\ execution' = IF execution[t] = NoRow
                        THEN [execution EXCEPT ![t] = StartedRow] ELSE execution
        /\ UNCHANGED deadLetter)

\* The body returns: task_postrun with SUCCESS comes next.
Returns(w) ==
    /\ Moves(w, "postrun")
    /\ done' = done \cup {worker[w].task}
    /\ UNCHANGED <<queue, execution, deadLetter, untold, faults>>

\* Mutant of Raises: one retry more than max_retries.
RaisesOnceMore(w) ==
    /\ IF worker[w].retries <= MaxRetries[worker[w].task]
       THEN /\ queue' = queue (+) SetToBag({Message(worker[w].task, worker[w].retries + 1)})
            /\ Moves(w, "retry")
       ELSE Moves(w, "failure") /\ UNCHANGED queue
    /\ UNCHANGED <<execution, deadLetter, done, untold>>

\* autoretry_for and max_retries: published again, or given up.
Raises(w) ==
    /\ IF worker[w].retries < MaxRetries[worker[w].task]
       THEN /\ queue' = queue (+) SetToBag({Message(worker[w].task, worker[w].retries + 1)})
            /\ Moves(w, "retry")
       ELSE Moves(w, "failure") /\ UNCHANGED queue
    /\ UNCHANGED <<execution, deadLetter, done, untold>>

Postrun(w) ==
    Handler(w, "postrun", "ack",
        Update(worker[w].task, "SUCCESS", TRUE) /\ UNCHANGED deadLetter)

\* task_postrun follows with the state RETRY and does nothing.
Retry(w) ==
    Handler(w, "retry", "ack",
        Update(worker[w].task, "RETRY", FALSE) /\ UNCHANGED deadLetter)

\* task_failure, in the worker or in its parent: first the dead letter, one
\* per task id, ...
DeadLetter(w) ==
    LET bury == deadLetter' = deadLetter \cup {worker[w].task} /\ UNCHANGED execution IN
    Handler(w, "failure", "failed", bury) \/ Handler(w, "killed", "buried", bury)

\* ... then the execution.
Failure(w) ==
    LET update == Update(worker[w].task, "FAILURE", TRUE) /\ UNCHANGED deadLetter IN
    Handler(w, "failed", "ack", update) \/ Handler(w, "buried", "idle", update)

HandlerStep(w) ==
    Prerun(w) \/ Postrun(w) \/ Retry(w) \/ DeadLetter(w) \/ Failure(w) \/ Acknowledge(w)

(***************************************************************************)
(* What the log promises.                                                  *)
(***************************************************************************)
Steps ==
    {"idle", "prerun", "body", "postrun", "retry", "failure", "failed", "ack", "killed", "buried"}

LifecycleTypeOK ==
    /\ IsABag(queue)
    /\ BagToSet(queue) \subseteq UNION {{Message(t, r) : r \in 0 .. MaxRetries[t]} : t \in Tasks}
    /\ \A w \in Workers :
           /\ worker[w].step \in Steps
           /\ worker[w].task \in Tasks
           /\ worker[w].retries \in 0 .. MaxRetries[worker[w].task]
    /\ execution \in [Tasks -> [state : {"none", "STARTED", "RETRY", "SUCCESS", "FAILURE"},
                                finished : BOOLEAN]]
    /\ deadLetter \subseteq Tasks /\ done \subseteq Tasks /\ untold \subseteq Tasks
    /\ faults \in 0 .. MaxFaults

\* No task vanishes: whatever processes were lost and however often it was
\* delivered, once nothing of a submitted task is under way its body has
\* returned or it lies among the dead letters, and its execution row says
\* which of the two came last; so too if it was killed at the hard time
\* limit.  The exceptions are the tasks one of whose handlers could not
\* write or was held up past the next attempt, or whose parent process was
\* lost while it wrote of a killed one; of a task that was killed before it
\* had a row, only the dead letter is there.
LogTellsTheEnd ==
    \A t \in Tasks :
        Over(t) /\ t \notin untold =>
            \/ /\ execution[t].finished
               /\ \/ execution[t].state = "SUCCESS" /\ t \in done
                  \/ execution[t].state = "FAILURE" /\ t \in deadLetter
            \/ execution[t] = NoRow /\ t \in deadLetter
=============================================================================
