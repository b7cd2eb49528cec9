----------------------------- MODULE ThreadPool -----------------------------
(***************************************************************************)
(* Dalin's ThreadPool (src/base/ThreadPool.cpp) with the MutexLock and the *)
(* two Conditions it is built on: worker threads that take tasks from a    *)
(* queue, producers that add tasks and wait while the queue is full, and   *)
(* the thread that stops the pool and joins the workers.                   *)
(*                                                                         *)
(* A critical section is one step, as mutex_ makes it.  A thread that      *)
(* waits on a condition is in its wait set; notify() takes an arbitrary    *)
(* thread out of it and pthread_cond_wait() may also return for no reason; *)
(* either way the thread tests its condition again in a later step.        *)
(* start() has been called with at least one thread, so that addTask()     *)
(* queues and does not run the task itself.                                *)
(***************************************************************************)
EXTENDS Integers, Sequences, FiniteSets

CONSTANTS
    Workers, Producers,   \* threads
    Tasks,
    NoTask,               \* the empty std::function takeTask() may return
    maxQueueSize_         \* 0: no limit

ASSUME ThreadPoolAssumption ==
    /\ NoTask \notin Tasks
    /\ maxQueueSize_ \in Nat

VARIABLES
    taskQueue_, running_,
    notEmpty_, notFull_,  \* wait sets of the two conditions
    workerPc, task,       \* runInThread() of each worker, and its local
    producerPc, adding,   \* addTask() of each producer, and its argument
    stopPc,               \* the thread that calls stop()
    accepted, taken,      \* history: tasks in the order pushed, and popped
    done                  \* history: tasks that have been run

poolVars == <<taskQueue_, running_, notEmpty_, notFull_>>
workerVars == <<workerPc, task>>
producerVars == <<producerPc, adding>>
historyVars == <<accepted, taken, done>>
vars == <<poolVars, workerVars, producerVars, stopPc, historyVars>>

\* The pool just after start()
Init ==
    /\ taskQueue_ = << >> /\ running_ = TRUE
    /\ notEmpty_ = {} /\ notFull_ = {}
    /\ workerPc = [w \in Workers |-> "check"]
    /\ task = [w \in Workers |-> NoTask]
    /\ producerPc = [p \in Producers |-> "idle"]
    /\ adding = [p \in Producers |-> NoTask]
    /\ stopPc = "running"
    /\ accepted = << >> /\ taken = << >> /\ done = {}

\* Condition::notify(): some waiter, if there is one, leaves the wait set.
Notify(waiters) == IF waiters = {} THEN {{}} ELSE {waiters \ {t} : t \in waiters}

IsFull == maxQueueSize_ > 0 /\ Len(taskQueue_) >= maxQueueSize_

-----------------------------------------------------------------------------
(***************************************************************************)
(* addTask()                                                               *)
(***************************************************************************)
AddTaskCall(p, t) ==
    /\ producerPc[p] = "idle"
    /\ \A q \in Producers : adding[q] # t
    /\ \A i \in DOMAIN accepted : accepted[i] # t
    /\ producerPc' = [producerPc EXCEPT ![p] = "add"]
    /\ adding' = [adding EXCEPT ![p] = t]
    /\ UNCHANGED <<poolVars, workerVars, stopPc, historyVars>>

AddTaskWait(p) ==
    /\ producerPc[p] = "add" /\ p \notin notFull_
    /\ IsFull
    /\ notFull_' = notFull_ \cup {p}
    /\ UNCHANGED <<taskQueue_, running_, notEmpty_, workerVars, producerVars, stopPc,
                   historyVars>>

\* Seeded fault: a producer that has waited does not test isFull() again.
AddTaskPushUnchecked(p) ==
    /\ producerPc[p] = "add" /\ p \notin notFull_
    /\ taskQueue_' = Append(taskQueue_, adding[p])
    /\ accepted' = Append(accepted, adding[p])
    /\ notEmpty_' \in Notify(notEmpty_)
    /\ producerPc' = [producerPc EXCEPT ![p] = "idle"]
    /\ adding' = [adding EXCEPT ![p] = NoTask]
    /\ UNCHANGED <<running_, notFull_, workerVars, stopPc, taken, done>>

\* Seeded fault: the wrong condition is notified.
AddTaskPushMisnotify(p) ==
    /\ producerPc[p] = "add" /\ p \notin notFull_
    /\ ~IsFull
    /\ taskQueue_' = Append(taskQueue_, adding[p])
    /\ accepted' = Append(accepted, adding[p])
    /\ notFull_' \in Notify(notFull_)
    /\ producerPc' = [producerPc EXCEPT ![p] = "idle"]
    /\ adding' = [adding EXCEPT ![p] = NoTask]
    /\ UNCHANGED <<running_, notEmpty_, workerVars, stopPc, taken, done>>

AddTaskPush(p) ==
    /\ producerPc[p] = "add" /\ p \notin notFull_
    /\ ~IsFull
    /\ taskQueue_' = Append(taskQueue_, adding[p])
    /\ accepted' = Append(accepted, adding[p])
    /\ notEmpty_' \in Notify(notEmpty_)
    /\ producerPc' = [producerPc EXCEPT ![p] = "idle"]
    /\ adding' = [adding EXCEPT ![p] = NoTask]
    /\ UNCHANGED <<running_, notFull_, workerVars, stopPc, taken, done>>

(***************************************************************************)
(* runInThread() and takeTask()                                            *)
(***************************************************************************)
\* while (running_), read without the mutex
WorkerCheck(w) ==
    /\ workerPc[w] = "check"
    /\ workerPc' = [workerPc EXCEPT ![w] = IF running_ THEN "take" ELSE "exit"]
    /\ UNCHANGED <<poolVars, task, producerVars, stopPc, historyVars>>

TakeTaskWait(w) ==
    /\ workerPc[w] = "take" /\ w \notin notEmpty_
    /\ taskQueue_ = << >> /\ running_
    /\ notEmpty_' = notEmpty_ \cup {w}
    /\ UNCHANGED <<taskQueue_, running_, notFull_, workerVars, producerVars, stopPc,
                   historyVars>>

\* Seeded fault: notFull_ is notified only by the worker that finds it full.
NotifyNotFullAtLimit ==
    notFull_' \in IF IsFull THEN Notify(notFull_) ELSE {notFull_}

\* if (maxQueueSize_ > 0) notFull_.notify()
NotifyNotFull ==
    notFull_' \in IF maxQueueSize_ > 0 THEN Notify(notFull_) ELSE {notFull_}

\* Seeded fault: the task is copied and never popped when it is the last one.
PopKeepsLast == IF Len(taskQueue_) = 1 THEN taskQueue_ ELSE Tail(taskQueue_)

\* taskQueue_.pop_front()
Pop == Tail(taskQueue_)

TakeTask(w) ==
    /\ workerPc[w] = "take" /\ w \notin notEmpty_
    /\ taskQueue_ # << >>
    /\ task' = [task EXCEPT ![w] = Head(taskQueue_)]
    /\ taskQueue_' = Pop
    /\ taken' = Append(taken, Head(taskQueue_))
    /\ NotifyNotFull
    /\ workerPc' = [workerPc EXCEPT ![w] = "run"]
    /\ UNCHANGED <<running_, notEmpty_, producerVars, stopPc, accepted, done>>

\* takeTask() returns the empty function once the pool was stopped.
TakeNothing(w) ==
    /\ workerPc[w] = "take" /\ w \notin notEmpty_
    /\ taskQueue_ = << >> /\ ~running_
    /\ workerPc' = [workerPc EXCEPT ![w] = "check"]
    /\ UNCHANGED <<poolVars, task, producerVars, stopPc, historyVars>>

RunTask(w) ==
    /\ workerPc[w] = "run"
    /\ done' = done \cup {task[w]}
    /\ task' = [task EXCEPT ![w] = NoTask]
    /\ workerPc' = [workerPc EXCEPT ![w] = "check"]
    /\ UNCHANGED <<poolVars, producerVars, stopPc, accepted, taken>>

(***************************************************************************)
(* stop(): clear the flag, wake the workers, join them.                    *)
(***************************************************************************)
\* Seeded fault: one worker is notified instead of all.
StopNotifyOne ==
    /\ stopPc = "running"
    /\ running_' = FALSE
    /\ notEmpty_' \in Notify(notEmpty_)
    /\ stopPc' = "joining"
    /\ UNCHANGED <<taskQueue_, notFull_, workerVars, producerVars, historyVars>>

Stop ==
    /\ stopPc = "running"
    /\ running_' = FALSE
    /\ notEmpty_' = {}
    /\ stopPc' = "joining"
    /\ UNCHANGED <<taskQueue_, notFull_, workerVars, producerVars, historyVars>>

\* Seeded fault: only one worker is waited for.
JoinOne ==
    /\ stopPc = "joining"
    /\ \E w \in Workers : workerPc[w] = "exit"
    /\ stopPc' = "stopped"
    /\ UNCHANGED <<poolVars, workerVars, producerVars, historyVars>>

Join ==
    /\ stopPc = "joining"
    /\ \A w \in Workers : workerPc[w] = "exit"
    /\ stopPc' = "stopped"
    /\ UNCHANGED <<poolVars, workerVars, producerVars, historyVars>>

\* pthread_cond_wait() returns without a notification.
SpuriousWakeup ==
    /\ \/ \E w \in notEmpty_ : notEmpty_' = notEmpty_ \ {w} /\ UNCHANGED notFull_
       \/ \E p \in notFull_ : notFull_' = notFull_ \ {p} /\ UNCHANGED notEmpty_
    /\ UNCHANGED <<taskQueue_, running_, workerVars, producerVars, stopPc, historyVars>>

-----------------------------------------------------------------------------
ProducerStep(p) == AddTaskWait(p) \/ AddTaskPush(p)

-----------------------------------------------------------------------------
\* The queue respects its limit (the assertion !isFull() of addTask()): a
\* producer that was notified may find the place taken by another producer.
QueueBounded == maxQueueSize_ > 0 => Len(taskQueue_) <= maxQueueSize_

\* Tasks are taken exactly once and in the order in which they were added, by
\* whatever workers; what was not taken is still queued.
TakenOnceInOrder == accepted = taken \o taskQueue_

\* An added task is run, unless the pool is stopped first.
TasksRun ==
    \A t \in Tasks :
        (\E i \in DOMAIN accepted : accepted[i] = t) ~> (t \in done \/ ~running_)

\* addTask() returns, however full the queue is, unless the pool is stopped.
AddTaskReturns ==
    \A p \in Producers : (producerPc[p] = "add") ~> (producerPc[p] = "idle" \/ ~running_)

\* stop() returns: every worker notices it, asleep or not.
StopReturns == (stopPc = "joining") ~> (stopPc = "stopped")

=============================================================================
