---------------------------- MODULE LatchedPool -----------------------------
(***************************************************************************)
(* A ThreadPool some of whose tasks count a CountDownLatch down, and a     *)
(* main thread that waits for the latch, stops the pool and then destroys  *)
(* the latch: the way test/ThreadPool_test uses the two.  The latch starts *)
(* at the number of those tasks, or at 0: it is open then, and stop() may  *)
(* come at any moment.                                                     *)
(***************************************************************************)
EXTENDS ThreadPool

CONSTANTS
    Counting,             \* the tasks that call countDown()
    Main, NoThread        \* the thread of wait() and stop(); holder_ of a free mutex

VARIABLES count_, holder_, cond_, latchPc,
    latchGone             \* the latch was destroyed

ASSUME LatchedPoolAssumption ==
    /\ Counting \subseteq Tasks
    /\ Main \notin Workers /\ NoThread \notin Workers \cup {Main}

Users == Workers \cup {Main}

INSTANCE CountDownLatch

latchVars == <<count_, holder_, cond_, latchPc>>
latchedVars == <<vars, latchVars, latchGone>>

LatchedInit ==
    /\ Init
    /\ \E count \in {0, Cardinality(Counting)} : LatchInit(count)
    /\ latchGone = FALSE

\* The task of a worker is inside countDown(), or has to call it.
Counts(w) == workerPc[w] = "run" /\ task[w] \in Counting

TaskCountsDown(w) ==
    /\ Counts(w)
    /\ CountDown(w)
    /\ UNCHANGED <<vars, latchGone>>

TaskReturns(w) ==
    /\ RunTask(w)
    /\ IF Counts(w) THEN CountDownReturn(w) ELSE UNCHANGED latchVars
    /\ UNCHANGED latchGone

MainWaits ==
    /\ Wait(Main) \/ WaitReturn(Main)
    /\ UNCHANGED <<vars, latchGone>>

StopPool ==
    /\ latchPc[Main] = "done"
    /\ Stop
    /\ UNCHANGED <<latchVars, latchGone>>

\* ~CountDownLatch(), whose mutex must be free
DestroyLatch ==
    /\ stopPc = "stopped" /\ ~latchGone
    /\ latchGone' = TRUE
    /\ UNCHANGED <<vars, latchVars>>

\* What the pool does without the latch
PoolStep(Step) == Step /\ UNCHANGED <<latchVars, latchGone>>

WorkerSteps(w) ==
    \/ PoolStep(WorkerCheck(w) \/ TakeTaskWait(w) \/ TakeTask(w) \/ TakeNothing(w))
    \/ TaskCountsDown(w)
    \/ TaskReturns(w)

MainStep == MainWaits \/ PoolStep(Join) \/ DestroyLatch

LatchedNext ==
    \/ \E w \in Workers : WorkerSteps(w)
    \/ \E p \in Producers :
          PoolStep(ProducerStep(p) \/ \E t \in Tasks : AddTaskCall(p, t))
    \/ MainStep
    \/ StopPool
    \/ PoolStep(SpuriousWakeup)
    \/ LatchSpuriousWakeup /\ UNCHANGED <<vars, latchGone>>

LatchedSpec == LatchedInit /\ [][LatchedNext]_latchedVars

\* Every thread that is not in a wait set is scheduled and gets the mutex it
\* waits for, and tasks return.  Nobody has to call addTask() or stop(), and no
\* thread wakes up spuriously to the rescue.
LatchedFairSpec ==
    /\ LatchedSpec
    /\ \A w \in Workers : WF_latchedVars(WorkerSteps(w))
    /\ \A p \in Producers : WF_latchedVars(PoolStep(ProducerStep(p)))
    /\ WF_latchedVars(MainStep)

-----------------------------------------------------------------------------
\* Once the tasks that count down were added, wait() returns: the pool runs
\* them all and the last countDown() wakes the waiting thread.
LatchOpens ==
    (\A t \in Counting : \E i \in DOMAIN accepted : accepted[i] = t)
        ~> (latchPc[Main] = "done")

\* The latch is destroyed when nobody is inside and no task will come to it,
\* although wait() returns as soon as the last countDown() lets go of the mutex
\* and later tasks may count down too: stop() comes before, and joins the workers.
LatchOutlivesUsers ==
    latchGone => /\ holder_ = NoThread
                 /\ \A w \in Workers : latchPc[w] = "out" /\ task[w] \notin Counting

=============================================================================
