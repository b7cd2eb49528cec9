------------------------- MODULE LatchedPoolProofs --------------------------
(***************************************************************************)
(* Proofs about LatchedPool for every number of workers, producers and     *)
(* tasks and every limit of the queue: the queue is bounded and a FIFO,    *)
(* and the latch may be destroyed after stop() has returned.               *)
(***************************************************************************)
EXTENDS LatchedPool, SequenceTheorems, TLAPS

TypeOK ==
    /\ taskQueue_ \in Seq(Tasks) /\ accepted \in Seq(Tasks) /\ taken \in Seq(Tasks)
    /\ workerPc \in [Workers -> {"check", "take", "run", "exit"}]
    /\ task \in [Workers -> Tasks \cup {NoTask}]
    /\ producerPc \in [Producers -> {"idle", "add"}]
    /\ adding \in [Producers -> Tasks \cup {NoTask}]
    /\ stopPc \in {"running", "joining", "stopped"}
    /\ latchPc \in [Users -> {"out", "counted", "open", "done"}]
    /\ holder_ \in Users \cup {NoThread}
    /\ latchGone \in BOOLEAN

\* addTask() has its argument.
AddingInv == \A p \in Producers : producerPc[p] = "add" => adding[p] \in Tasks

QueueInv == TypeOK /\ AddingInv /\ QueueBounded /\ TakenOnceInOrder

\* A thread with the latch's mutex stands inside countDown() or wait().
HolderInv ==
    \A t \in Users : holder_ = t <=> latchPc[t] \in {"counted", "open"}

\* Only a worker that runs a task that counts is inside countDown(), and only
\* the main thread comes to wait().
LatchPcInv ==
    /\ \A w \in Workers :
          /\ latchPc[w] \in {"out", "counted"}
          /\ workerPc[w] # "run" => task[w] = NoTask
          /\ latchPc[w] = "counted" => Counts(w)
    /\ latchPc[Main] # "counted"

\* The main thread waits, stops, joins and destroys in this order.
MainInv ==
    /\ stopPc # "running" => latchPc[Main] = "done"
    /\ stopPc = "stopped" => \A w \in Workers : workerPc[w] = "exit"
    /\ latchGone => stopPc = "stopped"

IndInv == TypeOK /\ HolderInv /\ LatchPcInv /\ MainInv

-----------------------------------------------------------------------------
\* A task that a worker takes passes from the queue to the tasks taken.
LEMMA TakeKeepsOrder ==
    ASSUME NEW s \in Seq(Tasks), NEW q \in Seq(Tasks), q # << >>
    PROVE  s \o q = Append(s, Head(q)) \o Tail(q)
  OBVIOUS

\* A task that is pushed comes after all others.
LEMMA PushKeepsOrder ==
    ASSUME NEW s \in Seq(Tasks), NEW q \in Seq(Tasks), NEW t \in Tasks
    PROVE  Append(s \o q, t) = s \o Append(q, t)
  OBVIOUS

-----------------------------------------------------------------------------
\* The pool and the latch as the constructors and start() leave them.
LEMMA TypeInit == LatchedInit => TypeOK
<1>. SUFFICES ASSUME LatchedInit PROVE TypeOK
  OBVIOUS
<1>1. << >> \in Seq(Tasks)
  OBVIOUS
<1>2. Init /\ latchGone = FALSE /\ \E count \in {0, Cardinality(Counting)} : LatchInit(count)
  BY DEF LatchedInit
<1>3. holder_ = NoThread /\ latchPc = [t \in Users |-> "out"]
  BY <1>2 DEF LatchInit, Mutex!Init
<1>. QED BY <1>1, <1>2, <1>3 DEF Init, TypeOK

\* The steps of the pool alone keep the types.
LEMMA PoolTypes ==
    ASSUME TypeOK, AddingInv, UNCHANGED <<latchVars, latchGone>>,
           \/ \E w \in Workers : WorkerCheck(w) \/ TakeTaskWait(w) \/ TakeTask(w) \/ TakeNothing(w)
           \/ \E p \in Producers : ProducerStep(p) \/ \E t \in Tasks : AddTaskCall(p, t)
           \/ Join \/ Stop \/ SpuriousWakeup
    PROVE  TypeOK' /\ AddingInv'
<1>. USE DEF TypeOK, AddingInv, latchVars, poolVars, workerVars, producerVars, historyVars
<1>1. ASSUME NEW w \in Workers, WorkerCheck(w) PROVE TypeOK' /\ AddingInv'
  BY <1>1 DEF WorkerCheck
<1>2. ASSUME NEW w \in Workers, TakeTaskWait(w) PROVE TypeOK' /\ AddingInv'
  BY <1>2 DEF TakeTaskWait
<1>3. ASSUME NEW w \in Workers, TakeTask(w) PROVE TypeOK' /\ AddingInv'
  <2>1. Head(taskQueue_) \in Tasks /\ Tail(taskQueue_) \in Seq(Tasks)
    BY <1>3 DEF TakeTask
  <2>2. Append(taken, Head(taskQueue_)) \in Seq(Tasks)
    BY <2>1
  <2>. QED BY <1>3, <2>1, <2>2 DEF TakeTask, Pop
<1>4. ASSUME NEW w \in Workers, TakeNothing(w) PROVE TypeOK' /\ AddingInv'
  BY <1>4 DEF TakeNothing
<1>5. ASSUME NEW p \in Producers, AddTaskWait(p) PROVE TypeOK' /\ AddingInv'
  BY <1>5 DEF AddTaskWait
<1>6. ASSUME NEW p \in Producers, AddTaskPush(p) PROVE TypeOK' /\ AddingInv'
  <2>1. adding[p] \in Tasks
    BY <1>6 DEF AddTaskPush
  <2>2. Append(taskQueue_, adding[p]) \in Seq(Tasks) /\ Append(accepted, adding[p]) \in Seq(Tasks)
    BY <2>1
  <2>. QED BY <1>6, <2>2 DEF AddTaskPush
<1>7. ASSUME NEW p \in Producers, NEW t \in Tasks, AddTaskCall(p, t) PROVE TypeOK' /\ AddingInv'
  BY <1>7 DEF AddTaskCall
<1>8. CASE Join BY <1>8 DEF Join
<1>9. CASE Stop BY <1>9 DEF Stop
<1>10. CASE SpuriousWakeup BY <1>10 DEF SpuriousWakeup
<1>. QED
  BY <1>1, <1>2, <1>3, <1>4, <1>5, <1>6, <1>7, <1>8, <1>9, <1>10 DEF ProducerStep

\* The steps in which threads use the latch keep the types.
LEMMA LatchTypes ==
    ASSUME TypeOK, AddingInv,
           \/ \E w \in Workers : TaskCountsDown(w) \/ TaskReturns(w)
           \/ MainWaits \/ DestroyLatch
           \/ LatchSpuriousWakeup /\ UNCHANGED <<vars, latchGone>>
    PROVE  TypeOK' /\ AddingInv'
<1>. USE DEF TypeOK, AddingInv, vars, latchVars, poolVars, workerVars, producerVars, historyVars,
             Users
<1>1. ASSUME NEW w \in Workers, TaskCountsDown(w) PROVE TypeOK' /\ AddingInv'
  BY <1>1 DEF TaskCountsDown, CountDown, Mutex!Lock
<1>2. ASSUME NEW w \in Workers, TaskReturns(w) PROVE TypeOK' /\ AddingInv'
  BY <1>2 DEF TaskReturns, RunTask, CountDownReturn, Mutex!Unlock
<1>3. CASE MainWaits
  BY <1>3 DEF MainWaits, Wait, WaitReturn, Mutex!Lock, Mutex!Unlock, Mutex!LockAndWait
<1>4. CASE DestroyLatch BY <1>4 DEF DestroyLatch
<1>5. CASE LatchSpuriousWakeup /\ UNCHANGED <<vars, latchGone>>
  BY <1>5 DEF LatchSpuriousWakeup, Mutex!SpuriousWakeup
<1>. QED BY <1>1, <1>2, <1>3, <1>4, <1>5

\* Every variable keeps its type, and addTask() its argument.
LEMMA TypeInductive == TypeOK /\ AddingInv /\ [LatchedNext]_latchedVars => TypeOK' /\ AddingInv'
<1>. SUFFICES ASSUME TypeOK, AddingInv, [LatchedNext]_latchedVars PROVE TypeOK' /\ AddingInv'
  OBVIOUS
<1>1. CASE UNCHANGED latchedVars
  BY <1>1 DEF latchedVars, vars, latchVars, poolVars, workerVars, producerVars, historyVars,
              TypeOK, AddingInv
<1>. QED
  BY <1>1, PoolTypes, LatchTypes DEF LatchedNext, WorkerSteps, MainStep, PoolStep, StopPool

-----------------------------------------------------------------------------
\* The only steps that change the queue push or pop one task, and record it.
LEMMA QueueSteps ==
    ASSUME [LatchedNext]_latchedVars
    PROVE  \/ UNCHANGED <<taskQueue_, accepted, taken>>
           \/ \E p \in Producers : AddTaskPush(p)
           \/ \E w \in Workers : TakeTask(w)
  BY DEF LatchedNext, WorkerSteps, MainStep, PoolStep, StopPool, latchedVars, vars, poolVars,
         historyVars, TaskCountsDown, TaskReturns, MainWaits, DestroyLatch, ProducerStep,
         WorkerCheck, TakeTaskWait, TakeNothing, RunTask, AddTaskCall, AddTaskWait, Stop, Join,
         SpuriousWakeup

\* addTask(), takeTask() and everything else keep the bound and the order.
LEMMA QueueInductive == QueueInv /\ [LatchedNext]_latchedVars => QueueInv'
<1>. SUFFICES ASSUME QueueInv, [LatchedNext]_latchedVars PROVE QueueInv'
  OBVIOUS
<1>1. TypeOK' /\ AddingInv' BY TypeInductive DEF QueueInv
<1>2. /\ taskQueue_ \in Seq(Tasks) /\ accepted \in Seq(Tasks) /\ taken \in Seq(Tasks)
      /\ QueueBounded /\ TakenOnceInOrder /\ AddingInv
  BY DEF QueueInv, TypeOK
<1>3. QueueBounded' /\ TakenOnceInOrder'
  <2>1. CASE UNCHANGED <<taskQueue_, accepted, taken>>
    BY <2>1, <1>2 DEF QueueBounded, TakenOnceInOrder
  <2>2. ASSUME NEW p \in Producers, AddTaskPush(p) PROVE QueueBounded' /\ TakenOnceInOrder'
    <3>1. adding[p] \in Tasks BY <2>2, <1>2 DEF AddTaskPush, AddingInv
    <3>2. Len(Append(taskQueue_, adding[p])) = Len(taskQueue_) + 1 /\ Len(taskQueue_) \in Nat
      BY <3>1, <1>2
    <3>3. QueueBounded'
      BY <2>2, <3>2, ThreadPoolAssumption DEF AddTaskPush, IsFull, QueueBounded
    <3>4. TakenOnceInOrder'
      BY <2>2, <3>1, <1>2, PushKeepsOrder DEF AddTaskPush, TakenOnceInOrder
    <3>. QED BY <3>3, <3>4
  <2>3. ASSUME NEW w \in Workers, TakeTask(w) PROVE QueueBounded' /\ TakenOnceInOrder'
    <3>1. /\ taskQueue_ # << >> /\ taskQueue_' = Tail(taskQueue_)
          /\ taken' = Append(taken, Head(taskQueue_)) /\ accepted' = accepted
      BY <2>3 DEF TakeTask, Pop
    <3>2. Len(Tail(taskQueue_)) = Len(taskQueue_) - 1 /\ Len(taskQueue_) \in Nat
      BY <3>1, <1>2
    <3>3. QueueBounded' BY <3>1, <3>2, <1>2, ThreadPoolAssumption DEF QueueBounded
    <3>4. TakenOnceInOrder' BY <3>1, <1>2, TakeKeepsOrder DEF TakenOnceInOrder
    <3>. QED BY <3>3, <3>4
  <2>. QED BY <2>1, <2>2, <2>3, QueueSteps
<1>. QED BY <1>1, <1>3 DEF QueueInv

\* An empty queue is within every bound.
LEMMA QueueInvInit == LatchedInit => QueueInv
<1>. SUFFICES ASSUME LatchedInit PROVE QueueInv
  OBVIOUS
<1>1. taskQueue_ = << >> /\ accepted = << >> /\ taken = << >> /\ AddingInv
  BY DEF LatchedInit, Init, AddingInv
<1>2. QueueBounded BY <1>1, ThreadPoolAssumption DEF QueueBounded
<1>3. TakenOnceInOrder BY <1>1 DEF TakenOnceInOrder
<1>. QED BY <1>1, <1>2, <1>3, TypeInit DEF QueueInv

\* The queue never holds more than maxQueueSize_ tasks, however many producers
\* wait for a place and whoever is woken: the assertion !isFull() of addTask().
THEOREM QueueIsBounded == LatchedSpec => []QueueBounded
<1>1. QueueInv => QueueBounded BY DEF QueueInv
<1>. QED BY <1>1, QueueInvInit, QueueInductive, PTL DEF LatchedSpec

\* The tasks that addTask() pushed are those that takeTask() handed out, in the
\* same order, followed by those still queued.
THEOREM TasksTakenInOrder == LatchedSpec => []TakenOnceInOrder
<1>1. QueueInv => TakenOnceInOrder BY DEF QueueInv
<1>. QED BY <1>1, QueueInvInit, QueueInductive, PTL DEF LatchedSpec

-----------------------------------------------------------------------------
\* Nobody is inside the latch when it is constructed.
LEMMA IndInvInit == LatchedInit => IndInv
<1>. SUFFICES ASSUME LatchedInit PROVE IndInv
  OBVIOUS
<1>1. holder_ = NoThread /\ latchPc = [t \in Users |-> "out"]
  BY DEF LatchedInit, LatchInit, Mutex!Init
<1>2. Init /\ latchGone = FALSE BY DEF LatchedInit
<1>. QED
  BY <1>1, <1>2, TypeInit, LatchedPoolAssumption
     DEF Init, IndInv, HolderInv, LatchPcInv, Counts, MainInv, Users

\* The steps of the pool, of which none concerns the latch.
LEMMA PoolInductive ==
    ASSUME IndInv, UNCHANGED <<latchVars, latchGone>>, TypeOK',
           \/ \E w \in Workers : WorkerCheck(w) \/ TakeTaskWait(w) \/ TakeTask(w) \/ TakeNothing(w)
           \/ \E p \in Producers : ProducerStep(p) \/ \E t \in Tasks : AddTaskCall(p, t)
           \/ Join \/ SpuriousWakeup
           \/ latchPc[Main] = "done" /\ Stop
    PROVE  IndInv'
<1>. USE DEF IndInv, TypeOK, HolderInv, LatchPcInv, Counts, MainInv, latchVars, poolVars,
             workerVars, producerVars, Users
<1>1. ASSUME NEW w \in Workers, WorkerCheck(w) PROVE IndInv'
  BY <1>1 DEF WorkerCheck
<1>2. ASSUME NEW w \in Workers, TakeTaskWait(w) PROVE IndInv'
  BY <1>2 DEF TakeTaskWait
<1>3. ASSUME NEW w \in Workers, TakeTask(w) PROVE IndInv'
  BY <1>3 DEF TakeTask
<1>4. ASSUME NEW w \in Workers, TakeNothing(w) PROVE IndInv'
  BY <1>4 DEF TakeNothing
<1>5. ASSUME NEW p \in Producers, ProducerStep(p) PROVE IndInv'
  BY <1>5 DEF ProducerStep, AddTaskWait, AddTaskPush
<1>6. ASSUME NEW p \in Producers, NEW t \in Tasks, AddTaskCall(p, t) PROVE IndInv'
  BY <1>6 DEF AddTaskCall
<1>7. CASE Join BY <1>7 DEF Join
<1>8. CASE SpuriousWakeup BY <1>8 DEF SpuriousWakeup
<1>9. CASE latchPc[Main] = "done" /\ Stop BY <1>9 DEF Stop
<1>. QED BY <1>1, <1>2, <1>3, <1>4, <1>5, <1>6, <1>7, <1>8, <1>9

\* countDown(), wait() and the end of the latch.
LEMMA LatchInductive ==
    ASSUME IndInv, TypeOK',
           \/ \E w \in Workers : TaskCountsDown(w) \/ TaskReturns(w)
           \/ MainWaits \/ DestroyLatch
           \/ LatchSpuriousWakeup /\ UNCHANGED <<vars, latchGone>>
    PROVE  IndInv'
<1>. USE LatchedPoolAssumption DEF IndInv, TypeOK, HolderInv, LatchPcInv, Counts, MainInv, vars,
         latchVars, poolVars, workerVars, producerVars, Users
<1>1. ASSUME NEW w \in Workers, TaskCountsDown(w) PROVE IndInv'
  BY <1>1 DEF TaskCountsDown, CountDown, Mutex!Lock
<1>2. ASSUME NEW w \in Workers, TaskReturns(w) PROVE IndInv'
  <2>1. CASE Counts(w)
    <3>1. /\ workerPc[w] = "run" /\ workerPc' = [workerPc EXCEPT ![w] = "check"]
          /\ task' = [task EXCEPT ![w] = NoTask]
          /\ latchPc' = [latchPc EXCEPT ![w] = "out"]
          /\ holder_ = w /\ holder_' = NoThread
          /\ UNCHANGED <<stopPc, latchGone>>
      BY <1>2, <2>1 DEF TaskReturns, RunTask, CountDownReturn, Mutex!Unlock
    <3>2. HolderInv' BY <3>1
    <3>3. LatchPcInv' BY <3>1
    <3>4. MainInv' BY <3>1
    <3>. QED BY <3>2, <3>3, <3>4
  <2>2. CASE ~Counts(w)
    BY <1>2, <2>2 DEF TaskReturns, RunTask
  <2>. QED BY <2>1, <2>2
<1>3. CASE MainWaits
  BY <1>3 DEF MainWaits, Wait, WaitReturn, Mutex!Lock, Mutex!Unlock, Mutex!LockAndWait
<1>4. CASE DestroyLatch BY <1>4 DEF DestroyLatch
<1>5. CASE LatchSpuriousWakeup /\ UNCHANGED <<vars, latchGone>>
  BY <1>5 DEF LatchSpuriousWakeup, Mutex!SpuriousWakeup
<1>. QED BY <1>1, <1>2, <1>3, <1>4, <1>5

\* No step breaks the inductive invariant.
LEMMA IndInvInductive ==
    IndInv /\ AddingInv /\ [LatchedNext]_latchedVars => IndInv' /\ AddingInv'
<1>. SUFFICES ASSUME IndInv, AddingInv, [LatchedNext]_latchedVars PROVE IndInv' /\ AddingInv'
  OBVIOUS
<1>1. TypeOK' /\ AddingInv' BY TypeInductive DEF IndInv
<1>2. CASE UNCHANGED latchedVars
  BY <1>1, <1>2 DEF latchedVars, vars, latchVars, poolVars, workerVars, IndInv, HolderInv,
                    LatchPcInv, Counts, MainInv
<1>. QED
  BY <1>1, <1>2, PoolInductive, LatchInductive
     DEF LatchedNext, WorkerSteps, MainStep, PoolStep, StopPool

\* When the latch is destroyed its mutex is free, no worker is inside
\* countDown() and none has a task that will call it: wait() may have returned
\* before the last countDown() did, but stop() joins the workers.
THEOREM LatchDestroyedUnused == LatchedSpec => []LatchOutlivesUsers
<1>1. IndInv => LatchOutlivesUsers
  BY ThreadPoolAssumption, LatchedPoolAssumption
     DEF IndInv, TypeOK, HolderInv, LatchPcInv, Counts, MainInv, LatchOutlivesUsers, Users
<1>2. LatchedInit => AddingInv BY DEF LatchedInit, Init, AddingInv
<1>. QED BY <1>1, <1>2, IndInvInit, IndInvInductive, PTL DEF LatchedSpec

=============================================================================
