--------------------------- MODULE CountDownLatch ---------------------------
(***************************************************************************)
(* Dalin's CountDownLatch (src/base/CountDownLatch.cpp).  A thread is      *)
(* outside ("out"), in countDown() after the decrement and with the mutex  *)
(* still held ("counted"), in wait() with the mutex held and the count     *)
(* down ("open"), or has returned from wait() ("done").  A thread asleep   *)
(* in wait() is "out" and a member of cond_.                               *)
(***************************************************************************)
EXTENDS Integers

CONSTANTS Users, NoThread

VARIABLES count_, holder_, cond_, latchPc

Mutex == INSTANCE Monitor

LatchInit(count) ==
    /\ count_ = count
    /\ Mutex!Init
    /\ latchPc = [t \in Users |-> "out"]

\* Seeded fault: the count is tested before it is decremented.
CountDownTestFirst(t) ==
    /\ latchPc[t] = "out" /\ Mutex!Lock(t)
    /\ count_' = count_ - 1
    /\ IF count_ = 0 THEN Mutex!NotifyAll ELSE UNCHANGED cond_
    /\ latchPc' = [latchPc EXCEPT ![t] = "counted"]

CountDown(t) ==
    /\ latchPc[t] = "out" /\ Mutex!Lock(t)
    /\ count_' = count_ - 1
    /\ IF count_' = 0 THEN Mutex!NotifyAll ELSE UNCHANGED cond_
    /\ latchPc' = [latchPc EXCEPT ![t] = "counted"]

CountDownReturn(t) ==
    /\ latchPc[t] = "counted" /\ Mutex!Unlock(t)
    /\ latchPc' = [latchPc EXCEPT ![t] = "out"]
    /\ UNCHANGED <<count_, cond_>>

\* while (count_ > 0) cond_.wait();
Wait(t) ==
    /\ latchPc[t] = "out"
    /\ \/ count_ > 0 /\ Mutex!LockAndWait(t) /\ UNCHANGED latchPc
       \/ /\ count_ <= 0 /\ Mutex!Lock(t)
          /\ latchPc' = [latchPc EXCEPT ![t] = "open"]
          /\ UNCHANGED cond_
    /\ UNCHANGED count_

WaitReturn(t) ==
    /\ latchPc[t] = "open" /\ Mutex!Unlock(t)
    /\ latchPc' = [latchPc EXCEPT ![t] = "done"]
    /\ UNCHANGED <<count_, cond_>>

LatchSpuriousWakeup == Mutex!SpuriousWakeup /\ UNCHANGED <<count_, latchPc>>

=============================================================================
