------------------------------ MODULE Monitor -------------------------------
(***************************************************************************)
(* MutexLock with its MutexLockGuard (src/base/Mutex.h) and a Condition    *)
(* (src/base/Condition.h) on it, as operators for the modules that use     *)
(* them.  The mutex is held exactly while holder_ is set: lock() sets it,  *)
(* unlock() and the UnassignGuard of wait() clear it, each while the       *)
(* thread owns the pthread mutex.                                          *)
(***************************************************************************)
CONSTANT NoThread     \* the holder_ of a free mutex

VARIABLES
    holder_,
    cond_             \* threads asleep in pthread_cond_wait()

Init == holder_ = NoThread /\ cond_ = {}

\* A thread gets the mutex: at the beginning of a MutexLockGuard, or at the end
\* of the wait() from which it was woken.
Lock(t) == holder_ = NoThread /\ t \notin cond_ /\ holder_' = t

\* ~MutexLockGuard()
Unlock(t) == holder_ = t /\ holder_' = NoThread

\* wait() of a thread that takes the mutex in the same step: it sleeps, and
\* the mutex is free again.
LockAndWait(t) ==
    /\ holder_ = NoThread /\ t \notin cond_
    /\ cond_' = cond_ \cup {t}
    /\ UNCHANGED holder_

\* notify() wakes one thread if there is one.
Notify == cond_' \in IF cond_ = {} THEN {{}} ELSE {cond_ \ {t} : t \in cond_}

NotifyAll == cond_' = {}

\* pthread_cond_wait() may return without a notification.
SpuriousWakeup == \E t \in cond_ : cond_' = cond_ \ {t} /\ UNCHANGED holder_

=============================================================================
