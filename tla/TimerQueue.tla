----------------------------- MODULE TimerQueue -----------------------------
(***************************************************************************)
(* Dalin's TimerQueue (src/net/TimerQueue.cpp, src/net/Timer.h): timers    *)
(* that run, repeat and are cancelled on the loop's thread, requested from *)
(* any thread.                                                             *)
(*                                                                         *)
(* A Timer object is an address in a heap that may be used again after a   *)
(* delete; a TimerId is the pair of the address and the sequence number    *)
(* the object had when the id was made.  Requests of other threads reach   *)
(* the loop's thread through runInLoop(): here through `pending`, the FIFO *)
(* that EventLoop is shown to implement.                                   *)
(*                                                                         *)
(* Two clocks matter: expirations are points of the wall clock, which can  *)
(* be set, while the timerfd counts a delay on the monotonic clock.  The   *)
(* unit of time stands for the 100 microseconds below which                *)
(* howMuchTimeFromNow() does not go.                                       *)
(***************************************************************************)
EXTENDS Integers, Sequences, FiniteSets

CONSTANTS
    Addrs,         \* heap addresses a Timer can have
    NoTimer,       \* not an address
    Threads,       \* threads other than the loop's
    Delays,        \* delays of runAfter(), in units of time
    Intervals,     \* intervals of runEvery()
    MaxSeq,        \* bound: timers created altogether
    MaxTime,       \* bound: the wall clock stops here
    MaxClockSteps, \* bound: how often the wall clock is set
    MaxPending     \* bound: requests queued at a time

ASSUME TimeAssumption ==
    /\ NoTimer \notin Addrs
    /\ Delays \subseteq Nat /\ Intervals \subseteq Nat \ {0}
    /\ MaxSeq \in Nat /\ MaxTime \in Nat /\ MaxClockSteps \in Nat
    /\ MaxPending \in Nat

VARIABLES
    heap,                   \* address -> the Timer object there, or Freed
    s_numCreated_,          \* Timer::s_numCreated_
    timers_,                \* set of <<expiration, address>>
    activeTimers_,          \* set of <<address, sequence>>
    cancelingTimers_,
    callingExpiredTimers_,
    expired, toRun, now,    \* locals of handleRead(): the batch, its unrun part
    pc,                     \* the loop's thread: "loop", "run" or "callback"
    pending,                \* requests queued in the loop
    adding,                 \* per thread: addresses between runInLoop() and return
    wall, clockSteps,       \* the wall clock, and how often it was set
    countdown, ready,       \* the timerfd: ticks to go (0: disarmed), readable
    issued,                 \* history: TimerIds returned to callers
    cancelled,              \* history: ids cancelInLoop() was called with
    tooEarly,               \* history: those whose addTimerInLoop() was still queued
    finished                \* history: one-shot timers that have been run

batchVars == <<expired, toRun, now, pc, callingExpiredTimers_>>
clockVars == <<wall, clockSteps>>
timerfdVars == <<countdown, ready>>
historyVars == <<issued, cancelled, tooEarly, finished>>
vars == <<heap, s_numCreated_, timers_, activeTimers_, cancelingTimers_, batchVars,
          pending, adding, clockVars, timerfdVars, historyVars>>

Freed == [sequence |-> 0, expiration |-> 0, interval |-> 0]

\* runAfter(d) asks for a timer that does not repeat (interval 0); runEvery(i)
\* asks for one that starts after i and repeats every i.
Requests == {<<d, 0>> : d \in Delays} \cup {<<i, i>> : i \in Intervals}

\* TimerId: the address of the Timer and its sequence number
Ids == Addrs \X (1..MaxSeq)
Expiration(a) == heap[a].expiration
Sequence(a) == heap[a].sequence
Allocated(a) == Sequence(a) # 0

Init ==
    /\ heap = [a \in Addrs |-> Freed]
    /\ s_numCreated_ = 0
    /\ timers_ = {} /\ activeTimers_ = {} /\ cancelingTimers_ = {}
    /\ callingExpiredTimers_ = FALSE
    /\ expired = {} /\ toRun = {} /\ now = 0 /\ pc = "loop"
    /\ pending = << >>
    /\ adding = [t \in Threads |-> NoTimer]
    /\ wall = 0 /\ clockSteps = 0
    /\ countdown = 0 /\ ready = FALSE
    /\ issued = {} /\ cancelled = {} /\ tooEarly = {} /\ finished = {}

-----------------------------------------------------------------------------
(***************************************************************************)
(* resetTimerfd(): timerfd_settime() also discards an expiration that was  *)
(* not read yet.                                                           *)
(***************************************************************************)
HowMuchTimeFromNow(when) == IF when - wall < 1 THEN 1 ELSE when - wall

ResetTimerfd(when) ==
    /\ countdown' = HowMuchTimeFromNow(when)
    /\ ready' = FALSE

Earliest(entries) == CHOOSE e \in entries : \A f \in entries : e[1] <= f[1]

\* runAfter() and runEvery() up to new Timer(cb, when, interval)
NewTimer(a, request) ==
    /\ ~Allocated(a)
    /\ s_numCreated_ < MaxSeq
    /\ s_numCreated_' = s_numCreated_ + 1
    /\ heap' = [heap EXCEPT ![a] = [sequence |-> s_numCreated_ + 1,
                                    expiration |-> wall + request[1],
                                    interval |-> request[2]]]

\* addTimerInLoop() with insert(), of a Timer object tm at address a
AddTimerInLoop(a, tm) ==
    /\ timers_' = timers_ \cup {<<tm.expiration, a>>}
    /\ activeTimers_' = activeTimers_ \cup {<<a, tm.sequence>>}
    /\ IF \A e \in timers_ : tm.expiration < e[1]
       THEN ResetTimerfd(tm.expiration)
       ELSE UNCHANGED timerfdVars

\* Seeded fault: the timer is looked up by its address alone.
CancelInLoopByAddress(id) ==
    LET hit == {x \in activeTimers_ : x[1] = id[1]} IN
    /\ cancelled' = cancelled \cup {id}
    /\ timers_' = {e \in timers_ : e[2] # id[1]}
    /\ activeTimers_' = activeTimers_ \ hit
    /\ heap' = IF hit = {} THEN heap ELSE [heap EXCEPT ![id[1]] = Freed]
    /\ cancelingTimers_' = IF hit = {} /\ callingExpiredTimers_
                           THEN cancelingTimers_ \cup {id} ELSE cancelingTimers_
    /\ UNCHANGED tooEarly

\* cancelInLoop()
CancelInLoop(id) ==
    /\ cancelled' = cancelled \cup {id}
    /\ tooEarly' = IF \E i \in DOMAIN pending :
                         pending[i] = [op |-> "add", timer |-> id[1]] /\ Sequence(id[1]) = id[2]
                   THEN tooEarly \cup {id} ELSE tooEarly
    /\ \/ /\ id \in activeTimers_
          /\ timers_' = timers_ \ {<<Expiration(id[1]), id[1]>>}
          /\ activeTimers_' = activeTimers_ \ {id}
          /\ heap' = [heap EXCEPT ![id[1]] = Freed]
          /\ UNCHANGED cancelingTimers_
       \/ /\ id \notin activeTimers_
          /\ cancelingTimers_' = IF callingExpiredTimers_
                                 THEN cancelingTimers_ \cup {id} ELSE cancelingTimers_
          /\ UNCHANGED <<timers_, activeTimers_, heap>>

-----------------------------------------------------------------------------
(***************************************************************************)
(* addTimer() and cancel() on the loop's thread: in the callback of a      *)
(* timer or from any other code the loop runs.                             *)
(***************************************************************************)
AddTimerHere(a, request) ==
    /\ pc \in {"loop", "callback"}
    /\ NewTimer(a, request)
    /\ AddTimerInLoop(a, heap'[a])
    /\ issued' = issued \cup {<<a, s_numCreated_'>>}
    /\ UNCHANGED <<cancelingTimers_, batchVars, pending, adding, clockVars,
                   cancelled, tooEarly, finished>>

CancelHere(id) ==
    /\ pc \in {"loop", "callback"}
    /\ id \in issued \ cancelled
    /\ CancelInLoop(id)
    /\ UNCHANGED <<s_numCreated_, batchVars, pending, adding, clockVars, timerfdVars,
                   issued, finished>>

(***************************************************************************)
(* The same on another thread.  addTimer() reads the sequence number for   *)
(* the TimerId after it has handed the object over.                        *)
(***************************************************************************)
AddTimer(t, a, request) ==
    /\ adding[t] = NoTimer
    /\ Len(pending) < MaxPending
    /\ NewTimer(a, request)
    /\ pending' = Append(pending, [op |-> "add", timer |-> a])
    /\ adding' = [adding EXCEPT ![t] = a]
    /\ UNCHANGED <<timers_, activeTimers_, cancelingTimers_, batchVars, clockVars,
                   timerfdVars, historyVars>>

AddTimerReturn(t) ==
    /\ adding[t] # NoTimer
    /\ issued' = issued \cup {<<adding[t], Sequence(adding[t])>>}
    /\ adding' = [adding EXCEPT ![t] = NoTimer]
    /\ UNCHANGED <<heap, s_numCreated_, timers_, activeTimers_, cancelingTimers_,
                   batchVars, pending, clockVars, timerfdVars, cancelled, tooEarly,
                   finished>>

Cancel(t, id) ==
    /\ adding[t] = NoTimer
    /\ Len(pending) < MaxPending
    /\ id \in issued \ cancelled
    /\ pending' = Append(pending, [op |-> "cancel", timer |-> id])
    /\ UNCHANGED <<heap, s_numCreated_, timers_, activeTimers_, cancelingTimers_,
                   batchVars, adding, clockVars, timerfdVars, historyVars>>

\* doPendingFunctors() of the loop reaches the oldest request.
RunPending ==
    /\ pc = "loop" /\ pending # << >>
    /\ pending' = Tail(pending)
    /\ LET first == Head(pending) IN
       \/ /\ first.op = "add"
          /\ AddTimerInLoop(first.timer, heap[first.timer])
          /\ UNCHANGED <<heap, cancelingTimers_, cancelled, tooEarly>>
       \/ /\ first.op = "cancel"
          /\ CancelInLoop(first.timer)
          /\ UNCHANGED timerfdVars
    /\ UNCHANGED <<s_numCreated_, batchVars, adding, clockVars, issued, finished>>

(***************************************************************************)
(* handleRead(), called when the timerfd is readable.                      *)
(***************************************************************************)
GetExpired == {e \in timers_ : e[1] <= wall}

HandleRead ==
    /\ pc = "loop" /\ ready
    /\ ready' = FALSE
    /\ now' = wall
    /\ expired' = GetExpired
    /\ toRun' = expired'
    /\ timers_' = timers_ \ expired'
    /\ activeTimers_' = activeTimers_ \ {<<e[2], Sequence(e[2])>> : e \in expired'}
    /\ callingExpiredTimers_' = TRUE
    /\ cancelingTimers_' = {}
    /\ pc' = "run"
    /\ UNCHANGED <<heap, s_numCreated_, pending, adding, clockVars, countdown,
                   historyVars>>

\* it->second->run(), in the order of the expirations (equal ones are in the
\* order of their addresses, which may be any)
RunTimer ==
    /\ pc = "run"
    /\ \E e \in toRun :
          /\ \A f \in toRun : e[1] <= f[1]
          /\ toRun' = toRun \ {e}
          /\ finished' = IF heap[e[2]].interval = 0
                         THEN finished \cup {<<e[2], Sequence(e[2])>>} ELSE finished
    /\ pc' = "callback"
    /\ UNCHANGED <<heap, s_numCreated_, timers_, activeTimers_, cancelingTimers_,
                   callingExpiredTimers_, expired, now, pending, adding, clockVars,
                   timerfdVars, issued, cancelled, tooEarly>>

CallbackReturn ==
    /\ pc = "callback"
    /\ pc' = "run"
    /\ UNCHANGED <<heap, s_numCreated_, timers_, activeTimers_, cancelingTimers_,
                   callingExpiredTimers_, expired, toRun, now, pending, adding,
                   clockVars, timerfdVars, historyVars>>

\* Seeded fault: a timer cancelled by a callback is restarted all the same.
RestartedThoughCancelled == {e[2] : e \in {x \in expired : heap[x[2]].interval > 0}}

\* The timers of the batch that reset() restarts and inserts again.  The branch
\* that would delete the others is never reached.
Restarted ==
    {e[2] : e \in {x \in expired : /\ heap[x[2]].interval > 0
                                   /\ <<x[2], Sequence(x[2])>> \notin cancelingTimers_}}

\* Seeded fault: the timers of the batch that do not restart are deleted, as
\* the unreachable branch of reset() has it.
RestartHeapDeletes ==
    [a \in Addrs |->
        CASE a \in Restarted -> [heap[a] EXCEPT !.expiration = now + heap[a].interval]
          [] a \in {e[2] : e \in expired} \ Restarted -> Freed
          [] OTHER -> heap[a]]

\* Timer::restart() of the timers that repeat
RestartHeap ==
    [a \in Addrs |-> IF a \in Restarted
                     THEN [heap[a] EXCEPT !.expiration = now + heap[a].interval]
                     ELSE heap[a]]

\* Seeded fault: restarted timers are filed under the expiration they had.
RestartEntriesStale == {<<Expiration(a), a>> : a \in Restarted}

RestartEntries == {<<now + heap[a].interval, a>> : a \in Restarted}

\* Seeded fault: the timerfd is not set again when it went off for nothing.
RearmIfExpired ==
    IF timers_' # {} /\ expired # {}
    THEN ResetTimerfd(Earliest(timers_')[1])
    ELSE UNCHANGED timerfdVars

Rearm ==
    IF timers_' # {}
    THEN ResetTimerfd(Earliest(timers_')[1])
    ELSE UNCHANGED timerfdVars

Reset ==
    /\ pc = "run" /\ toRun = {}
    /\ callingExpiredTimers_' = FALSE
    /\ heap' = RestartHeap
    /\ timers_' = timers_ \cup RestartEntries
    /\ activeTimers_' = activeTimers_ \cup {<<a, Sequence(a)>> : a \in Restarted}
    /\ Rearm
    /\ pc' = "loop"
    /\ expired' = {}
    /\ now' = 0
    /\ UNCHANGED <<s_numCreated_, cancelingTimers_, toRun, pending, adding, clockVars,
                   historyVars>>

-----------------------------------------------------------------------------
(***************************************************************************)
(* Time: both clocks advance together, and somebody may set the wall       *)
(* clock.                                                                  *)
(***************************************************************************)
Tick ==
    /\ wall < MaxTime \/ countdown > 0
    /\ wall' = IF wall < MaxTime THEN wall + 1 ELSE wall
    /\ countdown' = IF countdown > 0 THEN countdown - 1 ELSE 0
    /\ ready' = (ready \/ countdown = 1)
    /\ UNCHANGED <<heap, s_numCreated_, timers_, activeTimers_, cancelingTimers_,
                   batchVars, pending, adding, clockSteps, historyVars>>

SetClock ==
    /\ clockSteps < MaxClockSteps
    /\ clockSteps' = clockSteps + 1
    /\ wall' \in (0..MaxTime) \ {wall}
    /\ UNCHANGED <<heap, s_numCreated_, timers_, activeTimers_, cancelingTimers_,
                   batchVars, pending, adding, timerfdVars, historyVars>>

LoopStep == RunPending \/ HandleRead \/ RunTimer \/ CallbackReturn \/ Reset

UserStep ==
    \/ \E a \in Addrs, request \in Requests : AddTimerHere(a, request)
    \/ \E id \in issued : CancelHere(id)

ThreadStep(t) ==
    \/ \E a \in Addrs, request \in Requests : AddTimer(t, a, request)
    \/ AddTimerReturn(t)
    \/ \E id \in issued : Cancel(t, id)

Next ==
    \/ LoopStep
    \/ UserStep
    \/ \E t \in Threads : ThreadStep(t)
    \/ Tick
    \/ SetClock

Spec == Init /\ [][Next]_vars

\* Time passes, the loop is scheduled (its poll() sees the timerfd, its
\* doPendingFunctors() runs what is queued) and callbacks return.
Fairness ==
    /\ WF_vars(Tick)
    /\ WF_vars(RunPending)
    /\ WF_vars(HandleRead)
    /\ WF_vars(RunTimer \/ CallbackReturn \/ Reset)

FairSpec == Spec /\ Fairness

-----------------------------------------------------------------------------
\* The two sets hold the same timers (the assertions that their sizes are equal
\* and that every erase and insert finds what it expects), and every entry is
\* filed under the expiration its Timer object has.
SetsAgree ==
    /\ \A e \in timers_ : Expiration(e[2]) = e[1] /\ <<e[2], Sequence(e[2])>> \in activeTimers_
    /\ \A id \in activeTimers_ : Sequence(id[1]) = id[2] /\ <<Expiration(id[1]), id[1]>> \in timers_

\* No pointer the queue will follow is dangling: those in the two sets, in the
\* batch handleRead() is working on, in queued additions, and the one of which
\* addTimer() still has to read the sequence number.
NoUseAfterFree ==
    /\ \A e \in timers_ \cup expired : Allocated(e[2])
    /\ \A i \in DOMAIN pending : pending[i].op = "add" => Allocated(pending[i].timer)
    /\ \A t \in Threads : adding[t] # NoTimer => Allocated(adding[t])

\* A one-shot timer that has run and a timer that was cancelled, inside or
\* outside the callbacks of a batch, is never scheduled again.  tooEarly are
\* those whose cancelInLoop() came before their queued addTimerInLoop().
NoResurrection == ((cancelled \ tooEarly) \cup finished) \cap activeTimers_ = {}

\* A timer leaves the schedule only by expiring or by being cancelled itself:
\* cancelling with an old TimerId never hits a newer timer at the same address.
CancelIsPrecise ==
    [][\A id \in activeTimers_ \ activeTimers_' :
          \/ id \in cancelled'
          \/ \E e \in expired' : <<e[2], Sequence(e[2])>> = id]_vars

\* A scheduled timer is taken out to be run, or cancelled, in spite of changes
\* of the wall clock (the model's time ends at MaxTime).
TimersExpire ==
    \A a \in Addrs :
        (\E e \in timers_ : e[2] = a /\ e[1] <= MaxTime)
           ~> ~(\E e \in timers_ : e[2] = a /\ e[1] <= MaxTime)

=============================================================================
