----------------------------- MODULE EventLoop ------------------------------
(***************************************************************************)
(* Dalin's EventLoop (src/net/EventLoop.cpp): the thread that runs loop(), *)
(* the other threads that hand functors to it or ask it to quit, and the   *)
(* eventfd that gets it out of poll().                                     *)
(*                                                                         *)
(* The loop's own thread is the state machine loopPc.  Another thread is   *)
(* between calls ("idle") or inside queueInLoop() or quit(), past the push *)
(* or the store and before the write of wakeup() ("wakeup").  User code on *)
(* the loop's thread runs outside loop(), in the callbacks of a channel    *)
(* and in functors; it may call every operation of the loop from there.    *)
(*                                                                         *)
(* poll() is called with a timeout of kPollTimeMs.  The properties are     *)
(* stated of a loop that may sleep for ever: a wakeup that is lost must    *)
(* not hide behind the ten seconds of the timeout.                         *)
(***************************************************************************)
EXTENDS Integers, Sequences

CONSTANTS
    Threads,       \* threads other than the loop's own
    Functors,      \* one element per call of queueInLoop() or runInLoop()
    EventfdMax     \* the largest count the eventfd holds (2^64 - 2)

ASSUME EventfdAssumption == EventfdMax \in Nat \ {0}

VARIABLES
    looping_, quit_, callingPendingFunctors_,
    pendingFunctors_,   \* guarded by mutex_
    functors,           \* the vector local to doPendingFunctors(), unrun part
    wakeupFd_,          \* count of the eventfd
    activeChannels_,    \* filled by poll(), not handled yet
    loopPc,             \* where the loop's thread is
    threadPc,           \* where every other thread is
    submitted,          \* history: functors handed to the loop so far
    early,              \* history: queued by the loop's thread outside loop()
    ran                 \* history: functors in the order they were run

loopVars == <<looping_, quit_, callingPendingFunctors_, activeChannels_, loopPc>>
vars == <<looping_, quit_, callingPendingFunctors_, pendingFunctors_, functors,
          wakeupFd_, activeChannels_, loopPc, threadPc, submitted, early, ran>>

\* The Poller reports ready descriptors in the order of their registration:
\* the constructor registers the timerfd and then the eventfd, so they come
\* before every channel of the user ("io").
ChannelNames == {"timer", "wakeup", "io"}

LoopPcs == {"outside", "enter", "check", "poll", "dispatch", "callback",
            "functors", "functor"}

\* Places where code of the user runs on the loop's thread.
InUserCode == loopPc \in {"outside", "callback", "functor"}

\* EventLoop::EventLoop
Init ==
    /\ looping_ = FALSE
    /\ quit_ = FALSE
    /\ callingPendingFunctors_ = FALSE
    /\ pendingFunctors_ = << >>
    /\ functors = << >>
    /\ wakeupFd_ = 0
    /\ activeChannels_ = {}
    /\ loopPc = "outside"
    /\ threadPc = [t \in Threads |-> "idle"]
    /\ submitted = {}
    /\ early = {}
    /\ ran = << >>

-----------------------------------------------------------------------------
(***************************************************************************)
(* wakeup() and its counterpart handleRead().  The eventfd is nonblocking: *)
(* a write to a full one fails with EAGAIN, which wakeup() reports and     *)
(* ignores; a read takes the whole count.                                  *)
(***************************************************************************)
Wakeup == wakeupFd_' = IF wakeupFd_ < EventfdMax THEN wakeupFd_ + 1 ELSE wakeupFd_

HandleRead == wakeupFd_' = 0

(***************************************************************************)
(* loop()                                                                  *)
(***************************************************************************)
LoopBegin ==
    /\ loopPc = "outside"
    /\ looping_' = TRUE
    /\ loopPc' = "enter"
    /\ UNCHANGED <<quit_, callingPendingFunctors_, pendingFunctors_, functors,
                   wakeupFd_, activeChannels_, threadPc, submitted, early, ran>>

LoopResetQuit ==
    /\ loopPc = "enter"
    /\ quit_' = FALSE
    /\ loopPc' = "check"
    /\ UNCHANGED <<looping_, callingPendingFunctors_, pendingFunctors_, functors,
                   wakeupFd_, activeChannels_, threadPc, submitted, early, ran>>

LoopCheck ==
    /\ loopPc = "check"
    /\ IF quit_
       THEN /\ looping_' = FALSE
            /\ loopPc' = "outside"
            /\ UNCHANGED activeChannels_
       ELSE /\ activeChannels_' = {}
            /\ loopPc' = "poll"
            /\ UNCHANGED looping_
    /\ UNCHANGED <<quit_, callingPendingFunctors_, pendingFunctors_, functors,
                   wakeupFd_, threadPc, submitted, early, ran>>

\* poll() returns once a descriptor is ready.  The eventfd is ready while its
\* count is positive; the environment decides on the other descriptors.
PollReady ==
    /\ loopPc = "poll"
    /\ \E ready \in SUBSET ChannelNames :
          /\ ready # {}
          /\ "wakeup" \in ready <=> wakeupFd_ > 0
          /\ activeChannels_' = ready
    /\ loopPc' = "dispatch"
    /\ UNCHANGED <<looping_, quit_, callingPendingFunctors_, pendingFunctors_,
                   functors, wakeupFd_, threadPc, submitted, early, ran>>

\* poll() returns with nothing: its timeout, or a signal (EINTR).
PollEmpty ==
    /\ loopPc = "poll"
    /\ wakeupFd_ = 0
    /\ loopPc' = "dispatch"
    /\ UNCHANGED <<looping_, quit_, callingPendingFunctors_, pendingFunctors_,
                   functors, wakeupFd_, activeChannels_, threadPc, submitted,
                   early, ran>>

HandleWakeupChannel ==
    /\ loopPc = "dispatch"
    /\ "wakeup" \in activeChannels_ /\ "timer" \notin activeChannels_
    /\ HandleRead
    /\ activeChannels_' = activeChannels_ \ {"wakeup"}
    /\ UNCHANGED <<looping_, quit_, callingPendingFunctors_, pendingFunctors_,
                   functors, loopPc, threadPc, submitted, early, ran>>

HandleUserChannel ==
    /\ loopPc = "dispatch"
    /\ \E c \in activeChannels_ :
          /\ c = "timer" \/ activeChannels_ = {"io"}
          /\ activeChannels_' = activeChannels_ \ {c}
    /\ loopPc' = "callback"
    /\ UNCHANGED <<looping_, quit_, callingPendingFunctors_, pendingFunctors_,
                   functors, wakeupFd_, threadPc, submitted, early, ran>>

\* Seeded fault: the pending functors are copied, not swapped out.
DoPendingFunctorsCopy ==
    /\ loopPc = "dispatch" /\ activeChannels_ = {}
    /\ callingPendingFunctors_' = TRUE
    /\ functors' = pendingFunctors_
    /\ loopPc' = "functors"
    /\ UNCHANGED <<looping_, quit_, pendingFunctors_, wakeupFd_, activeChannels_,
                   threadPc, submitted, early, ran>>

\* doPendingFunctors(): set the flag and swap the vectors
DoPendingFunctors ==
    /\ loopPc = "dispatch" /\ activeChannels_ = {}
    /\ callingPendingFunctors_' = TRUE
    /\ functors' = pendingFunctors_
    /\ pendingFunctors_' = << >>
    /\ loopPc' = "functors"
    /\ UNCHANGED <<looping_, quit_, wakeupFd_, activeChannels_, threadPc,
                   submitted, early, ran>>

RunFunctor ==
    /\ loopPc = "functors" /\ functors # << >>
    /\ ran' = Append(ran, Head(functors))
    /\ functors' = Tail(functors)
    /\ loopPc' = "functor"
    /\ UNCHANGED <<looping_, quit_, callingPendingFunctors_, pendingFunctors_,
                   wakeupFd_, activeChannels_, threadPc, submitted, early>>

FunctorsDone ==
    /\ loopPc = "functors" /\ functors = << >>
    /\ callingPendingFunctors_' = FALSE
    /\ loopPc' = "check"
    /\ UNCHANGED <<looping_, quit_, pendingFunctors_, functors, wakeupFd_,
                   activeChannels_, threadPc, submitted, early, ran>>

UserReturn ==
    /\ loopPc \in {"callback", "functor"}
    /\ loopPc' = IF loopPc = "callback" THEN "dispatch" ELSE "functors"
    /\ UNCHANGED <<looping_, quit_, callingPendingFunctors_, pendingFunctors_,
                   functors, wakeupFd_, activeChannels_, threadPc, submitted,
                   early, ran>>

-----------------------------------------------------------------------------
(***************************************************************************)
(* The operations, called on the loop's own thread (isInLoopThread()).     *)
(* Nothing else of that thread happens between the push and the write, so  *)
(* the two are one step.                                                   *)
(***************************************************************************)
\* Seeded fault: queueInLoop() tests isInLoopThread() only.
QueueInLoopHereSilent(f) ==
    /\ InUserCode
    /\ f \notin submitted
    /\ submitted' = submitted \cup {f}
    /\ pendingFunctors_' = Append(pendingFunctors_, f)
    /\ early' = IF loopPc = "outside" THEN early \cup {f} ELSE early
    /\ UNCHANGED <<loopVars, functors, wakeupFd_, threadPc, ran>>

QueueInLoopHere(f) ==
    /\ InUserCode
    /\ f \notin submitted
    /\ submitted' = submitted \cup {f}
    /\ pendingFunctors_' = Append(pendingFunctors_, f)
    /\ early' = IF loopPc = "outside" THEN early \cup {f} ELSE early
    /\ IF callingPendingFunctors_ THEN Wakeup ELSE UNCHANGED wakeupFd_
    /\ UNCHANGED <<loopVars, functors, threadPc, ran>>

RunInLoopHere(f) ==
    /\ InUserCode
    /\ f \notin submitted
    /\ submitted' = submitted \cup {f}
    /\ ran' = Append(ran, f)
    /\ UNCHANGED <<loopVars, pendingFunctors_, functors, wakeupFd_, threadPc, early>>

QuitHere ==
    /\ InUserCode
    /\ quit_' = TRUE
    /\ UNCHANGED <<looping_, callingPendingFunctors_, pendingFunctors_, functors,
                   wakeupFd_, activeChannels_, loopPc, threadPc, submitted,
                   early, ran>>

(***************************************************************************)
(* The operations, called on another thread: runInLoop() is queueInLoop(), *)
(* and both queueInLoop() and quit() end with wakeup().                    *)
(***************************************************************************)
QueueInLoop(t, f) ==
    /\ threadPc[t] = "idle"
    /\ f \notin submitted
    /\ submitted' = submitted \cup {f}
    /\ pendingFunctors_' = Append(pendingFunctors_, f)
    /\ threadPc' = [threadPc EXCEPT ![t] = "wakeup"]
    /\ UNCHANGED <<loopVars, functors, wakeupFd_, early, ran>>

\* Seeded fault: quit() of another thread sets the flag and does no wakeup().
QuitSilent(t) ==
    /\ threadPc[t] = "idle"
    /\ quit_' = TRUE
    /\ UNCHANGED <<looping_, callingPendingFunctors_, pendingFunctors_, functors,
                   wakeupFd_, activeChannels_, loopPc, threadPc, submitted,
                   early, ran>>

Quit(t) ==
    /\ threadPc[t] = "idle"
    /\ quit_' = TRUE
    /\ threadPc' = [threadPc EXCEPT ![t] = "wakeup"]
    /\ UNCHANGED <<looping_, callingPendingFunctors_, pendingFunctors_, functors,
                   wakeupFd_, activeChannels_, loopPc, submitted, early, ran>>

\* Seeded fault: no wakeup() is written while the loop is running functors.
WakeupLoopUnlessCalling(t) ==
    /\ threadPc[t] = "wakeup"
    /\ IF callingPendingFunctors_ THEN UNCHANGED wakeupFd_ ELSE Wakeup
    /\ threadPc' = [threadPc EXCEPT ![t] = "idle"]
    /\ UNCHANGED <<loopVars, pendingFunctors_, functors, submitted, early, ran>>

WakeupLoop(t) ==
    /\ threadPc[t] = "wakeup"
    /\ Wakeup
    /\ threadPc' = [threadPc EXCEPT ![t] = "idle"]
    /\ UNCHANGED <<loopVars, pendingFunctors_, functors, submitted, early, ran>>

-----------------------------------------------------------------------------
\* The steps of the loop's thread that do not depend on user code or a timer
LoopStep ==
    \/ LoopResetQuit
    \/ LoopCheck
    \/ PollReady
    \/ HandleWakeupChannel
    \/ HandleUserChannel
    \/ DoPendingFunctors
    \/ RunFunctor
    \/ FunctorsDone
    \/ UserReturn

UserStep ==
    \/ LoopBegin
    \/ QuitHere
    \/ \E f \in Functors : QueueInLoopHere(f) \/ RunInLoopHere(f)

ThreadStep(t) ==
    \/ \E f \in Functors : QueueInLoop(t, f)
    \/ Quit(t)
    \/ WakeupLoop(t)

Next ==
    \/ LoopStep
    \/ PollEmpty
    \/ UserStep
    \/ \E t \in Threads : ThreadStep(t)

Spec == Init /\ [][Next]_vars

(***************************************************************************)
(* The scheduler runs every thread that can run, and code of the user      *)
(* returns.  poll() owes a return only while the eventfd is ready: no      *)
(* other descriptor ever has to become ready and the timeout never has to  *)
(* expire.                                                                 *)
(***************************************************************************)
Fairness ==
    /\ WF_vars(LoopResetQuit \/ LoopCheck)
    /\ WF_vars(PollReady /\ wakeupFd_ > 0)
    /\ WF_vars(HandleWakeupChannel \/ HandleUserChannel \/ DoPendingFunctors)
    /\ WF_vars(RunFunctor \/ FunctorsDone)
    /\ WF_vars(UserReturn)
    /\ \A t \in Threads : WF_vars(WakeupLoop(t))

FairSpec == Spec /\ Fairness

-----------------------------------------------------------------------------
Elements(s) == {s[i] : i \in DOMAIN s}

\* Every variable holds a value of the type the class declares.
TypeOK ==
    /\ looping_ \in BOOLEAN
    /\ quit_ \in BOOLEAN
    /\ callingPendingFunctors_ \in BOOLEAN
    /\ pendingFunctors_ \in Seq(Functors)
    /\ functors \in Seq(Functors)
    /\ wakeupFd_ \in 0..EventfdMax
    /\ activeChannels_ \subseteq ChannelNames
    /\ loopPc \in LoopPcs
    /\ threadPc \in [Threads -> {"idle", "wakeup"}]
    /\ submitted \subseteq Functors
    /\ early \subseteq Functors
    /\ ran \in Seq(Functors)

\* A wakeup is on its way: in the eventfd, or a thread is about to write it.
WakeupDue == wakeupFd_ > 0 \/ \E t \in Threads : threadPc[t] = "wakeup"

\* The loop never sleeps in poll() on work it was told about: whenever it is
\* in poll(), a functor queued by another thread or from inside loop(), and a
\* quit() of another thread, has a wakeup on its way.  (The test
\* `!isInLoopThread() || callingPendingFunctors_` leaves one case out: a functor
\* that the loop's own thread queues outside loop() waits for the next event or
\* for the timeout of poll().)
NoStrandedWork ==
    loopPc = "poll" =>
        /\ quit_ => WakeupDue
        /\ ~(Elements(pendingFunctors_) \subseteq early) => WakeupDue

\* queueInLoop() and runInLoop() implement one FIFO whose elements run once:
\* the vector being drained followed by the vector being filled.
FIFO == INSTANCE FunctorQueue WITH queue <- functors \o pendingFunctors_
FunctorsRunOnceInOrder == FIFO!Spec

\* A functor that was queued by another thread or from inside loop() is run,
\* even if no descriptor ever becomes ready and poll() never times out, unless
\* the loop quits first.
QueuedFunctorsRun ==
    \A f \in Functors :
        (f \in submitted \ early) ~> (f \in Elements(ran) \/ loopPc = "outside")

\* A quit() that is seen set after loop() has reset the flag makes loop()
\* return, from whatever thread it came.
QuitHonoured == (quit_ /\ loopPc \notin {"outside", "enter"}) ~> (loopPc = "outside")

=============================================================================
