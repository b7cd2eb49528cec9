--------------------------- MODULE EventLoopThread --------------------------
(***************************************************************************)
(* Dalin's EventLoopThread (src/net/EventLoopThread.cpp) composed with the *)
(* EventLoop that lives on its thread's stack, the Thread, and the mutex   *)
(* and condition over which the loop is handed to the owner.               *)
(*                                                                         *)
(* The owner has not called startLoop() ("new"), is inside it ("starting", *)
(* and "found" with the mutex), uses the loop ("using"), or is in the      *)
(* destructor: in quit() ("quitting"), in join() ("joining"), or past it   *)
(* ("destroyed").  The thread is not started ("none"), before the          *)
(* construction of its EventLoop ("started"), before and after loop_ is    *)
(* set ("constructed", "publishing" with the mutex, "published"), inside   *)
(* loop() ("looping"), or at its end ("exited").                           *)
(*                                                                         *)
(* The loop object is used after its end when quit() is called late, or    *)
(* when its last step, wakeup(), comes after loop() has seen quit_.  Such  *)
(* a use still finds the old bytes and writes to a closed descriptor, or   *)
(* its behaviour is undefined, which ends the model.                       *)
(***************************************************************************)
EXTENDS EventLoop

CONSTANTS
    Owner,                 \* the thread of startLoop() and of the destructor
    LoopThread,            \* the thread that runs threadFunc()
    NoThread               \* holder_ of a free mutex

ASSUME EventLoopThreadAssumption ==
    /\ Owner \in Threads
    /\ LoopThread \notin Threads
    /\ NoThread \notin Threads \cup {LoopThread}

VARIABLES
    loop_,                 \* startLoop() may return
    holder_, cond_,        \* mutex_ and cond_
    ownerPc, runPc,
    alive,                 \* the EventLoop object exists
    asked,                 \* history: somebody has called quit()
    lost,                  \* history: a quit() came before loop() reset quit_
    undefined

monitorVars == <<holder_, cond_>>
historyVars == <<asked, lost>>
threadVars == <<vars, loop_, monitorVars, ownerPc, runPc, alive, historyVars, undefined>>

Mutex == INSTANCE Monitor

ThreadInit ==
    /\ Init /\ Mutex!Init
    /\ loop_ = FALSE
    /\ ownerPc = "new" /\ runPc = "none"
    /\ alive = FALSE
    /\ asked = FALSE /\ lost = FALSE
    /\ undefined = FALSE

-----------------------------------------------------------------------------
(***************************************************************************)
(* startLoop()                                                             *)
(***************************************************************************)
\* Thread::start()
StartLoop ==
    /\ ~undefined /\ ownerPc = "new"
    /\ ownerPc' = "starting" /\ runPc' = "started"
    /\ UNCHANGED <<vars, loop_, monitorVars, alive, historyVars, undefined>>

\* Seeded fault: loop_ is not waited for.
StartLoopNoWait ==
    /\ ~undefined /\ ownerPc = "starting"
    /\ Mutex!Lock(Owner)
    /\ ownerPc' = "found"
    /\ UNCHANGED <<vars, loop_, cond_, runPc, alive, historyVars, undefined>>

\* while (loop_ == NULL) cond_.wait();
StartLoopWait ==
    /\ ~undefined /\ ownerPc = "starting"
    /\ IF loop_
       THEN Mutex!Lock(Owner) /\ ownerPc' = "found" /\ UNCHANGED cond_
       ELSE Mutex!LockAndWait(Owner) /\ UNCHANGED ownerPc
    /\ UNCHANGED <<vars, loop_, runPc, alive, historyVars, undefined>>

StartLoopReturn ==
    /\ ~undefined /\ ownerPc = "found"
    /\ Mutex!Unlock(Owner)
    /\ ownerPc' = "using"
    /\ UNCHANGED <<vars, loop_, cond_, runPc, alive, historyVars, undefined>>

(***************************************************************************)
(* threadFunc(), which Thread::run() calls                                 *)
(***************************************************************************)
ConstructLoop ==
    /\ ~undefined /\ runPc = "started"
    /\ runPc' = "constructed" /\ alive' = TRUE
    /\ UNCHANGED <<vars, loop_, monitorVars, ownerPc, historyVars, undefined>>

Publish ==
    /\ ~undefined /\ runPc = "constructed"
    /\ Mutex!Lock(LoopThread)
    /\ loop_' = TRUE
    /\ Mutex!Notify
    /\ runPc' = "publishing"
    /\ UNCHANGED <<vars, ownerPc, alive, historyVars, undefined>>

PublishReturn ==
    /\ ~undefined /\ runPc = "publishing"
    /\ Mutex!Unlock(LoopThread)
    /\ runPc' = "published"
    /\ UNCHANGED <<vars, loop_, cond_, ownerPc, alive, historyVars, undefined>>

EnterLoop ==
    /\ ~undefined /\ runPc = "published"
    /\ LoopBegin
    /\ runPc' = "looping"
    /\ UNCHANGED <<loop_, monitorVars, ownerPc, alive, historyVars, undefined>>

\* loop() has returned: EventLoop::~EventLoop(), and the end of Thread::run()
DestroyLoop ==
    /\ ~undefined /\ runPc = "looping" /\ loopPc = "outside"
    /\ runPc' = "exited" /\ alive' = FALSE
    /\ UNCHANGED <<vars, loop_, monitorVars, ownerPc, historyVars, undefined>>

\* A step of the thread inside loop()
InLoop(Step) ==
    /\ ~undefined /\ runPc = "looping"
    /\ Step
    /\ UNCHANGED <<loop_, monitorVars, ownerPc, runPc, alive, lost, undefined>>

StepInLoop == InLoop(LoopStep) /\ UNCHANGED asked

\* poll() times out, or a functor or callback calls the loop.
EnvironmentStep ==
    \/ InLoop(PollEmpty) /\ UNCHANGED asked
    \/ \E f \in Functors :
          /\ loopPc # "outside"
          /\ InLoop(QueueInLoopHere(f) \/ RunInLoopHere(f))
          /\ UNCHANGED asked
    \/ loopPc # "outside" /\ InLoop(QuitHere) /\ asked' = TRUE

-----------------------------------------------------------------------------
(***************************************************************************)
(* Calls of other threads, from the return of startLoop() to the           *)
(* destructor, and the quit() of the destructor                            *)
(***************************************************************************)
CallQueueInLoop(t, f) ==
    /\ ~undefined /\ ownerPc = "using" /\ alive
    /\ QueueInLoop(t, f)
    /\ UNCHANGED <<loop_, monitorVars, ownerPc, runPc, alive, historyVars, undefined>>

\* quit() that finds the loop alive
CallQuit(t) ==
    /\ ~undefined /\ alive
    /\ Quit(t)
    /\ asked' = TRUE
    /\ lost' = (lost \/ loopPc = "enter" \/ runPc # "looping")
    /\ UNCHANGED <<loop_, monitorVars, runPc, alive, undefined>>

UserQuit(t) == ownerPc = "using" /\ CallQuit(t) /\ UNCHANGED ownerPc

WakeupAlive(t) ==
    /\ ~undefined /\ alive
    /\ WakeupLoop(t)
    /\ UNCHANGED <<loop_, monitorVars, ownerPc, runPc, alive, historyVars, undefined>>

\* wakeup() on a loop that has gone meanwhile
WakeupGone(t) ==
    /\ ~undefined /\ ~alive /\ threadPc[t] = "wakeup"
    /\ threadPc' = [threadPc EXCEPT ![t] = "idle"]
    /\ undefined' \in BOOLEAN
    /\ UNCHANGED <<looping_, quit_, callingPendingFunctors_, pendingFunctors_, functors,
                   wakeupFd_, activeChannels_, loopPc, submitted, early, ran,
                   loop_, monitorVars, ownerPc, runPc, alive, historyVars>>

\* The users of the loop have ended their calls.
MayDestroy == ~undefined /\ ownerPc = "using" /\ \A t \in Threads : threadPc[t] = "idle"

Destroy == MayDestroy /\ CallQuit(Owner) /\ ownerPc' = "quitting"

\* The destructor on a loop that has gone, and on an object never started,
\* whose loop_ is NULL
DestroyGone ==
    /\ MayDestroy \/ (~undefined /\ ownerPc = "new")
    /\ ~alive
    /\ ownerPc' = "quitting"
    /\ undefined' \in IF loop_ THEN BOOLEAN ELSE {TRUE}
    /\ UNCHANGED <<vars, loop_, monitorVars, runPc, alive, historyVars>>

QuitReturn ==
    /\ ~undefined /\ ownerPc = "quitting" /\ threadPc[Owner] = "idle"
    /\ ownerPc' = "joining"
    /\ UNCHANGED <<vars, loop_, monitorVars, runPc, alive, historyVars, undefined>>

\* Thread::join()
Join ==
    /\ ~undefined /\ ownerPc = "joining" /\ runPc = "exited"
    /\ ownerPc' = "destroyed"
    /\ UNCHANGED <<vars, loop_, monitorVars, runPc, alive, historyVars, undefined>>

SpuriousWakeup ==
    /\ ~undefined /\ Mutex!SpuriousWakeup
    /\ UNCHANGED <<vars, loop_, ownerPc, runPc, alive, historyVars, undefined>>

-----------------------------------------------------------------------------
OwnerStep == StartLoopWait \/ StartLoopReturn \/ QuitReturn \/ Join

RunStep == ConstructLoop \/ Publish \/ PublishReturn \/ EnterLoop \/ DestroyLoop

ThreadNext ==
    \/ StartLoop
    \/ OwnerStep
    \/ RunStep
    \/ StepInLoop
    \/ EnvironmentStep
    \/ \E t \in Threads :
          \/ \E f \in Functors : CallQueueInLoop(t, f)
          \/ UserQuit(t)
          \/ WakeupAlive(t)
          \/ WakeupGone(t)
    \/ Destroy
    \/ DestroyGone
    \/ SpuriousWakeup

ThreadSpec == ThreadInit /\ [][ThreadNext]_threadVars

\* Threads that can run are scheduled.  As in EventLoop, poll() owes a return
\* only while the eventfd is ready.
ThreadFairSpec ==
    /\ ThreadSpec
    /\ WF_threadVars(OwnerStep)
    /\ WF_threadVars(RunStep)
    /\ WF_threadVars((loopPc = "poll" => wakeupFd_ > 0) /\ StepInLoop)
    /\ \A t \in Threads : WF_threadVars(WakeupAlive(t) \/ WakeupGone(t))

-----------------------------------------------------------------------------
\* startLoop() returns a loop that is there, in spite of spurious wake-ups, and
\* the loop it returned stays there until somebody calls quit(): what the
\* destructor, which calls loop_->quit() unasked, relies on.
LoopHandedOver ==
    ownerPc \in {"found", "using", "quitting", "joining"} =>
        undefined \/ (loop_ /\ (alive \/ asked))

\* A functor given to the loop as soon as startLoop() has returned, even before
\* the thread has entered loop(), is run unless somebody calls quit().
FunctorsRun ==
    \A f \in Functors : (f \in submitted) ~> (f \in Elements(ran) \/ asked)

\* The destructor returns: its quit() gets the thread out of poll() and join()
\* ends.  A quit() that loop() overwrites when it resets quit_ is left out.
DestructorReturns ==
    (ownerPc = "quitting") ~> (ownerPc = "destroyed" \/ lost \/ undefined)

=============================================================================
