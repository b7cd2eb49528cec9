-------------------------- MODULE EventLoopProofs ---------------------------
(***************************************************************************)
(* Proofs about EventLoop for every set of threads, every set of functors  *)
(* and every capacity of the eventfd: no work is stranded while the loop   *)
(* sleeps, and the loop implements the FIFO of FunctorQueue; and about     *)
(* EventLoopThread: the loop that startLoop() returns is there.            *)
(***************************************************************************)
EXTENDS EventLoopThread, SequenceTheorems, TLAPS

\* The flag is set exactly while doPendingFunctors() is running.
FlagInv == callingPendingFunctors_ <=> loopPc \in {"functors", "functor"}

\* The local vector is empty outside doPendingFunctors().
DrainInv == loopPc \notin {"functors", "functor"} => functors = << >>

\* Whatever is queued or was run has been submitted.
HistoryInv ==
    /\ Elements(pendingFunctors_) \subseteq submitted
    /\ Elements(functors) \subseteq submitted
    /\ Elements(ran) \subseteq submitted

\* Between poll() and the swap the loop is awake and will find everything that
\* is pending; everywhere else pending work has a wakeup on its way.
WakeInv ==
    /\ loopPc \notin {"dispatch", "callback"} =>
          (Elements(pendingFunctors_) \subseteq early \/ WakeupDue)
    /\ loopPc = "poll" /\ quit_ => WakeupDue

IndInv == TypeOK /\ FlagInv /\ DrainInv /\ HistoryInv /\ WakeInv

-----------------------------------------------------------------------------
\* Appending adds one element: what queueInLoop()'s push_back does.
LEMMA ElementsAppend ==
    ASSUME NEW S, NEW s \in Seq(S), NEW e \in S
    PROVE  Elements(Append(s, e)) = Elements(s) \cup {e}
<1>1. DOMAIN Append(s, e) = 1..(Len(s) + 1) /\ DOMAIN s = 1..Len(s)
  OBVIOUS
<1>2. \A i \in 1..Len(s) : Append(s, e)[i] = s[i]
  OBVIOUS
<1>3. Append(s, e)[Len(s) + 1] = e
  OBVIOUS
<1>4. Len(s) \in Nat
  OBVIOUS
<1>. QED  BY <1>1, <1>2, <1>3, <1>4 DEF Elements

\* Removing the head adds nothing: what running functors[i] does.
LEMMA ElementsTail ==
    ASSUME NEW S, NEW s \in Seq(S), s # << >>
    PROVE  /\ Head(s) \in Elements(s)
           /\ Elements(Tail(s)) \subseteq Elements(s)
<1>1. Len(s) \in Nat /\ Len(s) > 0 /\ DOMAIN s = 1..Len(s) /\ Head(s) = s[1]
  OBVIOUS
<1>2. DOMAIN Tail(s) = 1..(Len(s) - 1) /\ \A i \in 1..(Len(s) - 1) : Tail(s)[i] = s[i + 1]
  OBVIOUS
<1>. QED  BY <1>1, <1>2 DEF Elements

\* A swapped-out vector has no elements.
LEMMA ElementsEmpty == Elements(<< >>) = {}
  BY DEF Elements

-----------------------------------------------------------------------------
\* The members and locals of EventLoop keep their types.
LEMMA TypeInductive == TypeOK /\ [Next]_vars => TypeOK'
<1>. SUFFICES ASSUME TypeOK, [Next]_vars PROVE TypeOK'
  OBVIOUS
<1>. USE EventfdAssumption DEF TypeOK, ChannelNames, LoopPcs
<1>1. CASE LoopResetQuit BY <1>1 DEF LoopResetQuit
<1>2. CASE LoopCheck BY <1>2 DEF LoopCheck
<1>3. CASE PollReady BY <1>3 DEF PollReady
<1>4. CASE HandleWakeupChannel BY <1>4 DEF HandleWakeupChannel, HandleRead
<1>5. CASE HandleUserChannel BY <1>5 DEF HandleUserChannel
<1>6. CASE DoPendingFunctors BY <1>6 DEF DoPendingFunctors
<1>7. CASE RunFunctor
  <2>1. Head(functors) \in Functors /\ Tail(functors) \in Seq(Functors)
    BY <1>7 DEF RunFunctor
  <2>2. Append(ran, Head(functors)) \in Seq(Functors)
    BY <2>1
  <2>. QED  BY <1>7, <2>1, <2>2 DEF RunFunctor
<1>8. CASE FunctorsDone BY <1>8 DEF FunctorsDone
<1>9. CASE UserReturn BY <1>9 DEF UserReturn
<1>10. CASE PollEmpty BY <1>10 DEF PollEmpty
<1>11. CASE LoopBegin BY <1>11 DEF LoopBegin
<1>12. CASE QuitHere BY <1>12 DEF QuitHere
<1>13. ASSUME NEW f \in Functors, QueueInLoopHere(f) PROVE TypeOK'
  BY <1>13 DEF QueueInLoopHere, Wakeup, loopVars
<1>14. ASSUME NEW f \in Functors, RunInLoopHere(f) PROVE TypeOK'
  BY <1>14 DEF RunInLoopHere, loopVars
<1>15. ASSUME NEW t \in Threads, NEW f \in Functors, QueueInLoop(t, f) PROVE TypeOK'
  BY <1>15 DEF QueueInLoop, loopVars
<1>16. ASSUME NEW t \in Threads, Quit(t) PROVE TypeOK'
  BY <1>16 DEF Quit
<1>17. ASSUME NEW t \in Threads, WakeupLoop(t) PROVE TypeOK'
  BY <1>17 DEF WakeupLoop, Wakeup, loopVars
<1>18. CASE UNCHANGED vars BY <1>18 DEF vars
<1>. QED
  BY <1>1, <1>2, <1>3, <1>4, <1>5, <1>6, <1>7, <1>8, <1>9, <1>10, <1>11, <1>12,
     <1>13, <1>14, <1>15, <1>16, <1>17, <1>18
     DEF Next, LoopStep, UserStep, ThreadStep

\* The constructor gives every variable a value of its type.
LEMMA TypeInit == Init => TypeOK
<1>1. << >> \in Seq(Functors)
  OBVIOUS
<1>2. 0 \in 0..EventfdMax
  BY EventfdAssumption
<1>. QED  BY <1>1, <1>2 DEF Init, TypeOK, ChannelNames, LoopPcs

\* Every variable holds a value of the type the class declares.
THEOREM TypeCorrect == Spec => []TypeOK
<1>. QED  BY TypeInit, TypeInductive, PTL DEF Spec

-----------------------------------------------------------------------------
\* The constructor establishes the inductive invariant.
LEMMA IndInvInit == Init => IndInv
<1>. SUFFICES ASSUME Init PROVE IndInv
  OBVIOUS
<1>1. TypeOK BY TypeInit
<1>2. FlagInv /\ DrainInv BY DEF Init, FlagInv, DrainInv
<1>3. HistoryInv BY ElementsEmpty DEF Init, HistoryInv
<1>4. WakeInv BY ElementsEmpty DEF Init, WakeInv
<1>. QED BY <1>1, <1>2, <1>3, <1>4 DEF IndInv

\* No step of the loop's thread in loop() breaks the inductive invariant.
LEMMA LoopStepInductive == IndInv /\ (LoopStep \/ PollEmpty \/ LoopBegin) => IndInv'
<1>. SUFFICES ASSUME IndInv, LoopStep \/ PollEmpty \/ LoopBegin PROVE IndInv'
  OBVIOUS
<1>0. TypeOK' BY TypeInductive DEF IndInv, Next, UserStep
<1>. USE <1>0 DEF IndInv
<1>1. CASE LoopResetQuit
  BY <1>1 DEF LoopResetQuit, FlagInv, DrainInv, HistoryInv, WakeInv, WakeupDue
<1>2. CASE LoopCheck
  BY <1>2 DEF LoopCheck, FlagInv, DrainInv, HistoryInv, WakeInv, WakeupDue
<1>3. CASE PollReady
  BY <1>3 DEF PollReady, FlagInv, DrainInv, HistoryInv, WakeInv
<1>4. CASE HandleWakeupChannel
  BY <1>4 DEF HandleWakeupChannel, FlagInv, DrainInv, HistoryInv, WakeInv
<1>5. CASE HandleUserChannel
  BY <1>5 DEF HandleUserChannel, FlagInv, DrainInv, HistoryInv, WakeInv
<1>6. CASE DoPendingFunctors
  <2>1. FlagInv' /\ DrainInv' BY <1>6 DEF DoPendingFunctors, FlagInv, DrainInv
  <2>2. HistoryInv' /\ WakeInv'
    BY <1>6, ElementsEmpty DEF DoPendingFunctors, HistoryInv, WakeInv
  <2>. QED BY <2>1, <2>2
<1>7. CASE RunFunctor
  <2>1. FlagInv' /\ DrainInv' /\ WakeInv'
    BY <1>7 DEF RunFunctor, FlagInv, DrainInv, WakeInv, WakeupDue
  <2>2. /\ functors \in Seq(Functors) /\ functors # << >>
        /\ ran \in Seq(Functors)
    BY <1>7 DEF RunFunctor, TypeOK
  <2>3. /\ Head(functors) \in Elements(functors)
        /\ Elements(Tail(functors)) \subseteq Elements(functors)
    BY <2>2, ElementsTail
  <2>4. Head(functors) \in Functors BY <2>2
  <2>5. Elements(Append(ran, Head(functors))) = Elements(ran) \cup {Head(functors)}
    BY <2>2, <2>4, ElementsAppend
  <2>6. HistoryInv' BY <1>7, <2>3, <2>5 DEF RunFunctor, HistoryInv
  <2>. QED BY <2>1, <2>6
<1>8. CASE FunctorsDone
  BY <1>8 DEF FunctorsDone, FlagInv, DrainInv, HistoryInv, WakeInv, WakeupDue
<1>9. CASE UserReturn
  BY <1>9 DEF UserReturn, FlagInv, DrainInv, HistoryInv, WakeInv, WakeupDue
<1>10. CASE PollEmpty
  BY <1>10 DEF PollEmpty, FlagInv, DrainInv, HistoryInv, WakeInv
<1>11. CASE LoopBegin
  BY <1>11 DEF LoopBegin, FlagInv, DrainInv, HistoryInv, WakeInv, WakeupDue
<1>. QED
  BY <1>1, <1>2, <1>3, <1>4, <1>5, <1>6, <1>7, <1>8, <1>9, <1>10, <1>11 DEF LoopStep

\* No call of an operation, on whatever thread, breaks the inductive invariant.
LEMMA CallInductive ==
    ASSUME IndInv,
           \/ QuitHere
           \/ \E f \in Functors : QueueInLoopHere(f) \/ RunInLoopHere(f)
           \/ \E t \in Threads : ThreadStep(t)
    PROVE  IndInv'
<1>0. TypeOK' BY TypeInductive DEF IndInv, Next, UserStep
<1>. USE <1>0 DEF IndInv
<1>1. CASE QuitHere
  BY <1>1 DEF QuitHere, InUserCode, FlagInv, DrainInv, HistoryInv, WakeInv, WakeupDue
<1>2. ASSUME NEW f \in Functors, QueueInLoopHere(f) PROVE IndInv'
  <2>1. Elements(pendingFunctors_)' = Elements(pendingFunctors_) \cup {f}
    BY <1>2, ElementsAppend DEF QueueInLoopHere, TypeOK
  <2>2. FlagInv' /\ DrainInv'
    BY <1>2 DEF QueueInLoopHere, loopVars, FlagInv, DrainInv
  <2>3. HistoryInv'
    BY <1>2, <2>1 DEF QueueInLoopHere, HistoryInv
  <2>4. CASE callingPendingFunctors_
    <3>1. wakeupFd_' > 0
      BY <1>2, <2>4, EventfdAssumption DEF QueueInLoopHere, Wakeup, TypeOK
    <3>. QED BY <2>2, <2>3, <3>1 DEF WakeInv, WakeupDue
  <2>5. CASE ~callingPendingFunctors_
    BY <1>2, <2>1, <2>2, <2>3, <2>5
       DEF QueueInLoopHere, InUserCode, loopVars, WakeInv, WakeupDue, FlagInv
  <2>. QED BY <2>4, <2>5
<1>3. ASSUME NEW f \in Functors, RunInLoopHere(f) PROVE IndInv'
  <2>1. Elements(ran)' = Elements(ran) \cup {f}
    BY <1>3, ElementsAppend DEF RunInLoopHere, TypeOK
  <2>. QED
    BY <1>3, <2>1 DEF RunInLoopHere, loopVars, FlagInv, DrainInv, HistoryInv,
                      WakeInv, WakeupDue
<1>4. ASSUME NEW t \in Threads, NEW f \in Functors, QueueInLoop(t, f) PROVE IndInv'
  <2>1. Elements(pendingFunctors_)' = Elements(pendingFunctors_) \cup {f}
    BY <1>4, ElementsAppend DEF QueueInLoop, TypeOK
  <2>2. WakeupDue' BY <1>4 DEF QueueInLoop, WakeupDue, TypeOK
  <2>. QED
    BY <1>4, <2>1, <2>2 DEF QueueInLoop, loopVars, FlagInv, DrainInv, HistoryInv, WakeInv
<1>5. ASSUME NEW t \in Threads, Quit(t) PROVE IndInv'
  <2>1. WakeupDue' BY <1>5 DEF Quit, WakeupDue, TypeOK
  <2>. QED BY <1>5, <2>1 DEF Quit, FlagInv, DrainInv, HistoryInv, WakeInv
<1>6. ASSUME NEW t \in Threads, WakeupLoop(t) PROVE IndInv'
  <2>1. WakeupDue'
    BY <1>6, EventfdAssumption DEF WakeupLoop, Wakeup, WakeupDue, TypeOK
  <2>. QED
    BY <1>6, <2>1 DEF WakeupLoop, loopVars, FlagInv, DrainInv, HistoryInv, WakeInv
<1>. QED BY <1>1, <1>2, <1>3, <1>4, <1>5, <1>6 DEF ThreadStep

\* Every reachable state satisfies the inductive invariant.
LEMMA IndInvInvariant == Spec => []IndInv
<1>1. IndInv /\ [Next]_vars => IndInv'
  <2>. SUFFICES ASSUME IndInv, [Next]_vars PROVE IndInv'
    OBVIOUS
  <2>1. CASE UNCHANGED vars
    BY <2>1 DEF vars, IndInv, TypeOK, FlagInv, DrainInv, HistoryInv, WakeInv, WakeupDue
  <2>2. CASE Next
    BY <2>2, LoopStepInductive, CallInductive DEF Next, UserStep
  <2>. QED BY <2>1, <2>2
<1>. QED BY IndInvInit, <1>1, PTL DEF Spec

\* The loop never sleeps in poll() on a functor or a quit() without a wakeup on
\* its way, for any number of threads and calls (EventLoop::queueInLoop, quit,
\* wakeup, doPendingFunctors).
THEOREM NeverStranded == Spec => []NoStrandedWork
<1>1. IndInv => NoStrandedWork
  BY DEF IndInv, WakeInv, NoStrandedWork
<1>. QED BY IndInvInvariant, <1>1, PTL

-----------------------------------------------------------------------------
\* The vector being drained and the vector being filled, as one queue.
LEMMA QueueAppend ==
    ASSUME NEW S, NEW s \in Seq(S), NEW t \in Seq(S), NEW e \in S
    PROVE  s \o Append(t, e) = Append(s \o t, e)
  OBVIOUS

\* Every step of the loop is a step of the FIFO or leaves it alone.
LEMMA StepRefines == IndInv /\ [Next]_vars => [FIFO!Next]_(FIFO!vars)
<1>. SUFFICES ASSUME IndInv, [Next]_vars PROVE [FIFO!Next]_(FIFO!vars)
  OBVIOUS
<1>. USE DEF FIFO!vars
<1>t. /\ pendingFunctors_ \in Seq(Functors) /\ functors \in Seq(Functors)
      /\ ran \in Seq(Functors)
  BY DEF IndInv, TypeOK
<1>f. ASSUME NEW f, f \notin submitted PROVE FIFO!Fresh(f)
  <2>1. /\ f \notin Elements(pendingFunctors_) /\ f \notin Elements(functors)
        /\ f \notin Elements(ran)
    BY <1>f DEF IndInv, HistoryInv
  <2>2. \A i \in DOMAIN ran : ran[i] # f
    BY <2>1 DEF Elements
  <2>3. /\ \A i \in 1..Len(functors) : functors[i] # f
        /\ \A i \in 1..Len(pendingFunctors_) : pendingFunctors_[i] # f
    BY <2>1, <1>t DEF Elements
  <2>4. \A i \in DOMAIN (functors \o pendingFunctors_) :
           (functors \o pendingFunctors_)[i] # f
    BY <2>3, <1>t
  <2>. QED BY <2>2, <2>4 DEF FIFO!Fresh
<1>1. CASE LoopResetQuit \/ LoopCheck \/ PollReady \/ PollEmpty \/ LoopBegin \/ QuitHere
  BY <1>1 DEF LoopResetQuit, LoopCheck, PollReady, PollEmpty, LoopBegin, QuitHere
<1>2. CASE HandleWakeupChannel \/ HandleUserChannel \/ FunctorsDone \/ UserReturn
  BY <1>2 DEF HandleWakeupChannel, HandleUserChannel, FunctorsDone, UserReturn
<1>3. CASE DoPendingFunctors
  <2>1. functors = << >> BY <1>3 DEF DoPendingFunctors, IndInv, DrainInv
  <2>2. << >> \o pendingFunctors_ = pendingFunctors_ /\ pendingFunctors_ \o << >> = pendingFunctors_
    BY <1>t
  <2>. QED BY <1>3, <2>1, <2>2 DEF DoPendingFunctors
<1>4. CASE RunFunctor
  <2>1. functors # << >> BY <1>4 DEF RunFunctor
  <2>2. /\ functors \o pendingFunctors_ # << >>
        /\ Head(functors \o pendingFunctors_) = Head(functors)
        /\ Tail(functors \o pendingFunctors_) = Tail(functors) \o pendingFunctors_
    BY <2>1, <1>t
  <2>3. FIFO!RunOldest BY <1>4, <2>2 DEF RunFunctor, FIFO!RunOldest
  <2>. QED BY <2>3 DEF FIFO!Next
<1>5. ASSUME NEW f \in Functors, QueueInLoopHere(f) PROVE FIFO!Next
  <2>1. FIFO!Submit(f)
    BY <1>5, <1>f, <1>t, QueueAppend DEF QueueInLoopHere, FIFO!Submit
  <2>. QED BY <2>1 DEF FIFO!Next
<1>6. ASSUME NEW f \in Functors, RunInLoopHere(f) PROVE FIFO!Next
  <2>1. FIFO!RunNow(f) BY <1>6, <1>f DEF RunInLoopHere, FIFO!RunNow
  <2>. QED BY <2>1 DEF FIFO!Next
<1>7. ASSUME NEW t \in Threads, NEW f \in Functors, QueueInLoop(t, f) PROVE FIFO!Next
  <2>1. FIFO!Submit(f)
    BY <1>7, <1>f, <1>t, QueueAppend DEF QueueInLoop, FIFO!Submit
  <2>. QED BY <2>1 DEF FIFO!Next
<1>8. ASSUME NEW t \in Threads, Quit(t) \/ WakeupLoop(t)
      PROVE  UNCHANGED <<functors \o pendingFunctors_, ran>>
  BY <1>8 DEF Quit, WakeupLoop
<1>9. CASE UNCHANGED vars BY <1>9 DEF vars
<1>. QED
  BY <1>1, <1>2, <1>3, <1>4, <1>5, <1>6, <1>7, <1>8, <1>9
     DEF Next, LoopStep, UserStep, ThreadStep

\* queueInLoop(), runInLoop() and doPendingFunctors() implement one FIFO whose
\* functors run once each, for every interleaving of any number of threads.
THEOREM ImplementsFunctorQueue == Spec => FunctorsRunOnceInOrder
<1>1. Init => FIFO!Init
  <2>1. << >> \o << >> = << >> OBVIOUS
  <2>. QED BY <2>1 DEF Init, FIFO!Init
<1>. QED
  BY <1>1, IndInvInvariant, StepRefines, PTL DEF Spec, FunctorsRunOnceInOrder, FIFO!Spec

-----------------------------------------------------------------------------
(***************************************************************************)
(* The loop on the stack of its EventLoopThread: what startLoop()          *)
(* promises.                                                               *)
(***************************************************************************)
\* loop() returns when it has seen quit_, which only quit() sets.
AskedInv ==
    /\ quit_ => asked
    /\ loopPc = "outside" => asked \/ runPc \notin {"looping", "exited"}

\* The loop object is there from its construction to the end of threadFunc(), and
\* loop_ from its publication on.
AliveInv ==
    /\ alive <=> runPc \in {"constructed", "publishing", "published", "looping"}
    /\ loop_ <=> runPc \in {"publishing", "published", "looping", "exited"}
    /\ runPc = "exited" => asked

\* startLoop() returns when it has seen loop_; the destructor of an object that was
\* never started does not find it.
OwnerInv ==
    /\ ownerPc = "new" => runPc = "none"
    /\ ownerPc \in {"found", "using", "quitting", "joining"} => undefined \/ loop_

ThreadInv == AskedInv /\ AliveInv /\ OwnerInv

\* What the steps of the loop do to quit_ and to the loop's thread.
LEMMA LoopEndsWhenAsked ==
    ASSUME LoopStep \/ PollEmpty
           \/ \E f \in Functors : QueueInLoopHere(f) \/ RunInLoopHere(f)
    PROVE  /\ quit_' => quit_
           /\ loopPc' = "outside" => quit_ \/ loopPc = "outside"
<1>1. CASE LoopResetQuit BY <1>1 DEF LoopResetQuit
<1>2. CASE LoopCheck BY <1>2 DEF LoopCheck
<1>3. CASE PollReady \/ PollEmpty
  BY <1>3 DEF PollReady, PollEmpty
<1>4. CASE HandleWakeupChannel \/ HandleUserChannel
  BY <1>4 DEF HandleWakeupChannel, HandleUserChannel
<1>5. CASE DoPendingFunctors \/ RunFunctor \/ FunctorsDone
  BY <1>5 DEF DoPendingFunctors, RunFunctor, FunctorsDone
<1>6. CASE UserReturn BY <1>6 DEF UserReturn
<1>7. CASE \E f \in Functors : QueueInLoopHere(f) \/ RunInLoopHere(f)
  BY <1>7 DEF QueueInLoopHere, RunInLoopHere, loopVars
<1>. QED BY <1>1, <1>2, <1>3, <1>4, <1>5, <1>6, <1>7 DEF LoopStep

\* Steps of the thread inside loop() keep the invariant.
LEMMA InLoopKeeps ==
    ASSUME ThreadInv, StepInLoop \/ EnvironmentStep
    PROVE  ThreadInv'
<1>1. /\ runPc = "looping" /\ UNCHANGED <<loop_, ownerPc, runPc, alive, undefined>>
      /\ asked => asked'
  BY DEF StepInLoop, EnvironmentStep, InLoop
<1>2. /\ quit_' => quit_ \/ asked'
      /\ loopPc' = "outside" => quit_ \/ loopPc = "outside"
  <2>1. CASE StepInLoop BY <2>1, LoopEndsWhenAsked DEF StepInLoop, InLoop
  <2>2. CASE EnvironmentStep
    <3>1. CASE InLoop(QuitHere) /\ asked' = TRUE
      BY <3>1 DEF InLoop, QuitHere
    <3>. QED BY <2>2, <3>1, LoopEndsWhenAsked DEF EnvironmentStep, InLoop
  <2>. QED BY <2>1, <2>2
<1>. QED BY <1>1, <1>2 DEF ThreadInv, AskedInv, AliveInv, OwnerInv

\* Calls of other threads, and the destructor, keep the invariant: what they do to the
\* loop is to ask it to quit.
LEMMA CallsKeep ==
    ASSUME ThreadInv,
           \/ \E t \in Threads :
                 \/ \E f \in Functors : CallQueueInLoop(t, f)
                 \/ UserQuit(t) \/ WakeupAlive(t) \/ WakeupGone(t)
           \/ Destroy \/ DestroyGone \/ SpuriousWakeup
    PROVE  ThreadInv'
<1>. USE DEF ThreadInv, AskedInv, AliveInv, OwnerInv
<1>1. ASSUME NEW t \in Threads, NEW f \in Functors, CallQueueInLoop(t, f) PROVE ThreadInv'
  BY <1>1 DEF CallQueueInLoop, QueueInLoop, loopVars, historyVars
<1>2. ASSUME NEW t \in Threads, CallQuit(t)
      PROVE  UNCHANGED <<loop_, runPc, alive, undefined, loopPc>> /\ asked' = TRUE
  BY <1>2 DEF CallQuit, Quit
<1>3. ASSUME NEW t \in Threads, UserQuit(t) PROVE ThreadInv'
  BY <1>2, <1>3 DEF UserQuit
<1>4. ASSUME NEW t \in Threads, WakeupAlive(t) PROVE ThreadInv'
  BY <1>4 DEF WakeupAlive, WakeupLoop, loopVars, historyVars
<1>5. ASSUME NEW t \in Threads, WakeupGone(t) PROVE ThreadInv'
  BY <1>5 DEF WakeupGone, historyVars
<1>6. CASE Destroy BY <1>2, <1>6 DEF Destroy, MayDestroy, CallQuit, Quit
<1>7. CASE DestroyGone
  BY <1>7 DEF DestroyGone, MayDestroy, vars, historyVars
<1>8. CASE SpuriousWakeup
  BY <1>8 DEF SpuriousWakeup, vars, historyVars
<1>. QED BY <1>1, <1>3, <1>4, <1>5, <1>6, <1>7, <1>8

\* startLoop() and threadFunc() keep the invariant.
LEMMA HandOverKeeps ==
    ASSUME ThreadInv, StartLoop \/ OwnerStep \/ RunStep
    PROVE  ThreadInv'
<1>. USE DEF ThreadInv, AskedInv, AliveInv, OwnerInv, vars, historyVars
<1>1. CASE StartLoop BY <1>1 DEF StartLoop
<1>2. CASE StartLoopWait BY <1>2 DEF StartLoopWait
<1>3. CASE StartLoopReturn BY <1>3 DEF StartLoopReturn
<1>4. CASE QuitReturn \/ Join BY <1>4 DEF QuitReturn, Join
<1>5. CASE ConstructLoop BY <1>5 DEF ConstructLoop
<1>6. CASE Publish BY <1>6 DEF Publish
<1>7. CASE PublishReturn BY <1>7 DEF PublishReturn
<1>8. CASE EnterLoop BY <1>8 DEF EnterLoop, LoopBegin
<1>9. CASE DestroyLoop BY <1>9 DEF DestroyLoop
<1>. QED
  BY <1>1, <1>2, <1>3, <1>4, <1>5, <1>6, <1>7, <1>8, <1>9 DEF OwnerStep, RunStep

\* startLoop() returns a loop that is there, and the loop stays there until somebody
\* calls quit(), for any set of threads and functors.
THEOREM LoopIsHandedOver == ThreadSpec => []LoopHandedOver
<1>1. ThreadInit => ThreadInv
  BY DEF ThreadInit, Init, ThreadInv, AskedInv, AliveInv, OwnerInv
<1>2. ThreadInv /\ [ThreadNext]_threadVars => ThreadInv'
  <2>1. ASSUME ThreadInv, UNCHANGED threadVars PROVE ThreadInv'
    BY <2>1 DEF ThreadInv, AskedInv, AliveInv, OwnerInv, threadVars, vars,
                historyVars
  <2>. QED BY <2>1, InLoopKeeps, CallsKeep, HandOverKeeps DEF ThreadNext
<1>3. ThreadInv => LoopHandedOver
  BY DEF ThreadInv, AliveInv, OwnerInv, LoopHandedOver
<1>. QED BY <1>1, <1>2, <1>3, PTL DEF ThreadSpec

=============================================================================
