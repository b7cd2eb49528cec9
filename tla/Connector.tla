----------------------------- MODULE Connector ------------------------------
(***************************************************************************)
(* Dalin's Connector (src/net/Connector.cpp): the nonblocking connect(2)   *)
(* with its retries, started and stopped from any thread.  The actions say *)
(* nothing of the callers and of the owner, which TcpClient adds.          *)
(*                                                                         *)
(* The loop's thread waits ("idle"), is inside Channel::handleEvent()      *)
(* ("event"), in retry() between the test of connect_ and runAfter()       *)
(* ("retry"), in handleWrite() between that test and the callback of the   *)
(* owner ("established"), or in the owner before restart() ("restart").    *)
(* Nothing protects connect_ and timerId_ from other threads.              *)
(*                                                                         *)
(* Functors are a FIFO, as EventLoop implements it; events and timers may  *)
(* come before what a thread queued late is run.                           *)
(***************************************************************************)
EXTENDS Integers, Sequences

CONSTANTS
    Sockets, NoSocket,     \* descriptors
    TimerIds,              \* positive numbers; 0 is the TimerId of no timer; bound
    kInitRetryDelayMs, kMaxRetryDelayMs

ASSUME ConnectorAssumption ==
    /\ NoSocket \notin Sockets
    /\ TimerIds \subseteq Nat \ {0}
    /\ kInitRetryDelayMs \in Nat \ {0}
    /\ kMaxRetryDelayMs \in Nat /\ kInitRetryDelayMs <= kMaxRetryDelayMs

VARIABLES
    connect_, state_,
    channel_, registered,  \* the Channel's descriptor; the Poller knows it
    retryDaleyMs_, timerId_,
    timers,                \* retry timers scheduled in the loop
    pending,               \* functors queued in the loop
    loopPc, todo,          \* the loop's thread; callbacks handleEvent() owes
    owner,                 \* who has to close a descriptor
    gaveUp,                \* history: connect(2) failed in a way that is not retried
    fault                  \* what ended the program: "assertion" or "socket" in this module

retryVars == <<retryDaleyMs_, timerId_, timers>>
channelVars == <<channel_, registered>>
endVars == <<gaveUp, fault>>
connectorVars == <<connect_, state_, channelVars, retryVars, pending, loopPc, todo, owner,
                   endVars>>

\* Connector::Connector
ConnectorInit ==
    /\ connect_ = FALSE /\ state_ = "kDisconnected"
    /\ channel_ = NoSocket /\ registered = FALSE
    /\ retryDaleyMs_ = kInitRetryDelayMs /\ timerId_ = 0 /\ timers = {}
    /\ pending = << >>
    /\ loopPc = "idle" /\ todo = {}
    /\ owner = [s \in Sockets |-> "closed"]
    /\ gaveUp = FALSE /\ fault = "none"

Running == fault = "none"

LoopAt(pc) == Running /\ loopPc = pc

Abort == fault' = "assertion" /\ UNCHANGED <<state_, channelVars, owner, loopPc, gaveUp>>

-----------------------------------------------------------------------------
(***************************************************************************)
(* connect() and what follows it, in a step that gives connect_ its value  *)
(***************************************************************************)
Connecting(s) ==
    IF channel_ # NoSocket
    THEN Abort
    ELSE /\ state_' = "kConnecting"
         /\ channel_' = s /\ registered' = TRUE
         /\ owner' = [owner EXCEPT ![s] = "connector"]
         /\ loopPc' = "event"
         /\ UNCHANGED endVars

\* retry(), up to the test of connect_
Retry(s) ==
    /\ owner' = [owner EXCEPT ![s] = "closed"]
    /\ state_' = "kDisconnected"
    /\ loopPc' = IF connect_' THEN "retry" ELSE "event"

\* createNonblockingOrDie()
NoDescriptor == fault' = "socket" /\ UNCHANGED <<state_, channelVars, owner, loopPc, gaveUp>>

\* connect() when socket(2) fails, and with the three kinds of answer of connect(2)
Connect(answer) ==
    \E s \in {fd \in Sockets : owner[fd] = "closed"} :
       \/ answer = "none" /\ NoDescriptor
       \/ answer = "progress" /\ Connecting(s)
       \/ answer = "again" /\ Retry(s) /\ UNCHANGED <<channelVars, endVars>>
       \/ /\ answer = "error"
          /\ state_' = "kDisconnected"
          /\ gaveUp' = TRUE
          /\ loopPc' = "event"
          /\ UNCHANGED <<channelVars, owner, fault>>

Answers == {"none", "progress", "again", "error"}

\* Seeded fault: the assertion on state_ is missing.
StartInLoopUnchecked(answer) ==
    IF connect_'
    THEN Connect(answer)
    ELSE loopPc' = "event" /\ UNCHANGED <<state_, channelVars, owner, endVars>>

StartInLoop(answer) ==
    IF state_ # "kDisconnected"
    THEN Abort
    ELSE IF connect_'
    THEN Connect(answer)
    ELSE loopPc' = "event" /\ UNCHANGED <<state_, channelVars, owner, endVars>>

\* Timers have sequence numbers, so that a new one differs from all known.
FreshTimers ==
    TimerIds \ (timers \cup {timerId_} \cup {pending[i].timer : i \in DOMAIN pending})

FreshTimer == CHOOSE id \in FreshTimers : TRUE

LongerDelay ==
    IF 2 * retryDaleyMs_ < kMaxRetryDelayMs THEN 2 * retryDaleyMs_ ELSE kMaxRetryDelayMs

\* Seeded fault: at the longest delay no timer is set.
RunAfterBelowMax ==
    IF retryDaleyMs_ < kMaxRetryDelayMs
    THEN timerId_' = FreshTimer /\ timers' = timers \cup {FreshTimer}
    ELSE UNCHANGED <<timerId_, timers>>

\* TimerIds bounds the timers known at a time.
RunAfter ==
    /\ FreshTimers # {}
    /\ timerId_' = FreshTimer /\ timers' = timers \cup {FreshTimer}

\* the rest of retry(): timerId_ = loop_->runAfter(...), and the longer delay
ScheduleRetry ==
    /\ LoopAt("retry")
    /\ RunAfter
    /\ retryDaleyMs_' = LongerDelay
    /\ loopPc' = "event"
    /\ UNCHANGED <<connect_, state_, channelVars, pending, todo, owner, endVars>>

-----------------------------------------------------------------------------
(***************************************************************************)
(* start() and stop(), in one step on the loop's thread; on another thread *)
(* connect_ is assigned first and the functor queued later.                *)
(***************************************************************************)
StartHere(answer) ==
    /\ LoopAt("idle")
    /\ connect_' = TRUE
    /\ StartInLoop(answer)
    /\ UNCHANGED <<retryVars, pending, todo>>

StopHere ==
    /\ LoopAt("idle")
    /\ connect_' = FALSE
    /\ timers' = timers \ {timerId_}
    /\ UNCHANGED <<state_, channelVars, retryDaleyMs_, timerId_, pending, loopPc, todo, owner,
                   endVars>>

SetConnect(value) ==
    /\ Running
    /\ connect_' = value
    /\ UNCHANGED <<state_, channelVars, retryVars, pending, loopPc, todo, owner, endVars>>

Queue(op, timer) ==
    /\ Running
    /\ pending' = Append(pending, [op |-> op, timer |-> timer])
    /\ UNCHANGED <<connect_, state_, channelVars, retryVars, loopPc, todo, owner, endVars>>

StartQueue == Queue("start", 0)

StopCancel == Queue("cancel", timerId_)

(***************************************************************************)
(* The loop's functors and timers                                          *)
(***************************************************************************)
NextFunctor(op) == LoopAt("idle") /\ pending # << >> /\ Head(pending).op = op

RunStart(answer) ==
    /\ NextFunctor("start")
    /\ pending' = Tail(pending)
    /\ UNCHANGED connect_
    /\ StartInLoop(answer)
    /\ UNCHANGED <<retryVars, todo>>

RunCancel ==
    /\ NextFunctor("cancel")
    /\ pending' = Tail(pending)
    /\ timers' = timers \ {Head(pending).timer}
    /\ UNCHANGED <<connect_, state_, channelVars, retryDaleyMs_, timerId_, loopPc, todo, owner,
                   endVars>>

ResetChannel ==
    /\ NextFunctor("reset")
    /\ pending' = Tail(pending)
    /\ channel_' = NoSocket
    /\ UNCHANGED <<connect_, state_, registered, retryVars, loopPc, todo, owner, endVars>>

\* The functors that an event queued are run before the next poll(2).
SameIteration == \E i \in DOMAIN pending : pending[i].op = "reset"

\* A timer set in this iteration of the loop does not expire in it.
RetryTimer(id, answer) ==
    /\ LoopAt("idle") /\ id \in timers
    /\ SameIteration => id # timerId_
    /\ timers' = timers \ {id}
    /\ UNCHANGED connect_
    /\ StartInLoop(answer)
    /\ UNCHANGED <<retryDaleyMs_, timerId_, pending, todo>>

-----------------------------------------------------------------------------
(***************************************************************************)
(* Channel::handleEvent(): the error callback comes before the write       *)
(* callback, and poll(2) may report both.                                  *)
(***************************************************************************)
PollReturn(callbacks) ==
    /\ LoopAt("idle") /\ registered /\ ~SameIteration
    /\ loopPc' = "event" /\ todo' = callbacks
    /\ UNCHANGED <<connect_, state_, channelVars, retryVars, pending, owner, endVars>>

\* Seeded fault: the Channel stays in the Poller.
RemoveAndResetChannelStays ==
    /\ pending' = Append(pending, [op |-> "reset", timer |-> 0])
    /\ UNCHANGED channelVars

RemoveAndResetChannel ==
    /\ registered' = FALSE
    /\ pending' = Append(pending, [op |-> "reset", timer |-> 0])
    /\ UNCHANGED channel_

HandleError ==
    /\ LoopAt("event") /\ "error" \in todo
    /\ UNCHANGED connect_
    /\ todo' = todo \ {"error"}
    /\ IF state_ # "kConnecting"
       THEN Abort /\ UNCHANGED pending
       ELSE /\ RemoveAndResetChannel
            /\ Retry(channel_)
            /\ UNCHANGED endVars
    /\ UNCHANGED retryVars

\* handleWrite() when SO_ERROR is set or the socket is connected to itself,
\* and when another callback of this event came first
HandleWriteFailed ==
    /\ LoopAt("event") /\ todo = {"write"}
    /\ UNCHANGED connect_
    /\ todo' = {}
    /\ \/ /\ state_ = "kConnecting"
          /\ RemoveAndResetChannel
          /\ Retry(channel_)
          /\ UNCHANGED endVars
       \/ /\ state_ # "kConnecting"
          /\ fault' = IF state_ = "kDisconnected" THEN fault ELSE "assertion"
          /\ UNCHANGED <<pending, state_, channelVars, owner, loopPc, gaveUp>>
    /\ UNCHANGED retryVars

\* the test of connect_ in handleWrite()
Connected ==
    IF connect_
    THEN loopPc' = "established" /\ UNCHANGED owner
    ELSE owner' = [owner EXCEPT ![channel_] = "closed"] /\ UNCHANGED loopPc

\* handleWrite() of a socket that is connected, up to newConnectionCallback_
HandleWrite ==
    /\ LoopAt("event") /\ todo = {"write"}
    /\ state_ = "kConnecting"
    /\ todo' = {}
    /\ RemoveAndResetChannel
    /\ state_' = "kConnected"
    /\ Connected
    /\ UNCHANGED <<connect_, retryVars, endVars>>

\* newConnectionCallback_(sockfd)
NewConnectionCallback ==
    /\ LoopAt("established")
    /\ owner' = [owner EXCEPT ![channel_] = "client"]
    /\ loopPc' = "event"
    /\ UNCHANGED <<connect_, state_, channelVars, retryVars, pending, todo, endVars>>

EventDone ==
    /\ LoopAt("event") /\ todo = {}
    /\ loopPc' = "idle"
    /\ UNCHANGED <<connect_, state_, channelVars, retryVars, pending, todo, owner, endVars>>

\* Seeded fault: state_ stays kConnected.
RestartInState ==
    /\ LoopAt("restart")
    /\ retryDaleyMs_' = kInitRetryDelayMs
    /\ connect_' = TRUE
    /\ loopPc' = "start"
    /\ UNCHANGED <<state_, channelVars, timerId_, timers, pending, todo, owner, endVars>>

\* restart(), which another thread's stop() may interrupt before startInLoop()
Restart ==
    /\ LoopAt("restart")
    /\ state_' = "kDisconnected"
    /\ retryDaleyMs_' = kInitRetryDelayMs
    /\ connect_' = TRUE
    /\ loopPc' = "start"
    /\ UNCHANGED <<channelVars, timerId_, timers, pending, todo, owner, endVars>>

RestartInLoop(answer) ==
    /\ LoopAt("start")
    /\ UNCHANGED connect_
    /\ StartInLoop(answer)
    /\ UNCHANGED <<retryVars, pending, todo>>

-----------------------------------------------------------------------------
Answer(Op(_)) == \E answer \in Answers : Op(answer)

Poll == \E callbacks \in {{"error"}, {"write"}, {"error", "write"}} : PollReturn(callbacks)

Functor == RunCancel \/ ResetChannel \/ Answer(RunStart)

EventStep ==
    \/ ScheduleRetry
    \/ HandleError
    \/ HandleWriteFailed
    \/ HandleWrite
    \/ EventDone
    \/ Restart
    \/ Answer(RestartInLoop)

\* What the loop does with the Connector, its owner apart
LoopStep ==
    \/ Functor
    \/ \E id \in TimerIds, answer \in Answers : RetryTimer(id, answer)
    \/ Poll
    \/ EventStep

-----------------------------------------------------------------------------
\* No descriptor is lost: the Connector answers for exactly the one whose
\* Channel waits in the Poller, or that it is about to hand over, and has a
\* Channel in the Poller only while it is connecting.
SocketsOwned ==
    Running =>
    /\ \A s \in Sockets :
          owner[s] = "connector" <=> channel_ = s /\ (registered \/ loopPc = "established")
    /\ registered <=> state_ = "kConnecting"

=============================================================================
