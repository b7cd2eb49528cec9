----------------------------- MODULE TcpClient ------------------------------
(***************************************************************************)
(* Dalin's TcpClient (src/net/TcpClient.cpp), the owner of a Connector and *)
(* of the connection it makes.                                             *)
(*                                                                         *)
(* The client has a connect_ of its own, here clientConnect_.  A call of   *)
(* connect(), disconnect() or stop() is made on the loop's thread, in one  *)
(* step, or on another thread, where it stands before the assignment to    *)
(* the Connector's connect_ ("connect", "stop"), before what it queues in  *)
(* the loop ("start", "cancel") or before it locks mutex_ ("disconnect").  *)
(* The callers make one call at a time, and connect() only when the client *)
(* was not yet asked to connect.                                           *)
(*                                                                         *)
(* The user keeps a TcpConnectionPtr.  What happens between close callback *)
(* and connectDestroyed() is a matter of the TcpConnection, and its        *)
(* lambda, which captures a reference to a shared_ptr that is gone, either *)
(* finds the old pointer or is undefined behaviour (see TcpServer).        *)
(***************************************************************************)
EXTENDS Connector

CONSTANT MaxCalls          \* bound: calls of connect(), disconnect() and stop()

ASSUME TcpClientAssumption == MaxCalls \in Nat

VARIABLES
    clientConnect_, retry_, connection_,
    callPc,                \* the call on another thread
    asked, calls,          \* history: the last call; number of calls
    connects,              \* history: calls of connect(), up to 2
    quiet,                 \* history: the last call ended the client's attempts
    destroyed,             \* history: ~TcpClient has run, and how
    closeCallback_,        \* the connection calls the client back when it closes
    removalTimer           \* the loop has the timer of ~TcpClient

flagVars == <<clientConnect_, retry_>>
callVars == <<callPc, asked, calls, connects>>
lifeVars == <<destroyed, closeCallback_, removalTimer>>
clientVars == <<flagVars, connection_, callVars, quiet, lifeVars>>
vars == <<connectorVars, clientVars>>

\* TcpClient::TcpClient(); enableRetry() comes before connect().
Init ==
    /\ ConnectorInit
    /\ clientConnect_ = TRUE /\ retry_ \in BOOLEAN /\ connection_ = NoSocket
    /\ callPc = "idle" /\ asked = "nothing" /\ calls = 0 /\ connects = 0
    /\ quiet = FALSE
    /\ destroyed = "no" /\ closeCallback_ = FALSE /\ removalTimer = FALSE

Alive == Running /\ destroyed = "no"

wanted == asked = "connect"

-----------------------------------------------------------------------------
(***************************************************************************)
(* connect(), disconnect() and stop()                                      *)
(***************************************************************************)
Call(op) ==
    /\ Alive /\ callPc = "idle" /\ calls < MaxCalls
    /\ asked # op /\ (op = "disconnect" => wanted)
    /\ asked' = op /\ calls' = calls + 1
    /\ connects' = IF op = "connect" /\ connects < 2 THEN connects + 1 ELSE connects
    /\ clientConnect_' = (op = "connect")
    /\ UNCHANGED <<retry_, connection_, lifeVars>>

ConnectHere(answer) ==
    /\ Call("connect")
    /\ StartHere(answer)
    /\ quiet' = FALSE
    /\ UNCHANGED callPc

StopClientHere ==
    /\ Call("stop")
    /\ StopHere
    /\ quiet' = TRUE
    /\ UNCHANGED callPc

\* A connection that is up is shut down, and goes down when the peer closes it.
DisconnectHere ==
    /\ Call("disconnect") /\ LoopAt("idle")
    /\ quiet' = (connection_ # NoSocket)
    /\ UNCHANGED <<connectorVars, callPc>>

CallElsewhere(op) ==
    /\ Call(op)
    /\ callPc' = op
    /\ quiet' = FALSE
    /\ UNCHANGED connectorVars

Goes(from, to) ==
    /\ Alive /\ callPc = from /\ callPc' = to
    /\ UNCHANGED <<flagVars, connection_, asked, calls, connects, lifeVars>>

\* The loop has read connect_, or the client's, and acts upon it.
ActsOnConnect == loopPc \in {"restart", "established"}

SetConnectorConnect ==
    \/ Goes("connect", "start") /\ SetConnect(TRUE) /\ UNCHANGED quiet
    \/ Goes("stop", "cancel") /\ SetConnect(FALSE) /\ quiet' = ~ActsOnConnect

QueueCall ==
    /\ \/ Goes("start", "idle") /\ StartQueue
       \/ Goes("cancel", "idle") /\ StopCancel
    /\ UNCHANGED quiet

ShutdownConnection ==
    /\ Goes("disconnect", "idle")
    /\ quiet' = (connection_ # NoSocket)
    /\ UNCHANGED connectorVars

-----------------------------------------------------------------------------
(***************************************************************************)
(* The callbacks of the Connector and of the connection                    *)
(***************************************************************************)
NewConnection ==
    /\ Alive
    /\ NewConnectionCallback
    /\ connection_' = channel_ /\ closeCallback_' = TRUE
    /\ UNCHANGED <<flagVars, callVars, quiet, destroyed, removalTimer>>

\* Seeded fault: the client's connect_ is not looked at.
WantsRestartAlways == retry_

WantsRestart == retry_ /\ clientConnect_

\* No functor of an earlier event is left: connectDestroyed() has been called
\* for earlier connections, and the user has let them go.
FormerClosed == \A s \in Sockets : owner[s] = "client" => s = connection_

\* removeConnection(), the close callback, up to the call of restart()
RemoveConnection ==
    /\ Alive /\ LoopAt("idle") /\ ~SameIteration /\ FormerClosed
    /\ connection_ # NoSocket
    /\ connection_' = NoSocket /\ closeCallback_' = FALSE
    /\ loopPc' = IF WantsRestart THEN "restart" ELSE "event"
    /\ UNCHANGED <<connect_, state_, channelVars, retryVars, pending, todo, owner, endVars,
                   flagVars, callVars, quiet, destroyed, removalTimer>>

\* connectDestroyed() and the end of the TcpConnection, which closes the
\* descriptor, unless the lambda that calls it finds something else on the stack
CloseConnection(s) ==
    /\ LoopAt("idle")
    /\ owner[s] = "client" /\ connection_ # s
    /\ \/ owner' = [owner EXCEPT ![s] = "closed"] /\ UNCHANGED fault
       \/ fault' = "reference" /\ UNCHANGED owner
    /\ UNCHANGED <<connect_, state_, channelVars, retryVars, pending, loopPc, todo, gaveUp,
                   clientVars>>

-----------------------------------------------------------------------------
(***************************************************************************)
(* ~TcpClient and ~Connector, which cancels the retry timer.  The Channel  *)
(* dies with the Connector, and nobody takes it out of the Poller.         *)
(* Without a connection ~TcpClient also leaves a timer in the loop, whose  *)
(* lambda keeps the pointer to the client and names its connector_.        *)
(***************************************************************************)
\* Between two callbacks of the loop, when no attempt is under way and
\* nothing that the client queued is left to run.
Quiescent == LoopAt("idle") /\ state_ # "kConnecting" /\ pending = << >>

\* Seeded fault: the close callback stays.
ReplaceCloseCallbackNot == UNCHANGED closeCallback_

\* setCloseCallback(Detail::removeConnection)
ReplaceCloseCallback == closeCallback_' = FALSE

DestroyHere ==
    /\ Alive /\ callPc = "idle" /\ LoopAt("idle")
    /\ destroyed' = IF Quiescent THEN "quietly" ELSE "busy"
    /\ timers' = timers \ {timerId_}
    /\ connect_' = IF connection_ # NoSocket THEN connect_ ELSE FALSE
    /\ removalTimer' = (connection_ = NoSocket)
    /\ ReplaceCloseCallback
    /\ UNCHANGED <<state_, channelVars, retryDaleyMs_, timerId_, pending, loopPc, todo, owner,
                   endVars, flagVars, connection_, callVars, quiet>>

\* what ~Connector queues on another thread, as stop() does
CancelRetry == [op |-> "cancel", timer |-> timerId_]

\* setCloseCallback(), or the cancel() of stop() and runAfter()
LastWishes ==
    IF connection_ # NoSocket
    THEN << [op |-> "callback", timer |-> 0] >>
    ELSE << CancelRetry, [op |-> "runAfter", timer |-> 0] >>

\* on another thread, where all of this is queued
Destroy ==
    /\ Alive /\ callPc = "idle"
    /\ destroyed' = "elsewhere"
    /\ connect_' = IF connection_ # NoSocket THEN connect_ ELSE FALSE
    /\ pending' = pending \o Append(LastWishes, CancelRetry)
    /\ UNCHANGED <<state_, channelVars, retryVars, loopPc, todo, owner, endVars, flagVars,
                   connection_, callVars, quiet, closeCallback_, removalTimer>>

\* addTimerInLoop() of the timer of ~TcpClient
RunAddTimer ==
    /\ NextFunctor("runAfter")
    /\ pending' = Tail(pending)
    /\ removalTimer' = TRUE
    /\ UNCHANGED <<connect_, state_, channelVars, retryVars, loopPc, todo, owner, endVars,
                   flagVars, connection_, callVars, quiet, destroyed, closeCallback_>>

\* The timer expires.  Its lambda forms a reference to connector_ of the client that
\* is gone and gives it to removeConnector(), whose body is empty: an address is
\* computed and, in every build, nothing is read there.
RemoveConnector ==
    /\ LoopAt("idle") /\ removalTimer
    /\ removalTimer' = FALSE
    /\ UNCHANGED <<connectorVars, flagVars, connection_, callVars, quiet, destroyed,
                   closeCallback_>>

RunSetCloseCallback ==
    /\ NextFunctor("callback")
    /\ pending' = Tail(pending)
    /\ closeCallback_' = FALSE
    /\ UNCHANGED <<connect_, state_, channelVars, retryVars, loopPc, todo, owner, endVars,
                   flagVars, connection_, callVars, quiet, destroyed, removalTimer>>

\* Detail::removeConnection(), when the connection outlives its client
RemoveOrphan ==
    /\ LoopAt("idle") /\ destroyed # "no"
    /\ connection_ # NoSocket /\ ~closeCallback_
    /\ connection_' = NoSocket
    /\ UNCHANGED <<connectorVars, flagVars, callVars, quiet, lifeVars>>

\* Somebody reads the client or the Connector after its end: code of theirs
\* that was running, a functor, a retry timer, an event of the Channel that was
\* left in the Poller, or the close callback.
UseDestroyed ==
    /\ Running /\ destroyed # "no"
    /\ \/ loopPc # "idle"
       \/ NextFunctor("start") \/ NextFunctor("reset")
       \/ timers # {} \/ registered
       \/ connection_ # NoSocket /\ closeCallback_
    /\ fault' = "destroyed"
    /\ UNCHANGED <<connect_, state_, channelVars, retryVars, pending, loopPc, todo, owner,
                   gaveUp, clientVars>>

-----------------------------------------------------------------------------
\* A step of the Connector while the client lives
ConnectorStep(Step) == Alive /\ Step /\ UNCHANGED clientVars

\* cancel() is a functor of the loop, and runs after the end of the client too.
CancelOrphan == destroyed # "no" /\ RunCancel /\ UNCHANGED clientVars

CallStep == SetConnectorConnect \/ QueueCall \/ ShutdownConnection

NewCall ==
    \/ Answer(ConnectHere)
    \/ StopClientHere
    \/ DisconnectHere
    \/ \E op \in {"connect", "disconnect", "stop"} : CallElsewhere(op)

Next ==
    \/ NewCall
    \/ CallStep
    \/ ConnectorStep(LoopStep)
    \/ NewConnection
    \/ RemoveConnection
    \/ \E s \in Sockets : CloseConnection(s)
    \/ DestroyHere
    \/ Destroy
    \/ RunSetCloseCallback
    \/ RunAddTimer
    \/ RemoveConnector
    \/ RemoveOrphan
    \/ CancelOrphan
    \/ UseDestroyed

Spec == Init /\ [][Next]_vars

\* Threads and the loop are scheduled, timers expire, connect(2) comes to an
\* end, and a server that is tried again and again is reached some time.
Fairness ==
    /\ WF_vars(CallStep)
    /\ WF_vars(ConnectorStep(Functor))
    /\ \A id \in TimerIds :
          WF_vars(ConnectorStep(\E answer \in Answers : RetryTimer(id, answer)))
    /\ SF_vars(ConnectorStep(\E id \in TimerIds : RetryTimer(id, "progress")))
    /\ WF_vars(ConnectorStep(Poll))
    /\ SF_vars(ConnectorStep(PollReturn({"write"})))
    /\ WF_vars(ConnectorStep(EventStep))
    /\ SF_vars(ConnectorStep(HandleWrite))
    /\ WF_vars(NewConnection)
    /\ \A s \in Sockets : WF_vars(CloseConnection(s))

FairSpec == Spec /\ Fairness

-----------------------------------------------------------------------------
\* newConnection() is called only while the client has no connection:
\* otherwise connection_ would be overwritten and the old one never destroyed.
OneConnection ==
    [][connection_' # connection_ => NoSocket \in {connection_, connection_'}]_vars

\* A client that was told to connect gets a connection, however many attempts
\* fail first, and with enableRetry() gets one again whenever it has lost it.
\* Exempt are clients that were told otherwise since, or destroyed, errors of
\* connect(2) that are not retried, and the end of the program.
KeepsConnected ==
    (wanted /\ (retry_ \/ state_ # "kConnected"))
        ~> (connection_ # NoSocket \/ ~wanted \/ destroyed # "no" \/ gaveUp \/ ~Running)

\* The assertions on state_ and channel_ hold for a client that is told to
\* connect once, whatever fails, is lost, retried or stopped afterwards.
\* They do not for a second connect(): stop() and disconnect() leave state_ and
\* an attempt under way alone, and startInLoop() asserts kDisconnected.
AssertionsHold == fault = "assertion" => connects > 1

\* After stop(), and after a disconnect() that met a connection, no new
\* connection is made, although attempts, timers and functors may still be
\* under way.  Exempt is a stop() on another thread that clears connect_ just
\* after the loop has looked at it, in handleWrite() or before restart().
StopHolds == [][quiet /\ connection_ = NoSocket => connection_' = NoSocket]_vars

\* A client that was told to connect at most once can be destroyed on the
\* loop's thread between two attempts or while it is connected: nothing that
\* is left in the loop, no functor, timer, event or close callback, reads or
\* writes it afterwards.  One timer that points at it does stay, that of
\* ~TcpClient without a connection, and is harmless for as long as
\* removeConnector() does nothing with its argument.
SafeDestruction ==
    destroyed = "quietly" /\ connects <= 1 => fault # "destroyed"

=============================================================================
