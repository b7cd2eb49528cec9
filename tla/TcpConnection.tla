--------------------------- MODULE TcpConnection ----------------------------
(***************************************************************************)
(* Dalin's TcpConnection (src/net/TcpConnection.cpp): one connection, the  *)
(* I/O loop it lives in, threads that call send() and shutdown() on it,    *)
(* the kernel's socket and the peer.  The user keeps a TcpConnectionPtr,   *)
(* so that the object outlives everything here.                            *)
(*                                                                         *)
(* The loop's thread waits in poll() or runs functors ("idle"), is inside  *)
(* Channel::handleEvent() ("event") or runs a callback of the user         *)
(* ("user").  Functors of the loop are a FIFO, as EventLoop implements it. *)
(* The Channel is what Poller makes of it: polled until the first          *)
(* disableAll(), after which enabling an event has no effect on poll(2),   *)
(* and an update after removeChannel() fails an assertion.                 *)
(*                                                                         *)
(* A message is a short run of bytes; what counts is which byte is where.  *)
(***************************************************************************)
EXTENDS Integers, Sequences

CONSTANTS
    Threads,        \* threads other than the loop's
    Messages,       \* each is sent at most once
    NoMessage,
    Size,           \* bytes of a message
    PeerMayReset    \* whether the peer may abort the connection

ASSUME TcpAssumption ==
    /\ NoMessage \notin Messages
    /\ Size \in Nat \ {0}
    /\ PeerMayReset \in BOOLEAN

VARIABLES
    state_,
    events_, polled, removed,   \* the Channel and its entry in the Poller
    outputBuffer_,
    pending,                    \* functors queued in the loop
    loopPc, todo,               \* the loop's thread; callbacks handleEvent() owes
    threadPc, message,          \* the other threads, and their argument
    unsent,                     \* messages not given to send() yet
    wire, fin,                  \* bytes the socket took; shutdownWrite() was done
    peerFin, reset,             \* the peer closed its side; the peer reset
    accepted,                   \* history: bytes sendInLoop() was given
    closes, destroys,           \* history: calls of closeCallback_ and connectDestroyed()
    aborted                     \* abort() was called or an assertion failed

channelVars == <<events_, polled, removed>>
threadVars == <<threadPc, message, unsent>>
peerVars == <<peerFin, reset>>
vars == <<state_, channelVars, outputBuffer_, pending, loopPc, todo, threadVars,
          wire, fin, peerVars, accepted, closes, destroys, aborted>>

Bytes(m) == [i \in 1..Size |-> <<m, i>>]
IsWriting == "write" \in events_

\* TcpConnection::TcpConnection; the server has queued connectEstablished().
Init ==
    /\ state_ = "kConnecting"
    /\ events_ = {} /\ polled = FALSE /\ removed = FALSE
    /\ outputBuffer_ = << >>
    /\ pending = << [op |-> "established"] >>
    /\ loopPc = "idle" /\ todo = {}
    /\ threadPc = [t \in Threads |-> "idle"]
    /\ message = [t \in Threads |-> NoMessage]
    /\ unsent = Messages
    /\ wire = << >> /\ fin = FALSE
    /\ peerFin = FALSE /\ reset = "no"
    /\ accepted = << >>
    /\ closes = 0 /\ destroys = 0
    /\ aborted = FALSE

-----------------------------------------------------------------------------
(***************************************************************************)
(* The kernel.  write(2) on the nonblocking socket takes some of the bytes *)
(* (none: EAGAIN), and fails after shutdownWrite() or a reset.             *)
(***************************************************************************)
WriteFails == fin \/ reset # "no"
Writable(bytes) == IF WriteFails THEN {0} ELSE 0..Len(bytes)

\* Seeded fault: an entry poll(2) ignores is polled again with its next event.
EnableWritingRepolls ==
    IF removed
    THEN aborted' = TRUE /\ UNCHANGED channelVars
    ELSE /\ events_' = events_ \cup {"write"}
         /\ polled' = TRUE
         /\ UNCHANGED <<removed, aborted>>

\* channel_->enableWriting(), with the assertion of Poller::updateChannel()
EnableWriting ==
    IF removed
    THEN aborted' = TRUE /\ UNCHANGED channelVars
    ELSE events_' = events_ \cup {"write"} /\ UNCHANGED <<polled, removed, aborted>>

DisableAll == events_' = {} /\ polled' = FALSE

\* Seeded fault: bytes that are waiting in the buffer are not looked at.
DirectWriteEager == ~IsWriting \/ Len(outputBuffer_) < 2

\* "if nothing in output queue, try writing directly"
DirectWrite == ~IsWriting /\ outputBuffer_ = << >>

\* Seeded fault: writing is not enabled for the rest of a partial write.
BufferRestSilent(rest) ==
    /\ outputBuffer_' = outputBuffer_ \o rest
    /\ UNCHANGED <<channelVars, aborted>>

BufferRest(rest) ==
    /\ outputBuffer_' = outputBuffer_ \o rest
    /\ IF IsWriting THEN UNCHANGED <<channelVars, aborted>> ELSE EnableWriting

\* sendInLoop(), with q the functors that stay queued
SendInLoop(m, q) ==
    \E n \in IF DirectWrite THEN Writable(Bytes(m)) ELSE {0} :
       LET rest == SubSeq(Bytes(m), n + 1, Size) IN
       /\ accepted' = accepted \o Bytes(m)
       /\ wire' = wire \o SubSeq(Bytes(m), 1, n)
       /\ IF rest = << >>
          THEN /\ pending' = Append(q, [op |-> "writeComplete"])
               /\ UNCHANGED <<outputBuffer_, channelVars, aborted>>
          ELSE /\ pending' = q
               /\ BufferRest(rest)

\* Seeded fault: the write side is closed while bytes are still buffered.
ShutdownInLoopAtOnce == fin' = TRUE

\* shutdownInLoop()
ShutdownInLoop == fin' = (fin \/ ~IsWriting)

-----------------------------------------------------------------------------
(***************************************************************************)
(* send() and shutdown() in a callback of the user on the loop's thread    *)
(***************************************************************************)
SendHere(m) ==
    /\ ~aborted /\ loopPc = "user"
    /\ m \in unsent
    /\ unsent' = unsent \ {m}
    /\ state_ = "kConnected"
    /\ SendInLoop(m, pending)
    /\ UNCHANGED <<state_, loopPc, todo, threadPc, message, fin, peerVars, closes, destroys>>

ShutdownHere ==
    /\ ~aborted /\ loopPc = "user"
    /\ state_ = "kConnected"
    /\ state_' = "kDisconnecting"
    /\ ShutdownInLoop
    /\ UNCHANGED <<channelVars, outputBuffer_, pending, loopPc, todo, threadVars, wire,
                   peerVars, accepted, closes, destroys, aborted>>

UserReturn ==
    /\ ~aborted /\ loopPc = "user"
    /\ loopPc' = "event"
    /\ UNCHANGED <<state_, channelVars, outputBuffer_, pending, todo, threadVars, wire,
                   fin, peerVars, accepted, closes, destroys, aborted>>

(***************************************************************************)
(* The same on another thread: state_ is read, written and followed by     *)
(* runInLoop() without a lock.                                             *)
(***************************************************************************)
Send(t, m) ==
    /\ ~aborted /\ threadPc[t] = "idle"
    /\ m \in unsent
    /\ unsent' = unsent \ {m}
    /\ IF state_ = "kConnected"
       THEN /\ threadPc' = [threadPc EXCEPT ![t] = "send"]
            /\ message' = [message EXCEPT ![t] = m]
       ELSE UNCHANGED <<threadPc, message>>
    /\ UNCHANGED <<state_, channelVars, outputBuffer_, pending, loopPc, todo, wire, fin,
                   peerVars, accepted, closes, destroys, aborted>>

SendQueue(t) ==
    /\ ~aborted /\ threadPc[t] = "send"
    /\ pending' = Append(pending, [op |-> "send", message |-> message[t]])
    /\ threadPc' = [threadPc EXCEPT ![t] = "idle"]
    /\ message' = [message EXCEPT ![t] = NoMessage]
    /\ UNCHANGED <<state_, channelVars, outputBuffer_, loopPc, todo, unsent, wire, fin,
                   peerVars, accepted, closes, destroys, aborted>>

Shutdown(t) ==
    /\ ~aborted /\ threadPc[t] = "idle"
    /\ state_ = "kConnected"
    /\ threadPc' = [threadPc EXCEPT ![t] = "setState"]
    /\ UNCHANGED <<state_, channelVars, outputBuffer_, pending, loopPc, todo, message,
                   unsent, wire, fin, peerVars, accepted, closes, destroys, aborted>>

ShutdownSetState(t) ==
    /\ ~aborted /\ threadPc[t] = "setState"
    /\ state_' = "kDisconnecting"
    /\ threadPc' = [threadPc EXCEPT ![t] = "shutdown"]
    /\ UNCHANGED <<channelVars, outputBuffer_, pending, loopPc, todo, message, unsent,
                   wire, fin, peerVars, accepted, closes, destroys, aborted>>

ShutdownQueue(t) ==
    /\ ~aborted /\ threadPc[t] = "shutdown"
    /\ pending' = Append(pending, [op |-> "shutdown"])
    /\ threadPc' = [threadPc EXCEPT ![t] = "idle"]
    /\ UNCHANGED <<state_, channelVars, outputBuffer_, loopPc, todo, message, unsent,
                   wire, fin, peerVars, accepted, closes, destroys, aborted>>

-----------------------------------------------------------------------------
(***************************************************************************)
(* Functors of the loop                                                    *)
(***************************************************************************)
ConnectEstablished ==
    /\ state_ = "kConnecting"
    /\ state_' = "kConnected"
    /\ events_' = events_ \cup {"read"} /\ polled' = TRUE
    /\ pending' = Tail(pending)
    /\ loopPc' = "user"
    /\ UNCHANGED <<removed, outputBuffer_, todo, threadVars, wire, fin, peerVars,
                   accepted, closes, destroys, aborted>>

ConnectDestroyed ==
    /\ pending' = Tail(pending)
    /\ destroys' = destroys + 1
    /\ IF state_ \in {"kConnected", "kDisconnecting"}
       THEN /\ state_' = "kDisconnected"
            /\ DisableAll
            /\ removed' = TRUE
            /\ UNCHANGED aborted
       ELSE aborted' = TRUE /\ UNCHANGED <<state_, channelVars>>
    /\ UNCHANGED <<outputBuffer_, loopPc, todo, threadVars, wire, fin, peerVars,
                   accepted, closes>>

RunFunctor ==
    /\ ~aborted /\ loopPc = "idle" /\ pending # << >>
    /\ \/ Head(pending).op = "established" /\ ConnectEstablished
       \/ Head(pending).op = "destroyed" /\ ConnectDestroyed
       \/ /\ Head(pending).op = "send"
          /\ SendInLoop(Head(pending).message, Tail(pending))
          /\ UNCHANGED <<state_, loopPc, todo, threadVars, fin, peerVars, closes, destroys>>
       \/ /\ Head(pending).op = "shutdown"
          /\ ShutdownInLoop
          /\ pending' = Tail(pending)
          /\ UNCHANGED <<state_, channelVars, outputBuffer_, loopPc, todo, threadVars, wire,
                         peerVars, accepted, closes, destroys, aborted>>
       \/ /\ Head(pending).op = "writeComplete"
          /\ pending' = Tail(pending)
          /\ loopPc' = "user"
          /\ UNCHANGED <<state_, channelVars, outputBuffer_, todo, threadVars, wire, fin,
                         peerVars, accepted, closes, destroys, aborted>>

(***************************************************************************)
(* Channel::handleEvent().  poll(2) reports the events asked for; the      *)
(* close callback belongs to a hang-up without input, which takes a reset  *)
(* or both sides closed.  The error callback only logs and is left out.    *)
(***************************************************************************)
Reportable ==
    events_ \cup (IF reset # "no" \/ (fin /\ peerFin) THEN {"close"} ELSE {})

PollReturn(callbacks) ==
    /\ ~aborted /\ loopPc = "idle" /\ polled
    /\ callbacks # {} /\ callbacks \subseteq Reportable
    /\ ~({"close", "read"} \subseteq callbacks)
    /\ todo' = callbacks
    /\ loopPc' = "event"
    /\ UNCHANGED <<state_, channelVars, outputBuffer_, pending, threadVars, wire, fin,
                   peerVars, accepted, closes, destroys, aborted>>

\* handleClose(), with its assertion
HandleClose ==
    IF state_ \in {"kConnected", "kDisconnecting"}
    THEN DisableAll /\ closes' = closes + 1 /\ UNCHANGED <<removed, aborted>>
    ELSE aborted' = TRUE /\ UNCHANGED <<channelVars, closes>>

CloseEvent ==
    /\ ~aborted /\ loopPc = "event" /\ "close" \in todo
    /\ todo' = todo \ {"close"}
    /\ HandleClose
    /\ UNCHANGED <<state_, outputBuffer_, pending, loopPc, threadVars, wire, fin,
                   peerVars, accepted, destroys>>

\* handleRead(): input, end of file, or an error, which is logged.  The first
\* read after a reset reports it, later ones the end of file.
HandleRead ==
    /\ ~aborted /\ loopPc = "event" /\ "read" \in todo /\ "close" \notin todo
    /\ todo' = todo \ {"read"}
    /\ \/ /\ reset = "no"
          /\ loopPc' = "user"
          /\ UNCHANGED <<channelVars, closes, aborted, reset>>
       \/ /\ (peerFin /\ reset = "no") \/ reset = "reported"
          /\ HandleClose
          /\ UNCHANGED <<loopPc, reset>>
       \/ /\ reset = "yes"
          /\ reset' = "reported"
          /\ UNCHANGED <<loopPc, channelVars, closes, aborted>>
    /\ UNCHANGED <<state_, outputBuffer_, pending, threadVars, wire, fin, peerFin,
                   accepted, destroys>>

\* Seeded fault: the shutdown that waited for the buffer is forgotten.
FlushedForgetful ==
    /\ events_' = events_ \ {"write"}
    /\ pending' = Append(pending, [op |-> "writeComplete"])
    /\ UNCHANGED fin

\* Seeded fault: disableWriting() is missing.
FlushedStillWriting ==
    /\ pending' = Append(pending, [op |-> "writeComplete"])
    /\ fin' = (fin \/ state_ = "kDisconnecting")
    /\ UNCHANGED events_

\* Everything was written: disableWriting(), the callback, and the shutdown
\* that waited for it.
Flushed ==
    /\ events_' = events_ \ {"write"}
    /\ pending' = Append(pending, [op |-> "writeComplete"])
    /\ fin' = (fin \/ state_ = "kDisconnecting")

\* outputBuffer_.retrieve(n)
Retrieve(n) == SubSeq(outputBuffer_, n + 1, Len(outputBuffer_))

\* handleWrite(); an error of write(2) aborts the program.  So would EAGAIN, which
\* is taken not to follow POLLOUT: what is written is at least a byte.
HandleWrite ==
    /\ ~aborted /\ loopPc = "event" /\ todo = {"write"}
    /\ todo' = {}
    /\ IF ~IsWriting
       THEN UNCHANGED <<channelVars, outputBuffer_, pending, wire, fin, aborted>>
       ELSE IF WriteFails \/ outputBuffer_ = << >>
       THEN aborted' = TRUE /\ UNCHANGED <<channelVars, outputBuffer_, pending, wire, fin>>
       ELSE \E n \in 1..Len(outputBuffer_) :
               /\ wire' = wire \o SubSeq(outputBuffer_, 1, n)
               /\ outputBuffer_' = Retrieve(n)
               /\ IF outputBuffer_' = << >> THEN Flushed ELSE UNCHANGED <<events_, pending, fin>>
               /\ UNCHANGED <<polled, removed, aborted>>
    /\ UNCHANGED <<state_, loopPc, threadVars, peerVars, accepted, closes, destroys>>

EventDone ==
    /\ ~aborted /\ loopPc = "event" /\ todo = {}
    /\ loopPc' = "idle"
    /\ UNCHANGED <<state_, channelVars, outputBuffer_, pending, todo, threadVars, wire,
                   fin, peerVars, accepted, closes, destroys, aborted>>

(***************************************************************************)
(* The owner.  closeCallback_ makes TcpServer or TcpClient forget the      *)
(* connection, in their own loop, and queue connectDestroyed().            *)
(***************************************************************************)
RemoveConnection ==
    /\ ~aborted
    /\ closes > destroys
    /\ \A i \in DOMAIN pending : pending[i].op # "destroyed"
    /\ pending' = Append(pending, [op |-> "destroyed"])
    /\ UNCHANGED <<state_, channelVars, outputBuffer_, loopPc, todo, threadVars, wire,
                   fin, peerVars, accepted, closes, destroys, aborted>>

PeerClose ==
    /\ ~peerFin /\ ~aborted
    /\ peerFin' = TRUE
    /\ UNCHANGED <<state_, channelVars, outputBuffer_, pending, loopPc, todo, threadVars,
                   wire, fin, reset, accepted, closes, destroys, aborted>>

PeerReset ==
    /\ PeerMayReset /\ reset = "no" /\ ~aborted
    /\ reset' = "yes"
    /\ UNCHANGED <<state_, channelVars, outputBuffer_, pending, loopPc, todo, threadVars,
                   wire, fin, peerFin, accepted, closes, destroys, aborted>>

-----------------------------------------------------------------------------
Poll == \E callbacks \in SUBSET {"close", "read", "write"} : PollReturn(callbacks)

LoopStep ==
    \/ RunFunctor
    \/ CloseEvent
    \/ HandleRead
    \/ HandleWrite
    \/ EventDone
    \/ UserReturn

UserStep == ShutdownHere \/ \E m \in Messages : SendHere(m)

CallStep(t) == SendQueue(t) \/ ShutdownSetState(t) \/ ShutdownQueue(t)

ThreadStep(t) ==
    \/ CallStep(t)
    \/ Shutdown(t)
    \/ \E m \in Messages : Send(t, m)

Next ==
    \/ LoopStep
    \/ Poll
    \/ UserStep
    \/ \E t \in Threads : ThreadStep(t)
    \/ RemoveConnection
    \/ PeerClose
    \/ PeerReset

Spec == Init /\ [][Next]_vars

\* The loop's thread and threads inside a call are scheduled and user code
\* returns.  EventLoop runs queued functors after every poll (its property
\* QueuedFunctorsRun), however often poll() reports input: RunFunctor is
\* strongly fair.  The peer keeps reading, so that poll() again and again
\* reports POLLOUT to who asks for it.  The owner's loop is scheduled too.
Fairness ==
    /\ SF_vars(RunFunctor)
    /\ WF_vars(CloseEvent \/ HandleRead \/ HandleWrite \/ EventDone)
    /\ WF_vars(UserReturn)
    /\ SF_vars(\E callbacks \in SUBSET {"close", "read", "write"} :
                  "write" \in callbacks /\ PollReturn(callbacks))
    /\ \A t \in Threads : WF_vars(CallStep(t))
    /\ WF_vars(RemoveConnection)

FairSpec == Spec /\ Fairness

-----------------------------------------------------------------------------
\* The stream is intact: what the socket took, followed by what is buffered, is
\* exactly what sendInLoop() was given, from all threads, in that order.
StreamIntact == accepted = wire \o outputBuffer_

\* shutdown() closes the write side only when everything that was given to
\* sendInLoop() is on the wire (until the peer is found to have closed).
FinAfterData ==
    [][~fin /\ fin' => outputBuffer_' = << >> \/ ~polled]_vars

\* closeCallback_ and connectDestroyed() are called at most once each
\* ("should be called only once", TcpConnection.h).
ClosedOnce == closes <= 1 /\ destroys <= 1

\* A shutdown() that was requested is done once the buffer has been written,
\* unless the connection is closed or broken first.
ShutdownCompletes ==
    (state_ = "kDisconnecting") ~> (fin \/ closes > 0 \/ reset # "no" \/ aborted)

\* Bytes given to sendInLoop() reach the socket, unless the connection is closed,
\* broken or shut down first.
BytesWritten ==
    (outputBuffer_ # << >>)
       ~> (outputBuffer_ = << >> \/ closes > 0 \/ fin \/ reset # "no" \/ aborted)

\* The program is aborted for two reasons only: the peer has reset the
\* connection, and handleWrite() takes the failed write for fatal; or bytes came
\* to sendInLoop() after the write side was closed or the Channel removed, from
\* a send() that had looked at state_ before.  The assertions of handleClose()
\* and connectDestroyed() hold, and handleWrite() never writes nothing.
AbortExplained ==
    aborted => reset # "no" \/ (outputBuffer_ # << >> /\ (fin \/ removed))

\* send() and shutdown() are "Thread safe." (TcpConnection.h): as long as the
\* peer does not reset the connection, no use of them aborts the program.
NeverAborts == ~aborted

=============================================================================
