----------------------------- MODULE TcpServer ------------------------------
(***************************************************************************)
(* Dalin's TcpServer (src/net/TcpServer.cpp) with its Acceptor and its     *)
(* EventLoopThreadPool: connections are accepted in the base loop, handed  *)
(* to an I/O loop in turn, and taken out of connections_ when they close.  *)
(*                                                                         *)
(* The module is about the lifetime of the TcpConnection objects.  A       *)
(* shared_ptr is a member of holders: the local variable of newConnection()*)
(* ("local"), connections_ ("map"), shared_from_this() inside handleClose()*)
(* ("self"), the copy bound into the functor of removeConnectionInLoop()   *)
(* ("functor") and one that the user keeps ("user").  The object lives as  *)
(* long as it has a holder.                                                *)
(*                                                                         *)
(* The lambdas that call connectEstablished() and connectDestroyed() hold  *)
(* no shared_ptr but a reference to one ("local" or "functor").  Run when  *)
(* that one is gone they read freed memory: either it still holds the old  *)
(* pointer, or the behaviour is undefined, which ends the model.           *)
(*                                                                         *)
(* A loop is between events ("idle"), in newConnection() after queueing    *)
(* ("accept"), in handleClose() after closeCallback_ ("close"), drains its *)
(* functors, which are destroyed with their vector ("functors"), or is     *)
(* inside connectDestroyed() ("destroy").                                  *)
(***************************************************************************)
EXTENDS Integers, Sequences, FiniteSets

CONSTANTS
    MaxThreads,     \* bound: threads of the pool
    MaxConns        \* bound: connections accepted

ASSUME TcpServerAssumption == MaxThreads \in Nat /\ MaxConns \in Nat

Loops == 0..MaxThreads      \* 0 is loop_, the acceptor's loop
Conns == 1..MaxConns        \* by the number in their name

VARIABLES
    numThreads_, started_, listenning_,
    next_,                  \* the I/O loop to be given out, from 0 as in loops_
    nextConnId_, connections_,
    loopOf, state_,         \* per connection
    polled,                 \* connections whose Channel is enabled
    holders,
    pending, functors,      \* per loop: pendingFunctors_, and the vector drained
    pc, current,            \* per loop: where it stands, in which connection
    undefined, aborted

serverVars == <<numThreads_, started_, listenning_, next_, nextConnId_>>
loopVars == <<pending, functors, pc, current>>
endVars == <<undefined, aborted>>
vars == <<serverVars, connections_, loopOf, state_, polled, holders, loopVars, endVars>>

Running == ~undefined /\ ~aborted

Functor(op, c) == [op |-> op, conn |-> c]

Queue(l, f) == pending' = [pending EXCEPT ![l] = Append(@, f)]

Drop(holder, c) == holders' = [holders EXCEPT ![c] = @ \ {holder}]

\* EventLoopThreadPool; setThreadNum() comes before start(), as TcpServer.h asks.
PoolInit == numThreads_ \in 0..MaxThreads /\ next_ = 0

AcceptorInit == listenning_ = FALSE

Init ==
    /\ PoolInit
    /\ AcceptorInit
    /\ started_ = FALSE /\ nextConnId_ = 1
    /\ connections_ = {}
    /\ loopOf = [c \in Conns |-> 0]
    /\ state_ = [c \in Conns |-> "none"]
    /\ polled = {}
    /\ holders = [c \in Conns |-> {}]
    /\ pending = [l \in Loops |-> << >>] /\ functors = [l \in Loops |-> << >>]
    /\ pc = [l \in Loops |-> "idle"] /\ current = [l \in Loops |-> 0]
    /\ undefined = FALSE /\ aborted = FALSE

-----------------------------------------------------------------------------
\* Acceptor::listen()
Listen == listenning_' = TRUE

\* start() on the thread of loop_: the pool starts and the Acceptor listens.
\* A second call changes nothing.
StartHere ==
    /\ Running /\ pc[0] = "idle"
    /\ started_' = TRUE /\ Listen
    /\ UNCHANGED <<numThreads_, next_, nextConnId_, connections_, loopOf, state_, polled,
                   holders, loopVars, endVars>>

\* start() on another thread: the first call ends in
\* EventLoopThreadPool::start(), which must run in the loop's thread.
Start ==
    /\ Running
    /\ aborted' = ~started_
    /\ started_' = TRUE
    /\ UNCHANGED <<numThreads_, listenning_, next_, nextConnId_, connections_, loopOf,
                   state_, polled, holders, loopVars, undefined>>

\* getNextLoop(), and the value of next_ after a loop of the pool was given out
GetNextLoop == IF numThreads_ = 0 THEN 0 ELSE next_ + 1

AdvanceNext == IF next_ + 1 >= numThreads_ THEN 0 ELSE next_ + 1

\* Seeded fault: connections_ does not hold the connection.
NewHoldersLocal == {"local"}

NewHolders == {"local", "map"}

\* the user's callback of connectEstablished() may keep the TcpConnectionPtr
Kept(keep) == IF keep THEN {"user"} ELSE {}

\* Acceptor::handleRead() gets a descriptor from accept(2).
HandleRead == Running /\ pc[0] = "idle" /\ listenning_ /\ nextConnId_ \in Conns

\* accept(2) fails in a way SocketsOps::accept() does not expect; after other
\* errors nothing changes.
AcceptFails ==
    /\ Running /\ pc[0] = "idle" /\ listenning_
    /\ aborted' = TRUE
    /\ UNCHANGED <<serverVars, connections_, loopOf, state_, polled, holders, loopVars,
                   undefined>>

\* newConnection(), called back by the Acceptor; it calls
\* connectEstablished() itself when the I/O loop is loop_
NewConnection(keep) ==
    /\ HandleRead
    /\ LET c == nextConnId_
           ioLoop == GetNextLoop
           here == ioLoop = 0
       IN /\ nextConnId_' = c + 1
          /\ next_' = IF here THEN next_ ELSE AdvanceNext
          /\ connections_' = connections_ \cup {c}
          /\ loopOf' = [loopOf EXCEPT ![c] = ioLoop]
          /\ pc' = [pc EXCEPT ![0] = "accept"] /\ current' = [current EXCEPT ![0] = c]
          /\ \/ /\ here
                /\ state_' = [state_ EXCEPT ![c] = "kConnected"]
                /\ polled' = polled \cup {c}
                /\ holders' = [holders EXCEPT ![c] = NewHolders \cup Kept(keep)]
                /\ UNCHANGED pending
             \/ /\ ~here /\ ~keep
                /\ state_' = [state_ EXCEPT ![c] = "kConnecting"]
                /\ holders' = [holders EXCEPT ![c] = NewHolders]
                /\ Queue(ioLoop, Functor("established", c))
                /\ UNCHANGED polled
    /\ UNCHANGED <<numThreads_, started_, listenning_, functors, endVars>>

\* The local shared_ptr of newConnection() goes.
NewConnectionReturn ==
    /\ Running /\ pc[0] = "accept"
    /\ Drop("local", current[0])
    /\ pc' = [pc EXCEPT ![0] = "idle"]
    /\ UNCHANGED <<serverVars, connections_, loopOf, state_, polled, pending, functors,
                   current, endVars>>

-----------------------------------------------------------------------------
\* Seeded fault: the connection is not told that it was removed.
RemoveSilent(c) ==
    /\ aborted' = (c \notin connections_)
    /\ connections_' = connections_ \ {c}
    /\ UNCHANGED pending

\* removeConnectionInLoop(), except for what the map holds
Remove(c) ==
    /\ aborted' = (c \notin connections_)
    /\ connections_' = connections_ \ {c}
    /\ Queue(loopOf[c], Functor("destroyed", c))

\* TcpConnection::handleClose() with TcpServer::removeConnection(), which
\* removes the connection itself when it runs in loop_
HandleClose(c) ==
    LET l == loopOf[c] IN
    /\ Running /\ pc[l] = "idle" /\ c \in polled
    /\ polled' = polled \ {c}
    /\ pc' = [pc EXCEPT ![l] = "close"] /\ current' = [current EXCEPT ![l] = c]
    /\ \/ /\ l = 0
          /\ Remove(c)
          /\ holders' = [holders EXCEPT ![c] = (@ \ {"map"}) \cup {"self"}]
       \/ /\ l # 0
          /\ Queue(0, Functor("remove", c))
          /\ holders' = [holders EXCEPT ![c] = @ \cup {"self", "functor"}]
          /\ UNCHANGED <<connections_, aborted>>
    /\ UNCHANGED <<serverVars, loopOf, state_, functors, undefined>>

\* The temporary shared_ptr goes; Channel::handleEvent() then writes to the
\* Channel, which the connection owns.
CloseReturn(l) ==
    /\ Running /\ pc[l] = "close"
    /\ Drop("self", current[l])
    /\ undefined' = (holders'[current[l]] = {})
    /\ pc' = [pc EXCEPT ![l] = "idle"]
    /\ UNCHANGED <<serverVars, connections_, loopOf, state_, polled, pending, functors,
                   current, aborted>>

\* A pointer that the user kept goes.
UserRelease(c) ==
    /\ Running /\ "user" \in holders[c]
    /\ Drop("user", c)
    /\ UNCHANGED <<serverVars, connections_, loopOf, state_, polled, loopVars, endVars>>

-----------------------------------------------------------------------------
DoPendingFunctors(l) ==
    /\ Running /\ pc[l] = "idle" /\ pending[l] # << >>
    /\ functors' = [functors EXCEPT ![l] = pending[l]]
    /\ pending' = [pending EXCEPT ![l] = << >>]
    /\ pc' = [pc EXCEPT ![l] = "functors"]
    /\ UNCHANGED <<serverVars, connections_, loopOf, state_, polled, holders, current, endVars>>

\* The loop comes to a functor of this kind for connection c.
RunFunctor(l, op, c) ==
    /\ Running /\ pc[l] = "functors"
    /\ functors[l] # << >> /\ Head(functors[l]) = Functor(op, c)
    /\ functors' = [functors EXCEPT ![l] = Tail(@)]

\* the lambda of newConnection()
RunEstablished(l, c, keep) ==
    /\ RunFunctor(l, "established", c)
    /\ holders[c] # {}
    /\ state_' = [state_ EXCEPT ![c] = "kConnected"]
    /\ polled' = polled \cup {c}
    /\ holders' = [holders EXCEPT ![c] = @ \cup Kept(keep)]
    /\ UNCHANGED <<serverVars, connections_, loopOf, pending, pc, current, endVars>>

RunRemove(c) ==
    /\ RunFunctor(0, "remove", c)
    /\ Remove(c)
    /\ Drop("map", c)
    /\ UNCHANGED <<serverVars, loopOf, state_, polled, pc, current, undefined>>

\* the lambda of removeConnectionInLoop(), up to the callback
RunDestroyed(l, c) ==
    /\ RunFunctor(l, "destroyed", c)
    /\ holders[c] # {}
    /\ state_' = [state_ EXCEPT ![c] = "kDisconnected"]
    /\ pc' = [pc EXCEPT ![l] = "destroy"] /\ current' = [current EXCEPT ![l] = c]
    /\ UNCHANGED <<serverVars, connections_, loopOf, polled, holders, pending, endVars>>

\* the rest of connectDestroyed(), on an object that may be gone meanwhile
ConnectDestroyedReturn(l) ==
    /\ Running /\ pc[l] = "destroy"
    /\ undefined' = (holders[current[l]] = {})
    /\ pc' = [pc EXCEPT ![l] = "functors"]
    /\ UNCHANGED <<serverVars, connections_, loopOf, state_, polled, holders, pending,
                   functors, current, aborted>>

\* A lambda whose shared_ptr is gone, and not by chance still readable
RunDangling(l, c) ==
    /\ \/ RunFunctor(l, "established", c) /\ "local" \notin holders[c]
       \/ RunFunctor(l, "destroyed", c) /\ "functor" \notin holders[c]
    /\ undefined' = TRUE
    /\ UNCHANGED <<serverVars, connections_, loopOf, state_, polled, holders, pending, pc,
                   current, aborted>>

\* The vector is destroyed, with the shared_ptr bound into its functors.
FunctorsDone(l) ==
    /\ Running /\ pc[l] = "functors" /\ functors[l] = << >>
    /\ pc' = [pc EXCEPT ![l] = "idle"]
    /\ holders' = IF l # 0 THEN holders
                  ELSE [c \in Conns |->
                          IF \E i \in DOMAIN pending[0] : pending[0][i] = Functor("remove", c)
                          THEN holders[c] ELSE holders[c] \ {"functor"}]
    /\ UNCHANGED <<serverVars, connections_, loopOf, state_, polled, pending, functors,
                   current, endVars>>

-----------------------------------------------------------------------------
LoopStep(l) ==
    \/ l = 0 /\ NewConnectionReturn
    \/ CloseReturn(l)
    \/ DoPendingFunctors(l)
    \/ \E c \in Conns, keep \in BOOLEAN : RunEstablished(l, c, keep)
    \/ \E c \in Conns : RunDestroyed(l, c) \/ RunDangling(l, c) \/ (l = 0 /\ RunRemove(c))
    \/ ConnectDestroyedReturn(l)
    \/ FunctorsDone(l)

Next ==
    \/ StartHere
    \/ Start
    \/ AcceptFails
    \/ \E keep \in BOOLEAN : NewConnection(keep)
    \/ \E c \in Conns : HandleClose(c) \/ UserRelease(c)
    \/ \E l \in Loops : LoopStep(l)

Spec == Init /\ [][Next]_vars

\* Every loop that has something to do goes on.
FairSpec == Spec /\ \A l \in Loops : WF_vars(LoopStep(l))

-----------------------------------------------------------------------------
RemovalQueued(c) ==
    \E queue \in {pending[0], functors[0]} :
        \E i \in DOMAIN queue : queue[i] = Functor("remove", c)

\* connections_ and the objects agree: it holds what it lists; a Channel that
\* poll() may report belongs to a connection that is listed, and so alive; and
\* a removal under way will find its connection in the map, as
\* removeConnectionInLoop() asserts.
ConnectionsAgree ==
    /\ \A c \in connections_ : "map" \in holders[c]
    /\ \A c \in Conns : c \in polled \/ RemovalQueued(c) => c \in connections_
    /\ \A c \in polled : ~RemovalQueued(c)

\* A connection that was closed is told so by connectDestroyed(), unless the
\* program comes to an end.
ClosedAreDestroyed ==
    \A c \in Conns :
        (state_[c] = "kConnected" /\ c \notin polled) ~> (state_[c] = "kDisconnected" \/ ~Running)

\* connectDestroyed(), "called when TcpServer has removed me from its map"
\* (TcpConnection.h), finds the connection, and nothing uses it after its end.
NeverUndefined == ~undefined

=============================================================================
