------------------------ MODULE TcpConnectionProofs -------------------------
(***************************************************************************)
(* Proofs about TcpConnection for every set of threads and of messages and *)
(* every size of a message: the byte stream is intact, the write side is   *)
(* closed behind the data, the connection is closed once, and what can     *)
(* abort the program.                                                      *)
(***************************************************************************)
EXTENDS TcpConnection, SequenceTheorems, TLAPS

Byte == Messages \X (1..Size)

Functors ==
    {[op |-> op] : op \in {"established", "destroyed", "shutdown", "writeComplete"}}
        \cup [op : {"send"}, message : Messages]

TypeOK ==
    /\ state_ \in {"kConnecting", "kConnected", "kDisconnecting", "kDisconnected"}
    /\ events_ \subseteq {"read", "write"} /\ polled \in BOOLEAN /\ removed \in BOOLEAN
    /\ outputBuffer_ \in Seq(Byte) /\ wire \in Seq(Byte) /\ accepted \in Seq(Byte)
    /\ pending \in Seq(Functors)
    /\ loopPc \in {"idle", "event", "user"} /\ todo \subseteq {"close", "read", "write"}
    /\ threadPc \in [Threads -> {"idle", "send", "setState", "shutdown"}]
    /\ message \in [Threads -> Messages \cup {NoMessage}]
    /\ unsent \subseteq Messages
    /\ fin \in BOOLEAN /\ peerFin \in BOOLEAN
    /\ reset \in {"no", "yes", "reported"}
    /\ closes \in Nat /\ destroys \in Nat
    /\ aborted \in BOOLEAN

\* send() on a thread has its argument.
MessageInv == \A t \in Threads : threadPc[t] = "send" => message[t] \in Messages

TypeInv == TypeOK /\ MessageInv

\* Before connectEstablished() nothing can happen to the connection.
StartInv ==
    state_ = "kConnecting" =>
        /\ outputBuffer_ = << >> /\ events_ = {} /\ ~polled /\ ~removed
        /\ loopPc = "idle" /\ todo = {} /\ closes = 0
        /\ pending = << [op |-> "established"] >>
        /\ \A t \in Threads : threadPc[t] = "idle"

\* POLLOUT is asked for only while bytes wait, and while bytes wait for as long
\* as the Channel is polled at all.
WriteInv ==
    /\ IsWriting => outputBuffer_ # << >>
    /\ outputBuffer_ # << >> /\ polled => IsWriting
    /\ removed => ~polled

\* Once closeCallback_ was called the Channel is polled no more, and what is left
\* of the event can at most be the write callback.
CloseInv ==
    /\ closes > 0 => closes = 1 /\ ~polled /\ todo \subseteq {"write"}
    /\ ~({"close", "read"} \subseteq todo)
    /\ loopPc = "idle" => todo = {}
    /\ destroys <= closes
    /\ state_ = "kDisconnected" => destroys > 0

AtMostOneDestroyed(q) ==
    \A i, j \in DOMAIN q : q[i].op = "destroyed" /\ q[j].op = "destroyed" => i = j

NoneDestroyed(q) == \A i \in DOMAIN q : q[i].op # "destroyed"

\* connectDestroyed() is queued at most once for every close.
DestroyedInv ==
    /\ AtMostOneDestroyed(pending)
    /\ NoneDestroyed(pending) \/ destroys < closes

SafetyInv ==
    StartInv /\ StreamIntact /\ WriteInv /\ CloseInv /\ DestroyedInv /\ AbortExplained

IndInv == TypeInv /\ SafetyInv

-----------------------------------------------------------------------------
\* A message is a sequence of Size bytes.
LEMMA BytesType ==
    ASSUME NEW m \in Messages
    PROVE  /\ Bytes(m) \in Seq(Byte) /\ Len(Bytes(m)) = Size
           /\ \A n \in 0..Size : /\ SubSeq(Bytes(m), 1, n) \in Seq(Byte)
                                 /\ SubSeq(Bytes(m), n + 1, Size) \in Seq(Byte)
<1>1. Size \in Nat \ {0} BY TcpAssumption
<1>2. Bytes(m) \in Seq(Byte) /\ Len(Bytes(m)) = Size
  BY <1>1 DEF Bytes, Byte
<1>. QED BY <1>1, <1>2

\* The head of the queue is a functor, and the queue without it a queue.
LEMMA PendingTail ==
    ASSUME TypeOK, pending # << >>
    PROVE  Head(pending) \in Functors /\ Tail(pending) \in Seq(Functors)
  BY DEF TypeOK

\* What sendInLoop() does: n bytes go to the socket, directly and only when
\* nothing waits in the buffer; the rest is buffered, and POLLOUT asked for.
Sent(m, q, n) ==
    /\ n > 0 => outputBuffer_ = << >>
    /\ accepted' = accepted \o Bytes(m)
    /\ wire' = wire \o SubSeq(Bytes(m), 1, n)
    /\ \/ /\ n = Size
          /\ pending' = Append(q, [op |-> "writeComplete"])
          /\ UNCHANGED <<outputBuffer_, channelVars, aborted>>
       \/ /\ n < Size
          /\ pending' = q
          /\ outputBuffer_' = outputBuffer_ \o SubSeq(Bytes(m), n + 1, Size)
          /\ \/ IsWriting /\ UNCHANGED <<channelVars, aborted>>
             \/ ~IsWriting /\ removed /\ aborted' = TRUE /\ UNCHANGED channelVars
             \/ /\ ~IsWriting /\ ~removed
                /\ events_' = events_ \cup {"write"}
                /\ UNCHANGED <<polled, removed, aborted>>

\* sendInLoop() of a message, on the loop's thread or as a functor
LEMMA SendFacts ==
    ASSUME NEW m \in Messages, NEW q, SendInLoop(m, q)
    PROVE  \E n \in 0..Size : Sent(m, q, n)
<1>1. PICK n \in IF DirectWrite THEN Writable(Bytes(m)) ELSE {0} :
         /\ accepted' = accepted \o Bytes(m)
         /\ wire' = wire \o SubSeq(Bytes(m), 1, n)
         /\ IF SubSeq(Bytes(m), n + 1, Size) = << >>
            THEN /\ pending' = Append(q, [op |-> "writeComplete"])
                 /\ UNCHANGED <<outputBuffer_, channelVars, aborted>>
            ELSE /\ pending' = q
                 /\ BufferRest(SubSeq(Bytes(m), n + 1, Size))
  BY DEF SendInLoop
<1>2. Size \in Nat \ {0} BY TcpAssumption
<1>3. n \in 0..Size /\ (n > 0 => outputBuffer_ = << >>)
  BY <1>2, BytesType DEF Writable, DirectWrite
<1>4. SubSeq(Bytes(m), n + 1, Size) = << >> <=> n = Size
  BY <1>2, <1>3, BytesType
<1>5. CASE n = Size BY <1>1, <1>2, <1>3, <1>4, <1>5 DEF Sent
<1>6. CASE n # Size
  <2>1. n < Size BY <1>2, <1>3, <1>6
  <2>. QED BY <1>1, <1>3, <1>4, <1>6, <2>1 DEF Sent, BufferRest, EnableWriting
<1>. QED BY <1>5, <1>6

\* sendInLoop() keeps the types of what it changes.
LEMMA SendInLoopTypes ==
    ASSUME TypeOK, NEW m \in Messages, NEW q \in Seq(Functors), SendInLoop(m, q)
    PROVE  /\ outputBuffer_' \in Seq(Byte) /\ wire' \in Seq(Byte) /\ accepted' \in Seq(Byte)
           /\ pending' \in Seq(Functors)
           /\ events_' \subseteq {"read", "write"} /\ polled' \in BOOLEAN /\ removed' \in BOOLEAN
           /\ aborted' \in BOOLEAN
<1>1. PICK n \in 0..Size : Sent(m, q, n) BY SendFacts
<1>2. /\ Bytes(m) \in Seq(Byte) /\ SubSeq(Bytes(m), 1, n) \in Seq(Byte)
      /\ SubSeq(Bytes(m), n + 1, Size) \in Seq(Byte)
  BY BytesType
<1>3. accepted' \in Seq(Byte) /\ wire' \in Seq(Byte)
  BY <1>1, <1>2 DEF TypeOK, Sent
<1>4. Append(q, [op |-> "writeComplete"]) \in Seq(Functors)
  <2>1. [op |-> "writeComplete"] \in Functors BY DEF Functors
  <2>. QED BY <2>1
<1>5. outputBuffer_ \o SubSeq(Bytes(m), n + 1, Size) \in Seq(Byte) BY <1>2 DEF TypeOK
<1>6. pending' \in Seq(Functors) /\ outputBuffer_' \in Seq(Byte)
  BY <1>1, <1>4, <1>5 DEF Sent, TypeOK
<1>. QED BY <1>1, <1>3, <1>6 DEF TypeOK, Sent, channelVars

-----------------------------------------------------------------------------
\* The functors of the loop keep the types.
LEMMA FunctorTypes == TypeInv /\ RunFunctor => TypeInv'
<1>. SUFFICES ASSUME TypeInv, RunFunctor PROVE TypeInv'
  OBVIOUS
<1>1. /\ Head(pending) \in Functors /\ Tail(pending) \in Seq(Functors)
      /\ TypeOK /\ MessageInv
  BY PendingTail DEF RunFunctor, TypeInv
<1>. USE DEF TypeInv, TypeOK, MessageInv, channelVars, threadVars, peerVars
<1>2. CASE Head(pending).op = "established" /\ ConnectEstablished
  BY <1>1, <1>2 DEF ConnectEstablished
<1>3. CASE Head(pending).op = "destroyed" /\ ConnectDestroyed
  <2>1. CASE state_ \in {"kConnected", "kDisconnecting"}
    <3>1. /\ state_' = "kDisconnected" /\ events_' = {} /\ polled' = FALSE /\ removed' = TRUE
          /\ UNCHANGED aborted
      BY <1>3, <2>1 DEF ConnectDestroyed, DisableAll
    <3>2. polled' \in BOOLEAN /\ removed' \in BOOLEAN BY <3>1
    <3>. QED BY <1>1, <1>3, <3>1, <3>2 DEF ConnectDestroyed
  <2>2. CASE state_ \notin {"kConnected", "kDisconnecting"}
    <3>1. aborted' = TRUE /\ UNCHANGED <<state_, events_, polled, removed>>
      BY <1>3, <2>2 DEF ConnectDestroyed
    <3>. QED BY <1>1, <1>3, <3>1 DEF ConnectDestroyed
  <2>. QED BY <2>1, <2>2
<1>4. CASE /\ Head(pending).op = "send"
           /\ SendInLoop(Head(pending).message, Tail(pending))
           /\ UNCHANGED <<state_, loopPc, todo, threadVars, fin, peerVars, closes, destroys>>
  <2>1. Head(pending).message \in Messages BY <1>1, <1>4 DEF Functors
  <2>. QED BY <1>1, <1>4, <2>1, SendInLoopTypes
<1>5. CASE /\ Head(pending).op = "shutdown"
           /\ ShutdownInLoop
           /\ pending' = Tail(pending)
           /\ UNCHANGED <<state_, channelVars, outputBuffer_, loopPc, todo, threadVars, wire,
                          peerVars, accepted, closes, destroys, aborted>>
  BY <1>1, <1>5 DEF ShutdownInLoop
<1>6. CASE /\ Head(pending).op = "writeComplete"
           /\ pending' = Tail(pending)
           /\ loopPc' = "user"
           /\ UNCHANGED <<state_, channelVars, outputBuffer_, todo, threadVars, wire, fin,
                          peerVars, accepted, closes, destroys, aborted>>
  BY <1>1, <1>6
<1>. QED BY <1>2, <1>3, <1>4, <1>5, <1>6 DEF RunFunctor

\* What handleWrite() does when POLLOUT is still asked for and write(2) takes
\* n bytes
LEMMA WriteFacts ==
    ASSUME TypeOK, NEW n \in 1..Len(outputBuffer_)
    PROVE  /\ SubSeq(outputBuffer_, 1, n) \in Seq(Byte) /\ Retrieve(n) \in Seq(Byte)
           /\ SubSeq(outputBuffer_, 1, n) \o Retrieve(n) = outputBuffer_
<1>1. outputBuffer_ \in Seq(Byte) BY DEF TypeOK
<1>. QED BY <1>1 DEF Retrieve

\* Functors other than "send" have no argument.
LEMMA FunctorsByName ==
    /\ [op |-> "writeComplete"] \in Functors /\ [op |-> "shutdown"] \in Functors
    /\ [op |-> "destroyed"] \in Functors /\ [op |-> "established"] \in Functors
    /\ \A m \in Messages : [op |-> "send", message |-> m] \in Functors
  BY DEF Functors

\* handleClose() keeps the types of what it changes.
LEMMA HandleCloseTypes ==
    ASSUME TypeOK, HandleClose
    PROVE  /\ events_' \subseteq {"read", "write"} /\ polled' \in BOOLEAN
           /\ removed' \in BOOLEAN /\ closes' \in Nat /\ aborted' \in BOOLEAN
<1>1. /\ events_ \subseteq {"read", "write"} /\ polled \in BOOLEAN
      /\ removed \in BOOLEAN /\ closes \in Nat /\ aborted \in BOOLEAN
  BY DEF TypeOK
<1>2. CASE state_ \in {"kConnected", "kDisconnecting"}
  <2>1. events_' = {} /\ polled' = FALSE /\ closes' = closes + 1 /\ UNCHANGED <<removed, aborted>>
    BY <1>2 DEF HandleClose, DisableAll
  <2>2. polled' \in BOOLEAN BY <2>1
  <2>. QED BY <1>1, <2>1, <2>2
<1>3. CASE state_ \notin {"kConnected", "kDisconnecting"}
  <2>1. aborted' = TRUE /\ UNCHANGED <<events_, polled, removed, closes>>
    BY <1>3 DEF HandleClose, channelVars
  <2>. QED BY <1>1, <2>1
<1>. QED BY <1>2, <1>3

\* The callbacks of Channel::handleEvent() keep the types.
LEMMA EventTypes ==
    TypeInv /\ (CloseEvent \/ HandleRead \/ HandleWrite \/ EventDone \/ UserReturn \/ Poll)
        => TypeInv'
<1>. SUFFICES ASSUME TypeInv,
                     CloseEvent \/ HandleRead \/ HandleWrite \/ EventDone \/ UserReturn \/ Poll
              PROVE  TypeInv'
  OBVIOUS
<1>. USE DEF TypeInv, TypeOK, MessageInv, channelVars, threadVars, peerVars
<1>1. CASE CloseEvent BY <1>1, HandleCloseTypes DEF CloseEvent
<1>2. CASE HandleRead BY <1>2, HandleCloseTypes DEF HandleRead
<1>3. CASE HandleWrite
  <2>1. Append(pending, [op |-> "writeComplete"]) \in Seq(Functors) BY FunctorsByName
  <2>2. ASSUME NEW n \in 1..Len(outputBuffer_)
        PROVE wire \o SubSeq(outputBuffer_, 1, n) \in Seq(Byte) /\ Retrieve(n) \in Seq(Byte)
    <3>1. SubSeq(outputBuffer_, 1, n) \in Seq(Byte) /\ Retrieve(n) \in Seq(Byte)
      BY WriteFacts
    <3>. QED BY <3>1
  <2>. QED BY <1>3, <2>1, <2>2 DEF HandleWrite, Flushed
<1>4. CASE EventDone BY <1>4 DEF EventDone
<1>5. CASE UserReturn BY <1>5 DEF UserReturn
<1>6. CASE Poll
  <2>1. PICK callbacks \in SUBSET {"close", "read", "write"} : PollReturn(callbacks)
    BY <1>6 DEF Poll
  <2>. QED BY <2>1 DEF PollReturn
<1>. QED BY <1>1, <1>2, <1>3, <1>4, <1>5, <1>6

\* Calls of the user, the owner and the peer keep the types.
LEMMA CallTypes ==
    TypeInv /\ (UserStep \/ (\E t \in Threads : ThreadStep(t))
                  \/ RemoveConnection \/ PeerClose \/ PeerReset) => TypeInv'
<1>. SUFFICES ASSUME TypeInv,
                     UserStep \/ (\E t \in Threads : ThreadStep(t))
                        \/ RemoveConnection \/ PeerClose \/ PeerReset
              PROVE  TypeInv'
  OBVIOUS
<1>. USE FunctorsByName DEF TypeInv, TypeOK, MessageInv, channelVars, threadVars, peerVars
<1>1. ASSUME NEW m \in Messages, SendHere(m) PROVE TypeInv'
  BY <1>1, SendInLoopTypes DEF SendHere
<1>2. CASE ShutdownHere BY <1>2 DEF ShutdownHere, ShutdownInLoop
<1>3. ASSUME NEW t \in Threads, SendQueue(t) PROVE TypeInv'
  <2>1. message[t] \in Messages BY <1>3 DEF SendQueue
  <2>2. Append(pending, [op |-> "send", message |-> message[t]]) \in Seq(Functors) BY <2>1
  <2>. QED BY <1>3, <2>2 DEF SendQueue
<1>4. ASSUME NEW t \in Threads, ShutdownSetState(t) PROVE TypeInv'
  BY <1>4 DEF ShutdownSetState
<1>5. ASSUME NEW t \in Threads, ShutdownQueue(t) PROVE TypeInv'
  BY <1>5 DEF ShutdownQueue
<1>6. ASSUME NEW t \in Threads, Shutdown(t) PROVE TypeInv'
  BY <1>6 DEF Shutdown
<1>7. ASSUME NEW t \in Threads, NEW m \in Messages, Send(t, m) PROVE TypeInv'
  BY <1>7 DEF Send
<1>8. CASE RemoveConnection BY <1>8 DEF RemoveConnection
<1>9. CASE PeerClose BY <1>9 DEF PeerClose
<1>10. CASE PeerReset BY <1>10 DEF PeerReset
<1>. QED
  BY <1>1, <1>2, <1>3, <1>4, <1>5, <1>6, <1>7, <1>8, <1>9, <1>10
     DEF UserStep, ThreadStep, CallStep

\* Every variable keeps its type.
LEMMA TypeInductive == TypeInv /\ [Next]_vars => TypeInv'
<1>1. TypeInv /\ UNCHANGED vars => TypeInv'
  BY DEF TypeInv, TypeOK, MessageInv, vars, channelVars, threadVars, peerVars
<1>. QED BY <1>1, FunctorTypes, EventTypes, CallTypes DEF Next, LoopStep

\* The initial values have their types.
LEMMA TypeInit == Init => TypeInv
<1>. SUFFICES ASSUME Init PROVE TypeInv
  OBVIOUS
<1>1. << >> \in Seq(Byte) /\ << [op |-> "established"] >> \in Seq(Functors)
  BY FunctorsByName
<1>2. polled \in BOOLEAN /\ removed \in BOOLEAN /\ fin \in BOOLEAN /\ peerFin \in BOOLEAN
      /\ aborted \in BOOLEAN
  BY DEF Init
<1>. QED BY <1>1, <1>2 DEF Init, TypeInv, TypeOK, MessageInv

-----------------------------------------------------------------------------
\* The functors queued by send(), shutdown() and the loop are not the owner's.
LEMMA AppendOther ==
    ASSUME NEW q \in Seq(Functors), NEW f \in Functors, f.op # "destroyed"
    PROVE  /\ AtMostOneDestroyed(q) => AtMostOneDestroyed(Append(q, f))
           /\ NoneDestroyed(q) => NoneDestroyed(Append(q, f))
  BY DEF AtMostOneDestroyed, NoneDestroyed

\* The owner queues connectDestroyed() behind functors that are not.
LEMMA AppendDestroyed ==
    ASSUME NEW q \in Seq(Functors), NoneDestroyed(q)
    PROVE  AtMostOneDestroyed(Append(q, [op |-> "destroyed"]))
<1>1. [op |-> "destroyed"] \in Functors BY FunctorsByName
<1>. QED BY <1>1 DEF AtMostOneDestroyed, NoneDestroyed

\* A functor is taken from the queue to be run.
LEMMA TailDestroyed ==
    ASSUME NEW q \in Seq(Functors), q # << >>, AtMostOneDestroyed(q)
    PROVE  /\ AtMostOneDestroyed(Tail(q))
           /\ NoneDestroyed(q) => NoneDestroyed(Tail(q))
           /\ Head(q).op = "destroyed" => NoneDestroyed(Tail(q)) /\ ~NoneDestroyed(q)
<1>1. /\ Len(q) \in Nat \ {0} /\ DOMAIN q = 1..Len(q) /\ Head(q) = q[1]
      /\ DOMAIN Tail(q) = 1..(Len(q) - 1)
      /\ \A i \in 1..(Len(q) - 1) : Tail(q)[i] = q[i + 1]
  OBVIOUS
<1>. QED BY <1>1 DEF AtMostOneDestroyed, NoneDestroyed

\* Concatenation of byte sequences is associative.
LEMMA BytesAssociative ==
    ASSUME NEW s \in Seq(Byte), NEW t \in Seq(Byte), NEW u \in Seq(Byte)
    PROVE  (s \o t) \o u = s \o (t \o u)
  OBVIOUS

\* A sequence is its first n elements and the rest.
LEMMA SplitAt ==
    ASSUME NEW s \in Seq(Byte), NEW n \in 0..Len(s)
    PROVE  SubSeq(s, 1, n) \o SubSeq(s, n + 1, Len(s)) = s
<1>1. Len(s) \in Nat /\ 1 \in 1..(Len(s) + 1) /\ n \in 0..Len(s) /\ Len(s) \in n..Len(s)
  OBVIOUS
<1>2. SubSeq(s, 1, n) \o SubSeq(s, n + 1, Len(s)) = SubSeq(s, 1, Len(s))
  BY <1>1, ConcatAdjacentSubSeq, 1 - 1 = 0
<1>3. SubSeq(s, 1, Len(s)) = s BY SubSeqFull
<1>. QED BY <1>2, <1>3

\* Nothing concatenated leaves a sequence as it is.
LEMMA ConcatEmpty ==
    ASSUME NEW s \in Seq(Byte)
    PROVE  s \o << >> = s /\ << >> \o s = s
  OBVIOUS

\* Writing directly, buffering the rest, or both keep the stream: whatever
\* part n of a message goes to the socket, only with an empty buffer.
LEMMA SplitKeepsStream ==
    ASSUME NEW w \in Seq(Byte), NEW b \in Seq(Byte), NEW m \in Messages, NEW n \in 0..Size,
           n > 0 => b = << >>
    PROVE  /\ (w \o b) \o Bytes(m)
                = (w \o SubSeq(Bytes(m), 1, n)) \o (b \o SubSeq(Bytes(m), n + 1, Size))
           /\ n = Size => b = << >> /\ SubSeq(Bytes(m), n + 1, Size) = << >>
<1>. DEFINE x == Bytes(m)
            y == SubSeq(Bytes(m), 1, n)
            z == SubSeq(Bytes(m), n + 1, Size)
<1>1. Size \in Nat \ {0} BY TcpAssumption
<1>2. x \in Seq(Byte) /\ y \in Seq(Byte) /\ z \in Seq(Byte) /\ Len(x) = Size
  BY BytesType
<1>3. y \o z = x BY <1>2, SplitAt
<1>4. n = Size => b = << >> /\ z = << >> BY <1>1, <1>2
<1>5. n = 0 => y = << >> BY <1>1, <1>2
<1>. HIDE DEF x, y, z
<1>6. (w \o b) \o x = (w \o y) \o (b \o z)
  <2>1. CASE b = << >>
    <3>1. w \o b = w /\ b \o z = z BY <2>1, <1>2, ConcatEmpty
    <3>2. (w \o y) \o z = w \o (y \o z) BY <1>2, BytesAssociative
    <3>. QED BY <3>1, <3>2, <1>3
  <2>2. CASE n = 0
    <3>1. y = << >> /\ z = x BY <2>2, <1>2, <1>3, <1>5, ConcatEmpty
    <3>2. (w \o y) \o (b \o z) = w \o (b \o x)
      BY <3>1, <1>2, ConcatEmpty
    <3>3. (w \o b) \o x = w \o (b \o x)
      BY <1>2, BytesAssociative
    <3>. QED BY <3>2, <3>3
  <2>3. n = 0 \/ n > 0 BY <1>1
  <2>. QED BY <2>1, <2>2, <2>3
<1>. QED BY <1>4, <1>6 DEF x, y, z

\* handleWrite() moves bytes from the front of the buffer to the wire.
LEMMA MoveKeepsStream ==
    ASSUME TypeOK, NEW n \in 1..Len(outputBuffer_)
    PROVE  wire \o outputBuffer_ = (wire \o SubSeq(outputBuffer_, 1, n)) \o Retrieve(n)
<1>1. /\ SubSeq(outputBuffer_, 1, n) \in Seq(Byte) /\ Retrieve(n) \in Seq(Byte)
      /\ SubSeq(outputBuffer_, 1, n) \o Retrieve(n) = outputBuffer_
  BY WriteFacts
<1>2. wire \in Seq(Byte) BY DEF TypeOK
<1>. DEFINE y == SubSeq(outputBuffer_, 1, n)
            z == Retrieve(n)
<1>. HIDE DEF y, z
<1>3. y \in Seq(Byte) /\ z \in Seq(Byte) /\ y \o z = outputBuffer_ BY <1>1 DEF y, z
<1>4. (wire \o y) \o z = wire \o (y \o z) BY <1>2, <1>3, BytesAssociative
<1>5. wire \o outputBuffer_ = (wire \o y) \o z BY <1>3, <1>4
<1>. QED BY <1>5 DEF y, z

-----------------------------------------------------------------------------
\* sendInLoop(), wherever it is called from, keeps the invariant.
LEMMA SendKeeps ==
    ASSUME IndInv, ~aborted, state_ # "kConnecting",
           NEW m \in Messages, NEW q \in Seq(Functors), SendInLoop(m, q),
           AtMostOneDestroyed(q), NoneDestroyed(pending) => NoneDestroyed(q),
           UNCHANGED <<state_, loopPc, todo, fin, peerVars, closes, destroys>>
    PROVE  SafetyInv'
<1>1. PICK n \in 0..Size : Sent(m, q, n) BY SendFacts
<1>2. /\ outputBuffer_ \in Seq(Byte) /\ wire \in Seq(Byte) /\ accepted \in Seq(Byte)
      /\ Size \in Nat \ {0}
  BY TcpAssumption DEF IndInv, TypeInv, TypeOK
<1>3. StartInv' BY DEF StartInv
<1>4. CloseInv'
  BY <1>1 DEF IndInv, SafetyInv, CloseInv, Sent, channelVars
<1>5. DestroyedInv'
  <2>1. [op |-> "writeComplete"] \in Functors /\ [op |-> "writeComplete"].op # "destroyed"
    BY FunctorsByName
  <2>2. pending' = q \/ pending' = Append(q, [op |-> "writeComplete"]) BY <1>1 DEF Sent
  <2>3. AtMostOneDestroyed(pending') /\ (NoneDestroyed(q) => NoneDestroyed(pending'))
    BY <2>1, <2>2, AppendOther
  <2>. QED BY <2>3 DEF IndInv, SafetyInv, DestroyedInv, AtMostOneDestroyed, NoneDestroyed
<1>6. StreamIntact'
  <2>1. accepted = wire \o outputBuffer_ BY DEF IndInv, SafetyInv, StreamIntact
  <2>2. /\ (wire \o outputBuffer_) \o Bytes(m)
              = (wire \o SubSeq(Bytes(m), 1, n))
                    \o (outputBuffer_ \o SubSeq(Bytes(m), n + 1, Size))
        /\ n = Size => outputBuffer_ = << >> /\ SubSeq(Bytes(m), n + 1, Size) = << >>
    BY <1>1, <1>2, SplitKeepsStream DEF Sent
  <2>3. outputBuffer_' = outputBuffer_ \o SubSeq(Bytes(m), n + 1, Size)
    <3>1. CASE n = Size
      <4>1. outputBuffer_' = << >> /\ outputBuffer_ = << >>
        BY <1>1, <1>2, <2>2, <3>1 DEF Sent
      <4>2. << >> \o << >> = << >> OBVIOUS
      <4>. QED BY <2>2, <3>1, <4>1, <4>2
    <3>2. CASE n # Size BY <1>1, <1>2, <3>2 DEF Sent
    <3>. QED BY <3>1, <3>2
  <2>. QED BY <1>1, <2>1, <2>2, <2>3 DEF Sent, StreamIntact
<1>7. n < Size => outputBuffer_ \o SubSeq(Bytes(m), n + 1, Size) # << >>
  <2>1. SubSeq(Bytes(m), n + 1, Size) \in Seq(Byte) BY BytesType
  <2>2. n < Size => SubSeq(Bytes(m), n + 1, Size) # << >>
    <3>1. Bytes(m) \in Seq(Byte) /\ Len(Bytes(m)) = Size BY BytesType
    <3>. QED BY <1>2, <3>1
  <2>. QED BY <1>2, <2>1, <2>2, ConcatEqualIffEmpty
<1>8. \/ UNCHANGED <<outputBuffer_, events_, polled, removed, aborted>>
      \/ /\ outputBuffer_' # << >>
         /\ \/ IsWriting /\ UNCHANGED <<events_, polled, removed, aborted>>
            \/ ~IsWriting /\ removed /\ UNCHANGED <<events_, polled, removed>>
            \/ /\ ~removed /\ events_' = events_ \cup {"write"}
               /\ UNCHANGED <<polled, removed, aborted>>
  BY <1>1, <1>7 DEF Sent, channelVars
<1>9. WriteInv'
  BY <1>8 DEF IndInv, SafetyInv, WriteInv, IsWriting
<1>10. AbortExplained'
  <2>1. CASE UNCHANGED aborted BY <2>1 DEF AbortExplained
  <2>2. CASE outputBuffer_' # << >> /\ removed /\ UNCHANGED removed
    BY <2>2 DEF AbortExplained
  <2>. QED BY <1>8, <2>1, <2>2
<1>. QED BY <1>3, <1>4, <1>5, <1>6, <1>9, <1>10 DEF SafetyInv

\* Before connectEstablished() there is nothing else to run.
LEMMA StartFunctor ==
    ASSUME IndInv, state_ = "kConnecting"
    PROVE  Head(pending).op = "established" /\ Tail(pending) = << >>
<1>1. pending = << [op |-> "established"] >> BY DEF IndInv, SafetyInv, StartInv
<1>2. Head(pending) = [op |-> "established"] /\ Tail(pending) = << >> BY <1>1
<1>. QED BY <1>2

\* The functors of the loop keep the invariant.
LEMMA FunctorKeeps == IndInv /\ RunFunctor => SafetyInv'
<1>. SUFFICES ASSUME IndInv, RunFunctor PROVE SafetyInv'
  OBVIOUS
<1>1. /\ Head(pending) \in Functors /\ Tail(pending) \in Seq(Functors)
      /\ pending \in Seq(Functors) /\ pending # << >> /\ ~aborted /\ TypeOK
  BY PendingTail DEF RunFunctor, IndInv, TypeInv, TypeOK
<1>2. /\ AtMostOneDestroyed(Tail(pending))
      /\ NoneDestroyed(pending) => NoneDestroyed(Tail(pending))
      /\ Head(pending).op = "destroyed" => NoneDestroyed(Tail(pending)) /\ ~NoneDestroyed(pending)
  BY <1>1, TailDestroyed DEF IndInv, SafetyInv, DestroyedInv
<1>3. pending' = Tail(pending) /\ UNCHANGED <<closes, destroys>> => DestroyedInv'
  BY <1>2 DEF IndInv, SafetyInv, DestroyedInv, AtMostOneDestroyed, NoneDestroyed
<1>4. CASE Head(pending).op = "established" /\ ConnectEstablished
  <2>1. /\ outputBuffer_ = << >> /\ events_ = {} /\ closes = 0 /\ todo = {}
    BY <1>4 DEF ConnectEstablished, IndInv, SafetyInv, StartInv
  <2>2. /\ state_' = "kConnected" /\ events_' = {"read"} /\ polled' = TRUE
        /\ loopPc' = "user" /\ pending' = Tail(pending)
        /\ UNCHANGED <<removed, outputBuffer_, todo, wire, accepted, closes, destroys, aborted>>
    BY <1>4, <2>1 DEF ConnectEstablished
  <2>3. ~removed
    BY <1>4 DEF ConnectEstablished, IndInv, SafetyInv, StartInv
  <2>4. StartInv' /\ StreamIntact' /\ AbortExplained'
    BY <1>1, <2>2 DEF StartInv, StreamIntact, AbortExplained, IndInv, SafetyInv
  <2>5. WriteInv'
    BY <2>1, <2>2, <2>3 DEF WriteInv, IsWriting
  <2>6. CloseInv'
    BY <2>1, <2>2, <1>1 DEF CloseInv, IndInv, SafetyInv, TypeOK
  <2>. QED BY <1>3, <2>2, <2>4, <2>5, <2>6 DEF SafetyInv
<1>5. CASE Head(pending).op = "destroyed" /\ ConnectDestroyed
  <2>1. destroys < closes /\ closes \in Nat /\ destroys \in Nat
    BY <1>1, <1>2, <1>5 DEF IndInv, SafetyInv, DestroyedInv, TypeOK
  <2>2. closes = 1 /\ destroys = 0 /\ ~polled
    BY <2>1 DEF IndInv, SafetyInv, CloseInv
  <2>3. state_ \in {"kConnected", "kDisconnecting"}
    BY <1>1, <2>2, <1>5, StartFunctor DEF IndInv, SafetyInv, CloseInv, TypeOK
  <2>4. /\ state_' = "kDisconnected" /\ events_' = {} /\ polled' = FALSE /\ removed' = TRUE
        /\ destroys' = 1 /\ pending' = Tail(pending)
        /\ UNCHANGED <<outputBuffer_, loopPc, todo, wire, fin, accepted, closes, aborted>>
    BY <1>5, <2>2, <2>3 DEF ConnectDestroyed, DisableAll
  <2>5. StartInv' /\ StreamIntact' /\ WriteInv' /\ AbortExplained'
    BY <1>1, <2>4
       DEF IndInv, SafetyInv, StartInv, StreamIntact, WriteInv, AbortExplained, IsWriting
  <2>6. CloseInv'
    BY <2>2, <2>4 DEF IndInv, SafetyInv, CloseInv
  <2>7. DestroyedInv'
    BY <1>2, <1>5, <2>4 DEF DestroyedInv, AtMostOneDestroyed, NoneDestroyed
  <2>. QED BY <2>5, <2>6, <2>7 DEF SafetyInv
<1>6. CASE /\ Head(pending).op = "send"
           /\ SendInLoop(Head(pending).message, Tail(pending))
           /\ UNCHANGED <<state_, loopPc, todo, threadVars, fin, peerVars, closes, destroys>>
  <2>1. Head(pending).message \in Messages BY <1>1, <1>6 DEF Functors
  <2>2. state_ # "kConnecting" BY <1>6, StartFunctor
  <2>. QED BY <1>1, <1>2, <1>6, <2>1, <2>2, SendKeeps
<1>7. CASE /\ Head(pending).op = "shutdown"
           /\ ShutdownInLoop
           /\ pending' = Tail(pending)
           /\ UNCHANGED <<state_, channelVars, outputBuffer_, loopPc, todo, threadVars, wire,
                          peerVars, accepted, closes, destroys, aborted>>
  <2>1. state_ # "kConnecting" BY <1>7, StartFunctor
  <2>. QED BY <1>1, <1>3, <1>7, <2>1
     DEF IndInv, SafetyInv, StartInv, StreamIntact, WriteInv, CloseInv, AbortExplained,
         IsWriting, channelVars
<1>8. CASE /\ Head(pending).op = "writeComplete"
           /\ pending' = Tail(pending)
           /\ loopPc' = "user"
           /\ UNCHANGED <<state_, channelVars, outputBuffer_, todo, threadVars, wire, fin,
                          peerVars, accepted, closes, destroys, aborted>>
  <2>1. state_ # "kConnecting" BY <1>8, StartFunctor
  <2>. QED BY <1>1, <1>3, <1>8, <2>1
     DEF IndInv, SafetyInv, StartInv, StreamIntact, WriteInv, CloseInv, AbortExplained,
         IsWriting, channelVars
<1>. QED BY <1>4, <1>5, <1>6, <1>7, <1>8 DEF RunFunctor

\* handleClose() is called at most once, on a connection that is open: its
\* assertion holds.
LEMMA HandleCloseKeeps ==
    ASSUME IndInv, ~aborted, loopPc = "event", {"close", "read"} \cap todo # {}, HandleClose
    PROVE  /\ state_ # "kConnecting" /\ closes = 0 /\ destroys = 0
           /\ events_' = {} /\ polled' = FALSE /\ closes' = 1
           /\ UNCHANGED <<removed, aborted>>
<1>1. closes \in Nat /\ destroys \in Nat
      /\ state_ \in {"kConnecting", "kConnected", "kDisconnecting", "kDisconnected"}
  BY DEF IndInv, TypeInv, TypeOK
<1>2. closes = 0 /\ destroys = 0
  BY <1>1 DEF IndInv, SafetyInv, CloseInv
<1>3. state_ # "kConnecting" BY DEF IndInv, SafetyInv, StartInv
<1>4. state_ \in {"kConnected", "kDisconnecting"}
  BY <1>1, <1>2, <1>3 DEF IndInv, SafetyInv, CloseInv
<1>. QED BY <1>2, <1>3, <1>4 DEF HandleClose, DisableAll

\* What closes the connection keeps the invariant, if it leaves at most the
\* write callback to be called.
LEMMA ClosingKeeps ==
    ASSUME IndInv, ~aborted, loopPc = "event", {"close", "read"} \cap todo # {}, HandleClose,
           todo' \subseteq {"write"},
           UNCHANGED <<state_, outputBuffer_, pending, loopPc, wire, accepted, destroys>>
    PROVE  SafetyInv'
<1>1. /\ state_ # "kConnecting" /\ closes = 0 /\ destroys = 0
      /\ events_' = {} /\ polled' = FALSE /\ closes' = 1
      /\ UNCHANGED <<removed, aborted>>
  BY HandleCloseKeeps
<1>2. StartInv' /\ StreamIntact' /\ AbortExplained'
  BY <1>1 DEF IndInv, SafetyInv, StartInv, StreamIntact, AbortExplained
<1>3. WriteInv' BY <1>1 DEF WriteInv, IsWriting
<1>4. CloseInv' BY <1>1 DEF IndInv, SafetyInv, CloseInv
<1>5. DestroyedInv'
  BY <1>1 DEF IndInv, SafetyInv, DestroyedInv, AtMostOneDestroyed, NoneDestroyed
<1>. QED BY <1>2, <1>3, <1>4, <1>5 DEF SafetyInv

\* handleWrite() keeps the invariant.
LEMMA WriteKeeps == IndInv /\ HandleWrite => SafetyInv'
<1>. SUFFICES ASSUME IndInv, HandleWrite PROVE SafetyInv'
  OBVIOUS
<1>1. /\ TypeOK /\ ~aborted /\ loopPc = "event" /\ todo = {"write"} /\ todo' = {}
      /\ state_ # "kConnecting" /\ SafetyInv
      /\ UNCHANGED <<state_, loopPc, reset, accepted, closes, destroys>>
  BY DEF HandleWrite, IndInv, TypeInv, SafetyInv, StartInv, peerVars
<1>2. StartInv' BY <1>1 DEF StartInv
<1>3. UNCHANGED polled => CloseInv' BY <1>1 DEF SafetyInv, CloseInv
<1>4. UNCHANGED pending => DestroyedInv'
  BY <1>1 DEF SafetyInv, DestroyedInv, AtMostOneDestroyed, NoneDestroyed
<1>5. CASE ~IsWriting
  <2>1. UNCHANGED <<events_, polled, removed, outputBuffer_, pending, wire, fin, aborted>>
    BY <1>5 DEF HandleWrite, channelVars
  <2>2. StreamIntact' /\ AbortExplained' /\ WriteInv'
    BY <1>1, <2>1 DEF SafetyInv, StreamIntact, AbortExplained, WriteInv, IsWriting
  <2>. QED BY <1>2, <1>3, <1>4, <2>1, <2>2 DEF SafetyInv
<1>6. CASE IsWriting /\ (WriteFails \/ outputBuffer_ = << >>)
  <2>1. UNCHANGED <<events_, polled, removed, outputBuffer_, pending, wire, fin>>
    BY <1>6 DEF HandleWrite, channelVars
  <2>2. StreamIntact' /\ WriteInv'
    BY <1>1, <2>1 DEF SafetyInv, StreamIntact, WriteInv, IsWriting
  <2>3. outputBuffer_ # << >> /\ (fin \/ reset # "no")
    BY <1>1, <1>6 DEF SafetyInv, WriteInv, WriteFails
  <2>4. AbortExplained'
    BY <1>1, <2>1, <2>3 DEF AbortExplained
  <2>. QED BY <1>2, <1>3, <1>4, <2>1, <2>2, <2>4 DEF SafetyInv
<1>7. CASE IsWriting /\ ~(WriteFails \/ outputBuffer_ = << >>)
  <2>1. PICK n \in 1..Len(outputBuffer_) :
           /\ wire' = wire \o SubSeq(outputBuffer_, 1, n)
           /\ outputBuffer_' = Retrieve(n)
           /\ IF outputBuffer_' = << >> THEN Flushed ELSE UNCHANGED <<events_, pending, fin>>
           /\ UNCHANGED <<polled, removed, aborted>>
    BY <1>7 DEF HandleWrite
  <2>2. StreamIntact'
    BY <1>1, <2>1, MoveKeepsStream DEF SafetyInv, StreamIntact
  <2>3. AbortExplained' BY <1>1, <2>1 DEF AbortExplained
  <2>4. WriteInv'
    BY <1>1, <1>7, <2>1 DEF SafetyInv, WriteInv, IsWriting, Flushed
  <2>5. DestroyedInv'
    <3>1. CASE outputBuffer_' = << >>
      <4>1. pending' = Append(pending, [op |-> "writeComplete"]) BY <2>1, <3>1 DEF Flushed
      <4>2. pending \in Seq(Functors) /\ [op |-> "writeComplete"] \in Functors
            /\ [op |-> "writeComplete"].op # "destroyed"
        BY <1>1, FunctorsByName DEF TypeOK
      <4>3. /\ AtMostOneDestroyed(pending) => AtMostOneDestroyed(pending')
            /\ NoneDestroyed(pending) => NoneDestroyed(pending')
        BY <4>1, <4>2, AppendOther
      <4>. QED BY <1>1, <4>3 DEF SafetyInv, DestroyedInv, AtMostOneDestroyed, NoneDestroyed
    <3>2. CASE outputBuffer_' # << >> BY <2>1, <3>2, <1>4
    <3>. QED BY <3>1, <3>2
  <2>. QED BY <1>2, <1>3, <2>1, <2>2, <2>3, <2>4, <2>5 DEF SafetyInv
<1>. QED BY <1>5, <1>6, <1>7

\* The callbacks of Channel::handleEvent() keep the invariant.
LEMMA EventKeeps ==
    IndInv /\ (CloseEvent \/ HandleRead \/ HandleWrite \/ EventDone \/ UserReturn \/ Poll)
        => SafetyInv'
<1>. SUFFICES ASSUME IndInv,
                     CloseEvent \/ HandleRead \/ HandleWrite \/ EventDone \/ UserReturn \/ Poll
              PROVE  SafetyInv'
  OBVIOUS
<1>0. TypeOK /\ SafetyInv BY DEF IndInv, TypeInv
<1>1. CASE CloseEvent
  <2>1. todo' \subseteq {"write"} /\ {"close", "read"} \cap todo # {}
    BY <1>0, <1>1 DEF CloseEvent, SafetyInv, CloseInv, TypeOK
  <2>. QED BY <1>1, <2>1, ClosingKeeps DEF CloseEvent
<1>2. CASE HandleRead
  <2>1. /\ todo' \subseteq {"write"} /\ {"close", "read"} \cap todo # {} /\ "read" \in todo
        /\ ~aborted /\ loopPc = "event" /\ closes = 0
        /\ UNCHANGED <<state_, outputBuffer_, pending, wire, fin, accepted, destroys>>
    BY <1>0, <1>2 DEF HandleRead, SafetyInv, CloseInv, TypeOK
  <2>2. CASE HandleClose /\ UNCHANGED loopPc BY <2>1, <2>2, ClosingKeeps
  <2>3. CASE loopPc' \in {"event", "user"} /\ UNCHANGED <<channelVars, closes, aborted>>
    <3>1. StartInv' /\ StreamIntact' /\ AbortExplained'
      BY <1>0, <2>1, <2>3 DEF SafetyInv, StartInv, StreamIntact, AbortExplained
    <3>2. WriteInv' BY <1>0, <2>1, <2>3 DEF SafetyInv, WriteInv, IsWriting, channelVars
    <3>3. CloseInv' BY <1>0, <2>1, <2>3 DEF SafetyInv, CloseInv, channelVars
    <3>4. DestroyedInv'
      BY <1>0, <2>1, <2>3 DEF SafetyInv, DestroyedInv, AtMostOneDestroyed, NoneDestroyed
    <3>. QED BY <3>1, <3>2, <3>3, <3>4 DEF SafetyInv
  <2>. QED BY <1>2, <2>1, <2>2, <2>3 DEF HandleRead
<1>3. CASE HandleWrite BY <1>3, WriteKeeps
<1>. USE DEF SafetyInv, StartInv, StreamIntact, AbortExplained, WriteInv, IsWriting, CloseInv,
             DestroyedInv, AtMostOneDestroyed, NoneDestroyed, channelVars
<1>4. CASE EventDone BY <1>0, <1>4 DEF EventDone
<1>5. CASE UserReturn BY <1>0, <1>5 DEF UserReturn
<1>6. CASE Poll
  <2>1. PICK callbacks \in SUBSET {"close", "read", "write"} : PollReturn(callbacks)
    BY <1>6 DEF Poll
  <2>2. polled /\ loopPc = "idle" /\ closes = 0 /\ state_ # "kConnecting"
    BY <1>0, <2>1 DEF PollReturn, TypeOK
  <2>. QED BY <1>0, <2>1, <2>2 DEF PollReturn
<1>. QED BY <1>1, <1>2, <1>3, <1>4, <1>5, <1>6

\* What queues a functor that is not connectDestroyed() and touches neither the
\* Channel, the buffer nor the loop keeps the invariant.
LEMMA QueueKeeps ==
    ASSUME IndInv, ~aborted, state_ # "kConnecting", state_' # "kConnecting",
           state_' = "kDisconnected" => state_ = "kDisconnected",
           \/ UNCHANGED pending
           \/ \E f \in Functors : f.op # "destroyed" /\ pending' = Append(pending, f),
           UNCHANGED <<channelVars, outputBuffer_, loopPc, todo, wire, accepted, closes,
                       destroys, aborted>>
    PROVE  SafetyInv'
<1>1. pending \in Seq(Functors) /\ SafetyInv BY DEF IndInv, TypeInv, TypeOK
<1>2. StartInv' /\ StreamIntact' /\ AbortExplained'
  BY <1>1 DEF SafetyInv, StartInv, StreamIntact, AbortExplained
<1>3. WriteInv' BY <1>1 DEF SafetyInv, WriteInv, IsWriting, channelVars
<1>4. CloseInv' BY <1>1 DEF SafetyInv, CloseInv, channelVars
<1>5. DestroyedInv'
  <2>1. /\ AtMostOneDestroyed(pending) => AtMostOneDestroyed(pending')
        /\ NoneDestroyed(pending) => NoneDestroyed(pending')
    BY <1>1, AppendOther
  <2>. QED BY <1>1, <2>1 DEF SafetyInv, DestroyedInv, AtMostOneDestroyed, NoneDestroyed
<1>. QED BY <1>2, <1>3, <1>4, <1>5 DEF SafetyInv

\* Calls of the user on the loop's thread keep the invariant.
LEMMA UserKeeps == IndInv /\ UserStep => SafetyInv'
<1>. SUFFICES ASSUME IndInv, UserStep PROVE SafetyInv'
  OBVIOUS
<1>1. ASSUME NEW m \in Messages, SendHere(m) PROVE SafetyInv'
  <2>1. pending \in Seq(Functors) /\ AtMostOneDestroyed(pending)
    BY DEF IndInv, TypeInv, TypeOK, SafetyInv, DestroyedInv
  <2>2. state_ # "kConnecting" /\ ~aborted /\ SendInLoop(m, pending)
        /\ UNCHANGED <<state_, loopPc, todo, fin, peerVars, closes, destroys>>
    BY <1>1 DEF SendHere
  <2>. QED BY <2>1, <2>2, SendKeeps
<1>2. CASE ShutdownHere BY <1>2, QueueKeeps DEF ShutdownHere
<1>. QED BY <1>1, <1>2 DEF UserStep

\* Calls of other threads keep the invariant: before connectEstablished() they
\* have no effect, afterwards they only queue functors and set state_.
LEMMA ThreadKeeps == IndInv /\ (\E t \in Threads : ThreadStep(t)) => SafetyInv'
<1>. SUFFICES ASSUME IndInv, NEW t \in Threads, ThreadStep(t) PROVE SafetyInv'
  OBVIOUS
<1>1. state_ = "kConnecting" => threadPc[t] = "idle"
  BY DEF IndInv, SafetyInv, StartInv
<1>2. CASE SendQueue(t)
  <2>1. message[t] \in Messages
    BY <1>2 DEF SendQueue, IndInv, TypeInv, MessageInv
  <2>2. /\ [op |-> "send", message |-> message[t]] \in Functors
        /\ [op |-> "send", message |-> message[t]].op # "destroyed"
    BY <2>1, FunctorsByName
  <2>. QED BY <1>1, <1>2, <2>2, QueueKeeps DEF SendQueue
<1>3. CASE ShutdownSetState(t) BY <1>1, <1>3, QueueKeeps DEF ShutdownSetState
<1>4. CASE ShutdownQueue(t)
  <2>1. [op |-> "shutdown"] \in Functors /\ [op |-> "shutdown"].op # "destroyed"
    BY FunctorsByName
  <2>. QED BY <1>1, <1>4, <2>1, QueueKeeps DEF ShutdownQueue
<1>5. CASE Shutdown(t) BY <1>5, QueueKeeps DEF Shutdown
<1>6. ASSUME NEW m \in Messages, Send(t, m) PROVE SafetyInv'
  <2>1. CASE state_ # "kConnecting" BY <1>6, <2>1, QueueKeeps DEF Send
  <2>2. CASE state_ = "kConnecting"
    <3>1. UNCHANGED <<state_, events_, polled, removed, outputBuffer_, pending, loopPc, todo,
                      threadPc, wire, fin, reset, accepted, closes, destroys, aborted>>
      BY <1>6, <2>2 DEF Send, channelVars, peerVars
    <3>. QED
      BY <3>1 DEF IndInv, SafetyInv, StartInv, StreamIntact, AbortExplained, WriteInv,
         IsWriting, CloseInv, DestroyedInv, AtMostOneDestroyed, NoneDestroyed
  <2>. QED BY <2>1, <2>2
<1>. QED BY <1>2, <1>3, <1>4, <1>5, <1>6 DEF ThreadStep, CallStep

\* The owner and the peer keep the invariant.
LEMMA OwnerKeeps == IndInv /\ (RemoveConnection \/ PeerClose \/ PeerReset) => SafetyInv'
<1>. SUFFICES ASSUME IndInv, RemoveConnection \/ PeerClose \/ PeerReset PROVE SafetyInv'
  OBVIOUS
<1>0. TypeOK /\ SafetyInv BY DEF IndInv, TypeInv
<1>1. CASE RemoveConnection
  <2>1. /\ NoneDestroyed(pending) /\ destroys < closes
        /\ pending' = Append(pending, [op |-> "destroyed"])
    BY <1>0, <1>1 DEF RemoveConnection, NoneDestroyed, TypeOK
  <2>2. AtMostOneDestroyed(pending') BY <1>0, <2>1, AppendDestroyed DEF TypeOK
  <2>3. DestroyedInv'
    BY <1>1, <2>1, <2>2 DEF RemoveConnection, DestroyedInv, AtMostOneDestroyed
  <2>4. state_ # "kConnecting"
    BY <1>0, <2>1 DEF SafetyInv, StartInv, TypeOK
  <2>5. StartInv' /\ StreamIntact' /\ AbortExplained'
    BY <1>0, <1>1, <2>4 DEF RemoveConnection, SafetyInv, StartInv, StreamIntact, AbortExplained
  <2>6. WriteInv' /\ CloseInv'
    BY <1>0, <1>1
       DEF RemoveConnection, SafetyInv, WriteInv, IsWriting, CloseInv, channelVars
  <2>. QED BY <2>3, <2>5, <2>6 DEF SafetyInv
<1>2. CASE PeerClose \/ PeerReset
  <2>1. UNCHANGED <<state_, events_, polled, removed, outputBuffer_, pending, loopPc, todo,
                    threadPc, wire, accepted, closes, destroys, aborted>> /\ ~aborted
    BY <1>2 DEF PeerClose, PeerReset, channelVars, threadVars
  <2>2. StartInv' /\ StreamIntact' /\ AbortExplained'
    BY <1>0, <2>1 DEF SafetyInv, StartInv, StreamIntact, AbortExplained
  <2>3. WriteInv' /\ CloseInv' /\ DestroyedInv'
    BY <1>0, <2>1 DEF SafetyInv, WriteInv, IsWriting, CloseInv, DestroyedInv,
       AtMostOneDestroyed, NoneDestroyed
  <2>. QED BY <2>2, <2>3 DEF SafetyInv
<1>. QED BY <1>1, <1>2

\* IndInv is an invariant.
LEMMA Invariance == Spec => []IndInv
<1>1. Init => IndInv
  <2>. SUFFICES ASSUME Init PROVE SafetyInv
    BY TypeInit DEF IndInv
  <2>1. StreamIntact
    <3>1. << >> \o << >> = << >> OBVIOUS
    <3>. QED BY <3>1 DEF Init, StreamIntact
  <2>2. DestroyedInv
    <3>1. pending = << [op |-> "established"] >> BY DEF Init
    <3>2. DOMAIN pending = {1} /\ pending[1] = [op |-> "established"] BY <3>1
    <3>3. pending[1].op = "established" BY <3>2
    <3>. QED BY <3>2, <3>3 DEF DestroyedInv, AtMostOneDestroyed, NoneDestroyed
  <2>. QED
    BY <2>1, <2>2 DEF Init, SafetyInv, StartInv, WriteInv, IsWriting, CloseInv, AbortExplained
<1>2. IndInv /\ [Next]_vars => IndInv'
  <2>1. IndInv /\ UNCHANGED vars => SafetyInv'
    BY DEF IndInv, SafetyInv, StartInv, StreamIntact, AbortExplained, WriteInv, IsWriting,
       CloseInv, DestroyedInv, AtMostOneDestroyed, NoneDestroyed, vars, channelVars,
       threadVars, peerVars
  <2>2. IndInv /\ Next => SafetyInv'
    BY FunctorKeeps, EventKeeps, UserKeeps, ThreadKeeps, OwnerKeeps DEF Next, LoopStep
  <2>. QED BY <2>1, <2>2, TypeInductive DEF IndInv
<1>. QED BY <1>1, <1>2, PTL DEF Spec

\* No byte given to sendInLoop() is lost, duplicated or out of order, however
\* sends of several threads, partial writes and callbacks interleave.
THEOREM TheStreamIsIntact == Spec => []StreamIntact
<1>1. IndInv => StreamIntact BY DEF IndInv, SafetyInv
<1>. QED BY <1>1, Invariance, PTL

\* handleClose() and connectDestroyed() run at most once each.
THEOREM ConnectionClosedOnce == Spec => []ClosedOnce
<1>1. IndInv => ClosedOnce
  BY DEF IndInv, TypeInv, TypeOK, SafetyInv, CloseInv, ClosedOnce
<1>. QED BY <1>1, Invariance, PTL

\* The program is aborted for no other reason than the two of AbortExplained; the
\* assertions of handleClose() and connectDestroyed() hold.
THEOREM AbortsExplained == Spec => []AbortExplained
<1>1. IndInv => AbortExplained BY DEF IndInv, SafetyInv
<1>. QED BY <1>1, Invariance, PTL

\* shutdownInLoop() and handleWrite() close the write side behind the data.
THEOREM FinFollowsData == Spec => FinAfterData
<1>. DEFINE A == ~fin /\ fin' => outputBuffer_' = << >> \/ ~polled
<1>1. IndInv /\ [Next]_vars => [A]_vars
  <2>. SUFFICES ASSUME IndInv, Next, ~fin, fin' PROVE outputBuffer_' = << >> \/ ~polled
    OBVIOUS
  <2>1. outputBuffer_ # << >> /\ polled => IsWriting BY DEF IndInv, SafetyInv, WriteInv
  <2>2. CASE ShutdownInLoop /\ UNCHANGED outputBuffer_ BY <2>1, <2>2 DEF ShutdownInLoop
  <2>3. CASE HandleWrite BY <2>3 DEF HandleWrite
  <2>4. CASE UNCHANGED fin BY <2>4
  <2>5. ASSUME NEW t \in Threads, ThreadStep(t) PROVE UNCHANGED fin
    BY <2>5 DEF ThreadStep, CallStep, SendQueue, ShutdownSetState, ShutdownQueue, Shutdown, Send
  <2>6. CASE RunFunctor
    BY <2>2, <2>4, <2>6 DEF RunFunctor, ConnectEstablished, ConnectDestroyed
  <2>7. CASE UserStep BY <2>2, <2>4, <2>7 DEF UserStep, SendHere, ShutdownHere
  <2>8. CASE Poll BY <2>4, <2>8 DEF Poll, PollReturn
  <2>. QED
    BY <2>3, <2>4, <2>5, <2>6, <2>7, <2>8
       DEF Next, LoopStep, CloseEvent, HandleRead, EventDone, UserReturn, RemoveConnection,
           PeerClose, PeerReset
<1>. QED BY <1>1, Invariance, PTL DEF Spec, FinAfterData

=============================================================================
