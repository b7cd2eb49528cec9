-------------------------- MODULE TcpClientProofs ---------------------------
(***************************************************************************)
(* Proofs about TcpClient with its Connector, for every set of descriptors *)
(* and timers, all delays and every number of calls.                       *)
(***************************************************************************)
EXTENDS TcpClient, SequenceTheorems, TLAPS

Entries == [op : {"start", "cancel", "reset", "callback", "runAfter"},
            timer : TimerIds \cup {0}]

Has(q, op) == \E i \in DOMAIN q : q[i].op = op
Once(q, op) == \A i, j \in DOMAIN q : q[i].op = op /\ q[j].op = op => i = j

TypeOK ==
    /\ connect_ \in BOOLEAN /\ state_ \in {"kDisconnected", "kConnecting", "kConnected"}
    /\ channel_ \in Sockets \cup {NoSocket} /\ registered \in BOOLEAN
    /\ retryDaleyMs_ \in kInitRetryDelayMs..kMaxRetryDelayMs
    /\ timerId_ \in TimerIds \cup {0} /\ timers \subseteq TimerIds
    /\ pending \in Seq(Entries)
    /\ loopPc \in {"idle", "event", "retry", "established", "restart", "start"}
    /\ todo \subseteq {"error", "write"}
    /\ owner \in [Sockets -> {"closed", "connector", "client"}]
    /\ gaveUp \in BOOLEAN
    /\ fault \in {"none", "assertion", "socket", "reference", "destroyed"}
    /\ clientConnect_ \in BOOLEAN /\ retry_ \in BOOLEAN
    /\ connection_ \in Sockets \cup {NoSocket}
    /\ callPc \in {"idle", "connect", "start", "stop", "cancel", "disconnect"}
    /\ asked \in {"nothing", "connect", "disconnect", "stop"}
    /\ calls \in Nat /\ connects \in 0..2
    /\ quiet \in BOOLEAN
    /\ destroyed \in {"no", "quietly", "busy", "elsewhere"}
    /\ closeCallback_ \in BOOLEAN /\ removalTimer \in BOOLEAN

\* A Channel is in the Poller while the Connector is connecting; taken out of it,
\* it waits for the one functor that resets it.  The Connector answers for the
\* descriptor of the first, and hands over that of the second.
ChannelInv ==
    /\ registered <=> state_ = "kConnecting"
    /\ registered => channel_ # NoSocket
    /\ \A s \in Sockets :
          owner[s] = "connector" <=> channel_ = s /\ (registered \/ loopPc = "established")
    /\ Has(pending, "reset") <=> channel_ # NoSocket /\ ~registered
    /\ Once(pending, "reset")

\* The client has no connection while the Connector makes one, hands one over, or
\* starts again; state_ stays kConnected as long as there is one.
ConnectedInv ==
    /\ connection_ # NoSocket => state_ = "kConnected"
    /\ loopPc \in {"established", "restart"} => state_ = "kConnected" /\ connection_ = NoSocket
    /\ loopPc = "established" => channel_ # NoSocket
    /\ loopPc \in {"retry", "start"} => state_ = "kDisconnected"

\* Callbacks are owed inside an event only, which the Connector was waiting for.
TodoInv ==
    /\ todo # {} => loopPc \in {"event", "retry"} /\ state_ # "kConnected"
    /\ "error" \in todo => loopPc = "event" /\ state_ = "kConnecting"

\* A client that was told to stop, or to disconnect what it had, wants nothing, and
\* the Connector neither connects nor is about to.
QuietInv ==
    /\ callPc \in {"stop", "cancel", "disconnect"} => ~clientConnect_
    /\ quiet => /\ ~clientConnect_ /\ callPc \in {"idle", "cancel"}
                /\ loopPc \notin {"established", "restart"}
                /\ connect_ => state_ = "kConnected"

\* Nothing was attempted yet.
Untouched ==
    /\ state_ = "kDisconnected" /\ channel_ = NoSocket /\ timers = {}
    /\ loopPc = "idle"

\* A client that is told to connect once starts the Connector once; from then on
\* there is one reason at a time to start again: a timer, a retry or a restart.
FirstInv ==
    connects <= 1 =>
    /\ connects = 0 \/ callPc \in {"connect", "start"} \/ Has(pending, "start") => Untouched
    /\ connects = 0 \/ callPc \in {"connect", "start"} => ~Has(pending, "start")
    /\ connects = 0 => callPc \notin {"connect", "start"}
    /\ Once(pending, "start")
    /\ timers \subseteq {timerId_}
    /\ timers # {} => state_ = "kDisconnected" /\ loopPc \notin {"retry", "restart", "start"}
    /\ loopPc \in {"restart", "start"} => channel_ = NoSocket

\* A client destroyed between two attempts leaves nothing behind but, maybe, the
\* timer that calls removeConnector().
DestroyedInv ==
    destroyed = "quietly" /\ connects <= 1 /\ Running =>
    /\ loopPc = "idle" /\ pending = << >> /\ timers = {}
    /\ ~registered /\ ~closeCallback_

RunningInv ==
    Running => ChannelInv /\ ConnectedInv /\ TodoInv /\ QuietInv /\ FirstInv

IndInv == TypeOK /\ RunningInv /\ DestroyedInv /\ AssertionsHold /\ SafeDestruction

-----------------------------------------------------------------------------
\* A functor is queued.
LEMMA Queued ==
    ASSUME NEW q \in Seq(Entries), NEW e \in Entries
    PROVE  /\ Append(q, e) \in Seq(Entries)
           /\ \A op : /\ Has(Append(q, e), op) <=> Has(q, op) \/ e.op = op
                      /\ Once(q, op) /\ (e.op = op => ~Has(q, op)) => Once(Append(q, e), op)
<1>. DEFINE p == Append(q, e)
            n == Len(q) + 1
<1>1. /\ Len(q) \in Nat /\ DOMAIN q = 1..Len(q) /\ DOMAIN p = 1..n
      /\ \A i \in 1..Len(q) : p[i] = q[i]
      /\ p[n] = e /\ p \in Seq(Entries)
  OBVIOUS
<1>2. /\ \A i \in 1..n : i \in 1..Len(q) \/ i = n
      /\ 1..Len(q) \subseteq 1..n /\ n \in 1..n /\ n \notin 1..Len(q)
  BY <1>1
<1>3. /\ DOMAIN p = DOMAIN q \cup {n} /\ n \notin DOMAIN q
      /\ \A i \in DOMAIN q : p[i] = q[i]
      /\ p[n] = e
  BY <1>1, <1>2
<1>. HIDE DEF p, n
<1>4. \A op : Has(p, op) <=> Has(q, op) \/ e.op = op BY <1>3 DEF Has
<1>5. \A op : Once(q, op) /\ (e.op = op => ~Has(q, op)) => Once(p, op) BY <1>3 DEF Has, Once
<1>. QED BY <1>1, <1>4, <1>5 DEF p

\* The oldest functor is taken.
LEMMA Taken ==
    ASSUME NEW q \in Seq(Entries), q # << >>
    PROVE  /\ Tail(q) \in Seq(Entries) /\ Head(q) \in Entries
           /\ Has(q, Head(q).op)
           /\ \A op : /\ Has(Tail(q), op) => Has(q, op)
                      /\ Head(q).op # op /\ Has(q, op) => Has(Tail(q), op)
                      /\ Once(q, op) => Once(Tail(q), op)
                      /\ Head(q).op = op /\ Once(q, op) => ~Has(Tail(q), op)
<1>1. /\ Len(q) \in Nat \ {0} /\ DOMAIN q = 1..Len(q) /\ Head(q) = q[1]
      /\ DOMAIN Tail(q) = 1..(Len(q) - 1)
      /\ \A i \in 1..(Len(q) - 1) : Tail(q)[i] = q[i + 1]
      /\ Tail(q) \in Seq(Entries) /\ Head(q) \in Entries
  OBVIOUS
<1>2. /\ 1 \in DOMAIN q
      /\ \A i \in DOMAIN Tail(q) : i + 1 \in DOMAIN q /\ i + 1 # 1
      /\ \A i, j \in DOMAIN Tail(q) : i + 1 = j + 1 => i = j
      /\ \A i \in DOMAIN q : i = 1 \/ (i - 1 \in DOMAIN Tail(q) /\ (i - 1) + 1 = i)
  BY <1>1
<1>3. \A i \in DOMAIN Tail(q) : Tail(q)[i] = q[i + 1] BY <1>1
<1>4. \A op : Has(Tail(q), op) => Has(q, op) BY <1>2, <1>3 DEF Has
<1>5. \A op : Head(q).op # op /\ Has(q, op) => Has(Tail(q), op) BY <1>1, <1>2, <1>3 DEF Has
<1>6. \A op : Once(q, op) => Once(Tail(q), op) BY <1>2, <1>3 DEF Once
<1>7. \A op : Head(q).op = op /\ Once(q, op) => ~Has(Tail(q), op)
  BY <1>1, <1>2, <1>3 DEF Has, Once
<1>8. Has(q, Head(q).op) BY <1>1, <1>2 DEF Has
<1>. QED BY <1>1, <1>4, <1>5, <1>6, <1>7, <1>8

\* Nothing waits in an empty queue.
LEMMA Nothing == \A op : ~Has(<< >>, op) /\ Once(<< >>, op)
  BY DEF Has, Once

-----------------------------------------------------------------------------
(***************************************************************************)
(* What startInLoop() may come to: the end of the program, no connection   *)
(* under way, or one in the Poller.                                        *)
(***************************************************************************)
StartFails ==
    /\ fault' \in {"assertion", "socket"}
    /\ fault' = "assertion" => state_ # "kDisconnected" \/ channel_ # NoSocket
    /\ UNCHANGED <<state_, channel_, registered, owner, loopPc, gaveUp>>

StartWaits ==
    /\ state_ = "kDisconnected"
    /\ loopPc' \in {"event", "retry"} /\ gaveUp' \in BOOLEAN
    /\ UNCHANGED <<state_, channel_, registered, owner, fault>>

StartAttempts ==
    /\ state_ = "kDisconnected" /\ channel_ = NoSocket /\ connect_'
    /\ state_' = "kConnecting" /\ registered' = TRUE /\ loopPc' = "event"
    /\ channel_' \in Sockets /\ owner[channel_'] = "closed"
    /\ owner' = [owner EXCEPT ![channel_'] = "connector"]
    /\ UNCHANGED endVars

LEMMA StartCases ==
    ASSUME TypeOK, NEW answer \in Answers, StartInLoop(answer)
    PROVE  StartFails \/ StartWaits \/ StartAttempts
<1>1. CASE state_ # "kDisconnected" BY <1>1 DEF StartInLoop, Abort, channelVars, StartFails
<1>2. CASE state_ = "kDisconnected" /\ ~connect_'
  BY <1>2 DEF StartInLoop, TypeOK, channelVars, endVars, StartWaits
<1>3. CASE state_ = "kDisconnected" /\ connect_'
  <2>1. PICK s \in Sockets :
           /\ owner[s] = "closed"
           /\ \/ NoDescriptor
              \/ Connecting(s)
              \/ Retry(s) /\ UNCHANGED <<channelVars, endVars>>
              \/ /\ state_' = "kDisconnected" /\ gaveUp' = TRUE /\ loopPc' = "event"
                 /\ UNCHANGED <<channelVars, owner, fault>>
    BY <1>3 DEF StartInLoop, Connect
  <2>2. CASE NoDescriptor BY <2>2 DEF NoDescriptor, channelVars, StartFails
  <2>3. CASE Connecting(s)
    <3>1. CASE channel_ # NoSocket
      BY <2>3, <3>1 DEF Connecting, Abort, channelVars, StartFails
    <3>2. CASE channel_ = NoSocket
      BY <2>1, <2>3, <3>2, <1>3 DEF Connecting, StartAttempts
    <3>. QED BY <3>1, <3>2
  <2>4. CASE Retry(s) /\ UNCHANGED <<channelVars, endVars>>
    <3>1. owner' = owner BY <2>1, <2>4 DEF Retry, TypeOK
    <3>. QED BY <2>4, <3>1, <1>3 DEF Retry, TypeOK, channelVars, endVars, StartWaits
  <2>5. CASE /\ state_' = "kDisconnected" /\ gaveUp' = TRUE /\ loopPc' = "event"
             /\ UNCHANGED <<channelVars, owner, fault>>
    BY <2>5, <1>3 DEF channelVars, StartWaits
  <2>. QED BY <2>1, <2>2, <2>3, <2>4, <2>5
<1>. QED BY <1>1, <1>2, <1>3

\* startInLoop() keeps the invariant where nobody else is about to start the
\* Connector of a client that was told to connect once.
LEMMA StartKeeps ==
    ASSUME IndInv, TypeOK', Running, destroyed = "no", loopPc \in {"idle", "start"},
           StartFails \/ StartWaits \/ StartAttempts,
           UNCHANGED <<todo, connection_, destroyed, timerId_>>,
           Has(pending', "reset") <=> Has(pending, "reset"), Once(pending', "reset"),
           callPc' \in {"stop", "cancel", "disconnect"} => ~clientConnect_',
           quiet' => /\ ~clientConnect_' /\ callPc' \in {"idle", "cancel"}
                     /\ connect_' => state_ = "kConnected",
           connects' <= 1 =>
              /\ state_ = "kDisconnected" /\ channel_ = NoSocket /\ timers' = {}
              /\ connects' # 0 /\ callPc' \notin {"connect", "start"}
              /\ ~Has(pending', "start") /\ Once(pending', "start")
    PROVE  IndInv'
<1>. USE DEF Running
<1>0. ChannelInv /\ ConnectedInv /\ TodoInv BY DEF IndInv, RunningInv
<1>1. AssertionsHold' /\ SafeDestruction' /\ DestroyedInv'
  <2>1. SafeDestruction' /\ DestroyedInv' BY DEF SafeDestruction, DestroyedInv
  <2>2. fault' = "assertion" => connects' > 1
    BY DEF StartFails, StartWaits, StartAttempts, TypeOK, endVars
  <2>. QED BY <2>1, <2>2 DEF AssertionsHold
<1>2. CASE StartFails BY <1>1, <1>2 DEF StartFails, IndInv, RunningInv
<1>3. CASE StartWaits
  <2>1. ChannelInv' BY <1>0, <1>3 DEF StartWaits, ChannelInv
  <2>2. ConnectedInv' /\ TodoInv' BY <1>0, <1>3 DEF StartWaits, ConnectedInv, TodoInv
  <2>3. QuietInv' /\ FirstInv' BY <1>3 DEF StartWaits, QuietInv, FirstInv
  <2>. QED BY <1>1, <2>1, <2>2, <2>3 DEF IndInv, RunningInv
<1>4. CASE StartAttempts
  <2>1. ChannelInv'
    <3>1. ~registered /\ ~Has(pending', "reset") BY <1>0, <1>4 DEF StartAttempts, ChannelInv
    <3>2. channel_' # NoSocket BY <1>4, ConnectorAssumption DEF StartAttempts
    <3>3. \A s \in Sockets : owner'[s] = "connector" <=> s = channel_'
      <4>1. \A s \in Sockets : owner[s] # "connector"
        BY <1>0, <1>4, <3>1, ConnectorAssumption DEF StartAttempts, ChannelInv
      <4>. QED BY <1>4, <4>1 DEF StartAttempts, IndInv, TypeOK
    <3>. QED BY <1>4, <3>1, <3>2, <3>3 DEF StartAttempts, ChannelInv
  <2>2. ConnectedInv' /\ TodoInv' BY <1>0, <1>4 DEF StartAttempts, ConnectedInv, TodoInv
  <2>3. QuietInv' /\ FirstInv' BY <1>4 DEF StartAttempts, QuietInv, FirstInv
  <2>. QED BY <1>1, <2>1, <2>2, <2>3 DEF IndInv, RunningInv
<1>. QED BY <1>2, <1>3, <1>4

LEMMA StartTypes ==
    ASSUME TypeOK, StartFails \/ StartWaits \/ StartAttempts
    PROVE  /\ state_' \in {"kDisconnected", "kConnecting", "kConnected"}
           /\ channel_' \in Sockets \cup {NoSocket} /\ registered' \in BOOLEAN
           /\ loopPc' \in {"idle", "event", "retry", "established", "restart", "start"}
           /\ owner' \in [Sockets -> {"closed", "connector", "client"}]
           /\ gaveUp' \in BOOLEAN
           /\ fault' \in {"none", "assertion", "socket", "reference", "destroyed"}
<1>1. CASE StartFails BY <1>1 DEF StartFails, TypeOK
<1>2. CASE StartWaits BY <1>2 DEF StartWaits, TypeOK
<1>3. CASE StartAttempts
  <2>1. registered' \in BOOLEAN BY <1>3 DEF StartAttempts
  <2>. QED BY <1>3, <2>1 DEF StartAttempts, TypeOK, endVars
<1>. QED BY <1>1, <1>2, <1>3

\* connect() on the loop's thread starts the Connector; a client that was never
\* told so before has a Connector as it was made.
LEMMA ConnectHereKeeps ==
    ASSUME IndInv, NEW answer \in Answers, ConnectHere(answer)
    PROVE  IndInv'
<1>1. /\ TypeOK /\ Running /\ destroyed = "no" /\ loopPc = "idle" /\ callPc = "idle"
      /\ connect_' = TRUE /\ asked' = "connect" /\ calls' = calls + 1
      /\ connects' = (IF connects < 2 THEN connects + 1 ELSE connects)
      /\ clientConnect_' = TRUE /\ quiet' = FALSE
      /\ UNCHANGED <<retryDaleyMs_, timerId_, timers, pending, todo, retry_, connection_,
                     destroyed, closeCallback_, removalTimer, callPc>>
      /\ StartInLoop(answer)
  BY DEF IndInv, ConnectHere, Call, Alive, StartHere, LoopAt, retryVars, lifeVars
<1>2. StartFails \/ StartWaits \/ StartAttempts BY <1>1, StartCases
<1>3. TypeOK'
  <2>1. connect_' \in BOOLEAN /\ clientConnect_' \in BOOLEAN /\ quiet' \in BOOLEAN BY <1>1
  <2>2. connects' \in 0..2 /\ calls' \in Nat BY <1>1 DEF TypeOK
  <2>. QED BY <1>1, <1>2, <2>1, <2>2, StartTypes DEF TypeOK
<1>4. connects' <= 1 => connects = 0 /\ connects' = 1 BY <1>1 DEF TypeOK
<1>5. Once(pending, "reset") BY <1>1 DEF IndInv, RunningInv, ChannelInv
<1>6. connects = 0 => Untouched /\ ~Has(pending, "start") /\ Once(pending, "start")
  BY <1>1 DEF IndInv, RunningInv, FirstInv
<1>. QED BY <1>1, <1>2, <1>3, <1>4, <1>5, <1>6, StartKeeps DEF Untouched

\* The functor of start() keeps the invariant: it is the only one.
LEMMA RunStartKeeps ==
    ASSUME IndInv, NEW answer \in Answers, ConnectorStep(RunStart(answer))
    PROVE  IndInv'
<1>1. /\ TypeOK /\ Running /\ destroyed = "no" /\ loopPc = "idle"
      /\ pending # << >> /\ Head(pending).op = "start" /\ pending' = Tail(pending)
      /\ UNCHANGED <<connect_, retryDaleyMs_, timerId_, timers, todo>>
      /\ UNCHANGED <<clientConnect_, retry_, connection_, callPc, asked, calls, connects, quiet,
                     destroyed, closeCallback_, removalTimer>>
      /\ StartInLoop(answer)
  BY DEF IndInv, ConnectorStep, Alive, RunStart, NextFunctor, LoopAt, retryVars, clientVars,
         flagVars, callVars, lifeVars
<1>2. StartFails \/ StartWaits \/ StartAttempts BY <1>1, StartCases
<1>3. ChannelInv /\ QuietInv /\ FirstInv BY <1>1 DEF IndInv, RunningInv
<1>4. /\ pending' \in Seq(Entries) /\ Has(pending, "start")
      /\ Has(pending', "reset") <=> Has(pending, "reset")
      /\ Once(pending', "reset")
      /\ Once(pending, "start") => Once(pending', "start") /\ ~Has(pending', "start")
  <2>1. pending \in Seq(Entries) BY <1>1 DEF TypeOK
  <2>2. Once(pending, "reset") BY <1>3 DEF ChannelInv
  <2>. QED BY <1>1, <2>1, <2>2, Taken
<1>5. TypeOK'
  <2>. QED BY <1>1, <1>2, <1>4, StartTypes DEF TypeOK
<1>6. connects <= 1 => /\ Untouched /\ connects # 0 /\ callPc \notin {"connect", "start"}
                       /\ Once(pending, "start")
  BY <1>3, <1>4 DEF FirstInv
<1>7. quiet => /\ ~clientConnect_ /\ callPc \in {"idle", "cancel"}
               /\ connect_ => state_ = "kConnected"
  BY <1>3 DEF QuietInv
<1>8. callPc \in {"stop", "cancel", "disconnect"} => ~clientConnect_ BY <1>3 DEF QuietInv
<1>. QED BY <1>1, <1>2, <1>4, <1>5, <1>6, <1>7, <1>8, StartKeeps DEF Untouched

\* The retry timer keeps the invariant: a client that was told to connect once has
\* one, and it expires when the Channel of the attempt before was reset.
LEMMA RetryTimerKeeps ==
    ASSUME IndInv, NEW id \in TimerIds, NEW answer \in Answers,
           ConnectorStep(RetryTimer(id, answer))
    PROVE  IndInv'
<1>1. /\ TypeOK /\ Running /\ destroyed = "no" /\ loopPc = "idle" /\ id \in timers
      /\ Has(pending, "reset") => id # timerId_
      /\ timers' = timers \ {id}
      /\ UNCHANGED <<connect_, retryDaleyMs_, timerId_, pending, todo>>
      /\ UNCHANGED <<clientConnect_, retry_, connection_, callPc, asked, calls, connects, quiet,
                     destroyed, closeCallback_, removalTimer>>
      /\ StartInLoop(answer)
  BY DEF IndInv, ConnectorStep, Alive, RetryTimer, SameIteration, Has, LoopAt, retryVars,
         clientVars, flagVars, callVars, lifeVars
<1>2. StartFails \/ StartWaits \/ StartAttempts BY <1>1, StartCases
<1>3. ChannelInv /\ QuietInv /\ FirstInv BY <1>1 DEF IndInv, RunningInv
<1>4. TypeOK'
  <2>1. timers' \subseteq TimerIds BY <1>1 DEF TypeOK
  <2>. QED BY <1>1, <1>2, <2>1, StartTypes DEF TypeOK
<1>5. Once(pending, "reset") BY <1>3 DEF ChannelInv
<1>6. ASSUME connects <= 1
      PROVE  /\ state_ = "kDisconnected" /\ channel_ = NoSocket /\ timers' = {}
             /\ connects # 0 /\ callPc \notin {"connect", "start"}
             /\ ~Has(pending, "start") /\ Once(pending, "start")
  <2>1. timers \subseteq {timerId_} /\ id = timerId_ BY <1>1, <1>3, <1>6 DEF FirstInv
  <2>2. ~Untouched BY <1>1 DEF Untouched
  <2>3. state_ = "kDisconnected" BY <1>1, <1>3, <1>6 DEF FirstInv
  <2>4. channel_ = NoSocket BY <1>1, <1>3, <2>1, <2>3 DEF ChannelInv
  <2>. QED BY <1>1, <1>3, <1>6, <2>1, <2>2, <2>3, <2>4 DEF FirstInv
<1>7. quiet => /\ ~clientConnect_ /\ callPc \in {"idle", "cancel"}
               /\ connect_ => state_ = "kConnected"
  BY <1>3 DEF QuietInv
<1>8. callPc \in {"stop", "cancel", "disconnect"} => ~clientConnect_ BY <1>3 DEF QuietInv
<1>. QED BY <1>1, <1>2, <1>4, <1>5, <1>6, <1>7, <1>8, StartKeeps

\* restart() keeps the invariant when it comes to startInLoop().
LEMMA RestartInLoopKeeps ==
    ASSUME IndInv, NEW answer \in Answers, ConnectorStep(RestartInLoop(answer))
    PROVE  IndInv'
<1>1. /\ TypeOK /\ Running /\ destroyed = "no" /\ loopPc = "start"
      /\ UNCHANGED <<connect_, retryDaleyMs_, timerId_, timers, pending, todo>>
      /\ UNCHANGED <<clientConnect_, retry_, connection_, callPc, asked, calls, connects, quiet,
                     destroyed, closeCallback_, removalTimer>>
      /\ StartInLoop(answer)
  BY DEF IndInv, ConnectorStep, Alive, RestartInLoop, LoopAt, retryVars, clientVars, flagVars,
         callVars, lifeVars
<1>2. StartFails \/ StartWaits \/ StartAttempts BY <1>1, StartCases
<1>3. ChannelInv /\ ConnectedInv /\ QuietInv /\ FirstInv BY <1>1 DEF IndInv, RunningInv
<1>4. TypeOK' BY <1>1, <1>2, StartTypes DEF TypeOK
<1>5. Once(pending, "reset") BY <1>3 DEF ChannelInv
<1>6. ASSUME connects <= 1
      PROVE  /\ state_ = "kDisconnected" /\ channel_ = NoSocket /\ timers = {}
             /\ connects # 0 /\ callPc \notin {"connect", "start"}
             /\ ~Has(pending, "start") /\ Once(pending, "start")
  <2>1. ~Untouched BY <1>1 DEF Untouched
  <2>. QED BY <1>1, <1>3, <1>6, <2>1 DEF FirstInv, ConnectedInv
<1>7. quiet => /\ ~clientConnect_ /\ callPc \in {"idle", "cancel"}
               /\ connect_ => state_ = "kConnected"
  BY <1>3 DEF QuietInv
<1>8. callPc \in {"stop", "cancel", "disconnect"} => ~clientConnect_ BY <1>3 DEF QuietInv
<1>. QED BY <1>1, <1>2, <1>4, <1>5, <1>6, <1>7, <1>8, StartKeeps

-----------------------------------------------------------------------------
\* The other calls keep the invariant: what they queue is cancel().
LEMMA StopKeeps ==
    ASSUME IndInv, StopClientHere
    PROVE  IndInv'
<1>1. /\ TypeOK /\ RunningInv /\ Running /\ destroyed = "no" /\ loopPc = "idle" /\ callPc = "idle"
      /\ connect_' = FALSE /\ asked' = "stop" /\ calls' = calls + 1 /\ connects' = connects
      /\ clientConnect_' = FALSE /\ quiet' = TRUE /\ timers' = timers \ {timerId_}
      /\ UNCHANGED <<state_, channel_, registered, retryDaleyMs_, timerId_, pending, loopPc, todo,
                     owner, gaveUp, fault, retry_, connection_, destroyed, closeCallback_,
                     removalTimer, callPc>>
  BY DEF IndInv, StopClientHere, Call, Alive, StopHere, LoopAt, channelVars, endVars, lifeVars
<1>2. TypeOK'
  <2>1. calls' \in Nat BY <1>1 DEF TypeOK
  <2>2. connect_' \in BOOLEAN /\ clientConnect_' \in BOOLEAN /\ quiet' \in BOOLEAN BY <1>1
  <2>3. timers' \subseteq TimerIds BY <1>1 DEF TypeOK
  <2>. QED BY <1>1, <2>1, <2>2, <2>3 DEF TypeOK
<1>3. RunningInv'
  <2>1. ChannelInv' /\ ConnectedInv' /\ TodoInv'
    BY <1>1 DEF RunningInv, ChannelInv, ConnectedInv, TodoInv
  <2>2. QuietInv' BY <1>1 DEF QuietInv
  <2>3. FirstInv' BY <1>1 DEF RunningInv, FirstInv, Untouched
  <2>. QED BY <2>1, <2>2, <2>3 DEF RunningInv
<1>4. DestroyedInv' /\ AssertionsHold' /\ SafeDestruction'
  BY <1>1 DEF IndInv, DestroyedInv, AssertionsHold, SafeDestruction, Running
<1>. QED BY <1>2, <1>3, <1>4 DEF IndInv

LEMMA DisconnectKeeps ==
    ASSUME IndInv, DisconnectHere
    PROVE  IndInv'
<1>1. /\ TypeOK /\ RunningInv /\ Running /\ destroyed = "no" /\ loopPc = "idle" /\ callPc = "idle"
      /\ asked' = "disconnect" /\ calls' = calls + 1 /\ connects' = connects
      /\ clientConnect_' = FALSE /\ quiet' = (connection_ # NoSocket)
      /\ UNCHANGED <<connect_, state_, channel_, registered, retryDaleyMs_, timerId_, timers, pending,
                     loopPc, todo, owner, gaveUp, fault>>
      /\ UNCHANGED <<retry_, connection_, destroyed, closeCallback_, removalTimer, callPc>>
  BY DEF IndInv, DisconnectHere, Call, Alive, LoopAt, connectorVars, channelVars, retryVars,
         endVars, lifeVars
<1>2. TypeOK'
  <2>1. calls' \in Nat BY <1>1 DEF TypeOK
  <2>2. clientConnect_' \in BOOLEAN /\ quiet' \in BOOLEAN BY <1>1
  <2>. QED BY <1>1, <2>1, <2>2 DEF TypeOK
<1>3. RunningInv'
  <2>1. ChannelInv' /\ ConnectedInv' /\ TodoInv'
    BY <1>1 DEF RunningInv, ChannelInv, ConnectedInv, TodoInv
  <2>2. QuietInv' BY <1>1 DEF RunningInv, ConnectedInv, QuietInv
  <2>3. FirstInv' BY <1>1 DEF RunningInv, FirstInv, Untouched
  <2>. QED BY <2>1, <2>2, <2>3 DEF RunningInv
<1>4. DestroyedInv' /\ AssertionsHold' /\ SafeDestruction'
  BY <1>1 DEF IndInv, DestroyedInv, AssertionsHold, SafeDestruction, Running
<1>. QED BY <1>2, <1>3, <1>4 DEF IndInv

LEMMA CallElsewhereKeeps ==
    ASSUME IndInv, NEW op \in {"connect", "disconnect", "stop"}, CallElsewhere(op)
    PROVE  IndInv'
<1>1. /\ TypeOK /\ RunningInv /\ Running /\ destroyed = "no" /\ callPc = "idle"
      /\ asked' = op /\ calls' = calls + 1 /\ callPc' = op
      /\ connects' = (IF op = "connect" /\ connects < 2 THEN connects + 1 ELSE connects)
      /\ clientConnect_' = (op = "connect") /\ quiet' = FALSE
      /\ UNCHANGED <<connect_, state_, channel_, registered, retryDaleyMs_, timerId_, timers, pending,
                     loopPc, todo, owner, gaveUp, fault>>
      /\ UNCHANGED <<retry_, connection_, destroyed, closeCallback_, removalTimer>>
  BY DEF IndInv, CallElsewhere, Call, Alive, connectorVars, channelVars, retryVars,
         endVars, lifeVars
<1>2. TypeOK'
  <2>1. calls' \in Nat /\ connects' \in 0..2 BY <1>1 DEF TypeOK
  <2>2. clientConnect_' \in BOOLEAN /\ quiet' \in BOOLEAN BY <1>1
  <2>. QED BY <1>1, <2>1, <2>2 DEF TypeOK
<1>3. RunningInv'
  <2>1. ChannelInv' /\ ConnectedInv' /\ TodoInv'
    BY <1>1 DEF RunningInv, ChannelInv, ConnectedInv, TodoInv
  <2>2. QuietInv' BY <1>1 DEF QuietInv
  <2>3. FirstInv'
    <3>1. connects' = 0 => op # "connect" /\ connects = 0 BY <1>1 DEF TypeOK
    <3>2. op = "connect" /\ connects' <= 1 => connects = 0 BY <1>1 DEF TypeOK
    <3>3. connects' <= 1 => connects <= 1 BY <1>1 DEF TypeOK
    <3>. QED BY <1>1, <3>1, <3>2, <3>3 DEF RunningInv, FirstInv, Untouched
  <2>. QED BY <2>1, <2>2, <2>3 DEF RunningInv
<1>4. DestroyedInv' /\ AssertionsHold' /\ SafeDestruction'
  BY <1>1 DEF IndInv, DestroyedInv, AssertionsHold, SafeDestruction, Running
<1>. QED BY <1>2, <1>3, <1>4 DEF IndInv

\* The assignment to connect_ on another thread, and the lock of disconnect().
LEMMA CallGoesKeeps ==
    ASSUME IndInv, SetConnectorConnect \/ ShutdownConnection
    PROVE  IndInv'
<1>1. /\ TypeOK /\ RunningInv /\ Running /\ destroyed = "no"
      /\ UNCHANGED <<state_, channel_, registered, retryDaleyMs_, timerId_, timers, pending,
                     loopPc, todo, owner, gaveUp, fault>>
      /\ UNCHANGED <<clientConnect_, retry_, connection_, asked, calls, connects, destroyed,
                     closeCallback_, removalTimer>>
  BY DEF IndInv, SetConnectorConnect, ShutdownConnection, Goes, SetConnect, Alive, connectorVars,
         channelVars, retryVars, endVars, lifeVars, flagVars
<1>2. \/ /\ callPc = "connect" /\ callPc' = "start" /\ connect_' = TRUE /\ quiet' = quiet
      \/ /\ callPc = "stop" /\ callPc' = "cancel" /\ connect_' = FALSE
         /\ quiet' = (loopPc \notin {"restart", "established"})
      \/ /\ callPc = "disconnect" /\ callPc' = "idle" /\ connect_' = connect_
         /\ quiet' = (connection_ # NoSocket)
  BY DEF SetConnectorConnect, ShutdownConnection, Goes, SetConnect, connectorVars, ActsOnConnect
<1>3. TypeOK'
  <2>1. connect_' \in BOOLEAN BY <1>1, <1>2 DEF TypeOK
  <2>2. quiet' \in BOOLEAN BY <1>1, <1>2 DEF TypeOK
  <2>3. callPc' \in {"idle", "connect", "start", "stop", "cancel", "disconnect"} BY <1>2
  <2>. QED BY <1>1, <2>1, <2>2, <2>3 DEF TypeOK
<1>4. RunningInv'
  <2>1. ChannelInv' /\ ConnectedInv' /\ TodoInv'
    BY <1>1 DEF RunningInv, ChannelInv, ConnectedInv, TodoInv
  <2>2. QuietInv'
    <3>1. CASE callPc = "connect" BY <1>1, <1>2, <3>1 DEF RunningInv, QuietInv
    <3>2. CASE callPc = "stop"
      <4>1. quiet' => loopPc \notin {"restart", "established"} BY <1>2, <3>2
      <4>. QED BY <1>1, <1>2, <3>2, <4>1 DEF RunningInv, QuietInv
    <3>3. CASE callPc = "disconnect"
      <4>1. quiet' => connection_ # NoSocket BY <1>2, <3>3
      <4>. QED BY <1>1, <1>2, <3>3, <4>1 DEF RunningInv, ConnectedInv, QuietInv
    <3>. QED BY <1>2, <3>1, <3>2, <3>3
  <2>3. FirstInv' BY <1>1, <1>2 DEF RunningInv, FirstInv, Untouched
  <2>. QED BY <2>1, <2>2, <2>3 DEF RunningInv
<1>5. DestroyedInv' /\ AssertionsHold' /\ SafeDestruction'
  BY <1>1 DEF IndInv, DestroyedInv, AssertionsHold, SafeDestruction, Running
<1>. QED BY <1>3, <1>4, <1>5 DEF IndInv

\* What a call on another thread queues at last.
LEMMA QueueCallKeeps ==
    ASSUME IndInv, QueueCall
    PROVE  IndInv'
<1>1. /\ TypeOK /\ RunningInv /\ Running /\ destroyed = "no"
      /\ UNCHANGED <<connect_, state_, channel_, registered, retryDaleyMs_, timerId_, timers,
                     loopPc, todo, owner, gaveUp, fault>>
      /\ UNCHANGED <<clientConnect_, retry_, connection_, asked, calls, connects, quiet, destroyed,
                     closeCallback_, removalTimer>>
      /\ callPc' = "idle"
  BY DEF IndInv, QueueCall, Goes, StartQueue, StopCancel, Queue, Alive,
         channelVars, retryVars, endVars, lifeVars, flagVars
<1>2. PICK e \in Entries :
         /\ pending' = Append(pending, e)
         /\ \/ callPc = "start" /\ e.op = "start"
            \/ callPc = "cancel" /\ e.op = "cancel"
  <2>1. CASE Goes("start", "idle") /\ StartQueue
    <3>1. [op |-> "start", timer |-> 0] \in Entries BY DEF Entries
    <3>. QED BY <2>1, <3>1 DEF Goes, StartQueue, Queue
  <2>2. CASE Goes("cancel", "idle") /\ StopCancel
    <3>1. [op |-> "cancel", timer |-> timerId_] \in Entries BY <1>1 DEF Entries, TypeOK
    <3>. QED BY <2>2, <3>1 DEF Goes, StopCancel, Queue
  <2>. QED BY <2>1, <2>2 DEF QueueCall
<1>3. /\ pending' \in Seq(Entries)
      /\ \A op : /\ Has(pending', op) <=> Has(pending, op) \/ e.op = op
                 /\ Once(pending, op) /\ (e.op = op => ~Has(pending, op)) => Once(pending', op)
  BY <1>1, <1>2, Queued DEF TypeOK
<1>4. TypeOK' BY <1>1, <1>3 DEF TypeOK
<1>5. RunningInv'
  <2>1. ChannelInv' BY <1>1, <1>2, <1>3 DEF RunningInv, ChannelInv
  <2>2. ConnectedInv' /\ TodoInv' /\ QuietInv'
    BY <1>1, <1>2 DEF RunningInv, ConnectedInv, TodoInv, QuietInv
  <2>3. FirstInv' BY <1>1, <1>2, <1>3 DEF RunningInv, FirstInv, Untouched
  <2>. QED BY <2>1, <2>2, <2>3 DEF RunningInv
<1>6. DestroyedInv' /\ AssertionsHold' /\ SafeDestruction'
  BY <1>1 DEF IndInv, DestroyedInv, AssertionsHold, SafeDestruction, Running
<1>. QED BY <1>4, <1>5, <1>6 DEF IndInv

-----------------------------------------------------------------------------
\* The functors cancel() and resetChannel() keep the invariant; cancel() is run
\* after the end of the client too.
LEMMA RunCancelKeeps ==
    ASSUME IndInv, RunCancel, UNCHANGED clientVars
    PROVE  IndInv'
<1>1. /\ TypeOK /\ RunningInv /\ Running /\ loopPc = "idle"
      /\ pending # << >> /\ Head(pending).op = "cancel" /\ pending' = Tail(pending)
      /\ timers' \subseteq timers
      /\ UNCHANGED <<connect_, state_, channel_, registered, retryDaleyMs_, timerId_, loopPc, todo,
                     owner, gaveUp, fault>>
      /\ UNCHANGED <<clientConnect_, retry_, connection_, callPc, asked, calls, connects, quiet,
                     destroyed, closeCallback_, removalTimer>>
  BY DEF IndInv, RunCancel, NextFunctor, LoopAt, channelVars, endVars, clientVars, flagVars,
         callVars, lifeVars
<1>2. /\ pending' \in Seq(Entries)
      /\ \A op \in {"start", "reset"} : /\ Has(pending', op) <=> Has(pending, op)
                                        /\ Once(pending, op) => Once(pending', op)
  BY <1>1, Taken DEF TypeOK
<1>3. TypeOK' BY <1>1, <1>2 DEF TypeOK
<1>4. RunningInv'
  <2>1. ChannelInv' BY <1>1, <1>2 DEF RunningInv, ChannelInv
  <2>2. ConnectedInv' /\ TodoInv' /\ QuietInv'
    BY <1>1 DEF RunningInv, ConnectedInv, TodoInv, QuietInv
  <2>3. FirstInv' BY <1>1, <1>2 DEF RunningInv, FirstInv, Untouched
  <2>. QED BY <2>1, <2>2, <2>3 DEF RunningInv
<1>5. DestroyedInv' /\ AssertionsHold' /\ SafeDestruction'
  BY <1>1 DEF IndInv, DestroyedInv, AssertionsHold, SafeDestruction, Running
<1>. QED BY <1>3, <1>4, <1>5 DEF IndInv

LEMMA ResetChannelKeeps ==
    ASSUME IndInv, ConnectorStep(ResetChannel)
    PROVE  IndInv'
<1>1. /\ TypeOK /\ RunningInv /\ Running /\ destroyed = "no" /\ loopPc = "idle"
      /\ pending # << >> /\ Head(pending).op = "reset" /\ pending' = Tail(pending)
      /\ channel_' = NoSocket
      /\ UNCHANGED <<connect_, state_, registered, retryDaleyMs_, timerId_, timers, loopPc, todo,
                     owner, gaveUp, fault>>
      /\ UNCHANGED <<clientConnect_, retry_, connection_, callPc, asked, calls, connects, quiet,
                     destroyed, closeCallback_, removalTimer>>
  BY DEF IndInv, ConnectorStep, Alive, ResetChannel, NextFunctor, LoopAt, retryVars, endVars,
         clientVars, flagVars, callVars, lifeVars
<1>2. /\ pending' \in Seq(Entries)
      /\ Has(pending, "reset") /\ (Once(pending, "reset") => ~Has(pending', "reset"))
      /\ Has(pending', "start") <=> Has(pending, "start")
      /\ \A op : Once(pending, op) => Once(pending', op)
  BY <1>1, Taken DEF TypeOK
<1>3. TypeOK' BY <1>1, <1>2 DEF TypeOK
<1>4. RunningInv'
  <2>1. ChannelInv'
    <3>1. ~registered /\ \A s \in Sockets : owner[s] # "connector"
      BY <1>1, <1>2 DEF RunningInv, ChannelInv
    <3>2. \A s \in Sockets : s # NoSocket BY ConnectorAssumption
    <3>. QED BY <1>1, <1>2, <3>1, <3>2 DEF RunningInv, ChannelInv
  <2>2. ConnectedInv' /\ TodoInv' /\ QuietInv'
    BY <1>1 DEF RunningInv, ConnectedInv, TodoInv, QuietInv
  <2>3. FirstInv' BY <1>1, <1>2 DEF RunningInv, FirstInv, Untouched
  <2>. QED BY <2>1, <2>2, <2>3 DEF RunningInv
<1>5. DestroyedInv' /\ AssertionsHold' /\ SafeDestruction'
  BY <1>1 DEF IndInv, DestroyedInv, AssertionsHold, SafeDestruction, Running
<1>. QED BY <1>3, <1>4, <1>5 DEF IndInv

\* retry() sets its timer when no other is set, if the client connects once.
LEMMA ScheduleRetryKeeps ==
    ASSUME IndInv, ConnectorStep(ScheduleRetry)
    PROVE  IndInv'
<1>1. /\ TypeOK /\ RunningInv /\ Running /\ destroyed = "no" /\ loopPc = "retry"
      /\ FreshTimers # {} /\ timerId_' = FreshTimer /\ timers' = timers \cup {FreshTimer}
      /\ retryDaleyMs_' = LongerDelay /\ loopPc' = "event"
      /\ UNCHANGED <<connect_, state_, channel_, registered, pending, todo, owner, gaveUp, fault>>
      /\ UNCHANGED <<clientConnect_, retry_, connection_, callPc, asked, calls, connects, quiet,
                     destroyed, closeCallback_, removalTimer>>
  BY DEF IndInv, ConnectorStep, Alive, ScheduleRetry, RunAfter, LoopAt, channelVars, endVars,
         clientVars, flagVars, callVars, lifeVars
<1>2. FreshTimer \in TimerIds BY <1>1 DEF FreshTimer, FreshTimers
<1>3. LongerDelay \in kInitRetryDelayMs..kMaxRetryDelayMs
  BY <1>1, ConnectorAssumption DEF TypeOK, LongerDelay
<1>4. TypeOK' BY <1>1, <1>2, <1>3 DEF TypeOK
<1>5. RunningInv'
  <2>1. ChannelInv' BY <1>1 DEF RunningInv, ChannelInv
  <2>2. ConnectedInv' /\ TodoInv' /\ QuietInv'
    BY <1>1 DEF RunningInv, ConnectedInv, TodoInv, QuietInv
  <2>3. FirstInv' BY <1>1 DEF RunningInv, ConnectedInv, FirstInv, Untouched
  <2>. QED BY <2>1, <2>2, <2>3 DEF RunningInv
<1>6. DestroyedInv' /\ AssertionsHold' /\ SafeDestruction'
  BY <1>1 DEF IndInv, DestroyedInv, AssertionsHold, SafeDestruction, Running
<1>. QED BY <1>4, <1>5, <1>6 DEF IndInv

-----------------------------------------------------------------------------
\* poll(2) reports the Channel, and the last callback of an event was called.
LEMMA PollKeeps ==
    ASSUME IndInv, ConnectorStep(Poll)
    PROVE  IndInv'
<1>1. /\ TypeOK /\ RunningInv /\ Running /\ destroyed = "no" /\ loopPc = "idle" /\ registered
      /\ loopPc' = "event" /\ todo' \subseteq {"error", "write"}
      /\ UNCHANGED <<connect_, state_, channel_, registered, retryDaleyMs_, timerId_, timers,
                     pending, owner, gaveUp, fault>>
      /\ UNCHANGED <<clientConnect_, retry_, connection_, callPc, asked, calls, connects, quiet,
                     destroyed, closeCallback_, removalTimer>>
  BY DEF IndInv, ConnectorStep, Alive, Poll, PollReturn, LoopAt, channelVars, retryVars, endVars,
         clientVars, flagVars, callVars, lifeVars
<1>2. TypeOK' BY <1>1 DEF TypeOK
<1>3. state_ = "kConnecting" BY <1>1 DEF RunningInv, ChannelInv
<1>4. RunningInv'
  <2>1. ChannelInv' BY <1>1 DEF RunningInv, ChannelInv
  <2>2. ConnectedInv' /\ TodoInv' /\ QuietInv'
    BY <1>1, <1>3 DEF RunningInv, ConnectedInv, TodoInv, QuietInv
  <2>3. FirstInv' BY <1>1, <1>3 DEF RunningInv, FirstInv, Untouched
  <2>. QED BY <2>1, <2>2, <2>3 DEF RunningInv
<1>5. DestroyedInv' /\ AssertionsHold' /\ SafeDestruction'
  BY <1>1 DEF IndInv, DestroyedInv, AssertionsHold, SafeDestruction, Running
<1>. QED BY <1>2, <1>4, <1>5 DEF IndInv

LEMMA EventDoneKeeps ==
    ASSUME IndInv, ConnectorStep(EventDone)
    PROVE  IndInv'
<1>1. /\ TypeOK /\ RunningInv /\ Running /\ destroyed = "no" /\ loopPc = "event" /\ todo = {}
      /\ loopPc' = "idle"
      /\ UNCHANGED <<connect_, state_, channel_, registered, retryDaleyMs_, timerId_, timers,
                     pending, todo, owner, gaveUp, fault>>
      /\ UNCHANGED <<clientConnect_, retry_, connection_, callPc, asked, calls, connects, quiet,
                     destroyed, closeCallback_, removalTimer>>
  BY DEF IndInv, ConnectorStep, Alive, EventDone, LoopAt, channelVars, retryVars, endVars,
         clientVars, flagVars, callVars, lifeVars
<1>2. TypeOK' BY <1>1 DEF TypeOK
<1>3. RunningInv'
  <2>1. ChannelInv' BY <1>1 DEF RunningInv, ChannelInv
  <2>2. ConnectedInv' /\ TodoInv' /\ QuietInv'
    BY <1>1 DEF RunningInv, ConnectedInv, TodoInv, QuietInv
  <2>3. FirstInv' BY <1>1 DEF RunningInv, FirstInv, Untouched
  <2>. QED BY <2>1, <2>2, <2>3 DEF RunningInv
<1>4. DestroyedInv' /\ AssertionsHold' /\ SafeDestruction'
  BY <1>1 DEF IndInv, DestroyedInv, AssertionsHold, SafeDestruction, Running
<1>. QED BY <1>2, <1>3, <1>4 DEF IndInv

\* A handler takes the Channel out of the Poller: the descriptor goes back, or to
\* the owner.
LEMMA HandlerKeeps ==
    ASSUME IndInv, TypeOK', Running, destroyed = "no", loopPc = "event", state_ = "kConnecting",
           registered' = FALSE, UNCHANGED <<channel_, fault, timerId_, timers, connect_>>,
           pending' = Append(pending, [op |-> "reset", timer |-> 0]),
           todo' \subseteq {"write"}, UNCHANGED clientVars,
           \/ /\ state_' = "kDisconnected" /\ loopPc' \in {"event", "retry"}
              /\ owner' = [owner EXCEPT ![channel_] = "closed"]
           \/ /\ state_' = "kConnected" /\ loopPc' = "event" /\ todo' = {}
              /\ owner' = [owner EXCEPT ![channel_] = "closed"]
           \/ /\ state_' = "kConnected" /\ loopPc' = "established" /\ todo' = {} /\ connect_
              /\ UNCHANGED owner
    PROVE  IndInv'
<1>1. RunningInv /\ TypeOK /\ Running BY DEF IndInv
<1>2. UNCHANGED <<clientConnect_, retry_, connection_, callPc, asked, calls, connects, quiet,
                  destroyed, closeCallback_, removalTimer>>
  BY DEF clientVars, flagVars, callVars, lifeVars
<1>3. registered /\ channel_ \in Sockets /\ ~Has(pending, "reset")
  BY <1>1 DEF RunningInv, ChannelInv, TypeOK
<1>4. /\ Has(pending', "reset") /\ Once(pending', "reset")
      /\ Has(pending', "start") <=> Has(pending, "start")
      /\ Once(pending, "start") => Once(pending', "start")
  <2>1. [op |-> "reset", timer |-> 0] \in Entries BY DEF Entries
  <2>2. pending \in Seq(Entries) /\ Once(pending, "reset")
    BY <1>1 DEF TypeOK, RunningInv, ChannelInv
  <2>. QED BY <1>3, <2>1, <2>2, Queued
<1>5. ChannelInv'
  <2>1. \A s \in Sockets : owner[s] = "connector" <=> s = channel_
    BY <1>1, <1>3 DEF RunningInv, ChannelInv
  <2>2. \A s \in Sockets : owner'[s] = "connector" <=> s = channel_ /\ loopPc' = "established"
    BY <1>1, <2>1 DEF TypeOK
  <2>3. channel_ # NoSocket BY <1>3, ConnectorAssumption
  <2>. QED BY <1>3, <1>4, <2>2, <2>3 DEF ChannelInv
<1>6. connection_ = NoSocket BY <1>1 DEF RunningInv, ConnectedInv
<1>7. ConnectedInv' BY <1>2, <1>3, <1>6, ConnectorAssumption DEF ConnectedInv
<1>8. TodoInv' BY DEF TodoInv
<1>9. QuietInv' BY <1>1, <1>2 DEF RunningInv, QuietInv
<1>10. FirstInv' BY <1>1, <1>2, <1>4 DEF RunningInv, FirstInv, Untouched
<1>11. DestroyedInv' /\ AssertionsHold' /\ SafeDestruction'
  BY <1>2 DEF IndInv, DestroyedInv, AssertionsHold, SafeDestruction, Running
<1>. QED BY <1>5, <1>7, <1>8, <1>9, <1>10, <1>11 DEF IndInv, RunningInv

\* The callbacks of an event find the state they assert, and keep the invariant.
LEMMA HandleErrorKeeps ==
    ASSUME IndInv, ConnectorStep(HandleError)
    PROVE  IndInv'
<1>1. /\ TypeOK /\ RunningInv /\ Running /\ destroyed = "no" /\ loopPc = "event"
      /\ "error" \in todo
      /\ UNCHANGED <<connect_, clientVars, retryVars>> /\ todo' = todo \ {"error"}
  BY DEF IndInv, ConnectorStep, Alive, HandleError, LoopAt
<1>2. state_ = "kConnecting" BY <1>1 DEF RunningInv, TodoInv
<1>3. RemoveAndResetChannel /\ Retry(channel_) /\ UNCHANGED endVars
  BY <1>2 DEF ConnectorStep, HandleError
<1>4. /\ registered' = FALSE /\ UNCHANGED <<channel_, fault, gaveUp, timerId_, timers, retryDaleyMs_>>
      /\ pending' = Append(pending, [op |-> "reset", timer |-> 0])
      /\ todo' \subseteq {"write"}
      /\ state_' = "kDisconnected" /\ loopPc' \in {"event", "retry"}
      /\ owner' = [owner EXCEPT ![channel_] = "closed"]
  BY <1>1, <1>3 DEF RemoveAndResetChannel, Retry, endVars, retryVars, TypeOK
<1>5. TypeOK'
  <2>1. pending' \in Seq(Entries)
    <3>1. [op |-> "reset", timer |-> 0] \in Entries BY DEF Entries
    <3>. QED BY <1>1, <1>4, <3>1, Queued DEF TypeOK
  <2>2. registered' \in BOOLEAN BY <1>4
  <2>3. owner' \in [Sockets -> {"closed", "connector", "client"}] BY <1>1, <1>4 DEF TypeOK
  <2>. QED BY <1>1, <1>4, <2>1, <2>2, <2>3
          DEF TypeOK, clientVars, flagVars, callVars, lifeVars
<1>. QED BY <1>1, <1>2, <1>4, <1>5, HandlerKeeps

LEMMA HandleWriteFailedKeeps ==
    ASSUME IndInv, ConnectorStep(HandleWriteFailed)
    PROVE  IndInv'
<1>1. /\ TypeOK /\ RunningInv /\ Running /\ destroyed = "no" /\ loopPc = "event"
      /\ todo = {"write"} /\ todo' = {}
      /\ UNCHANGED <<connect_, clientVars, retryVars>>
  BY DEF IndInv, ConnectorStep, Alive, HandleWriteFailed, LoopAt
<1>2. CASE state_ = "kConnecting"
  <2>1. RemoveAndResetChannel /\ Retry(channel_) /\ UNCHANGED endVars
    BY <1>2 DEF ConnectorStep, HandleWriteFailed
  <2>2. /\ registered' = FALSE
        /\ UNCHANGED <<channel_, fault, gaveUp, timerId_, timers, retryDaleyMs_>>
        /\ pending' = Append(pending, [op |-> "reset", timer |-> 0])
        /\ state_' = "kDisconnected" /\ loopPc' \in {"event", "retry"}
        /\ owner' = [owner EXCEPT ![channel_] = "closed"]
    BY <1>1, <2>1 DEF RemoveAndResetChannel, Retry, endVars, retryVars
  <2>3. TypeOK'
    <3>1. pending' \in Seq(Entries)
      <4>1. [op |-> "reset", timer |-> 0] \in Entries BY DEF Entries
      <4>. QED BY <1>1, <2>2, <4>1, Queued DEF TypeOK
    <3>2. registered' \in BOOLEAN BY <2>2
    <3>3. owner' \in [Sockets -> {"closed", "connector", "client"}] BY <1>1, <2>2 DEF TypeOK
    <3>. QED BY <1>1, <2>2, <3>1, <3>2, <3>3
            DEF TypeOK, clientVars, flagVars, callVars, lifeVars
  <2>. QED BY <1>1, <1>2, <2>2, <2>3, HandlerKeeps
<1>3. CASE state_ # "kConnecting"
  <2>1. state_ = "kDisconnected" BY <1>1, <1>3 DEF RunningInv, TodoInv, TypeOK
  <2>2. UNCHANGED <<connect_, state_, channel_, registered, retryDaleyMs_, timerId_, timers,
                    pending, loopPc, owner, gaveUp, fault>>
    BY <1>1, <1>3, <2>1 DEF ConnectorStep, HandleWriteFailed, channelVars, retryVars
  <2>3. UNCHANGED <<clientConnect_, retry_, connection_, callPc, asked, calls, connects, quiet,
                    destroyed, closeCallback_, removalTimer>>
    BY <1>1 DEF clientVars, flagVars, callVars, lifeVars
  <2>4. TypeOK' BY <1>1, <2>2, <2>3 DEF TypeOK
  <2>5. ChannelInv' BY <1>1, <2>2 DEF RunningInv, ChannelInv
  <2>6. ConnectedInv' /\ TodoInv' /\ QuietInv'
    BY <1>1, <2>2, <2>3 DEF RunningInv, ConnectedInv, TodoInv, QuietInv
  <2>7. FirstInv' BY <1>1, <2>2, <2>3 DEF RunningInv, FirstInv, Untouched
  <2>8. DestroyedInv' /\ AssertionsHold' /\ SafeDestruction'
    BY <1>1, <2>2, <2>3 DEF IndInv, DestroyedInv, AssertionsHold, SafeDestruction, Running
  <2>. QED BY <2>4, <2>5, <2>6, <2>7, <2>8 DEF IndInv, RunningInv
<1>. QED BY <1>2, <1>3

LEMMA HandleWriteKeeps ==
    ASSUME IndInv, ConnectorStep(HandleWrite)
    PROVE  IndInv'
<1>1. /\ TypeOK /\ RunningInv /\ Running /\ destroyed = "no" /\ loopPc = "event"
      /\ state_ = "kConnecting" /\ todo' = {} /\ state_' = "kConnected"
      /\ registered' = FALSE
      /\ pending' = Append(pending, [op |-> "reset", timer |-> 0])
      /\ UNCHANGED <<connect_, channel_, fault, gaveUp, timerId_, timers, retryDaleyMs_>>
      /\ UNCHANGED clientVars
  BY DEF IndInv, ConnectorStep, Alive, HandleWrite, LoopAt, RemoveAndResetChannel, retryVars,
         endVars
<1>2. \/ connect_ /\ loopPc' = "established" /\ UNCHANGED owner
      \/ owner' = [owner EXCEPT ![channel_] = "closed"] /\ loopPc' = "event"
  BY <1>1 DEF ConnectorStep, HandleWrite, Connected
<1>3. TypeOK'
  <2>1. pending' \in Seq(Entries)
    <3>1. [op |-> "reset", timer |-> 0] \in Entries BY DEF Entries
    <3>. QED BY <1>1, <3>1, Queued DEF TypeOK
  <2>2. registered' \in BOOLEAN BY <1>1
  <2>3. owner' \in [Sockets -> {"closed", "connector", "client"}] BY <1>1, <1>2 DEF TypeOK
  <2>. QED BY <1>1, <1>2, <2>1, <2>2, <2>3
          DEF TypeOK, clientVars, flagVars, callVars, lifeVars
<1>. QED BY <1>1, <1>2, <1>3, HandlerKeeps

\* newConnectionCallback_ gives the descriptor to the client, which had none.
LEMMA NewConnectionKeeps ==
    ASSUME IndInv, NewConnection
    PROVE  IndInv'
<1>1. /\ TypeOK /\ RunningInv /\ Running /\ destroyed = "no" /\ loopPc = "established"
      /\ owner' = [owner EXCEPT ![channel_] = "client"] /\ loopPc' = "event"
      /\ connection_' = channel_ /\ closeCallback_' = TRUE
      /\ UNCHANGED <<connect_, state_, channel_, registered, retryDaleyMs_, timerId_, timers,
                     pending, todo, gaveUp, fault>>
      /\ UNCHANGED <<clientConnect_, retry_, callPc, asked, calls, connects, quiet, destroyed,
                     removalTimer>>
  BY DEF IndInv, NewConnection, Alive, NewConnectionCallback, LoopAt, channelVars, retryVars,
         endVars, flagVars, callVars
<1>2. TypeOK'
  <2>1. closeCallback_' \in BOOLEAN BY <1>1
  <2>2. owner' \in [Sockets -> {"closed", "connector", "client"}] BY <1>1 DEF TypeOK
  <2>. QED BY <1>1, <2>1, <2>2 DEF TypeOK
<1>3. state_ = "kConnected" /\ ~registered /\ channel_ # NoSocket
  BY <1>1 DEF RunningInv, ConnectedInv, ChannelInv
<1>4. RunningInv'
  <2>1. ChannelInv'
    <3>1. \A s \in Sockets : owner[s] = "connector" <=> s = channel_
      BY <1>1 DEF RunningInv, ChannelInv
    <3>2. \A s \in Sockets : owner'[s] # "connector" BY <1>1, <3>1 DEF TypeOK
    <3>. QED BY <1>1, <1>3, <3>2 DEF RunningInv, ChannelInv
  <2>2. ConnectedInv' /\ TodoInv' /\ QuietInv'
    BY <1>1, <1>3 DEF RunningInv, ConnectedInv, TodoInv, QuietInv
  <2>3. FirstInv' BY <1>1, <1>3 DEF RunningInv, FirstInv, Untouched
  <2>. QED BY <2>1, <2>2, <2>3 DEF RunningInv
<1>5. DestroyedInv' /\ AssertionsHold' /\ SafeDestruction'
  BY <1>1 DEF IndInv, DestroyedInv, AssertionsHold, SafeDestruction, Running
<1>. QED BY <1>2, <1>4, <1>5 DEF IndInv

\* removeConnection() finds the Channel reset, for restart() to use it again.
LEMMA RemoveConnectionKeeps ==
    ASSUME IndInv, RemoveConnection
    PROVE  IndInv'
<1>1. /\ TypeOK /\ RunningInv /\ Running /\ destroyed = "no" /\ loopPc = "idle"
      /\ ~Has(pending, "reset") /\ connection_ # NoSocket
      /\ connection_' = NoSocket /\ closeCallback_' = FALSE
      /\ loopPc' = (IF retry_ /\ clientConnect_ THEN "restart" ELSE "event")
      /\ UNCHANGED <<connect_, state_, channel_, registered, retryDaleyMs_, timerId_, timers,
                     pending, todo, owner, gaveUp, fault>>
      /\ UNCHANGED <<clientConnect_, retry_, callPc, asked, calls, connects, quiet, destroyed,
                     removalTimer>>
  BY DEF IndInv, RemoveConnection, Alive, LoopAt, SameIteration, Has, WantsRestart, channelVars,
         retryVars, endVars, flagVars, callVars
<1>2. TypeOK'
  <2>1. closeCallback_' \in BOOLEAN BY <1>1
  <2>2. loopPc' \in {"event", "restart"} BY <1>1
  <2>. QED BY <1>1, <2>1, <2>2 DEF TypeOK
<1>3. state_ = "kConnected" /\ ~registered /\ channel_ = NoSocket
  BY <1>1 DEF RunningInv, ConnectedInv, ChannelInv
<1>4. loopPc' \in {"event", "restart"} /\ (loopPc' = "restart" => clientConnect_) BY <1>1
<1>5. RunningInv'
  <2>1. ChannelInv' BY <1>1, <1>3, <1>4 DEF RunningInv, ChannelInv
  <2>2. ConnectedInv' /\ TodoInv' BY <1>1, <1>3, <1>4 DEF RunningInv, ConnectedInv, TodoInv
  <2>3. QuietInv' BY <1>1, <1>3, <1>4 DEF RunningInv, QuietInv
  <2>4. FirstInv' BY <1>1, <1>3, <1>4 DEF RunningInv, FirstInv, Untouched
  <2>. QED BY <2>1, <2>2, <2>3, <2>4 DEF RunningInv
<1>6. DestroyedInv' /\ AssertionsHold' /\ SafeDestruction'
  BY <1>1 DEF IndInv, DestroyedInv, AssertionsHold, SafeDestruction, Running
<1>. QED BY <1>2, <1>5, <1>6 DEF IndInv

\* restart() starts a Connector that was connected, for a client that wants it.
LEMMA RestartKeeps ==
    ASSUME IndInv, ConnectorStep(Restart)
    PROVE  IndInv'
<1>1. /\ TypeOK /\ RunningInv /\ Running /\ destroyed = "no" /\ loopPc = "restart"
      /\ state_' = "kDisconnected" /\ retryDaleyMs_' = kInitRetryDelayMs
      /\ connect_' = TRUE /\ loopPc' = "start"
      /\ UNCHANGED <<channel_, registered, timerId_, timers, pending, todo, owner, gaveUp, fault>>
      /\ UNCHANGED <<clientConnect_, retry_, connection_, callPc, asked, calls, connects, quiet,
                     destroyed, closeCallback_, removalTimer>>
  BY DEF IndInv, ConnectorStep, Alive, Restart, LoopAt, channelVars, endVars,
         clientVars, flagVars, callVars, lifeVars
<1>2. TypeOK'
  <2>1. connect_' \in BOOLEAN BY <1>1
  <2>2. retryDaleyMs_' \in kInitRetryDelayMs..kMaxRetryDelayMs BY <1>1, ConnectorAssumption
  <2>. QED BY <1>1, <2>1, <2>2 DEF TypeOK
<1>3. state_ = "kConnected" /\ connection_ = NoSocket /\ ~registered
  BY <1>1 DEF RunningInv, ConnectedInv, ChannelInv
<1>4. RunningInv'
  <2>1. ChannelInv' BY <1>1, <1>3 DEF RunningInv, ChannelInv
  <2>2. ConnectedInv' /\ TodoInv' /\ QuietInv'
    BY <1>1, <1>3 DEF RunningInv, ConnectedInv, TodoInv, QuietInv
  <2>3. FirstInv' BY <1>1, <1>3 DEF RunningInv, FirstInv, Untouched
  <2>. QED BY <2>1, <2>2, <2>3 DEF RunningInv
<1>5. DestroyedInv' /\ AssertionsHold' /\ SafeDestruction'
  BY <1>1 DEF IndInv, DestroyedInv, AssertionsHold, SafeDestruction, Running
<1>. QED BY <1>2, <1>4, <1>5 DEF IndInv

-----------------------------------------------------------------------------
\* The end of a connection, and what comes after the client's end.
LEMMA CloseConnectionKeeps ==
    ASSUME IndInv, NEW s \in Sockets, CloseConnection(s)
    PROVE  IndInv'
<1>1. /\ TypeOK /\ RunningInv /\ Running /\ loopPc = "idle" /\ owner[s] = "client"
      /\ \/ owner' = [owner EXCEPT ![s] = "closed"] /\ UNCHANGED fault
         \/ fault' = "reference" /\ UNCHANGED owner
      /\ UNCHANGED <<connect_, state_, channel_, registered, retryDaleyMs_, timerId_, timers,
                     pending, loopPc, todo, gaveUp>>
      /\ UNCHANGED <<clientConnect_, retry_, connection_, callPc, asked, calls, connects, quiet,
                     destroyed, closeCallback_, removalTimer>>
  BY DEF IndInv, CloseConnection, LoopAt, channelVars, retryVars, clientVars, flagVars, callVars,
         lifeVars
<1>2. TypeOK'
  <2>1. owner' \in [Sockets -> {"closed", "connector", "client"}] BY <1>1 DEF TypeOK
  <2>2. fault' \in {"none", "assertion", "socket", "reference", "destroyed"} BY <1>1 DEF TypeOK
  <2>. QED BY <1>1, <2>1, <2>2 DEF TypeOK
<1>3. DestroyedInv' /\ AssertionsHold' /\ SafeDestruction'
  BY <1>1 DEF IndInv, DestroyedInv, AssertionsHold, SafeDestruction, Running
<1>4. RunningInv'
  <2>1. CASE fault' = "reference" BY <2>1 DEF RunningInv, Running
  <2>2. CASE owner' = [owner EXCEPT ![s] = "closed"]
    <3>1. \A r \in Sockets : owner'[r] = "connector" <=> owner[r] = "connector"
      BY <1>1, <2>2 DEF TypeOK
    <3>2. ChannelInv' BY <1>1, <3>1 DEF RunningInv, ChannelInv
    <3>3. ConnectedInv' /\ TodoInv' /\ QuietInv'
      BY <1>1 DEF RunningInv, ConnectedInv, TodoInv, QuietInv
    <3>4. FirstInv' BY <1>1 DEF RunningInv, FirstInv, Untouched
    <3>. QED BY <3>2, <3>3, <3>4 DEF RunningInv
  <2>. QED BY <1>1, <2>1, <2>2
<1>. QED BY <1>2, <1>3, <1>4 DEF IndInv

LEMMA RemoveOrphanKeeps ==
    ASSUME IndInv, RemoveOrphan
    PROVE  IndInv'
<1>1. /\ TypeOK /\ RunningInv /\ Running /\ loopPc = "idle"
      /\ connection_' = NoSocket
      /\ UNCHANGED <<connect_, state_, channel_, registered, retryDaleyMs_, timerId_, timers,
                     pending, loopPc, todo, owner, gaveUp, fault>>
      /\ UNCHANGED <<clientConnect_, retry_, callPc, asked, calls, connects, quiet, destroyed,
                     closeCallback_, removalTimer>>
  BY DEF IndInv, RemoveOrphan, LoopAt, connectorVars, channelVars, retryVars, endVars, flagVars,
         callVars, lifeVars
<1>2. TypeOK' BY <1>1 DEF TypeOK
<1>3. RunningInv'
  <2>1. ChannelInv' BY <1>1 DEF RunningInv, ChannelInv
  <2>2. ConnectedInv' /\ TodoInv' /\ QuietInv'
    BY <1>1 DEF RunningInv, ConnectedInv, TodoInv, QuietInv
  <2>3. FirstInv' BY <1>1 DEF RunningInv, FirstInv, Untouched
  <2>. QED BY <2>1, <2>2, <2>3 DEF RunningInv
<1>4. DestroyedInv' /\ AssertionsHold' /\ SafeDestruction'
  BY <1>1 DEF IndInv, DestroyedInv, AssertionsHold, SafeDestruction, Running
<1>. QED BY <1>2, <1>3, <1>4 DEF IndInv

LEMMA SetCloseCallbackKeeps ==
    ASSUME IndInv, RunSetCloseCallback
    PROVE  IndInv'
<1>1. /\ TypeOK /\ RunningInv /\ Running /\ loopPc = "idle"
      /\ pending # << >> /\ Head(pending).op = "callback" /\ pending' = Tail(pending)
      /\ closeCallback_' = FALSE
      /\ UNCHANGED <<connect_, state_, channel_, registered, retryDaleyMs_, timerId_, timers,
                     loopPc, todo, owner, gaveUp, fault>>
      /\ UNCHANGED <<clientConnect_, retry_, connection_, callPc, asked, calls, connects, quiet,
                     destroyed, removalTimer>>
  BY DEF IndInv, RunSetCloseCallback, NextFunctor, LoopAt, channelVars, retryVars, endVars,
         flagVars, callVars
<1>2. /\ pending' \in Seq(Entries)
      /\ \A op \in {"start", "reset"} : /\ Has(pending', op) <=> Has(pending, op)
                                        /\ Once(pending, op) => Once(pending', op)
  BY <1>1, Taken DEF TypeOK
<1>3. TypeOK'
  <2>1. closeCallback_' \in BOOLEAN BY <1>1
  <2>. QED BY <1>1, <1>2, <2>1 DEF TypeOK
<1>4. RunningInv'
  <2>1. ChannelInv' BY <1>1, <1>2 DEF RunningInv, ChannelInv
  <2>2. ConnectedInv' /\ TodoInv' /\ QuietInv'
    BY <1>1 DEF RunningInv, ConnectedInv, TodoInv, QuietInv
  <2>3. FirstInv' BY <1>1, <1>2 DEF RunningInv, FirstInv, Untouched
  <2>. QED BY <2>1, <2>2, <2>3 DEF RunningInv
<1>5. DestroyedInv' /\ AssertionsHold' /\ SafeDestruction'
  BY <1>1 DEF IndInv, DestroyedInv, AssertionsHold, SafeDestruction, Running
<1>. QED BY <1>3, <1>4, <1>5 DEF IndInv

\* addTimerInLoop() of the timer of ~TcpClient, and the timer itself.
LEMMA RemovalTimerKeeps ==
    ASSUME IndInv, RunAddTimer \/ RemoveConnector
    PROVE  IndInv'
<1>1. /\ TypeOK /\ RunningInv /\ Running /\ removalTimer' \in BOOLEAN
      /\ \/ pending' = pending
         \/ pending # << >> /\ Head(pending).op = "runAfter" /\ pending' = Tail(pending)
      /\ UNCHANGED <<connect_, state_, channel_, registered, retryDaleyMs_, timerId_, timers,
                     loopPc, todo, owner, gaveUp, fault>>
      /\ UNCHANGED <<clientConnect_, retry_, connection_, callPc, asked, calls, connects, quiet,
                     destroyed, closeCallback_>>
  BY DEF IndInv, RunAddTimer, RemoveConnector, NextFunctor, LoopAt, connectorVars, channelVars,
         retryVars, endVars, flagVars, callVars
<1>2. /\ pending' \in Seq(Entries)
      /\ \A op \in {"start", "reset"} : /\ Has(pending', op) <=> Has(pending, op)
                                        /\ Once(pending, op) => Once(pending', op)
  <2>1. pending \in Seq(Entries) BY <1>1 DEF TypeOK
  <2>2. CASE pending' = pending BY <2>1, <2>2
  <2>3. CASE pending # << >> /\ Head(pending).op = "runAfter" /\ pending' = Tail(pending)
    BY <2>1, <2>3, Taken
  <2>. QED BY <1>1, <2>2, <2>3
<1>3. TypeOK' BY <1>1, <1>2 DEF TypeOK
<1>4. RunningInv'
  <2>1. ChannelInv' BY <1>1, <1>2 DEF RunningInv, ChannelInv
  <2>2. ConnectedInv' /\ TodoInv' /\ QuietInv'
    BY <1>1 DEF RunningInv, ConnectedInv, TodoInv, QuietInv
  <2>3. FirstInv' BY <1>1, <1>2 DEF RunningInv, FirstInv, Untouched
  <2>. QED BY <2>1, <2>2, <2>3 DEF RunningInv
<1>5. DestroyedInv' /\ AssertionsHold' /\ SafeDestruction'
  BY <1>1 DEF IndInv, DestroyedInv, AssertionsHold, SafeDestruction, Running
<1>. QED BY <1>3, <1>4, <1>5 DEF IndInv

LEMMA UseDestroyedKeeps ==
    ASSUME IndInv, UseDestroyed
    PROVE  IndInv'
<1>1. /\ TypeOK /\ RunningInv /\ Running /\ fault' = "destroyed"
      /\ \/ loopPc # "idle"
         \/ pending # << >>
         \/ timers # {} \/ registered
         \/ closeCallback_
      /\ UNCHANGED <<connect_, state_, channel_, registered, retryDaleyMs_, timerId_, timers,
                     pending, loopPc, todo, owner, gaveUp>>
      /\ UNCHANGED <<clientConnect_, retry_, connection_, callPc, asked, calls, connects, quiet,
                     destroyed, closeCallback_, removalTimer>>
  BY DEF IndInv, UseDestroyed, NextFunctor, channelVars, retryVars, clientVars, flagVars, callVars,
         lifeVars
<1>2. TypeOK' BY <1>1 DEF TypeOK
<1>3. RunningInv' /\ DestroyedInv' /\ AssertionsHold'
  BY <1>1 DEF RunningInv, DestroyedInv, AssertionsHold, Running
<1>4. SafeDestruction' BY <1>1 DEF IndInv, DestroyedInv, SafeDestruction
<1>. QED BY <1>2, <1>3, <1>4 DEF IndInv

\* ~TcpClient on the loop's thread finds nothing of the client in the loop when the
\* Connector waits for nothing but its timer.
LEMMA DestroyHereKeeps ==
    ASSUME IndInv, DestroyHere
    PROVE  IndInv'
<1>1. /\ TypeOK /\ RunningInv /\ Running /\ loopPc = "idle"
      /\ destroyed' = (IF Quiescent THEN "quietly" ELSE "busy")
      /\ timers' = timers \ {timerId_}
      /\ connect_' = (IF connection_ # NoSocket THEN connect_ ELSE FALSE)
      /\ closeCallback_' = FALSE /\ removalTimer' = (connection_ = NoSocket)
      /\ UNCHANGED <<state_, channel_, registered, retryDaleyMs_, timerId_, pending, loopPc, todo,
                     owner, gaveUp, fault>>
      /\ UNCHANGED <<clientConnect_, retry_, connection_, callPc, asked, calls, connects, quiet>>
  BY DEF IndInv, DestroyHere, Alive, LoopAt, ReplaceCloseCallback, channelVars, endVars, flagVars,
         callVars
<1>2. TypeOK'
  <2>1. connect_' \in BOOLEAN
    <3>1. connect_' = connect_ \/ connect_' = FALSE BY <1>1
    <3>. QED BY <1>1, <3>1 DEF TypeOK
  <2>2. closeCallback_' \in BOOLEAN /\ removalTimer' \in BOOLEAN BY <1>1
  <2>3. timers' \subseteq TimerIds /\ destroyed' \in {"no", "quietly", "busy", "elsewhere"}
    BY <1>1 DEF TypeOK
  <2>4. TypeOK /\ UNCHANGED <<state_, channel_, registered, retryDaleyMs_, timerId_, pending,
                             loopPc, todo, owner, gaveUp, fault>>
    BY <1>1
  <2>5. UNCHANGED <<clientConnect_, retry_, connection_, callPc, asked, calls, connects, quiet>>
    BY <1>1
  <2>. QED BY <2>1, <2>2, <2>3, <2>4, <2>5 DEF TypeOK
<1>3. connect_' => connect_ BY <1>1
<1>4. RunningInv'
  <2>1. ChannelInv' BY <1>1 DEF RunningInv, ChannelInv
  <2>2. ConnectedInv' /\ TodoInv' BY <1>1 DEF RunningInv, ConnectedInv, TodoInv
  <2>3. QuietInv' BY <1>1, <1>3 DEF RunningInv, QuietInv
  <2>4. FirstInv' BY <1>1 DEF RunningInv, FirstInv, Untouched
  <2>. QED BY <2>1, <2>2, <2>3, <2>4 DEF RunningInv
<1>5. DestroyedInv'
  <2>1. SUFFICES ASSUME destroyed' = "quietly", connects <= 1
                 PROVE  loopPc' = "idle" /\ pending' = << >> /\ timers' = {}
                        /\ ~registered' /\ ~closeCallback_'
    BY <1>1 DEF DestroyedInv
  <2>2. state_ # "kConnecting" /\ pending = << >> BY <1>1, <2>1 DEF Quiescent
  <2>3. ~registered BY <1>1, <2>2 DEF RunningInv, ChannelInv
  <2>4. timers' = {} BY <1>1, <2>1 DEF RunningInv, FirstInv
  <2>. QED BY <1>1, <2>2, <2>3, <2>4
<1>6. AssertionsHold' /\ SafeDestruction'
  BY <1>1 DEF AssertionsHold, SafeDestruction, Running
<1>. QED BY <1>2, <1>4, <1>5, <1>6 DEF IndInv

LEMMA DestroyKeeps ==
    ASSUME IndInv, Destroy
    PROVE  IndInv'
<1>. DEFINE Other == {e \in Entries : e.op \notin {"start", "reset"}}
<1>1. /\ TypeOK /\ RunningInv /\ Running /\ destroyed' = "elsewhere"
      /\ connect_' = (IF connection_ # NoSocket THEN connect_ ELSE FALSE)
      /\ pending' = pending \o Append(LastWishes, CancelRetry)
      /\ UNCHANGED <<state_, channel_, registered, retryDaleyMs_, timerId_, timers, loopPc, todo,
                     owner, gaveUp, fault>>
      /\ UNCHANGED <<clientConnect_, retry_, connection_, callPc, asked, calls, connects, quiet,
                     closeCallback_, removalTimer>>
  BY DEF IndInv, Destroy, Alive, channelVars, retryVars, endVars, flagVars, callVars
<1>2. /\ CancelRetry \in Other
      /\ [op |-> "callback", timer |-> 0] \in Other
      /\ [op |-> "runAfter", timer |-> 0] \in Other
  BY <1>1 DEF TypeOK, Entries, CancelRetry
<1>3. /\ pending' \in Seq(Entries)
      /\ \A op \in {"start", "reset"} : /\ Has(pending', op) <=> Has(pending, op)
                                        /\ Once(pending, op) => Once(pending', op)
  <2>. DEFINE Same(q) ==
                /\ q \in Seq(Entries)
                /\ \A op \in {"start", "reset"} : /\ Has(q, op) <=> Has(pending, op)
                                                  /\ Once(pending, op) => Once(q, op)
  <2>1. Same(pending) BY <1>1 DEF TypeOK
  <2>2. ASSUME NEW q, Same(q), NEW e \in Other
        PROVE  Same(Append(q, e))
    <3>1. q \in Seq(Entries) /\ e \in Entries /\ e.op \notin {"start", "reset"} BY <2>2
    <3>2. Append(q, e) \in Seq(Entries) BY <3>1
    <3>3. ASSUME NEW op \in {"start", "reset"}
          PROVE  /\ Has(Append(q, e), op) <=> Has(pending, op)
                 /\ Once(pending, op) => Once(Append(q, e), op)
      BY <2>2, <3>1, Queued
    <3>. QED BY <3>2, <3>3
  <2>3. CASE connection_ # NoSocket
    <3>. DEFINE c == [op |-> "callback", timer |-> 0]
    <3>1. pending' = Append(Append(pending, c), CancelRetry)
      <4>1. pending' = pending \o << c, CancelRetry >> BY <1>1, <2>3 DEF LastWishes
      <4>. QED BY <1>2, <2>1, <4>1 DEF Other
    <3>2. c \in Other BY <1>2
    <3>. HIDE DEF c, Same, Other
    <3>3. Same(Append(pending, c)) BY <2>1, <2>2, <3>2
    <3>4. Same(pending') BY <1>2, <2>2, <3>1, <3>3
    <3>. QED BY <3>4 DEF Same
  <2>4. CASE connection_ = NoSocket
    <3>. DEFINE r == [op |-> "runAfter", timer |-> 0]
    <3>1. LastWishes = << CancelRetry, r >> BY <2>4 DEF LastWishes
    <3>2. r \in Other BY <1>2
    <3>. HIDE DEF r
    <3>3. pending' = Append(Append(Append(pending, CancelRetry), r), CancelRetry)
      <4>1. pending \in Seq(Entries) /\ CancelRetry \in Entries /\ r \in Entries
        BY <1>2, <2>1, <3>2
      <4>. HIDE DEF Same, Other
      <4>. QED BY <1>1, <3>1, <4>1
    <3>. HIDE DEF Same, Other
    <3>4. Same(Append(pending, CancelRetry)) BY <1>2, <2>1, <2>2
    <3>5. Same(Append(Append(pending, CancelRetry), r)) BY <2>2, <3>2, <3>4
    <3>6. Same(pending') BY <1>2, <2>2, <3>3, <3>5
    <3>. QED BY <3>6 DEF Same
  <2>. QED BY <2>3, <2>4
<1>4. TypeOK'
  <2>1. connect_' \in BOOLEAN
    <3>1. connect_' = connect_ \/ connect_' = FALSE BY <1>1
    <3>. QED BY <1>1, <3>1 DEF TypeOK
  <2>2. pending' \in Seq(Entries) /\ destroyed' = "elsewhere" BY <1>1, <1>3
  <2>3. TypeOK /\ UNCHANGED <<state_, channel_, registered, retryDaleyMs_, timerId_, timers,
                             loopPc, todo, owner, gaveUp, fault>>
    BY <1>1
  <2>4. UNCHANGED <<clientConnect_, retry_, connection_, callPc, asked, calls, connects, quiet,
                    closeCallback_, removalTimer>>
    BY <1>1
  <2>. QED BY <2>1, <2>2, <2>3, <2>4 DEF TypeOK
<1>5. connect_' => connect_ BY <1>1
<1>6. RunningInv'
  <2>1. ChannelInv' BY <1>1, <1>3 DEF RunningInv, ChannelInv
  <2>2. ConnectedInv' /\ TodoInv' BY <1>1 DEF RunningInv, ConnectedInv, TodoInv
  <2>3. QuietInv' BY <1>1, <1>5 DEF RunningInv, QuietInv
  <2>4. FirstInv' BY <1>1, <1>3 DEF RunningInv, FirstInv, Untouched
  <2>. QED BY <2>1, <2>2, <2>3, <2>4 DEF RunningInv
<1>7. DestroyedInv' /\ AssertionsHold' /\ SafeDestruction'
  BY <1>1 DEF DestroyedInv, AssertionsHold, SafeDestruction, Running
<1>. QED BY <1>4, <1>6, <1>7 DEF IndInv

-----------------------------------------------------------------------------
LEMMA InitInv == Init => IndInv
<1>. SUFFICES ASSUME Init PROVE IndInv OBVIOUS
<1>1. /\ connect_ = FALSE /\ state_ = "kDisconnected" /\ channel_ = NoSocket /\ registered = FALSE
      /\ retryDaleyMs_ = kInitRetryDelayMs /\ timerId_ = 0 /\ timers = {} /\ pending = << >>
      /\ loopPc = "idle" /\ todo = {} /\ owner = [s \in Sockets |-> "closed"]
      /\ gaveUp = FALSE /\ fault = "none"
      /\ clientConnect_ = TRUE /\ retry_ \in BOOLEAN /\ connection_ = NoSocket
      /\ callPc = "idle" /\ asked = "nothing" /\ calls = 0 /\ connects = 0
      /\ quiet = FALSE /\ destroyed = "no" /\ closeCallback_ = FALSE /\ removalTimer = FALSE
  BY DEF Init, ConnectorInit
<1>2. TypeOK
  <2>1. connect_ \in BOOLEAN /\ registered \in BOOLEAN /\ gaveUp \in BOOLEAN BY <1>1
  <2>2. clientConnect_ \in BOOLEAN /\ quiet \in BOOLEAN /\ closeCallback_ \in BOOLEAN
        /\ removalTimer \in BOOLEAN
    BY <1>1
  <2>3. retryDaleyMs_ \in kInitRetryDelayMs..kMaxRetryDelayMs BY <1>1, ConnectorAssumption
  <2>4. calls \in Nat /\ connects \in 0..2 BY <1>1
  <2>5. pending \in Seq(Entries) BY <1>1
  <2>6. owner \in [Sockets -> {"closed", "connector", "client"}] BY <1>1
  <2>. QED BY <1>1, <2>1, <2>2, <2>3, <2>4, <2>5, <2>6 DEF TypeOK
<1>3. RunningInv
  <2>1. \A s \in Sockets : s # NoSocket BY ConnectorAssumption
  <2>2. ChannelInv BY <1>1, <2>1, Nothing DEF ChannelInv
  <2>3. ConnectedInv /\ TodoInv /\ QuietInv BY <1>1 DEF ConnectedInv, TodoInv, QuietInv
  <2>4. FirstInv BY <1>1, Nothing DEF FirstInv, Untouched
  <2>. QED BY <2>2, <2>3, <2>4 DEF RunningInv
<1>4. DestroyedInv /\ AssertionsHold /\ SafeDestruction
  BY <1>1 DEF DestroyedInv, AssertionsHold, SafeDestruction
<1>. QED BY <1>2, <1>3, <1>4 DEF IndInv

LEMMA StutterKeeps ==
    ASSUME IndInv, UNCHANGED vars
    PROVE  IndInv'
<1>1. /\ UNCHANGED <<connect_, state_, channel_, registered, retryDaleyMs_, timerId_, timers,
                     pending, loopPc, todo, owner, gaveUp, fault>>
      /\ UNCHANGED <<clientConnect_, retry_, connection_, callPc, asked, calls, connects, quiet,
                     destroyed, closeCallback_, removalTimer>>
  BY DEF vars, connectorVars, channelVars, retryVars, endVars, clientVars, flagVars, callVars,
         lifeVars
<1>2. TypeOK' BY <1>1 DEF IndInv, TypeOK
<1>3. RunningInv'
  BY <1>1
     DEF IndInv, RunningInv, Running, ChannelInv, ConnectedInv, TodoInv, QuietInv, FirstInv,
         Untouched
<1>4. DestroyedInv' /\ AssertionsHold' /\ SafeDestruction'
  BY <1>1 DEF IndInv, DestroyedInv, AssertionsHold, SafeDestruction, Running
<1>. QED BY <1>2, <1>3, <1>4 DEF IndInv

LEMMA Invariance == Spec => []IndInv
<1>1. IndInv /\ [Next]_vars => IndInv'
  <2>. SUFFICES ASSUME IndInv, [Next]_vars PROVE IndInv' OBVIOUS
  <2>1. CASE NewCall
    BY <2>1, ConnectHereKeeps, StopKeeps, DisconnectKeeps, CallElsewhereKeeps DEF NewCall, Answer
  <2>2. CASE CallStep BY <2>2, CallGoesKeeps, QueueCallKeeps DEF CallStep
  <2>3. CASE ConnectorStep(LoopStep)
    <3>1. Alive /\ UNCHANGED clientVars /\ LoopStep BY <2>3 DEF ConnectorStep
    <3>2. CASE Functor
      <4>1. RunCancel \/ ResetChannel \/ \E answer \in Answers : RunStart(answer)
        BY <3>2 DEF Functor, Answer
      <4>. QED BY <3>1, <4>1, RunCancelKeeps, ResetChannelKeeps, RunStartKeeps DEF ConnectorStep
    <3>3. CASE \E id \in TimerIds, answer \in Answers : RetryTimer(id, answer)
      BY <3>1, <3>3, RetryTimerKeeps DEF ConnectorStep
    <3>4. CASE Poll BY <3>1, <3>4, PollKeeps DEF ConnectorStep
    <3>5. CASE EventStep
      <4>1. \/ ScheduleRetry \/ HandleError \/ HandleWriteFailed \/ HandleWrite \/ EventDone
            \/ Restart \/ \E answer \in Answers : RestartInLoop(answer)
        BY <3>5 DEF EventStep, Answer
      <4>. QED
        BY <3>1, <4>1, ScheduleRetryKeeps, HandleErrorKeeps, HandleWriteFailedKeeps,
           HandleWriteKeeps, EventDoneKeeps, RestartKeeps, RestartInLoopKeeps DEF ConnectorStep
    <3>. QED BY <3>1, <3>2, <3>3, <3>4, <3>5 DEF LoopStep
  <2>4. CASE NewConnection \/ RemoveConnection \/ \E s \in Sockets : CloseConnection(s)
    BY <2>4, NewConnectionKeeps, RemoveConnectionKeeps, CloseConnectionKeeps
  <2>5. CASE \/ DestroyHere \/ Destroy \/ RunSetCloseCallback \/ RunAddTimer \/ RemoveConnector
             \/ RemoveOrphan \/ CancelOrphan \/ UseDestroyed
    BY <2>5, DestroyHereKeeps, DestroyKeeps, SetCloseCallbackKeeps, RemovalTimerKeeps,
       RemoveOrphanKeeps, RunCancelKeeps, UseDestroyedKeeps DEF CancelOrphan
  <2>6. CASE UNCHANGED vars BY <2>6, StutterKeeps
  <2>. QED BY <2>1, <2>2, <2>3, <2>4, <2>5, <2>6 DEF Next
<1>. QED BY <1>1, InitInv, PTL DEF Spec

\* No descriptor is lost, whatever fails, is retried, stopped or closed: the Connector
\* answers for the one that waits in the Poller or is about to be handed over, and has
\* a Channel in the Poller only while it is connecting.
THEOREM NoDescriptorLost == Spec => []SocketsOwned
<1>1. IndInv => SocketsOwned BY DEF IndInv, RunningInv, ChannelInv, SocketsOwned
<1>. QED BY <1>1, Invariance, PTL

\* The assertions of startInLoop(), connecting(), handleError() and handleWrite() hold
\* for a client that is told to connect at most once.
THEOREM AssertionsNeverFail == Spec => []AssertionsHold
<1>1. IndInv => AssertionsHold BY DEF IndInv
<1>. QED BY <1>1, Invariance, PTL

\* A client that was told to connect at most once may be destroyed on the loop's
\* thread between two attempts, or while it is connected: nothing reads or writes it
\* afterwards, although the timer of ~TcpClient may still point at it.
THEOREM DestructionIsSafe == Spec => []SafeDestruction
<1>1. IndInv => SafeDestruction BY DEF IndInv
<1>. QED BY <1>1, Invariance, PTL

\* Such a client leaves no functor, no retry timer, no polled Channel and no close
\* callback in the loop: the timer of ~TcpClient, which calls the empty
\* removeConnector(), is the only thing there that points at it.
THEOREM OnlyRemovalTimerIsLeft == Spec => []DestroyedInv
<1>1. IndInv => DestroyedInv BY DEF IndInv
<1>. QED BY <1>1, Invariance, PTL

-----------------------------------------------------------------------------
\* connection_ changes in newConnection(), in removeConnection() and when the
\* connection outlives its client.
LEMMA ConnectionChanges ==
    ASSUME IndInv, [Next]_vars, connection_' # connection_
    PROVE  NewConnection \/ connection_' = NoSocket
<1>1. CASE UNCHANGED vars BY <1>1 DEF vars, clientVars
<1>2. CASE NewCall \/ CallStep
  BY <1>2 DEF NewCall, CallStep, Answer, ConnectHere, StopClientHere, DisconnectHere, CallElsewhere,
              Call, SetConnectorConnect, QueueCall, ShutdownConnection, Goes
<1>3. CASE ConnectorStep(LoopStep) BY <1>3 DEF ConnectorStep, clientVars
<1>4. CASE RemoveConnection \/ RemoveOrphan BY <1>4 DEF RemoveConnection, RemoveOrphan
<1>5. CASE \E s \in Sockets : CloseConnection(s) BY <1>5 DEF CloseConnection, clientVars
<1>6. CASE \/ DestroyHere \/ Destroy \/ RunSetCloseCallback \/ RunAddTimer \/ RemoveConnector
           \/ CancelOrphan \/ UseDestroyed
  BY <1>6 DEF DestroyHere, Destroy, RunSetCloseCallback, RunAddTimer, RemoveConnector, CancelOrphan,
              UseDestroyed, clientVars
<1>. QED BY <1>1, <1>2, <1>3, <1>4, <1>5, <1>6 DEF Next

\* newConnection() is called only while the client has no connection, so that none is
\* overwritten.
THEOREM OneConnectionAtATime == Spec => OneConnection
<1>1. IndInv /\ [Next]_vars =>
        [connection_' # connection_ => NoSocket \in {connection_, connection_'}]_vars
  <2>. SUFFICES ASSUME IndInv, [Next]_vars, connection_' # connection_
                PROVE  NoSocket \in {connection_, connection_'}
    OBVIOUS
  <2>1. CASE NewConnection
    <3>1. Running /\ loopPc = "established"
      BY <2>1 DEF NewConnection, NewConnectionCallback, Alive, LoopAt
    <3>. QED BY <3>1 DEF IndInv, RunningInv, ConnectedInv
  <2>. QED BY <2>1, ConnectionChanges
<1>. QED BY <1>1, Invariance, PTL DEF Spec, OneConnection

\* After stop(), and after a disconnect() that met a connection, no new connection is
\* made.
THEOREM StopIsFinal == Spec => StopHolds
<1>1. IndInv /\ [Next]_vars => [quiet /\ connection_ = NoSocket => connection_' = NoSocket]_vars
  <2>. SUFFICES ASSUME IndInv, [Next]_vars, quiet, connection_ = NoSocket
                PROVE  connection_' = NoSocket
    OBVIOUS
  <2>1. ~NewConnection
    BY DEF IndInv, RunningInv, QuietInv, NewConnection, NewConnectionCallback, Alive, LoopAt
  <2>. QED BY <2>1, ConnectionChanges
<1>. QED BY <1>1, Invariance, PTL DEF Spec, StopHolds

=============================================================================
