-------------------------- MODULE TcpServerProofs ---------------------------
(***************************************************************************)
(* Proofs about TcpServer for every number of I/O loops and connections:   *)
(* connections_, the Channels that are polled and the removals under way   *)
(* agree.                                                                  *)
(***************************************************************************)
EXTENDS TcpServer, SequenceTheorems, TLAPS

Functors == [op : {"established", "remove", "destroyed"}, conn : Conns]

\* the functors that a loop still has to run, in this order
Queued(l) == functors[l] \o pending[l]

In(q, f) == \E i \in DOMAIN q : q[i] = f
Once(q, f) == \A i, j \in DOMAIN q : q[i] = f /\ q[j] = f => i = j

TypeOK ==
    /\ numThreads_ \in 0..MaxThreads /\ next_ \in Nat
    /\ numThreads_ > 0 => next_ < numThreads_
    /\ started_ \in BOOLEAN /\ listenning_ \in BOOLEAN
    /\ nextConnId_ \in Nat \ {0}
    /\ connections_ \subseteq Conns /\ polled \subseteq Conns
    /\ loopOf \in [Conns -> Loops]
    /\ state_ \in [Conns -> {"none", "kConnecting", "kConnected", "kDisconnected"}]
    /\ holders \in [Conns -> SUBSET {"local", "map", "self", "functor", "user"}]
    /\ pending \in [Loops -> Seq(Functors)] /\ functors \in [Loops -> Seq(Functors)]
    /\ pc \in [Loops -> {"idle", "accept", "close", "functors", "destroy"}]
    /\ current \in [Loops -> Conns \cup {0}]
    /\ undefined \in BOOLEAN /\ aborted \in BOOLEAN

\* A loop that is not draining functors has drained them all.
DrainInv == \A l \in Loops : pc[l] \in {"idle", "accept", "close"} => functors[l] = << >>

\* Nothing is known of connections that were not accepted yet.
NewInv ==
    /\ \A c \in connections_ \cup polled : c < nextConnId_
    /\ \A l \in Loops : \A f \in Functors : In(Queued(l), f) => f.conn < nextConnId_

\* connectEstablished() is queued once, in the loop of a connection that is listed
\* and neither polled nor being removed.
EstablishedInv ==
    \A l \in Loops : \A c \in Conns : In(Queued(l), Functor("established", c)) =>
        /\ Once(Queued(l), Functor("established", c))
        /\ l = loopOf[c]
        /\ c \in connections_ /\ c \notin polled
        /\ ~In(Queued(0), Functor("remove", c))

\* A removal is queued once, for a connection that is listed and polled no more.
RemoveInv ==
    \A c \in Conns : In(Queued(0), Functor("remove", c)) =>
        /\ Once(Queued(0), Functor("remove", c))
        /\ c \in connections_ /\ c \notin polled

\* What is polled is listed, and what is listed is held.
ListedInv ==
    /\ \A c \in polled : c \in connections_
    /\ \A c \in connections_ : "map" \in holders[c]

IndInv == TypeOK /\ DrainInv /\ NewInv /\ EstablishedInv /\ RemoveInv /\ ListedInv

-----------------------------------------------------------------------------
\* A functor is queued.
LEMMA AppendIn ==
    ASSUME NEW q \in Seq(Functors), NEW g \in Functors, NEW f
    PROVE  /\ In(Append(q, g), f) <=> In(q, f) \/ f = g
           /\ Once(q, f) /\ (f = g => ~In(q, f)) => Once(Append(q, g), f)
           /\ ~In(q, f) => Once(q, f)
<1>. DEFINE p == Append(q, g)
            n == Len(q) + 1
<1>1. /\ Len(q) \in Nat /\ DOMAIN q = 1..Len(q) /\ DOMAIN p = 1..n
      /\ \A i \in 1..Len(q) : p[i] = q[i]
      /\ p[n] = g
  OBVIOUS
<1>2. \A i \in 1..n : i \in 1..Len(q) \/ i = n BY <1>1
<1>3. 1..Len(q) \subseteq 1..n /\ n \in 1..n /\ n \notin 1..Len(q) BY <1>1
<1>4. /\ DOMAIN p = DOMAIN q \cup {n} /\ n \notin DOMAIN q
      /\ \A i \in DOMAIN q : p[i] = q[i]
      /\ p[n] = g
  BY <1>1, <1>2, <1>3
<1>. HIDE DEF p, n
<1>5. In(p, f) <=> In(q, f) \/ f = g BY <1>4 DEF In
<1>6. Once(q, f) /\ (f = g => ~In(q, f)) => Once(p, f) BY <1>4 DEF In, Once
<1>7. ~In(q, f) => Once(q, f) BY DEF In, Once
<1>. QED BY <1>5, <1>6, <1>7 DEF p

\* The oldest functor is taken.
LEMMA TailIn ==
    ASSUME NEW q \in Seq(Functors), q # << >>, NEW f
    PROVE  /\ In(Tail(q), f) => In(q, f)
           /\ Once(q, f) => Once(Tail(q), f)
           /\ f = Head(q) => In(q, f)
           /\ f = Head(q) /\ Once(q, f) => ~In(Tail(q), f)
<1>1. /\ Len(q) \in Nat \ {0} /\ DOMAIN q = 1..Len(q) /\ Head(q) = q[1]
      /\ DOMAIN Tail(q) = 1..(Len(q) - 1)
      /\ \A i \in 1..(Len(q) - 1) : Tail(q)[i] = q[i + 1]
  OBVIOUS
<1>2. /\ 1 \in DOMAIN q
      /\ \A i \in DOMAIN Tail(q) : i + 1 \in DOMAIN q /\ i + 1 # 1
      /\ \A i, j \in DOMAIN Tail(q) : i + 1 = j + 1 => i = j
  BY <1>1
<1>3. \A i \in DOMAIN Tail(q) : Tail(q)[i] = q[i + 1] BY <1>1
<1>4. In(Tail(q), f) => In(q, f) BY <1>2, <1>3 DEF In
<1>5. Once(q, f) => Once(Tail(q), f) BY <1>2, <1>3 DEF Once
<1>6. f = Head(q) => In(q, f) BY <1>1, <1>2 DEF In
<1>7. f = Head(q) /\ Once(q, f) => ~In(Tail(q), f) BY <1>1, <1>2, <1>3 DEF In, Once
<1>. QED BY <1>4, <1>5, <1>6, <1>7

\* A functor queued behind two queues is queued behind the second.
LEMMA ConcatAppend ==
    ASSUME NEW p \in Seq(Functors), NEW q \in Seq(Functors), NEW g \in Functors
    PROVE  p \o Append(q, g) = Append(p \o q, g)
  OBVIOUS

\* Two queues are run one after the other.
LEMMA ConcatQueues ==
    ASSUME NEW p \in Seq(Functors), NEW q \in Seq(Functors)
    PROVE  /\ p \o q \in Seq(Functors)
           /\ \A g \in Functors : p \o Append(q, g) = Append(p \o q, g)
           /\ p # << >> => /\ p \o q # << >> /\ Head(p \o q) = Head(p)
                           /\ Tail(p) \o q = Tail(p \o q)
           /\ p \o << >> = p /\ << >> \o q = q
           /\ \A f : In(p \o q, f) <=> In(p, f) \/ In(q, f)
<1>1. p \o q \in Seq(Functors) OBVIOUS
<1>2. \A g \in Functors : p \o Append(q, g) = Append(p \o q, g) OBVIOUS
<1>3. p # << >> => p \o q # << >> /\ Head(p \o q) = Head(p) OBVIOUS
<1>4. p # << >> => Tail(p) \o q = Tail(p \o q) OBVIOUS
<1>5. p \o << >> = p /\ << >> \o q = q OBVIOUS
<1>6. ASSUME NEW f PROVE In(p \o q, f) <=> In(p, f) \/ In(q, f)
  <2>. DEFINE r == p \o q
  <2>1. /\ Len(p) \in Nat /\ Len(q) \in Nat /\ DOMAIN p = 1..Len(p) /\ DOMAIN q = 1..Len(q)
        /\ DOMAIN r = 1..(Len(p) + Len(q))
        /\ \A i \in 1..Len(p) : r[i] = p[i]
        /\ \A i \in 1..Len(q) : r[Len(p) + i] = q[i]
    OBVIOUS
  <2>. HIDE DEF r
  <2>2. \A i \in 1..Len(p) : i \in DOMAIN r BY <2>1
  <2>3. \A i \in 1..Len(q) : Len(p) + i \in DOMAIN r BY <2>1
  <2>4. \A i \in DOMAIN r : i \in 1..Len(p) \/ \E j \in 1..Len(q) : i = Len(p) + j
    <3>1. \A i \in DOMAIN r : i > Len(p) => i - Len(p) \in 1..Len(q) /\ i = Len(p) + (i - Len(p))
      BY <2>1
    <3>2. \A i \in DOMAIN r : i > Len(p) \/ i \in 1..Len(p) BY <2>1
    <3>. QED BY <3>1, <3>2
  <2>5. In(r, f) <=> In(p, f) \/ In(q, f) BY <2>1, <2>2, <2>3, <2>4 DEF In
  <2>. QED BY <2>5 DEF r
<1>. QED BY <1>1, <1>2, <1>3, <1>4, <1>5, <1>6

\* The functors a loop still has to run are those it had, and one more in loop l.
Grown(l, g) ==
    \A k \in Loops : \A f \in Functors :
        /\ In(Queued(k)', f) <=> In(Queued(k), f) \/ (k = l /\ f = g)
        /\ Once(Queued(k), f) /\ ((k = l /\ f = g) => ~In(Queued(k), f)) => Once(Queued(k)', f)
        /\ ~In(Queued(k), f) => Once(Queued(k), f)

\* Loop l has taken the functor g.
Shrunk(l, g) ==
    /\ In(Queued(l), g)
    /\ Once(Queued(l), g) => ~In(Queued(l)', g)
    /\ \A k \in Loops : \A f \in Functors :
          /\ In(Queued(k)', f) => In(Queued(k), f)
          /\ Once(Queued(k), f) => Once(Queued(k)', f)

LEMMA QueueGrows ==
    ASSUME TypeOK, NEW l \in Loops, NEW g \in Functors, Queue(l, g), UNCHANGED functors
    PROVE  Grown(l, g) /\ pending' \in [Loops -> Seq(Functors)]
<1>1. pending \in [Loops -> Seq(Functors)] /\ functors \in [Loops -> Seq(Functors)]
  BY DEF TypeOK
<1>2. pending' = [pending EXCEPT ![l] = Append(@, g)] BY DEF Queue
<1>3. ASSUME NEW k \in Loops
      PROVE  /\ Queued(k)' = IF k = l THEN Append(Queued(k), g) ELSE Queued(k)
             /\ Queued(k) \in Seq(Functors)
  <2>1. Queued(k) \in Seq(Functors) BY <1>1, ConcatQueues DEF Queued
  <2>2. CASE k = l
    <3>1. pending'[l] = Append(pending[l], g) BY <1>1, <1>2
    <3>2. Queued(l)' = functors[l] \o Append(pending[l], g) BY <3>1 DEF Queued
    <3>. QED BY <1>1, <2>1, <2>2, <3>2, ConcatQueues DEF Queued
  <2>3. CASE k # l
    <3>1. pending'[k] = pending[k] BY <1>1, <1>2, <2>3
    <3>. QED BY <2>1, <2>3, <3>1 DEF Queued
  <2>. QED BY <2>2, <2>3
<1>4. ASSUME NEW k \in Loops, NEW f \in Functors
      PROVE  /\ In(Queued(k)', f) <=> In(Queued(k), f) \/ (k = l /\ f = g)
             /\ Once(Queued(k), f) /\ ((k = l /\ f = g) => ~In(Queued(k), f))
                   => Once(Queued(k)', f)
             /\ ~In(Queued(k), f) => Once(Queued(k), f)
  <2>1. ~In(Queued(k), f) => Once(Queued(k), f) BY <1>3, AppendIn
  <2>2. CASE k = l
    <3>1. Queued(k)' = Append(Queued(k), g) /\ Queued(k) \in Seq(Functors) BY <1>3, <2>2
    <3>2. /\ In(Append(Queued(k), g), f) <=> In(Queued(k), f) \/ f = g
          /\ Once(Queued(k), f) /\ (f = g => ~In(Queued(k), f)) => Once(Append(Queued(k), g), f)
      BY <3>1, AppendIn
    <3>. QED BY <2>1, <2>2, <3>1, <3>2
  <2>3. CASE k # l BY <1>3, <2>1, <2>3
  <2>. QED BY <2>2, <2>3
<1>5. pending' \in [Loops -> Seq(Functors)]
  <2>1. Append(pending[l], g) \in Seq(Functors) BY <1>1
  <2>. QED BY <1>1, <1>2, <2>1
<1>. QED BY <1>4, <1>5 DEF Grown

LEMMA QueueShrinks ==
    ASSUME TypeOK, NEW l \in Loops, NEW op \in {"established", "remove", "destroyed"},
           NEW c \in Conns, RunFunctor(l, op, c), UNCHANGED pending
    PROVE  Shrunk(l, Functor(op, c)) /\ functors' \in [Loops -> Seq(Functors)]
<1>1. pending \in [Loops -> Seq(Functors)] /\ functors \in [Loops -> Seq(Functors)]
  BY DEF TypeOK
<1>2. /\ functors' = [functors EXCEPT ![l] = Tail(@)]
      /\ functors[l] # << >> /\ Head(functors[l]) = Functor(op, c)
      /\ Functor(op, c) \in Functors
  BY DEF RunFunctor, Functor, Functors
<1>3. /\ Queued(l) \in Seq(Functors) /\ Queued(l) # << >> /\ Head(Queued(l)) = Functor(op, c)
      /\ Queued(l)' = Tail(Queued(l))
  <2>1. functors'[l] = Tail(functors[l]) BY <1>1, <1>2
  <2>2. Queued(l)' = Tail(functors[l]) \o pending[l] BY <2>1 DEF Queued
  <2>. QED BY <1>1, <1>2, <2>2, ConcatQueues DEF Queued
<1>4. ASSUME NEW k \in Loops, k # l PROVE Queued(k)' = Queued(k)
  <2>1. functors'[k] = functors[k] BY <1>1, <1>2, <1>4
  <2>. QED BY <2>1 DEF Queued
<1>5. \A f \in Functors : /\ In(Queued(l)', f) => In(Queued(l), f)
                          /\ Once(Queued(l), f) => Once(Queued(l)', f)
  BY <1>3, TailIn
<1>6. In(Queued(l), Functor(op, c))
      /\ (Once(Queued(l), Functor(op, c)) => ~In(Queued(l)', Functor(op, c)))
  BY <1>3, TailIn
<1>7. functors' \in [Loops -> Seq(Functors)]
  <2>1. Tail(functors[l]) \in Seq(Functors) BY <1>1, <1>2
  <2>. QED BY <1>1, <1>2, <2>1
<1>. QED BY <1>4, <1>5, <1>6, <1>7 DEF Shrunk

\* removeConnectionInLoop() as a functor: the removal is taken from loop_ and
\* connectDestroyed() queued in the connection's loop.
LEMMA RemoveMoves ==
    ASSUME TypeOK, NEW l \in Loops, NEW c \in Conns, RunFunctor(0, "remove", c),
           Queue(l, Functor("destroyed", c))
    PROVE  /\ pending' \in [Loops -> Seq(Functors)] /\ functors' \in [Loops -> Seq(Functors)]
           /\ In(Queued(0), Functor("remove", c))
           /\ Once(Queued(0), Functor("remove", c)) => ~In(Queued(0)', Functor("remove", c))
           /\ \A k \in Loops : \A f \in Functors :
                 /\ In(Queued(k)', f) => In(Queued(k), f) \/ f = Functor("destroyed", c)
                 /\ f # Functor("destroyed", c) /\ Once(Queued(k), f) => Once(Queued(k)', f)
<1>. DEFINE g == Functor("remove", c)
            d == Functor("destroyed", c)
            Taken(k) == IF k = 0 THEN Tail(Queued(k)) ELSE Queued(k)
<1>0. 0 \in Loops BY TcpServerAssumption DEF Loops
<1>1. /\ pending \in [Loops -> Seq(Functors)] /\ functors \in [Loops -> Seq(Functors)]
      /\ pending' = [pending EXCEPT ![l] = Append(@, d)]
      /\ functors' = [functors EXCEPT ![0] = Tail(@)]
      /\ functors[0] # << >> /\ Head(functors[0]) = g
      /\ g \in Functors /\ d \in Functors /\ g # d
  BY DEF TypeOK, Queue, RunFunctor, Functor, Functors
<1>. HIDE DEF g, d
<1>2. Append(pending[l], d) \in Seq(Functors) /\ Tail(functors[0]) \in Seq(Functors)
  BY <1>0, <1>1
<1>3. pending' \in [Loops -> Seq(Functors)] /\ functors' \in [Loops -> Seq(Functors)]
  BY <1>0, <1>1, <1>2
<1>4. Queued(0) \in Seq(Functors) /\ Queued(0) # << >> /\ Head(Queued(0)) = g
  BY <1>0, <1>1, ConcatQueues DEF Queued
<1>5. ASSUME NEW k \in Loops
      PROVE  /\ Queued(k) \in Seq(Functors) /\ Taken(k) \in Seq(Functors)
             /\ functors'[k] \o pending[k] = Taken(k)
  <2>1. Queued(k) \in Seq(Functors) BY <1>1, ConcatQueues DEF Queued
  <2>2. CASE k = 0
    <3>1. functors'[k] = Tail(functors[k]) BY <1>1, <2>2
    <3>2. Tail(functors[k]) \o pending[k] = Tail(Queued(k))
      <4>1. /\ functors[k] \in Seq(Functors) /\ pending[k] \in Seq(Functors)
            /\ functors[k] # << >>
        BY <1>1, <2>2
      <4>2. Tail(functors[k]) \o pending[k] = Tail(functors[k] \o pending[k])
        BY <4>1, ConcatQueues
      <4>. QED BY <4>2 DEF Queued
    <3>3. Tail(Queued(k)) \in Seq(Functors) BY <1>4, <2>2
    <3>. QED BY <2>1, <2>2, <3>1, <3>2, <3>3
  <2>3. CASE k # 0
    <3>1. functors'[k] = functors[k] BY <1>1, <2>3
    <3>. QED BY <2>1, <2>3, <3>1 DEF Queued
  <2>. QED BY <2>2, <2>3
<1>6. ASSUME NEW k \in Loops, NEW f \in Functors
      PROVE  /\ In(Queued(k)', f) => In(Taken(k), f) \/ f = d
             /\ f # d /\ Once(Taken(k), f) => Once(Queued(k)', f)
  <2>1. Taken(k) \in Seq(Functors) BY <1>5
  <2>2. Queued(k)' = functors'[k] \o pending'[k] BY DEF Queued
  <2>3. CASE k = l
    <3>1. pending'[k] = Append(pending[k], d) BY <1>1, <2>3
    <3>. HIDE DEF Taken
    <3>2. Queued(k)' = Append(Taken(k), d)
      <4>1. functors'[k] \in Seq(Functors) /\ pending[k] \in Seq(Functors) BY <1>1, <1>3
      <4>2. functors'[k] \o Append(pending[k], d) = Append(functors'[k] \o pending[k], d)
        <5>1. d \in Functors BY <1>1
        <5>. QED BY <4>1, <5>1, ConcatAppend
      <4>. QED BY <1>5, <2>2, <3>1, <4>2
    <3>. QED BY <1>1, <2>1, <3>2, AppendIn
  <2>4. CASE k # l
    <3>1. pending'[k] = pending[k] BY <1>1, <2>4
    <3>. QED BY <1>5, <2>2, <3>1
  <2>. QED BY <2>3, <2>4
<1>7. ASSUME NEW k \in Loops, NEW f \in Functors
      PROVE  /\ In(Taken(k), f) => In(Queued(k), f)
             /\ Once(Queued(k), f) => Once(Taken(k), f)
  BY <1>4, <1>5, TailIn
<1>8. In(Queued(0), g) /\ (Once(Queued(0), g) => ~In(Taken(0), g))
  BY <1>4, TailIn
<1>. HIDE DEF Taken
<1>9. In(Queued(0), g) /\ (Once(Queued(0), g) => ~In(Queued(0)', g))
  BY <1>0, <1>1, <1>6, <1>8
<1>10. \A k \in Loops : \A f \in Functors :
          /\ In(Queued(k)', f) => In(Queued(k), f) \/ f = d
          /\ f # d /\ Once(Queued(k), f) => Once(Queued(k)', f)
  BY <1>6, <1>7
<1>. QED BY <1>3, <1>9, <1>10 DEF g, d

-----------------------------------------------------------------------------
\* getNextLoop() gives a loop of the pool, or loop_ if it has none.
LEMMA NextLoopType ==
    ASSUME TypeOK
    PROVE  /\ GetNextLoop \in Loops /\ 0 \in Loops
           /\ GetNextLoop # 0 => AdvanceNext \in Nat /\ AdvanceNext < numThreads_ /\ numThreads_ > 0
  BY TcpServerAssumption DEF TypeOK, GetNextLoop, AdvanceNext, Loops

\* start(), accept(2) and the ends of calls keep the types.
LEMMA SimpleTypes ==
    ASSUME TypeOK,
           \/ StartHere \/ Start \/ AcceptFails \/ NewConnectionReturn
           \/ \E c \in Conns : UserRelease(c)
           \/ \E l \in Loops : CloseReturn(l) \/ DoPendingFunctors(l) \/ ConnectDestroyedReturn(l)
                                 \/ FunctorsDone(l)
    PROVE  TypeOK'
<1>. USE DEF TypeOK, serverVars, loopVars, endVars
<1>1. CASE StartHere BY <1>1 DEF StartHere, Listen
<1>2. CASE Start BY <1>2 DEF Start
<1>3. CASE AcceptFails BY <1>3 DEF AcceptFails
<1>4. CASE NewConnectionReturn BY <1>4 DEF NewConnectionReturn, Drop
<1>5. ASSUME NEW c \in Conns, UserRelease(c) PROVE TypeOK' BY <1>5 DEF UserRelease, Drop
<1>6. ASSUME NEW l \in Loops, CloseReturn(l) PROVE TypeOK'
  <2>1. undefined' \in BOOLEAN /\ holders' \in [Conns -> SUBSET {"local", "map", "self", "functor", "user"}]
    BY <1>6 DEF CloseReturn, Drop
  <2>. QED BY <1>6, <2>1 DEF CloseReturn
<1>7. ASSUME NEW l \in Loops, DoPendingFunctors(l) PROVE TypeOK'
  <2>1. << >> \in Seq(Functors) OBVIOUS
  <2>. QED BY <1>7, <2>1 DEF DoPendingFunctors
<1>8. ASSUME NEW l \in Loops, ConnectDestroyedReturn(l) PROVE TypeOK'
  <2>1. undefined' \in BOOLEAN BY <1>8 DEF ConnectDestroyedReturn
  <2>. QED BY <1>8, <2>1 DEF ConnectDestroyedReturn
<1>9. ASSUME NEW l \in Loops, FunctorsDone(l) PROVE TypeOK'
  <2>1. holders' \in [Conns -> SUBSET {"local", "map", "self", "functor", "user"}]
    BY <1>9 DEF FunctorsDone
  <2>. QED BY <1>9, <2>1 DEF FunctorsDone
<1>. QED BY <1>1, <1>2, <1>3, <1>4, <1>5, <1>6, <1>7, <1>8, <1>9

\* A functor keeps the types.
LEMMA RunTypes ==
    ASSUME TypeOK, NEW l \in Loops, NEW c \in Conns,
           \/ \E keep \in BOOLEAN : RunEstablished(l, c, keep)
           \/ RunDestroyed(l, c) \/ RunDangling(l, c)
           \/ l = 0 /\ RunRemove(c)
    PROVE  TypeOK'
<1>. USE DEF TypeOK, serverVars, endVars
<1>1. ASSUME NEW keep \in BOOLEAN, RunEstablished(l, c, keep) PROVE TypeOK'
  <2>1. functors' \in [Loops -> Seq(Functors)]
    BY <1>1, QueueShrinks DEF RunEstablished
  <2>2. Kept(keep) \subseteq {"user"} BY DEF Kept
  <2>. QED BY <1>1, <2>1, <2>2 DEF RunEstablished
<1>2. CASE RunDestroyed(l, c)
  <2>1. functors' \in [Loops -> Seq(Functors)] BY <1>2, QueueShrinks DEF RunDestroyed
  <2>. QED BY <1>2, <2>1 DEF RunDestroyed
<1>3. CASE RunDangling(l, c)
  <2>1. functors' \in [Loops -> Seq(Functors)] BY <1>3, QueueShrinks DEF RunDangling
  <2>2. undefined' \in BOOLEAN BY <1>3 DEF RunDangling
  <2>. QED BY <1>3, <2>1, <2>2 DEF RunDangling
<1>4. CASE l = 0 /\ RunRemove(c)
  <2>1. pending' \in [Loops -> Seq(Functors)] /\ functors' \in [Loops -> Seq(Functors)]
    BY <1>4, RemoveMoves DEF RunRemove, Remove
  <2>2. aborted' \in BOOLEAN BY <1>4 DEF RunRemove, Remove
  <2>. QED BY <1>4, <2>1, <2>2 DEF RunRemove, Remove, Drop
<1>. QED BY <1>1, <1>2, <1>3, <1>4

\* newConnection() keeps the types.
LEMMA NewConnectionTypes ==
    ASSUME TypeOK, NEW keep \in BOOLEAN, NewConnection(keep)
    PROVE  TypeOK'
<1>. DEFINE c == nextConnId_
<1>1. c \in Conns /\ UNCHANGED <<numThreads_, started_, listenning_, functors, endVars>>
  BY DEF NewConnection, HandleRead
<1>2. GetNextLoop \in Loops /\ 0 \in Loops BY NextLoopType
<1>3. next_' \in Nat /\ (numThreads_ > 0 => next_' < numThreads_)
  <2>1. next_' = IF GetNextLoop = 0 THEN next_ ELSE AdvanceNext BY DEF NewConnection
  <2>. QED BY <2>1, NextLoopType DEF TypeOK
<1>4. /\ nextConnId_' = c + 1 /\ connections_' = connections_ \cup {c}
      /\ loopOf' = [loopOf EXCEPT ![c] = GetNextLoop]
      /\ pc' = [pc EXCEPT ![0] = "accept"] /\ current' = [current EXCEPT ![0] = c]
  BY DEF NewConnection
<1>5. Kept(keep) \subseteq {"user"} /\ NewHolders = {"local", "map"} BY DEF Kept, NewHolders
<1>6. CASE /\ state_' = [state_ EXCEPT ![c] = "kConnected"]
           /\ polled' = polled \cup {c}
           /\ holders' = [holders EXCEPT ![c] = NewHolders \cup Kept(keep)]
           /\ UNCHANGED pending
  <2>1. holders' \in [Conns -> SUBSET {"local", "map", "self", "functor", "user"}]
    <3>1. NewHolders \cup Kept(keep) \in SUBSET {"local", "map", "self", "functor", "user"}
      BY <1>5
    <3>. QED BY <1>1, <1>6, <3>1 DEF TypeOK
  <2>. QED BY <1>1, <1>2, <1>3, <1>4, <1>6, <2>1 DEF TypeOK, endVars
<1>7. CASE /\ state_' = [state_ EXCEPT ![c] = "kConnecting"]
           /\ holders' = [holders EXCEPT ![c] = NewHolders]
           /\ Queue(GetNextLoop, Functor("established", c))
           /\ UNCHANGED polled
  <2>1. Functor("established", c) \in Functors BY <1>1 DEF Functor, Functors
  <2>2. pending' \in [Loops -> Seq(Functors)] BY <1>1, <1>2, <1>7, <2>1, QueueGrows
  <2>3. holders' \in [Conns -> SUBSET {"local", "map", "self", "functor", "user"}]
        /\ state_' \in [Conns -> {"none", "kConnecting", "kConnected", "kDisconnected"}]
    BY <1>1, <1>5, <1>7 DEF TypeOK
  <2>4. nextConnId_' \in Nat \ {0} /\ connections_' \subseteq Conns
    BY <1>1, <1>4 DEF TypeOK
  <2>5. /\ loopOf' \in [Conns -> Loops]
        /\ pc' \in [Loops -> {"idle", "accept", "close", "functors", "destroy"}]
        /\ current' \in [Loops -> Conns \cup {0}]
    BY <1>1, <1>2, <1>4 DEF TypeOK
  <2>. HIDE DEF c
  <2>. QED BY <1>1, <1>3, <1>7, <2>2, <2>3, <2>4, <2>5 DEF TypeOK, endVars
<1>. QED BY <1>6, <1>7 DEF NewConnection

\* handleClose() keeps the types.
LEMMA HandleCloseTypes ==
    ASSUME TypeOK, NEW c \in Conns, HandleClose(c)
    PROVE  TypeOK'
<1>1. loopOf[c] \in Loops /\ 0 \in Loops BY NextLoopType DEF TypeOK
<1>2. Functor("destroyed", c) \in Functors /\ Functor("remove", c) \in Functors
  BY DEF Functor, Functors
<1>3. UNCHANGED functors BY DEF HandleClose
<1>4. CASE /\ Remove(c)
           /\ holders' = [holders EXCEPT ![c] = (@ \ {"map"}) \cup {"self"}]
  <2>1. pending' \in [Loops -> Seq(Functors)] BY <1>1, <1>2, <1>3, <1>4, QueueGrows DEF Remove
  <2>2. aborted' \in BOOLEAN BY <1>4 DEF Remove
  <2>. QED BY <1>1, <1>4, <2>1, <2>2 DEF HandleClose, Remove, TypeOK, serverVars
<1>5. CASE /\ Queue(0, Functor("remove", c))
           /\ holders' = [holders EXCEPT ![c] = @ \cup {"self", "functor"}]
           /\ UNCHANGED <<connections_, aborted>>
  <2>1. pending' \in [Loops -> Seq(Functors)] BY <1>1, <1>2, <1>3, <1>5, QueueGrows
  <2>. QED BY <1>1, <1>5, <2>1 DEF HandleClose, TypeOK, serverVars
<1>. QED BY <1>4, <1>5 DEF HandleClose

-----------------------------------------------------------------------------
\* Steps that accept, list, poll or queue nothing keep the rest of the invariant.
LEMMA NothingNew ==
    ASSUME IndInv,
           \A k \in Loops : \A f \in Functors :
              /\ In(Queued(k)', f) => In(Queued(k), f)
              /\ Once(Queued(k), f) => Once(Queued(k)', f),
           \A c \in Conns : "map" \in holders[c] => "map" \in holders'[c],
           UNCHANGED <<nextConnId_, connections_, polled, loopOf>>
    PROVE  NewInv' /\ EstablishedInv' /\ RemoveInv' /\ ListedInv'
<1>1. \A c \in Conns : Functor("established", c) \in Functors /\ Functor("remove", c) \in Functors
  BY DEF Functor, Functors
<1>2. 0 \in Loops BY NextLoopType DEF IndInv
<1>3. NewInv' BY DEF IndInv, NewInv
<1>4. EstablishedInv' BY <1>1, <1>2 DEF IndInv, EstablishedInv
<1>5. RemoveInv' BY <1>1, <1>2 DEF IndInv, RemoveInv
<1>6. ListedInv' BY DEF IndInv, ListedInv, TypeOK
<1>. QED BY <1>3, <1>4, <1>5, <1>6

\* The functors that a loop still has to run only change with its queues.
LEMMA QueueSame ==
    ASSUME NEW k \in Loops, UNCHANGED <<pending, functors>>
    PROVE  Queued(k)' = Queued(k)
  BY DEF Queued

\* start(), accept(2) and the ends of calls keep the invariant.
LEMMA SimpleKeeps ==
    ASSUME IndInv,
           \/ StartHere \/ Start \/ AcceptFails \/ NewConnectionReturn
           \/ \E c \in Conns : UserRelease(c)
           \/ \E l \in Loops : CloseReturn(l) \/ DoPendingFunctors(l) \/ ConnectDestroyedReturn(l)
                                 \/ FunctorsDone(l)
    PROVE  IndInv'
<1>0. TypeOK /\ TypeOK' /\ DrainInv BY SimpleTypes DEF IndInv
<1>1. UNCHANGED <<nextConnId_, connections_, polled, loopOf>>
  BY DEF StartHere, Start, AcceptFails, NewConnectionReturn, UserRelease, CloseReturn,
         DoPendingFunctors, ConnectDestroyedReturn, FunctorsDone, serverVars
<1>2. \A c \in Conns : "map" \in holders[c] => "map" \in holders'[c]
  <2>1. CASE UNCHANGED holders BY <2>1
  <2>2. ASSUME NEW d \in Conns \cup {0}, NEW h \in {"local", "self", "user"}, Drop(h, d)
        PROVE  \A c \in Conns : "map" \in holders[c] => "map" \in holders'[c]
    BY <1>0, <2>2 DEF Drop, TypeOK
  <2>3. ASSUME NEW l \in Loops, FunctorsDone(l)
        PROVE  \A c \in Conns : "map" \in holders[c] => "map" \in holders'[c]
    BY <1>0, <2>3 DEF FunctorsDone, TypeOK
  <2>4. CASE NewConnectionReturn
    <3>1. Drop("local", current[0]) /\ current[0] \in Conns \cup {0}
      BY <1>0, <2>4, NextLoopType DEF NewConnectionReturn, TypeOK
    <3>. QED BY <3>1, <2>2
  <2>5. ASSUME NEW l \in Loops, CloseReturn(l)
        PROVE  \A c \in Conns : "map" \in holders[c] => "map" \in holders'[c]
    <3>1. Drop("self", current[l]) /\ current[l] \in Conns \cup {0}
      BY <1>0, <2>5 DEF CloseReturn, TypeOK
    <3>. QED BY <3>1, <2>2
  <2>6. ASSUME NEW d \in Conns, UserRelease(d)
        PROVE  \A c \in Conns : "map" \in holders[c] => "map" \in holders'[c]
    BY <2>2, <2>6 DEF UserRelease
  <2>. QED
    BY <2>1, <2>3, <2>4, <2>5, <2>6
       DEF StartHere, Start, AcceptFails, DoPendingFunctors, ConnectDestroyedReturn
<1>3. \A k \in Loops : Queued(k)' = Queued(k)
  <2>1. CASE UNCHANGED <<pending, functors>> BY <2>1, QueueSame
  <2>2. ASSUME NEW l \in Loops, DoPendingFunctors(l), NEW k \in Loops
        PROVE  Queued(k)' = Queued(k)
    <3>1. /\ pending \in [Loops -> Seq(Functors)] /\ functors \in [Loops -> Seq(Functors)]
          /\ functors[l] = << >>
      BY <1>0, <2>2 DEF TypeOK, DrainInv, DoPendingFunctors
    <3>2. CASE k = l
      <4>1. functors'[l] = pending[l] /\ pending'[l] = << >>
        BY <2>2, <3>1 DEF DoPendingFunctors
      <4>2. pending[l] \o << >> = << >> \o pending[l] BY <3>1, ConcatEmptySeq
      <4>. QED BY <3>1, <3>2, <4>1, <4>2 DEF Queued
    <3>3. CASE k # l
      <4>1. functors'[k] = functors[k] /\ pending'[k] = pending[k]
        BY <2>2, <3>1, <3>3 DEF DoPendingFunctors
      <4>. QED BY <4>1 DEF Queued
    <3>. QED BY <3>2, <3>3
  <2>3. UNCHANGED <<pending, functors>> \/ \E l \in Loops : DoPendingFunctors(l)
    BY DEF StartHere, Start, AcceptFails, NewConnectionReturn, UserRelease, CloseReturn,
           ConnectDestroyedReturn, FunctorsDone, loopVars
  <2>. QED BY <2>1, <2>2, <2>3
<1>4. DrainInv'
  <2>1. CASE UNCHANGED <<functors, pc>> BY <1>0, <2>1 DEF DrainInv
  <2>2. CASE NewConnectionReturn BY <1>0, <2>2 DEF NewConnectionReturn, DrainInv, TypeOK
  <2>3. ASSUME NEW l \in Loops, CloseReturn(l) PROVE DrainInv'
    BY <1>0, <2>3 DEF CloseReturn, DrainInv, TypeOK
  <2>4. ASSUME NEW l \in Loops, DoPendingFunctors(l) PROVE DrainInv'
    BY <1>0, <2>4 DEF DoPendingFunctors, DrainInv, TypeOK
  <2>5. ASSUME NEW l \in Loops, ConnectDestroyedReturn(l) PROVE DrainInv'
    BY <1>0, <2>5 DEF ConnectDestroyedReturn, DrainInv, TypeOK
  <2>6. ASSUME NEW l \in Loops, FunctorsDone(l) PROVE DrainInv'
    BY <1>0, <2>6 DEF FunctorsDone, DrainInv, TypeOK
  <2>. QED
    BY <2>1, <2>2, <2>3, <2>4, <2>5, <2>6 DEF StartHere, Start, AcceptFails, UserRelease, loopVars
<1>5. NewInv' /\ EstablishedInv' /\ RemoveInv' /\ ListedInv'
  BY <1>1, <1>2, <1>3, NothingNew
<1>. QED BY <1>0, <1>4, <1>5 DEF IndInv

\* connectEstablished() as a functor keeps the invariant: nothing else of the
\* connection is queued.
LEMMA EstablishedKeeps ==
    ASSUME IndInv, NEW l \in Loops, NEW c \in Conns, NEW keep \in BOOLEAN,
           RunEstablished(l, c, keep)
    PROVE  IndInv'
<1>. DEFINE g == Functor("established", c)
<1>0. TypeOK /\ TypeOK' /\ 0 \in Loops BY RunTypes, NextLoopType DEF IndInv
<1>1. /\ RunFunctor(l, "established", c) /\ pc[l] = "functors"
      /\ polled' = polled \cup {c} /\ holders' = [holders EXCEPT ![c] = @ \cup Kept(keep)]
      /\ UNCHANGED <<nextConnId_, connections_, loopOf, pending, pc>>
  BY DEF RunEstablished, RunFunctor, serverVars
<1>2. Shrunk(l, g) BY <1>0, <1>1, QueueShrinks
<1>3. \A b \in Conns : Functor("established", b) \in Functors /\ Functor("remove", b) \in Functors
  BY DEF Functor, Functors
<1>4. /\ Once(Queued(l), g) /\ l = loopOf[c] /\ c \in connections_ /\ c \notin polled
      /\ ~In(Queued(0), Functor("remove", c)) /\ ~In(Queued(l)', g)
  BY <1>2 DEF Shrunk, IndInv, EstablishedInv
<1>5. DrainInv' BY <1>0, <1>1 DEF IndInv, DrainInv, RunFunctor, TypeOK
<1>6. NewInv' BY <1>1, <1>2, <1>4 DEF IndInv, NewInv, Shrunk
<1>. HIDE DEF g
<1>7. EstablishedInv'
  <2>1. ASSUME NEW k \in Loops, NEW b \in Conns, In(Queued(k)', Functor("established", b))
        PROVE  /\ Once(Queued(k)', Functor("established", b))
               /\ k = loopOf[b] /\ b \in connections_ /\ b \notin polled'
               /\ ~In(Queued(0)', Functor("remove", b))
    <3>1. In(Queued(k), Functor("established", b)) BY <2>1, <1>2, <1>3 DEF Shrunk
    <3>2. /\ Once(Queued(k), Functor("established", b))
          /\ k = loopOf[b] /\ b \in connections_ /\ b \notin polled
          /\ ~In(Queued(0), Functor("remove", b))
      BY <3>1 DEF IndInv, EstablishedInv
    <3>3. b # c BY <2>1, <3>2, <1>4 DEF g
    <3>. QED BY <3>2, <3>3, <1>0, <1>1, <1>2, <1>3 DEF Shrunk
  <2>. QED BY <2>1, <1>1 DEF EstablishedInv
<1>8. RemoveInv'
  <2>1. ASSUME NEW b \in Conns, In(Queued(0)', Functor("remove", b))
        PROVE  /\ Once(Queued(0)', Functor("remove", b))
               /\ b \in connections_ /\ b \notin polled'
    <3>1. In(Queued(0), Functor("remove", b)) BY <2>1, <1>0, <1>2, <1>3 DEF Shrunk
    <3>2. Once(Queued(0), Functor("remove", b)) /\ b \in connections_ /\ b \notin polled
      BY <3>1 DEF IndInv, RemoveInv
    <3>3. b # c BY <3>1, <1>4
    <3>. QED BY <3>2, <3>3, <1>0, <1>1, <1>2, <1>3 DEF Shrunk
  <2>. QED BY <2>1, <1>1 DEF RemoveInv
<1>9. ListedInv' BY <1>0, <1>1, <1>4 DEF IndInv, ListedInv, TypeOK
<1>. QED BY <1>0, <1>5, <1>6, <1>7, <1>8, <1>9 DEF IndInv

\* removeConnectionInLoop() as a functor keeps the invariant: the removal was the
\* only one of the connection, and nothing else of it is queued or polled.
LEMMA RemoveKeeps ==
    ASSUME IndInv, NEW c \in Conns, RunRemove(c)
    PROVE  IndInv'
<1>. DEFINE g == Functor("remove", c)
            d == Functor("destroyed", c)
<1>0. TypeOK /\ TypeOK' /\ 0 \in Loops /\ loopOf[c] \in Loops
  <2>1. TypeOK /\ 0 \in Loops BY NextLoopType DEF IndInv
  <2>. QED BY <2>1, RunTypes DEF TypeOK
<1>1. /\ RunFunctor(0, "remove", c) /\ pc[0] = "functors" /\ Queue(loopOf[c], d)
      /\ connections_' = connections_ \ {c} /\ holders' = [holders EXCEPT ![c] = @ \ {"map"}]
      /\ UNCHANGED <<nextConnId_, polled, loopOf, pc>>
  BY DEF RunRemove, RunFunctor, Remove, Drop, serverVars
<1>2. /\ In(Queued(0), g) /\ (Once(Queued(0), g) => ~In(Queued(0)', g))
      /\ \A k \in Loops : \A f \in Functors :
            /\ In(Queued(k)', f) => In(Queued(k), f) \/ f = d
            /\ f # d /\ Once(Queued(k), f) => Once(Queued(k)', f)
  BY <1>0, <1>1, RemoveMoves
<1>3. \A b \in Conns : /\ Functor("established", b) \in Functors
                       /\ Functor("remove", b) \in Functors
                       /\ Functor("established", b) # d /\ Functor("remove", b) # d
                       /\ (Functor("remove", b) = g => b = c)
  BY DEF Functor, Functors
<1>4. Once(Queued(0), g) /\ c \in connections_ /\ c \notin polled /\ ~In(Queued(0)', g)
  BY <1>2 DEF IndInv, RemoveInv
<1>5. DrainInv' BY <1>0, <1>1 DEF IndInv, DrainInv, RunFunctor, TypeOK
<1>6. NewInv'
  <2>1. d.conn = c /\ c < nextConnId_
    BY <1>4 DEF IndInv, NewInv, Functor
  <2>. QED BY <1>1, <1>2, <2>1 DEF IndInv, NewInv
<1>. HIDE DEF g, d
<1>7. EstablishedInv'
  <2>1. ASSUME NEW k \in Loops, NEW b \in Conns, In(Queued(k)', Functor("established", b))
        PROVE  /\ Once(Queued(k)', Functor("established", b))
               /\ k = loopOf[b] /\ b \in connections_' /\ b \notin polled
               /\ ~In(Queued(0)', Functor("remove", b))
    <3>1. In(Queued(k), Functor("established", b)) BY <2>1, <1>2, <1>3
    <3>2. /\ Once(Queued(k), Functor("established", b))
          /\ k = loopOf[b] /\ b \in connections_ /\ b \notin polled
          /\ ~In(Queued(0), Functor("remove", b))
      BY <3>1 DEF IndInv, EstablishedInv
    <3>3. b # c BY <3>2, <1>2 DEF g
    <3>. QED BY <3>2, <3>3, <1>0, <1>1, <1>2, <1>3
  <2>. QED BY <2>1, <1>1 DEF EstablishedInv
<1>8. RemoveInv'
  <2>1. ASSUME NEW b \in Conns, In(Queued(0)', Functor("remove", b))
        PROVE  /\ Once(Queued(0)', Functor("remove", b))
               /\ b \in connections_' /\ b \notin polled
    <3>1. In(Queued(0), Functor("remove", b)) BY <2>1, <1>0, <1>2, <1>3
    <3>2. Once(Queued(0), Functor("remove", b)) /\ b \in connections_ /\ b \notin polled
      BY <3>1 DEF IndInv, RemoveInv
    <3>3. b # c BY <2>1, <1>4 DEF g
    <3>. QED BY <3>2, <3>3, <1>0, <1>1, <1>2, <1>3
  <2>. QED BY <2>1, <1>1 DEF RemoveInv
<1>9. ListedInv' BY <1>0, <1>1, <1>4 DEF IndInv, ListedInv, TypeOK
<1>. QED BY <1>0, <1>5, <1>6, <1>7, <1>8, <1>9 DEF IndInv

\* connectDestroyed() and a lambda without its pointer only take a functor.
LEMMA DestroyedKeeps ==
    ASSUME IndInv, NEW l \in Loops, NEW c \in Conns, RunDestroyed(l, c) \/ RunDangling(l, c)
    PROVE  IndInv'
<1>0. TypeOK /\ TypeOK' BY RunTypes DEF IndInv
<1>1. /\ \E op \in {"established", "destroyed"} : RunFunctor(l, op, c)
      /\ UNCHANGED <<nextConnId_, connections_, polled, loopOf, holders, pending>>
      /\ pc' = pc \/ pc' = [pc EXCEPT ![l] = "destroy"]
  BY DEF RunDestroyed, RunDangling, serverVars
<1>2. PICK op \in {"established", "destroyed"} : RunFunctor(l, op, c) BY <1>1
<1>3. Shrunk(l, Functor(op, c)) BY <1>0, <1>1, <1>2, QueueShrinks
<1>4. DrainInv' BY <1>0, <1>1, <1>2 DEF IndInv, DrainInv, RunFunctor, TypeOK
<1>5. NewInv' /\ EstablishedInv' /\ RemoveInv' /\ ListedInv'
  <2>1. \A k \in Loops : \A f \in Functors :
           /\ In(Queued(k)', f) => In(Queued(k), f)
           /\ Once(Queued(k), f) => Once(Queued(k)', f)
    BY <1>3 DEF Shrunk
  <2>2. /\ \A b \in Conns : "map" \in holders[b] => "map" \in holders'[b]
        /\ UNCHANGED <<nextConnId_, connections_, polled, loopOf>>
    BY <1>1
  <2>. QED BY <2>1, <2>2, NothingNew
<1>. QED BY <1>0, <1>4, <1>5 DEF IndInv

\* newConnection() keeps the invariant: of the new connection nothing is queued,
\* and connectEstablished() is queued or was called.
LEMMA NewConnectionKeeps ==
    ASSUME IndInv, NEW keep \in BOOLEAN, NewConnection(keep)
    PROVE  IndInv'
<1>. DEFINE c == nextConnId_
            e == Functor("established", c)
            o == GetNextLoop
<1>0. TypeOK /\ TypeOK' /\ 0 \in Loops /\ o \in Loops BY NewConnectionTypes, NextLoopType DEF IndInv
<1>1. /\ c \in Conns /\ c \in Nat /\ pc[0] = "idle" /\ e \in Functors /\ e.conn = c
      /\ nextConnId_' = c + 1 /\ connections_' = connections_ \cup {c}
      /\ loopOf' = [loopOf EXCEPT ![c] = o] /\ pc' = [pc EXCEPT ![0] = "accept"]
      /\ UNCHANGED functors
  BY DEF NewConnection, HandleRead, Conns, Functor, Functors
<1>2. \/ o = 0 /\ polled' = polled \cup {c} /\ UNCHANGED pending
      \/ Queue(o, e) /\ UNCHANGED polled
  BY DEF NewConnection
<1>3. /\ "map" \in holders'[c]
      /\ \A b \in Conns \ {c} : holders'[b] = holders[b]
  <2>1. holders' = [holders EXCEPT ![c] = NewHolders \cup Kept(keep)]
        \/ holders' = [holders EXCEPT ![c] = NewHolders]
    BY DEF NewConnection
  <2>. QED BY <1>0, <1>1, <2>1 DEF TypeOK, NewHolders
<1>4. \A k \in Loops : \A f \in Functors : f.conn = c => ~In(Queued(k), f)
  BY <1>1 DEF IndInv, NewInv
<1>5. c \notin connections_ /\ c \notin polled BY <1>1 DEF IndInv, NewInv
<1>6. \A k \in Loops : \A f \in Functors :
         /\ In(Queued(k)', f) => In(Queued(k), f) \/ (k = o /\ f = e /\ UNCHANGED polled)
         /\ Once(Queued(k), f) /\ (f = e => ~In(Queued(k), f)) => Once(Queued(k)', f)
         /\ ~In(Queued(k), f) /\ In(Queued(k)', f) => Once(Queued(k)', f)
  <2>1. CASE UNCHANGED pending
    <3>1. \A k \in Loops : Queued(k)' = Queued(k) BY <2>1, <1>1, QueueSame
    <3>. QED BY <3>1
  <2>2. CASE Queue(o, e) /\ UNCHANGED polled
    <3>1. Grown(o, e) BY <2>2, <1>0, <1>1, QueueGrows
    <3>. QED BY <3>1, <2>2 DEF Grown
  <2>. QED BY <1>2, <2>1, <2>2
<1>7. \A b \in Conns : /\ Functor("established", b) \in Functors
                       /\ Functor("remove", b) \in Functors
                       /\ Functor("remove", b) # e
                       /\ Functor("established", b).conn = b /\ Functor("remove", b).conn = b
                       /\ (Functor("established", b) = e => b = c)
  BY DEF Functor, Functors
<1>8. DrainInv' BY <1>0, <1>1 DEF IndInv, DrainInv, TypeOK
<1>9. \A b \in polled' : b \in polled \/ b = c BY <1>2
<1>10. NewInv'
  <2>1. \A b \in connections_' \cup polled' : b < nextConnId_'
    <3>1. \A b \in connections_ \cup polled : b < c /\ b \in Nat
      BY <1>0 DEF IndInv, NewInv, TypeOK, Conns
    <3>2. \A b \in connections_' \cup polled' : b \in connections_ \cup polled \/ b = c
      BY <1>1, <1>9
    <3>. HIDE DEF c
    <3>. QED BY <1>1, <3>1, <3>2
  <2>2. ASSUME NEW k \in Loops, NEW f \in Functors, In(Queued(k)', f)
        PROVE  f.conn < nextConnId_'
    <3>1. f.conn \in Nat BY DEF Functors, Conns
    <3>2. In(Queued(k), f) \/ f = e BY <1>6, <2>2
    <3>3. In(Queued(k), f) => f.conn < c BY DEF IndInv, NewInv
    <3>4. f.conn < c \/ f.conn = c BY <1>1, <3>2, <3>3
    <3>. HIDE DEF c
    <3>. QED BY <1>1, <3>1, <3>4
  <2>. QED BY <2>1, <2>2 DEF NewInv
<1>. HIDE DEF c, e, o
<1>11. EstablishedInv'
  <2>1. ASSUME NEW k \in Loops, NEW b \in Conns, In(Queued(k)', Functor("established", b))
        PROVE  /\ Once(Queued(k)', Functor("established", b))
               /\ k = loopOf'[b] /\ b \in connections_' /\ b \notin polled'
               /\ ~In(Queued(0)', Functor("remove", b))
    <3>1. CASE b = c
      <4>1. ~In(Queued(k), Functor("established", b)) BY <1>4, <1>7, <3>1
      <4>2. k = o /\ UNCHANGED polled BY <4>1, <2>1, <1>6, <1>7
      <4>3. loopOf'[b] = o BY <3>1, <1>0, <1>1 DEF TypeOK
      <4>4. ~In(Queued(0)', Functor("remove", b)) BY <1>0, <1>4, <1>6, <1>7, <3>1
      <4>5. Once(Queued(k)', Functor("established", b)) BY <4>1, <2>1, <1>6, <1>7
      <4>. QED BY <3>1, <4>2, <4>3, <4>4, <4>5, <1>1, <1>5
    <3>2. CASE b # c
      <4>1. In(Queued(k), Functor("established", b)) BY <2>1, <1>6, <1>7, <3>2
      <4>2. /\ Once(Queued(k), Functor("established", b))
            /\ k = loopOf[b] /\ b \in connections_ /\ b \notin polled
            /\ ~In(Queued(0), Functor("remove", b))
        BY <4>1 DEF IndInv, EstablishedInv
      <4>3. loopOf'[b] = loopOf[b] BY <1>0, <1>1, <3>2 DEF TypeOK
      <4>4. ~In(Queued(0)', Functor("remove", b)) BY <4>2, <1>0, <1>6, <1>7
      <4>5. Once(Queued(k)', Functor("established", b)) BY <4>2, <1>6, <1>7, <3>2
      <4>. QED BY <3>2, <4>2, <4>3, <4>4, <4>5, <1>1, <1>9
    <3>. QED BY <3>1, <3>2
  <2>. QED BY <2>1 DEF EstablishedInv
<1>12. RemoveInv'
  <2>1. ASSUME NEW b \in Conns, In(Queued(0)', Functor("remove", b))
        PROVE  /\ Once(Queued(0)', Functor("remove", b))
               /\ b \in connections_' /\ b \notin polled'
    <3>1. In(Queued(0), Functor("remove", b)) BY <2>1, <1>0, <1>6, <1>7
    <3>2. Once(Queued(0), Functor("remove", b)) /\ b \in connections_ /\ b \notin polled
      BY <3>1 DEF IndInv, RemoveInv
    <3>3. b # c BY <3>2, <1>5
    <3>. QED BY <3>2, <3>3, <1>0, <1>1, <1>6, <1>7, <1>9
  <2>. QED BY <2>1 DEF RemoveInv
<1>13. ListedInv'
  <2>1. connections_ \subseteq Conns BY <1>0 DEF TypeOK
  <2>. QED BY <2>1, <1>1, <1>3, <1>9 DEF IndInv, ListedInv
<1>. QED BY <1>0, <1>8, <1>10, <1>11, <1>12, <1>13 DEF IndInv

\* handleClose() keeps the invariant: the connection was polled, so nothing of it
\* was queued, and it is polled no more.
LEMMA HandleCloseKeeps ==
    ASSUME IndInv, NEW c \in Conns, HandleClose(c)
    PROVE  IndInv'
<1>. DEFINE l == loopOf[c]
            r == Functor("remove", c)
            d == Functor("destroyed", c)
<1>0. TypeOK /\ TypeOK' /\ 0 \in Loops /\ l \in Loops
  <2>1. TypeOK /\ 0 \in Loops BY NextLoopType DEF IndInv
  <2>. QED BY <2>1, HandleCloseTypes DEF TypeOK
<1>1. /\ pc[l] = "idle" /\ c \in polled /\ polled' = polled \ {c}
      /\ pc' = [pc EXCEPT ![l] = "close"]
      /\ UNCHANGED <<nextConnId_, loopOf, functors>>
      /\ r \in Functors /\ d \in Functors /\ r.conn = c /\ d.conn = c
  BY DEF HandleClose, serverVars, Functor, Functors
<1>2. \A b \in Conns : /\ Functor("established", b) \in Functors
                       /\ Functor("remove", b) \in Functors
                       /\ Functor("established", b) # r /\ Functor("established", b) # d
                       /\ Functor("remove", b) # d
                       /\ (Functor("remove", b) = r <=> b = c)
  BY DEF Functor, Functors
<1>3. /\ c \in connections_ /\ c < nextConnId_
      /\ ~In(Queued(0), r)
      /\ \A k \in Loops : ~In(Queued(k), Functor("established", c))
  BY <1>1 DEF IndInv, ListedInv, NewInv, RemoveInv, EstablishedInv
<1>4. DrainInv' BY <1>0, <1>1 DEF IndInv, DrainInv, TypeOK
<1>. HIDE DEF l, r, d
<1>5. ASSUME NEW g \in {r, d}, NEW o \in Loops, Grown(o, g)
      PROVE  NewInv' <=> \A b \in connections_' \cup polled' : b < nextConnId_
  <2>1. \A k \in Loops : \A f \in Functors : In(Queued(k)', f) => In(Queued(k), f) \/ f.conn = c
    BY <1>1, <1>5 DEF Grown
  <2>. QED BY <2>1, <1>1, <1>3 DEF IndInv, NewInv
<1>6. CASE l = 0 /\ Remove(c) /\ holders' = [holders EXCEPT ![c] = (@ \ {"map"}) \cup {"self"}]
  <2>1. connections_' = connections_ \ {c} /\ Queue(l, d) BY <1>6 DEF Remove, l, d
  <2>2. Grown(l, d) BY <2>1, <1>0, <1>1, QueueGrows
  <2>3. NewInv' BY <2>1, <2>2, <1>0, <1>1, <1>5 DEF IndInv, NewInv
  <2>4. \A k \in Loops : \A b \in Conns :
           /\ In(Queued(k)', Functor("established", b)) <=> In(Queued(k), Functor("established", b))
           /\ Once(Queued(k), Functor("established", b))
                 => Once(Queued(k)', Functor("established", b))
           /\ In(Queued(k)', Functor("remove", b)) <=> In(Queued(k), Functor("remove", b))
           /\ Once(Queued(k), Functor("remove", b)) => Once(Queued(k)', Functor("remove", b))
    BY <2>2, <1>2 DEF Grown
  <2>5. EstablishedInv'
    <3>1. ASSUME NEW k \in Loops, NEW b \in Conns, In(Queued(k)', Functor("established", b))
          PROVE  /\ Once(Queued(k)', Functor("established", b))
                 /\ k = loopOf[b] /\ b \in connections_' /\ b \notin polled'
                 /\ ~In(Queued(0)', Functor("remove", b))
      <4>1. In(Queued(k), Functor("established", b)) /\ b # c BY <2>4, <3>1, <1>3
      <4>2. /\ Once(Queued(k), Functor("established", b))
            /\ k = loopOf[b] /\ b \in connections_ /\ b \notin polled
            /\ ~In(Queued(0), Functor("remove", b))
        BY <4>1 DEF IndInv, EstablishedInv
      <4>. QED BY <4>1, <4>2, <2>1, <2>4, <1>0, <1>1
    <3>. QED BY <3>1, <1>1 DEF EstablishedInv
  <2>6. RemoveInv'
    <3>1. ASSUME NEW b \in Conns, In(Queued(0)', Functor("remove", b))
          PROVE  /\ Once(Queued(0)', Functor("remove", b))
                 /\ b \in connections_' /\ b \notin polled'
      <4>1. In(Queued(0), Functor("remove", b)) /\ b # c BY <2>4, <3>1, <1>0, <1>2, <1>3
      <4>2. Once(Queued(0), Functor("remove", b)) /\ b \in connections_ /\ b \notin polled
        BY <4>1 DEF IndInv, RemoveInv
      <4>. QED BY <4>1, <4>2, <2>1, <2>4, <1>0, <1>1
    <3>. QED BY <3>1 DEF RemoveInv
  <2>7. ListedInv' BY <2>1, <1>0, <1>1, <1>6 DEF IndInv, ListedInv, TypeOK
  <2>. QED BY <1>0, <1>4, <2>3, <2>5, <2>6, <2>7 DEF IndInv
<1>7. CASE /\ Queue(0, r)
           /\ holders' = [holders EXCEPT ![c] = @ \cup {"self", "functor"}]
           /\ UNCHANGED connections_
  <2>2. Grown(0, r) BY <1>7, <1>0, <1>1, QueueGrows
  <2>3. NewInv' BY <2>2, <1>0, <1>1, <1>5, <1>7 DEF IndInv, NewInv
  <2>4. \A k \in Loops : \A b \in Conns :
           /\ In(Queued(k)', Functor("established", b)) <=> In(Queued(k), Functor("established", b))
           /\ Once(Queued(k), Functor("established", b))
                 => Once(Queued(k)', Functor("established", b))
    BY <2>2, <1>2 DEF Grown
  <2>5. \A b \in Conns :
           /\ In(Queued(0)', Functor("remove", b)) <=> In(Queued(0), Functor("remove", b)) \/ b = c
           /\ b # c /\ Once(Queued(0), Functor("remove", b))
                 => Once(Queued(0)', Functor("remove", b))
    BY <2>2, <1>0, <1>2 DEF Grown
  <2>6. Once(Queued(0)', r) BY <2>2, <1>0, <1>1, <1>3 DEF Grown
  <2>7. EstablishedInv'
    <3>1. ASSUME NEW k \in Loops, NEW b \in Conns, In(Queued(k)', Functor("established", b))
          PROVE  /\ Once(Queued(k)', Functor("established", b))
                 /\ k = loopOf[b] /\ b \in connections_ /\ b \notin polled'
                 /\ ~In(Queued(0)', Functor("remove", b))
      <4>1. In(Queued(k), Functor("established", b)) /\ b # c BY <2>4, <3>1, <1>3
      <4>2. /\ Once(Queued(k), Functor("established", b))
            /\ k = loopOf[b] /\ b \in connections_ /\ b \notin polled
            /\ ~In(Queued(0), Functor("remove", b))
        BY <4>1 DEF IndInv, EstablishedInv
      <4>. QED BY <4>1, <4>2, <2>4, <2>5, <1>1
    <3>. QED BY <3>1, <1>1, <1>7 DEF EstablishedInv
  <2>8. RemoveInv'
    <3>1. ASSUME NEW b \in Conns, In(Queued(0)', Functor("remove", b))
          PROVE  /\ Once(Queued(0)', Functor("remove", b))
                 /\ b \in connections_ /\ b \notin polled'
      <4>1. CASE b = c BY <4>1, <2>6, <1>1, <1>2, <1>3
      <4>2. CASE b # c
        <5>1. Once(Queued(0), Functor("remove", b)) /\ b \in connections_ /\ b \notin polled
          BY <3>1, <4>2, <2>5 DEF IndInv, RemoveInv
        <5>. QED BY <4>2, <5>1, <2>5, <1>1
      <4>. QED BY <4>1, <4>2
    <3>. QED BY <3>1, <1>7 DEF RemoveInv
  <2>9. ListedInv' BY <1>0, <1>1, <1>7 DEF IndInv, ListedInv, TypeOK
  <2>. QED BY <1>0, <1>4, <2>3, <2>7, <2>8, <2>9 DEF IndInv
<1>. QED BY <1>6, <1>7 DEF HandleClose, l, r

-----------------------------------------------------------------------------
LEMMA InitInv == Init => IndInv
<1>. SUFFICES ASSUME Init PROVE IndInv OBVIOUS
<1>1. 0 \in Loops BY TcpServerAssumption DEF Loops
<1>2. \A l \in Loops : functors[l] = << >> /\ pending[l] = << >> BY DEF Init
<1>3. TypeOK
  <2>1. << >> \in Seq(Functors) OBVIOUS
  <2>2. /\ numThreads_ \in 0..MaxThreads /\ next_ \in Nat
        /\ (numThreads_ > 0 => next_ < numThreads_)
        /\ nextConnId_ \in Nat \ {0}
    BY TcpServerAssumption DEF Init, PoolInit
  <2>3. /\ started_ \in BOOLEAN /\ listenning_ \in BOOLEAN
        /\ undefined \in BOOLEAN /\ aborted \in BOOLEAN
    BY DEF Init, AcceptorInit
  <2>4. /\ connections_ \subseteq Conns /\ polled \subseteq Conns
        /\ loopOf \in [Conns -> Loops]
        /\ state_ \in [Conns -> {"none", "kConnecting", "kConnected", "kDisconnected"}]
        /\ holders \in [Conns -> SUBSET {"local", "map", "self", "functor", "user"}]
    BY <1>1 DEF Init
  <2>5. /\ pending \in [Loops -> Seq(Functors)] /\ functors \in [Loops -> Seq(Functors)]
        /\ pc \in [Loops -> {"idle", "accept", "close", "functors", "destroy"}]
        /\ current \in [Loops -> Conns \cup {0}]
    BY <2>1 DEF Init
  <2>. QED BY <2>2, <2>3, <2>4, <2>5 DEF TypeOK
<1>4. \A l \in Loops : \A f : ~In(Queued(l), f)
  <2>1. \A l \in Loops : Queued(l) = << >> BY <1>2 DEF Queued
  <2>2. \A f : ~In(<< >>, f) BY DEF In
  <2>. QED BY <2>1, <2>2
<1>5. connections_ = {} /\ polled = {} BY DEF Init
<1>6. DrainInv BY <1>2 DEF DrainInv
<1>. QED BY <1>1, <1>3, <1>4, <1>5, <1>6
        DEF IndInv, NewInv, EstablishedInv, RemoveInv, ListedInv

LEMMA Invariance == Spec => []IndInv
<1>1. IndInv /\ [Next]_vars => IndInv'
  <2>. SUFFICES ASSUME IndInv, [Next]_vars PROVE IndInv' OBVIOUS
  <2>1. CASE \/ StartHere \/ Start \/ AcceptFails
    BY <2>1, SimpleKeeps
  <2>2. CASE \E keep \in BOOLEAN : NewConnection(keep) BY <2>2, NewConnectionKeeps
  <2>3. CASE \E c \in Conns : HandleClose(c) \/ UserRelease(c)
    BY <2>3, HandleCloseKeeps, SimpleKeeps
  <2>4. ASSUME NEW l \in Loops, LoopStep(l) PROVE IndInv'
    BY <2>4, SimpleKeeps, EstablishedKeeps, DestroyedKeeps, RemoveKeeps DEF LoopStep
  <2>5. CASE UNCHANGED vars
    <3>1. \A l \in Loops : Queued(l)' = Queued(l) BY <2>5 DEF vars, loopVars, Queued
    <3>2. TypeOK' /\ DrainInv'
      BY <2>5 DEF IndInv, TypeOK, DrainInv, vars, serverVars, loopVars, endVars
    <3>3. UNCHANGED <<nextConnId_, connections_, polled, loopOf, holders>>
      BY <2>5 DEF vars, serverVars
    <3>4. NewInv' /\ EstablishedInv' /\ RemoveInv' /\ ListedInv' BY <3>1, <3>3, NothingNew
    <3>. QED BY <3>2, <3>4 DEF IndInv
  <2>. QED BY <2>1, <2>2, <2>3, <2>4, <2>5 DEF Next
<1>. QED BY <1>1, InitInv, PTL DEF Spec

\* A removal waits in the queues of loop_ that the invariant speaks of.
LEMMA RemovalIsQueued ==
    ASSUME TypeOK, NEW c \in Conns
    PROVE  RemovalQueued(c) <=> In(Queued(0), Functor("remove", c))
<1>1. pending[0] \in Seq(Functors) /\ functors[0] \in Seq(Functors)
  BY NextLoopType DEF TypeOK
<1>2. RemovalQueued(c) <=> In(functors[0], Functor("remove", c)) \/ In(pending[0], Functor("remove", c))
  BY DEF RemovalQueued, In
<1>. QED BY <1>1, <1>2, ConcatQueues DEF Queued

\* What connections_ lists is held by it; a Channel that poll() may report belongs to
\* a listed connection; a removal under way finds its connection in the map, as
\* removeConnectionInLoop() asserts, and its Channel polled no more.
THEOREM ConnectionsStayConsistent == Spec => []ConnectionsAgree
<1>1. IndInv => ConnectionsAgree
  <2>. SUFFICES ASSUME IndInv PROVE ConnectionsAgree OBVIOUS
  <2>1. \A c \in Conns : RemovalQueued(c) <=> In(Queued(0), Functor("remove", c))
    BY RemovalIsQueued DEF IndInv
  <2>2. polled \subseteq Conns BY DEF IndInv, TypeOK
  <2>. QED BY <2>1, <2>2 DEF IndInv, RemoveInv, ListedInv, ConnectionsAgree
<1>. QED BY <1>1, Invariance, PTL

=============================================================================
