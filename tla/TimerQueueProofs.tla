-------------------------- MODULE TimerQueueProofs --------------------------
(***************************************************************************)
(* Proofs about TimerQueue for every heap, every number of threads, timers *)
(* and queued requests and every behaviour of the clocks: the two sets     *)
(* agree, no pointer dangles although addresses are used again, what has   *)
(* run or was cancelled does not come back, and cancelling is precise.     *)
(***************************************************************************)
EXTENDS TimerQueue, SequenceTheorems, TLAPS

PendingRequests ==
    [op : {"add"}, timer : Addrs] \cup [op : {"cancel"}, timer : Addrs \X Nat]

AddRequest(a) == [op |-> "add", timer |-> a]
CancelRequest(id) == [op |-> "cancel", timer |-> id]

\* the TimerId of the object that is at a now
Id(a) == <<a, Sequence(a)>>

InQueue(q, a) == \E i \in DOMAIN q : q[i] = AddRequest(a)
UniqueAdds(q) == \A i, j \in DOMAIN q : q[i].op = "add" /\ q[i] = q[j] => i = j
Cancels(q) == {q[i].timer : i \in {j \in DOMAIN q : q[j].op = "cancel"}}

TypeOK ==
    /\ heap \in [Addrs -> [sequence : Nat, expiration : Int, interval : Nat]]
    /\ s_numCreated_ \in Nat
    /\ timers_ \subseteq Int \X Addrs /\ expired \subseteq Int \X Addrs
    /\ toRun \subseteq expired
    /\ now \in Int /\ wall \in Int
    /\ pc \in {"loop", "run", "callback"}
    /\ pending \in Seq(PendingRequests)
    /\ adding \in [Threads -> Addrs \cup {NoTimer}]

\* Sequence numbers come from s_numCreated_, which only grows, and no id has the
\* number of a freed object.
IdsInv ==
    /\ \A a \in Addrs : Sequence(a) <= s_numCreated_
    /\ activeTimers_ \cup issued \cup cancelled \cup finished
          \subseteq Addrs \X (1..s_numCreated_)

TypeInv == TypeOK /\ IdsInv

\* A timer in the batch is in neither set, and handleRead() knows of a cancel.
ExpiredInv ==
    /\ pc = "loop" => expired = {}
    /\ pc # "loop" => callingExpiredTimers_
    /\ \A e \in expired :
          /\ Id(e[2]) \notin activeTimers_
          /\ Id(e[2]) \in cancelled => Id(e[2]) \in cancelingTimers_ \cup tooEarly

\* A timer whose addTimerInLoop() is queued is nowhere else.
PendingInv ==
    /\ \A a \in Addrs : InQueue(pending, a) =>
          /\ Id(a) \notin activeTimers_ \cup finished
          /\ \A e \in expired : e[2] # a
          /\ Id(a) \in cancelled => Id(a) \in tooEarly
    /\ UniqueAdds(pending)
    /\ Cancels(pending) \subseteq issued

\* Nobody can cancel a timer whose addTimer() has not returned.
AddingInv ==
    \A t \in Threads : adding[t] # NoTimer =>
        /\ Id(adding[t]) \notin issued
        /\ \A u \in Threads : adding[u] = adding[t] => u = t

FinishedInv == \A a \in Addrs : Id(a) \in finished => heap[a].interval = 0

IndInv ==
    /\ TypeInv /\ SetsAgree /\ NoUseAfterFree /\ ExpiredInv /\ PendingInv /\ AddingInv
    /\ FinishedInv /\ NoResurrection

-----------------------------------------------------------------------------
\* A request is queued.
LEMMA AppendRequest ==
    ASSUME NEW q \in Seq(PendingRequests), NEW r \in PendingRequests
    PROVE  /\ Append(q, r) \in Seq(PendingRequests)
           /\ \A a \in Addrs : InQueue(Append(q, r), a) <=> InQueue(q, a) \/ r = AddRequest(a)
           /\ (r.op = "add" => ~InQueue(q, r.timer)) /\ UniqueAdds(q) => UniqueAdds(Append(q, r))
           /\ r.op = "add" => Cancels(Append(q, r)) = Cancels(q)
           /\ r.op = "cancel" => Cancels(Append(q, r)) = Cancels(q) \cup {r.timer}
<1>1. /\ Append(q, r) \in Seq(PendingRequests)
      /\ Len(q) \in Nat /\ DOMAIN q = 1..Len(q)
      /\ DOMAIN Append(q, r) = 1..(Len(q) + 1)
      /\ \A i \in 1..Len(q) : Append(q, r)[i] = q[i]
      /\ Append(q, r)[Len(q) + 1] = r
  OBVIOUS
<1>2. \A i \in 1..(Len(q) + 1) : i \in 1..Len(q) \/ i = Len(q) + 1 BY <1>1
<1>3. /\ 1..Len(q) \subseteq 1..(Len(q) + 1) /\ Len(q) + 1 \in 1..(Len(q) + 1)
      /\ Len(q) + 1 \notin 1..Len(q)
  BY <1>1
<1>. DEFINE p == Append(q, r)
            n == Len(q) + 1
<1>4. /\ DOMAIN q \subseteq DOMAIN p /\ DOMAIN p = DOMAIN q \cup {n}
      /\ \A i \in DOMAIN q : p[i] = q[i]
      /\ p[n] = r /\ n \notin DOMAIN q
  BY <1>1, <1>2, <1>3
<1>. HIDE DEF p, n
<1>5. \A a \in Addrs : InQueue(p, a) <=> InQueue(q, a) \/ r = AddRequest(a)
  BY <1>4 DEF InQueue
<1>6. ASSUME r.op = "add" => ~InQueue(q, r.timer), UniqueAdds(q)
      PROVE  UniqueAdds(p)
  <2>1. \A i \in DOMAIN q : r.op = "add" => q[i] # r
    BY <1>6 DEF InQueue, AddRequest, PendingRequests
  <2>. QED BY <1>4, <1>6, <2>1 DEF UniqueAdds
<1>7. r.op = "add" => Cancels(p) = Cancels(q)
  BY <1>4 DEF Cancels
<1>8. r.op = "cancel" => Cancels(p) = Cancels(q) \cup {r.timer}
  BY <1>4 DEF Cancels
<1>. QED BY <1>1, <1>5, <1>6, <1>7, <1>8 DEF p

\* The oldest request is taken from the queue.
LEMMA TailRequest ==
    ASSUME NEW q \in Seq(PendingRequests), q # << >>
    PROVE  /\ Tail(q) \in Seq(PendingRequests) /\ Head(q) \in PendingRequests
           /\ \A a \in Addrs : InQueue(Tail(q), a) => InQueue(q, a)
           /\ Head(q).op = "add" => Head(q).timer \in Addrs /\ InQueue(q, Head(q).timer)
           /\ UniqueAdds(q) => UniqueAdds(Tail(q))
           /\ Head(q).op = "add" /\ UniqueAdds(q) => ~InQueue(Tail(q), Head(q).timer)
           /\ Cancels(Tail(q)) \subseteq Cancels(q)
           /\ Head(q).op = "cancel" => Head(q).timer \in Cancels(q)
<1>1. /\ Tail(q) \in Seq(PendingRequests) /\ Head(q) \in PendingRequests
      /\ Len(q) \in Nat \ {0} /\ DOMAIN q = 1..Len(q) /\ Head(q) = q[1]
      /\ DOMAIN Tail(q) = 1..(Len(q) - 1)
      /\ \A i \in 1..(Len(q) - 1) : Tail(q)[i] = q[i + 1]
  OBVIOUS
<1>2. /\ 1 \in DOMAIN q
      /\ \A i \in DOMAIN Tail(q) : i + 1 \in DOMAIN q /\ i + 1 # 1
      /\ \A i, j \in DOMAIN Tail(q) : i + 1 = j + 1 => i = j
  BY <1>1
<1>3. \A i \in DOMAIN Tail(q) : Tail(q)[i] = q[i + 1] BY <1>1
<1>4. Head(q).op = "add" => Head(q).timer \in Addrs /\ Head(q) = AddRequest(Head(q).timer)
  BY <1>1 DEF AddRequest, PendingRequests
<1>5. \A a \in Addrs : InQueue(Tail(q), a) => InQueue(q, a) BY <1>2, <1>3 DEF InQueue
<1>6. Head(q).op = "add" => InQueue(q, Head(q).timer) BY <1>1, <1>2, <1>4 DEF InQueue
<1>7. UniqueAdds(q) => UniqueAdds(Tail(q)) BY <1>2, <1>3 DEF UniqueAdds
<1>8. Head(q).op = "add" /\ UniqueAdds(q) => ~InQueue(Tail(q), Head(q).timer)
  BY <1>1, <1>2, <1>3, <1>4 DEF InQueue, UniqueAdds
<1>9. Cancels(Tail(q)) \subseteq Cancels(q) BY <1>2, <1>3 DEF Cancels
<1>10. Head(q).op = "cancel" => Head(q).timer \in Cancels(q) BY <1>1, <1>2 DEF Cancels
<1>. QED BY <1>1, <1>4, <1>5, <1>6, <1>7, <1>8, <1>9, <1>10

\* NoUseAfterFree speaks of the queue by index.
LEMMA QueueAllocated ==
    ASSUME NEW q \in Seq(PendingRequests), NEW P, P \subseteq Addrs
    PROVE  (\A i \in DOMAIN q : q[i].op = "add" => q[i].timer \in P)
               <=> (\A a \in Addrs : InQueue(q, a) => a \in P)
<1>1. \A i \in DOMAIN q : q[i] \in PendingRequests OBVIOUS
<1>2. \A i \in DOMAIN q : q[i].op = "add" => q[i] = AddRequest(q[i].timer) /\ q[i].timer \in Addrs
  BY <1>1 DEF PendingRequests, AddRequest
<1>3. \A a \in Addrs : AddRequest(a).op = "add" /\ AddRequest(a).timer = a
  BY DEF AddRequest
<1>. QED BY <1>2, <1>3 DEF InQueue

\* What the invariant says, by address: the Timers at addresses that are free, in
\* the sets, in the batch, queued and being added.
LEMMA Flat ==
    ASSUME IndInv
    PROVE  /\ \A a \in Addrs : heap[a] \in [sequence : Nat, expiration : Int, interval : Nat]
           /\ \A e \in timers_ : /\ e[1] \in Int /\ e[2] \in Addrs /\ e = <<e[1], e[2]>>
                                 /\ Expiration(e[2]) = e[1] /\ Id(e[2]) \in activeTimers_
                                 /\ Allocated(e[2])
           /\ \A e \in expired : /\ e[1] \in Int /\ e[2] \in Addrs /\ e = <<e[1], e[2]>>
                                 /\ Allocated(e[2])
           /\ \A id \in activeTimers_ : /\ id[1] \in Addrs /\ id = Id(id[1]) /\ Allocated(id[1])
                                        /\ <<Expiration(id[1]), id[1]>> \in timers_
           /\ \A a \in Addrs : InQueue(pending, a) => Allocated(a)
           /\ \A t \in Threads : adding[t] # NoTimer => adding[t] \in Addrs /\ Allocated(adding[t])
<1>1. TypeOK /\ IdsInv /\ SetsAgree /\ NoUseAfterFree BY DEF IndInv, TypeInv
<1>2. \A a \in Addrs : heap[a] \in [sequence : Nat, expiration : Int, interval : Nat]
  BY <1>1 DEF TypeOK
<1>3. \A e \in timers_ \cup expired : e[1] \in Int /\ e[2] \in Addrs /\ e = <<e[1], e[2]>>
  BY <1>1 DEF TypeOK
<1>4. \A e \in timers_ : Expiration(e[2]) = e[1] /\ Id(e[2]) \in activeTimers_
  BY <1>1 DEF SetsAgree, Id
<1>5. \A e \in timers_ \cup expired : Allocated(e[2])
  BY <1>1 DEF NoUseAfterFree
<1>6. \A id \in activeTimers_ : /\ id[1] \in Addrs /\ id[2] \in 1..s_numCreated_
                                /\ id = <<id[1], id[2]>>
  BY <1>1 DEF IdsInv
<1>7. \A id \in activeTimers_ : /\ id = Id(id[1])
                                /\ <<Expiration(id[1]), id[1]>> \in timers_
  BY <1>1, <1>6 DEF SetsAgree, Id
<1>8. \A id \in activeTimers_ : Allocated(id[1])
  <2>1. \A id \in activeTimers_ : <<Expiration(id[1]), id[1]>>[2] = id[1] OBVIOUS
  <2>. QED BY <1>5, <1>7, <2>1
<1>9. \A a \in Addrs : InQueue(pending, a) => Allocated(a)
  <2>1. pending \in Seq(PendingRequests) BY <1>1 DEF TypeOK
  <2>. DEFINE P == {a \in Addrs : Allocated(a)}
  <2>2. \A i \in DOMAIN pending : pending[i].op = "add" => pending[i].timer \in P
    BY <1>1, <2>1 DEF NoUseAfterFree, PendingRequests
  <2>. QED BY <2>1, <2>2, QueueAllocated
<1>10. \A t \in Threads : adding[t] # NoTimer => adding[t] \in Addrs /\ Allocated(adding[t])
  BY <1>1 DEF NoUseAfterFree, TypeOK
<1>. QED BY <1>2, <1>3, <1>4, <1>5, <1>6, <1>7, <1>8, <1>9, <1>10

\* The queue's part of NoUseAfterFree after a step, from what is known by address.
LEMMA QueueSafe ==
    ASSUME TypeOK', \A a \in Addrs : InQueue(pending', a) => Allocated(a)'
    PROVE  (\A i \in DOMAIN pending : pending[i].op = "add" => Allocated(pending[i].timer))'
<1>. DEFINE P == {a \in Addrs : Allocated(a)'}
<1>1. pending' \in Seq(PendingRequests) BY DEF TypeOK
<1>2. \A i \in DOMAIN pending' : pending'[i].op = "add" => pending'[i].timer \in P
  BY <1>1, QueueAllocated
<1>. QED BY <1>2 DEF Allocated, Sequence

\* new Timer takes an address that nothing refers to, and a new number.
LEMMA NewTimerFacts ==
    ASSUME IndInv, NEW a \in Addrs, NEW request \in Requests, NewTimer(a, request)
    PROVE  /\ heap' \in [Addrs -> [sequence : Nat, expiration : Int, interval : Nat]]
           /\ s_numCreated_ \in Nat /\ s_numCreated_' = s_numCreated_ + 1
           /\ heap'[a].sequence = s_numCreated_ + 1
           /\ \A b \in Addrs : b # a => heap'[b] = heap[b]
           /\ <<a, s_numCreated_ + 1>> \notin activeTimers_ \cup issued \cup cancelled \cup finished
           /\ \A e \in timers_ \cup expired : e[2] # a
           /\ \A id \in activeTimers_ : id[1] # a
           /\ ~InQueue(pending, a)
           /\ \A t \in Threads : adding[t] # a
<1>1. TypeOK /\ IdsInv BY DEF IndInv, TypeInv
<1>2. ~Allocated(a) /\ s_numCreated_' = s_numCreated_ + 1
      /\ heap' = [heap EXCEPT ![a] = [sequence |-> s_numCreated_ + 1,
                                      expiration |-> wall + request[1],
                                      interval |-> request[2]]]
  BY DEF NewTimer
<1>3. request[1] \in Nat /\ request[2] \in Nat BY TimeAssumption DEF Requests
<1>4. /\ heap' \in [Addrs -> [sequence : Nat, expiration : Int, interval : Nat]]
      /\ heap'[a].sequence = s_numCreated_ + 1
      /\ \A b \in Addrs : b # a => heap'[b] = heap[b]
  BY <1>1, <1>2, <1>3 DEF TypeOK
<1>5. <<a, s_numCreated_ + 1>> \notin activeTimers_ \cup issued \cup cancelled \cup finished
  BY <1>1 DEF IdsInv, TypeOK
<1>6. \A e \in timers_ \cup expired : e[2] # a BY <1>2, Flat
<1>7. \A id \in activeTimers_ : id[1] # a BY <1>2, Flat
<1>8. ~InQueue(pending, a) BY <1>2, Flat
<1>9. \A t \in Threads : adding[t] # a
  <2>1. a # NoTimer BY TimeAssumption
  <2>. QED BY <1>2, <2>1, Flat
<1>10. s_numCreated_ \in Nat BY <1>1 DEF TypeOK
<1>. QED BY <1>2, <1>4, <1>5, <1>6, <1>7, <1>8, <1>9, <1>10

\* The ids and Timers at other addresses are not affected by new Timer.
LEMMA OthersUnchanged ==
    ASSUME NEW a \in Addrs, NEW b \in Addrs, a # b => heap'[b] = heap[b]
    PROVE  a # b => /\ Id(b)' = Id(b) /\ Sequence(b)' = Sequence(b)
                    /\ Expiration(b)' = Expiration(b) /\ (Allocated(b)' <=> Allocated(b))
  BY DEF Id, Sequence, Expiration, Allocated

\* addTimer() on the loop's thread keeps the invariant.
LEMMA AddTimerHereKeeps ==
    ASSUME IndInv, NEW a \in Addrs, NEW request \in Requests, AddTimerHere(a, request)
    PROVE  IndInv'
<1>. DEFINE s == s_numCreated_ + 1
            x == heap'[a].expiration
<1>1. /\ NewTimer(a, request)
      /\ timers_' = timers_ \cup {<<x, a>>}
      /\ activeTimers_' = activeTimers_ \cup {<<a, heap'[a].sequence>>}
      /\ issued' = issued \cup {<<a, s_numCreated_'>>}
      /\ UNCHANGED <<cancelingTimers_, expired, toRun, now, pc, callingExpiredTimers_, pending,
                     adding, wall, cancelled, tooEarly, finished>>
  BY DEF AddTimerHere, AddTimerInLoop, batchVars, clockVars
<1>2. /\ heap' \in [Addrs -> [sequence : Nat, expiration : Int, interval : Nat]]
      /\ s_numCreated_ \in Nat /\ s_numCreated_' = s
      /\ heap'[a].sequence = s
      /\ <<a, s>> \notin activeTimers_ \cup issued \cup cancelled \cup finished
      /\ \A e \in timers_ \cup expired : e[2] # a
      /\ \A id \in activeTimers_ : id[1] # a
      /\ ~InQueue(pending, a)
      /\ \A t \in Threads : adding[t] # a
  BY <1>1, NewTimerFacts
<1>3. \A b \in Addrs : b # a =>
         /\ Id(b)' = Id(b) /\ Sequence(b)' = Sequence(b)
         /\ Expiration(b)' = Expiration(b) /\ (Allocated(b)' <=> Allocated(b))
         /\ heap'[b] = heap[b]
  BY <1>1, NewTimerFacts, OthersUnchanged
<1>4. Id(a)' = <<a, s>> /\ Sequence(a)' = s /\ Allocated(a)' /\ Expiration(a)' = x /\ x \in Int
  BY <1>2 DEF Id, Sequence, Allocated, Expiration
<1>5. TypeOK'
  <2>1. TypeOK BY DEF IndInv, TypeInv
  <2>2. timers_' \subseteq Int \X Addrs BY <1>1, <1>4, <2>1 DEF TypeOK
  <2>3. s_numCreated_' \in Nat BY <1>2
  <2>. QED BY <1>1, <1>2, <2>1, <2>2, <2>3 DEF TypeOK
<1>6. IdsInv'
  <2>1. \A b \in Addrs : Sequence(b)' \in Nat BY <1>2 DEF Sequence
  <2>2. \A b \in Addrs : Sequence(b)' <= s
    BY <1>2, <1>3, <1>4, <2>1 DEF IndInv, TypeInv, IdsInv
  <2>3. 1..s_numCreated_ \subseteq 1..s /\ s \in 1..s BY <1>2
  <2>. QED BY <1>1, <1>2, <2>2, <2>3 DEF IndInv, TypeInv, IdsInv
<1>. HIDE DEF s, x
<1>7. timers_' = timers_ \cup {<<x, a>>} /\ activeTimers_' = activeTimers_ \cup {<<a, s>>}
  BY <1>1, <1>2
<1>8. SetsAgree'
  <2>1. ASSUME NEW e \in timers_'
        PROVE  Expiration(e[2])' = e[1] /\ Id(e[2])' \in activeTimers_'
    <3>1. CASE e \in timers_ BY <3>1, <1>2, <1>3, <1>7, Flat
    <3>2. CASE e = <<x, a>> BY <3>2, <1>4, <1>7
    <3>. QED BY <1>7, <3>1, <3>2
  <2>2. ASSUME NEW id \in activeTimers_'
        PROVE  Sequence(id[1])' = id[2] /\ <<Expiration(id[1])', id[1]>> \in timers_'
    <3>1. CASE id \in activeTimers_
      <4>1. /\ id[1] \in Addrs /\ id[1] # a /\ id = Id(id[1])
            /\ <<Expiration(id[1]), id[1]>> \in timers_
        BY <3>1, <1>2, Flat
      <4>2. id[2] = Sequence(id[1]) BY <4>1 DEF Id
      <4>. QED BY <4>1, <4>2, <1>3, <1>7
    <3>2. CASE id = <<a, s>> BY <3>2, <1>4, <1>7
    <3>. QED BY <1>7, <3>1, <3>2
  <2>. QED BY <2>1, <2>2 DEF SetsAgree, Id
<1>9. NoUseAfterFree'
  <2>1. \A e \in (timers_ \cup expired)' : Allocated(e[2])'
    <3>1. \A e \in timers_ \cup expired : e[2] \in Addrs /\ Allocated(e[2]) BY Flat
    <3>. QED BY <3>1, <1>1, <1>2, <1>3, <1>4, <1>7
  <2>2. (\A i \in DOMAIN pending : pending[i].op = "add" => Allocated(pending[i].timer))'
    <3>1. \A b \in Addrs : InQueue(pending', b) => Allocated(b)'
      <4>1. \A b \in Addrs : InQueue(pending', b) => InQueue(pending, b) /\ b # a
        BY <1>1, <1>2
      <4>. QED BY <4>1, <1>3, Flat
    <3>. QED BY <3>1, <1>5, QueueSafe
  <2>3. (\A t \in Threads : adding[t] # NoTimer => Allocated(adding[t]))'
    <3>1. ASSUME NEW t \in Threads, adding[t] # NoTimer PROVE Allocated(adding[t])'
      <4>1. adding[t] \in Addrs /\ adding[t] # a /\ Allocated(adding[t])
        BY <3>1, <1>2, Flat
      <4>2. Allocated(adding[t])' <=> Allocated(adding[t])
        <5>1. heap'[adding[t]] = heap[adding[t]] /\ adding'[t] = adding[t]
          BY <4>1, <1>1, <1>3
        <5>. QED BY <5>1 DEF Allocated, Sequence
      <4>. QED BY <4>1, <4>2
    <3>. QED BY <3>1, <1>1
  <2>. QED BY <2>1, <2>2, <2>3 DEF NoUseAfterFree
<1>10. ExpiredInv'
  <2>1. ASSUME NEW e \in expired
        PROVE  /\ Id(e[2])' \notin activeTimers_'
               /\ Id(e[2])' \in cancelled => Id(e[2])' \in cancelingTimers_ \cup tooEarly
    <3>1. e[2] \in Addrs /\ e[2] # a /\ Id(e[2])' = Id(e[2]) BY <1>2, <1>3, Flat
    <3>2. Id(e[2]) # <<a, s>> BY <3>1 DEF Id
    <3>. QED BY <3>1, <3>2, <1>7 DEF IndInv, ExpiredInv
  <2>. QED BY <2>1, <1>1 DEF IndInv, ExpiredInv
<1>11. PendingInv'
  <2>1. ASSUME NEW b \in Addrs, InQueue(pending, b)
        PROVE  /\ Id(b)' \notin activeTimers_' \cup finished
               /\ \A e \in expired : e[2] # b
               /\ Id(b)' \in cancelled => Id(b)' \in tooEarly
    <3>1. b # a /\ Id(b)' = Id(b) BY <2>1, <1>2, <1>3
    <3>2. Id(b) # <<a, s>> BY <3>1 DEF Id
    <3>. QED BY <2>1, <3>1, <3>2, <1>7 DEF IndInv, PendingInv
  <2>. QED BY <2>1, <1>1 DEF IndInv, PendingInv
<1>12. AddingInv'
  <2>1. ASSUME NEW t \in Threads, adding[t] # NoTimer PROVE Id(adding[t])' \notin issued'
    <3>1. adding[t] \in Addrs /\ adding[t] # a BY <2>1, <1>2, Flat
    <3>2. Id(adding[t])' = Id(adding[t])
      <4>1. heap'[adding[t]] = heap[adding[t]] /\ adding'[t] = adding[t]
        BY <3>1, <1>1, <1>3
      <4>. QED BY <4>1 DEF Id, Sequence
    <3>3. Id(adding[t]) # <<a, s>> BY <3>1 DEF Id
    <3>. QED BY <2>1, <3>2, <3>3, <1>1, <1>2 DEF IndInv, AddingInv
  <2>. QED BY <2>1, <1>1 DEF IndInv, AddingInv
<1>13. FinishedInv'
  BY <1>1, <1>2, <1>3, <1>4 DEF IndInv, FinishedInv
<1>14. NoResurrection'
  BY <1>1, <1>2, <1>7 DEF IndInv, NoResurrection
<1>. QED
  BY <1>5, <1>6, <1>8, <1>9, <1>10, <1>11, <1>12, <1>13, <1>14 DEF IndInv, TypeInv

\* addTimer() on another thread, up to runInLoop(), keeps the invariant.
LEMMA AddTimerKeeps ==
    ASSUME IndInv, NEW t \in Threads, NEW a \in Addrs, NEW request \in Requests,
           AddTimer(t, a, request)
    PROVE  IndInv'
<1>. DEFINE s == s_numCreated_ + 1
<1>1. /\ NewTimer(a, request)
      /\ adding[t] = NoTimer
      /\ pending' = Append(pending, AddRequest(a))
      /\ adding' = [adding EXCEPT ![t] = a]
      /\ UNCHANGED <<timers_, activeTimers_, cancelingTimers_, expired, toRun, now, pc,
                     callingExpiredTimers_, wall, issued, cancelled, tooEarly, finished>>
  BY DEF AddTimer, AddRequest, batchVars, clockVars, historyVars
<1>2. /\ heap' \in [Addrs -> [sequence : Nat, expiration : Int, interval : Nat]]
      /\ s_numCreated_ \in Nat /\ s_numCreated_' = s
      /\ heap'[a].sequence = s
      /\ <<a, s>> \notin activeTimers_ \cup issued \cup cancelled \cup finished
      /\ \A e \in timers_ \cup expired : e[2] # a
      /\ \A id \in activeTimers_ : id[1] # a
      /\ ~InQueue(pending, a)
      /\ \A u \in Threads : adding[u] # a
  BY <1>1, NewTimerFacts
<1>3. \A b \in Addrs : b # a =>
         /\ Id(b)' = Id(b) /\ Sequence(b)' = Sequence(b)
         /\ Expiration(b)' = Expiration(b) /\ (Allocated(b)' <=> Allocated(b))
         /\ heap'[b] = heap[b]
  BY <1>1, NewTimerFacts, OthersUnchanged
<1>4. Id(a)' = <<a, s>> /\ Sequence(a)' = s /\ Allocated(a)'
  BY <1>2 DEF Id, Sequence, Allocated
<1>5. /\ pending \in Seq(PendingRequests) /\ AddRequest(a) \in PendingRequests
      /\ AddRequest(a).op = "add" /\ AddRequest(a).timer = a
      /\ \A b \in Addrs : AddRequest(a) = AddRequest(b) => a = b
  BY DEF AddRequest, PendingRequests, IndInv, TypeInv, TypeOK
<1>6. /\ pending' \in Seq(PendingRequests)
      /\ \A b \in Addrs : InQueue(pending', b) <=> InQueue(pending, b) \/ b = a
      /\ UniqueAdds(pending')
      /\ Cancels(pending') = Cancels(pending)
  BY <1>1, <1>2, <1>5, AppendRequest DEF IndInv, PendingInv
<1>7. TypeOK'
  <2>1. adding' \in [Threads -> Addrs \cup {NoTimer}]
    BY <1>1 DEF IndInv, TypeInv, TypeOK
  <2>2. s_numCreated_' \in Nat BY <1>2
  <2>3. TypeOK BY DEF IndInv, TypeInv
  <2>4. UNCHANGED <<timers_, expired, toRun, now, wall, pc>> BY <1>1
  <2>5. heap' \in [Addrs -> [sequence : Nat, expiration : Int, interval : Nat]]
        /\ pending' \in Seq(PendingRequests)
    BY <1>2, <1>6
  <2>. QED BY <2>1, <2>2, <2>3, <2>4, <2>5 DEF TypeOK
<1>8. IdsInv'
  <2>1. \A b \in Addrs : Sequence(b)' \in Nat BY <1>2 DEF Sequence
  <2>2. \A b \in Addrs : Sequence(b)' <= s
    BY <1>2, <1>3, <1>4, <2>1 DEF IndInv, TypeInv, IdsInv
  <2>3. 1..s_numCreated_ \subseteq 1..s BY <1>2
  <2>. QED BY <1>1, <1>2, <2>2, <2>3 DEF IndInv, TypeInv, IdsInv
<1>. HIDE DEF s
<1>9. SetsAgree'
  <2>1. ASSUME NEW e \in timers_
        PROVE  Expiration(e[2])' = e[1] /\ Id(e[2])' \in activeTimers_
    BY <1>2, <1>3, Flat
  <2>2. ASSUME NEW id \in activeTimers_
        PROVE  Sequence(id[1])' = id[2] /\ <<Expiration(id[1])', id[1]>> \in timers_
    <3>1. /\ id[1] \in Addrs /\ id[1] # a /\ id = Id(id[1])
          /\ <<Expiration(id[1]), id[1]>> \in timers_
      BY <1>2, Flat
    <3>2. id[2] = Sequence(id[1]) BY <3>1 DEF Id
    <3>. QED BY <3>1, <3>2, <1>3
  <2>. QED BY <2>1, <2>2, <1>1 DEF SetsAgree, Id
<1>10. NoUseAfterFree'
  <2>1. \A e \in (timers_ \cup expired)' : Allocated(e[2])'
    BY <1>1, <1>2, <1>3, Flat
  <2>2. (\A i \in DOMAIN pending : pending[i].op = "add" => Allocated(pending[i].timer))'
    <3>1. \A b \in Addrs : InQueue(pending', b) => Allocated(b)'
      BY <1>3, <1>4, <1>6, Flat
    <3>. QED BY <3>1, <1>7, QueueSafe
  <2>3. ASSUME NEW u \in Threads, adding'[u] # NoTimer PROVE Allocated(adding[u])'
    <3>1. CASE u = t
      <4>1. adding'[u] = a BY <3>1, <1>1 DEF IndInv, TypeInv, TypeOK
      <4>2. heap'[a].sequence # 0 BY <1>4 DEF Allocated, Sequence
      <4>. QED BY <4>1, <4>2 DEF Allocated, Sequence
    <3>2. CASE u # t
      <4>1. adding'[u] = adding[u] BY <3>2, <1>1 DEF IndInv, TypeInv, TypeOK
      <4>2. adding[u] \in Addrs /\ adding[u] # a /\ Allocated(adding[u])
        BY <4>1, <2>3, <1>2, Flat
      <4>. QED BY <4>1, <4>2, <1>3 DEF Allocated, Sequence
    <3>. QED BY <3>1, <3>2
  <2>. QED BY <2>1, <2>2, <2>3 DEF NoUseAfterFree
<1>11. ExpiredInv'
  <2>1. \A e \in expired : e[2] \in Addrs /\ Id(e[2])' = Id(e[2]) BY <1>2, <1>3, Flat
  <2>. QED BY <2>1, <1>1 DEF IndInv, ExpiredInv
<1>12. PendingInv'
  <2>1. ASSUME NEW b \in Addrs, InQueue(pending', b)
        PROVE  /\ Id(b)' \notin activeTimers_ \cup finished
               /\ \A e \in expired : e[2] # b
               /\ Id(b)' \in cancelled => Id(b)' \in tooEarly
    <3>1. CASE b = a BY <3>1, <1>2, <1>4
    <3>2. CASE b # a BY <2>1, <3>2, <1>3, <1>6 DEF IndInv, PendingInv
    <3>. QED BY <3>1, <3>2
  <2>. QED BY <2>1, <1>1, <1>6 DEF IndInv, PendingInv
<1>13. AddingInv'
  <2>1. adding \in [Threads -> Addrs \cup {NoTimer}] BY DEF IndInv, TypeInv, TypeOK
  <2>2. ASSUME NEW u \in Threads, adding'[u] # NoTimer
        PROVE  /\ Id(adding[u])' \notin issued
               /\ \A v \in Threads : adding'[v] = adding'[u] => v = u
    <3>1. CASE u = t
      <4>1. adding'[u] = a BY <3>1, <2>1, <1>1
      <4>2. Id(adding[u])' = <<a, s>> BY <4>1, <1>2 DEF Id, Sequence
      <4>. QED BY <3>1, <4>1, <4>2, <2>1, <1>1, <1>2
    <3>2. CASE u # t
      <4>1. adding'[u] = adding[u] BY <3>2, <2>1, <1>1
      <4>2. adding[u] \in Addrs /\ adding[u] # a BY <4>1, <2>2, <1>2, Flat
      <4>3. Id(adding[u])' = Id(adding[u]) BY <4>1, <4>2, <1>3 DEF Id, Sequence
      <4>4. Id(adding[u]) \notin issued BY <4>1, <2>2 DEF IndInv, AddingInv
      <4>5. ASSUME NEW v \in Threads, adding'[v] = adding'[u] PROVE v = u
        <5>1. v # t BY <4>1, <4>2, <4>5, <2>1, <1>1
        <5>2. adding[v] = adding[u] BY <5>1, <4>1, <4>5, <2>1, <1>1
        <5>. QED BY <5>2, <4>1, <2>2 DEF IndInv, AddingInv
      <4>. QED BY <4>3, <4>4, <4>5
    <3>. QED BY <3>1, <3>2
  <2>. QED BY <2>2, <1>1 DEF AddingInv
<1>14. FinishedInv' BY <1>1, <1>2, <1>3, <1>4 DEF IndInv, FinishedInv
<1>15. NoResurrection' BY <1>1 DEF IndInv, NoResurrection
<1>. QED
  BY <1>7, <1>8, <1>9, <1>10, <1>11, <1>12, <1>13, <1>14, <1>15 DEF IndInv, TypeInv

\* addTimer() on another thread returns the TimerId.
LEMMA AddTimerReturnKeeps ==
    ASSUME IndInv, NEW t \in Threads, AddTimerReturn(t)
    PROVE  IndInv'
<1>1. /\ adding[t] # NoTimer
      /\ issued' = issued \cup {Id(adding[t])}
      /\ adding' = [adding EXCEPT ![t] = NoTimer]
      /\ UNCHANGED <<heap, s_numCreated_, timers_, activeTimers_, cancelingTimers_, expired,
                     toRun, now, pc, callingExpiredTimers_, pending, wall, cancelled, tooEarly,
                     finished>>
  BY DEF AddTimerReturn, Id, batchVars, clockVars
<1>2. adding[t] \in Addrs /\ Allocated(adding[t]) BY <1>1, Flat
<1>3. adding \in [Threads -> Addrs \cup {NoTimer}] BY DEF IndInv, TypeInv, TypeOK
<1>4. TypeOK'
  <2>1. adding' \in [Threads -> Addrs \cup {NoTimer}] BY <1>1, <1>3
  <2>. QED BY <2>1, <1>1 DEF IndInv, TypeInv, TypeOK
<1>5. IdsInv'
  <2>1. Sequence(adding[t]) \in 1..s_numCreated_
    <3>1. Sequence(adding[t]) \in Nat BY <1>2, Flat DEF Sequence
    <3>. QED BY <3>1, <1>2 DEF Allocated, IndInv, TypeInv, IdsInv, TypeOK
  <2>. QED BY <2>1, <1>1, <1>2 DEF IndInv, TypeInv, IdsInv, Id, Sequence
<1>6. \A u \in Threads : adding'[u] # NoTimer => u # t /\ adding'[u] = adding[u]
  BY <1>1, <1>3
<1>7. SetsAgree' BY <1>1 DEF IndInv, SetsAgree, Expiration, Sequence
<1>8. NoUseAfterFree'
  BY <1>1, <1>6 DEF IndInv, NoUseAfterFree, Allocated, Sequence
<1>9. ExpiredInv' BY <1>1 DEF IndInv, ExpiredInv, Id, Sequence
<1>10. PendingInv'
  BY <1>1 DEF IndInv, PendingInv, Id, Sequence, InQueue, UniqueAdds, Cancels
<1>11. AddingInv'
  <2>1. ASSUME NEW u \in Threads, adding'[u] # NoTimer
        PROVE  /\ Id(adding[u])' \notin issued'
               /\ \A v \in Threads : adding'[v] = adding'[u] => v = u
    <3>1. u # t /\ adding'[u] = adding[u] /\ adding[u] # adding[t]
      BY <2>1, <1>1, <1>6 DEF IndInv, AddingInv
    <3>2. Id(adding[u])' = Id(adding[u]) BY <3>1, <1>1 DEF Id, Sequence
    <3>3. Id(adding[u]) # Id(adding[t]) BY <3>1 DEF Id
    <3>. QED BY <2>1, <3>1, <3>2, <3>3, <1>1, <1>6 DEF IndInv, AddingInv
  <2>. QED BY <2>1 DEF AddingInv
<1>12. FinishedInv' BY <1>1 DEF IndInv, FinishedInv, Id, Sequence
<1>13. NoResurrection' BY <1>1 DEF IndInv, NoResurrection
<1>. QED
  BY <1>4, <1>5, <1>7, <1>8, <1>9, <1>10, <1>11, <1>12, <1>13 DEF IndInv, TypeInv

\* cancel() on another thread queues the request.
LEMMA CancelKeeps ==
    ASSUME IndInv, NEW t \in Threads, NEW id \in issued, Cancel(t, id)
    PROVE  IndInv'
<1>1. /\ pending' = Append(pending, CancelRequest(id))
      /\ UNCHANGED <<heap, s_numCreated_, timers_, activeTimers_, cancelingTimers_, expired,
                     toRun, now, pc, callingExpiredTimers_, adding, wall, issued, cancelled,
                     tooEarly, finished>>
  BY DEF Cancel, CancelRequest, batchVars, clockVars, historyVars
<1>2. id \in Addrs \X Nat
  BY DEF IndInv, TypeInv, IdsInv, TypeOK
<1>3. /\ pending \in Seq(PendingRequests) /\ CancelRequest(id) \in PendingRequests
      /\ CancelRequest(id).op = "cancel" /\ CancelRequest(id).timer = id
      /\ \A a \in Addrs : CancelRequest(id) # AddRequest(a)
  BY <1>2 DEF AddRequest, CancelRequest, PendingRequests, IndInv, TypeInv, TypeOK
<1>4. /\ pending' \in Seq(PendingRequests)
      /\ \A a \in Addrs : InQueue(pending', a) <=> InQueue(pending, a)
      /\ UniqueAdds(pending')
      /\ Cancels(pending') = Cancels(pending) \cup {id}
  BY <1>1, <1>3, AppendRequest DEF IndInv, PendingInv
<1>5. TypeOK' BY <1>1, <1>4 DEF IndInv, TypeInv, TypeOK
<1>6. IdsInv' BY <1>1 DEF IndInv, TypeInv, IdsInv, Sequence
<1>7. SetsAgree' BY <1>1 DEF IndInv, SetsAgree, Expiration, Sequence
<1>8. NoUseAfterFree'
  <2>1. \A a \in Addrs : InQueue(pending', a) => Allocated(a)'
    BY <1>1, <1>4, Flat DEF Allocated, Sequence
  <2>. QED
    BY <2>1, <1>1, <1>5, QueueSafe DEF IndInv, NoUseAfterFree, Allocated, Sequence
<1>9. ExpiredInv' BY <1>1 DEF IndInv, ExpiredInv, Id, Sequence
<1>10. PendingInv' BY <1>1, <1>4 DEF IndInv, PendingInv, Id, Sequence
<1>11. AddingInv' BY <1>1 DEF IndInv, AddingInv, Id, Sequence
<1>12. FinishedInv' BY <1>1 DEF IndInv, FinishedInv, Id, Sequence
<1>13. NoResurrection' BY <1>1 DEF IndInv, NoResurrection
<1>. QED
  BY <1>5, <1>6, <1>7, <1>8, <1>9, <1>10, <1>11, <1>12, <1>13 DEF IndInv, TypeInv

\* cancelInLoop() keeps the invariant, on the loop's thread and as a functor: the
\* queue does not grow.
LEMMA CancelInLoopKeeps ==
    ASSUME IndInv, NEW id \in issued, CancelInLoop(id),
           UNCHANGED <<s_numCreated_, batchVars, adding, wall, issued, finished>>,
           pending' \in Seq(PendingRequests),
           \A a \in Addrs : InQueue(pending', a) => InQueue(pending, a),
           UniqueAdds(pending'), Cancels(pending') \subseteq Cancels(pending)
    PROVE  IndInv'
<1>. DEFINE a == id[1]
<1>1. /\ UNCHANGED <<expired, toRun, now, pc, callingExpiredTimers_>>
      /\ cancelled' = cancelled \cup {id}
      /\ a \in Addrs /\ id \in Addrs \X (1..s_numCreated_)
  BY DEF CancelInLoop, batchVars, IndInv, TypeInv, IdsInv
<1>2. /\ tooEarly' \in {tooEarly, tooEarly \cup {id}}
      /\ InQueue(pending, a) /\ id = Id(a) => id \in tooEarly'
  <2>1. tooEarly' \in {tooEarly, tooEarly \cup {id}} BY DEF CancelInLoop
  <2>2. ASSUME InQueue(pending, a), id = Id(a) PROVE id \in tooEarly'
    <3>1. Sequence(id[1]) = id[2] BY <2>2, <1>1 DEF Id
    <3>2. \E i \in DOMAIN pending :
             pending[i] = [op |-> "add", timer |-> id[1]] /\ Sequence(id[1]) = id[2]
      BY <2>2, <3>1 DEF InQueue, AddRequest
    <3>. QED BY <3>2 DEF CancelInLoop
  <2>. QED BY <2>1, <2>2
<1>3. \/ /\ id \in activeTimers_ /\ id = Id(a)
         /\ timers_' = timers_ \ {<<Expiration(a), a>>}
         /\ activeTimers_' = activeTimers_ \ {id}
         /\ heap' = [heap EXCEPT ![a] = Freed]
         /\ UNCHANGED cancelingTimers_
      \/ /\ id \notin activeTimers_
         /\ callingExpiredTimers_ => cancelingTimers_' = cancelingTimers_ \cup {id}
         /\ cancelingTimers_ \subseteq cancelingTimers_'
         /\ UNCHANGED <<timers_, activeTimers_, heap>>
  BY Flat DEF CancelInLoop
\* Nothing but the two sets refers to what is deleted.
<1>4. ASSUME id \in activeTimers_
      PROVE  /\ ~InQueue(pending, a)
             /\ \A e \in expired : e[2] # a
             /\ \A t \in Threads : adding[t] # a
             /\ \A e \in timers_' : e \in timers_ /\ e[2] # a
             /\ \A x \in activeTimers_' : x \in activeTimers_ /\ x[1] # a
  <2>1. id = Id(a) BY <1>4, Flat
  <2>2. ~InQueue(pending, a) BY <1>1, <1>4, <2>1 DEF IndInv, PendingInv
  <2>3. \A e \in expired : e[2] # a BY <1>4, <2>1 DEF IndInv, ExpiredInv
  <2>4. \A t \in Threads : adding[t] # a
    <3>1. a # NoTimer BY <1>1, TimeAssumption
    <3>. QED BY <3>1, <2>1 DEF IndInv, AddingInv
  <2>5. \A e \in timers_' : e \in timers_ /\ e[2] # a
    BY <1>3, <1>4, Flat
  <2>6. \A x \in activeTimers_' : x \in activeTimers_ /\ x[1] # a
    BY <1>3, <1>4, <2>1, Flat
  <2>. QED BY <2>2, <2>3, <2>4, <2>5, <2>6
<1>5. /\ heap' \in [Addrs -> [sequence : Nat, expiration : Int, interval : Nat]]
      /\ \A b \in Addrs :
            \/ heap'[b] = heap[b]
            \/ b = a /\ id \in activeTimers_ /\ heap'[b] = Freed
  <2>1. heap \in [Addrs -> [sequence : Nat, expiration : Int, interval : Nat]]
        /\ Freed \in [sequence : Nat, expiration : Int, interval : Nat]
    BY DEF IndInv, TypeInv, TypeOK, Freed
  <2>. QED BY <1>1, <1>3, <2>1
<1>6. \A b \in Addrs : b # a \/ id \notin activeTimers_ =>
         /\ heap'[b] = heap[b]
         /\ Id(b)' = Id(b) /\ Sequence(b)' = Sequence(b)
         /\ Expiration(b)' = Expiration(b) /\ (Allocated(b)' <=> Allocated(b))
  BY <1>5 DEF Id, Sequence, Expiration, Allocated
<1>7. timers_' \subseteq timers_ /\ activeTimers_' \subseteq activeTimers_
      /\ id \notin activeTimers_'
  BY <1>3
<1>8. \A b \in Addrs : (\E e \in timers_' \cup expired : e[2] = b) \/ InQueue(pending', b)
         => b # a \/ id \notin activeTimers_
  BY <1>4
<1>9. TypeOK' BY <1>1, <1>5, <1>7 DEF IndInv, TypeInv, TypeOK
<1>10. IdsInv'
  <2>1. \A b \in Addrs : Sequence(b)' <= s_numCreated_
    <3>1. s_numCreated_ \in Nat /\ \A b \in Addrs : Sequence(b) <= s_numCreated_
      BY DEF IndInv, TypeInv, TypeOK, IdsInv
    <3>2. Freed.sequence = 0 /\ 0 <= s_numCreated_ BY <3>1 DEF Freed
    <3>. QED BY <3>1, <3>2, <1>5 DEF Sequence
  <2>. QED BY <2>1, <1>1, <1>7 DEF IndInv, TypeInv, IdsInv
<1>. HIDE DEF a
<1>11. SetsAgree'
  <2>1. ASSUME NEW e \in timers_'
        PROVE  Expiration(e[2])' = e[1] /\ Id(e[2])' \in activeTimers_'
    <3>1. /\ e[2] \in Addrs /\ Expiration(e[2]) = e[1] /\ Id(e[2]) \in activeTimers_
          /\ Expiration(e[2])' = Expiration(e[2]) /\ Id(e[2])' = Id(e[2])
      BY <1>6, <1>7, <1>8, Flat
    <3>2. Id(e[2]) \in activeTimers_'
      <4>1. CASE id \in activeTimers_
        <5>1. e[2] # a /\ id = Id(a) BY <4>1, <1>4, Flat DEF a
        <5>2. Id(e[2]) # id BY <5>1 DEF Id
        <5>. QED BY <3>1, <4>1, <5>2, <1>3
      <4>2. CASE id \notin activeTimers_ BY <3>1, <4>2, <1>3
      <4>. QED BY <4>1, <4>2
    <3>. QED BY <3>1, <3>2
  <2>2. ASSUME NEW x \in activeTimers_'
        PROVE  Sequence(x[1])' = x[2] /\ <<Expiration(x[1])', x[1]>> \in timers_'
    <3>1. /\ x \in activeTimers_ /\ x[1] \in Addrs /\ x = Id(x[1])
          /\ <<Expiration(x[1]), x[1]>> \in timers_ /\ (x[1] # a \/ id \notin activeTimers_)
      BY <1>4, <1>7, Flat
    <3>2. x[2] = Sequence(x[1]) BY <3>1 DEF Id
    <3>3. <<Expiration(x[1]), x[1]>> \in timers_' BY <3>1, <1>3
    <3>. QED BY <3>1, <3>2, <3>3, <1>6
  <2>. QED BY <2>1, <2>2 DEF SetsAgree, Id
<1>12. NoUseAfterFree'
  <2>1. \A e \in timers_' \cup expired : Allocated(e[2])'
    BY <1>6, <1>7, <1>8, Flat
  <2>2. \A b \in Addrs : InQueue(pending', b) => Allocated(b)'
    BY <1>6, <1>8, Flat
  <2>3. ASSUME NEW t \in Threads, adding'[t] # NoTimer PROVE Allocated(adding[t])'
    <3>1. /\ adding'[t] = adding[t] /\ adding[t] \in Addrs /\ Allocated(adding[t])
          /\ (adding[t] # a \/ id \notin activeTimers_)
      BY <2>3, <1>4, Flat
    <3>. QED BY <3>1, <1>6 DEF Allocated, Sequence
  <2>. QED BY <2>1, <2>2, <2>3, <1>1, <1>9, QueueSafe DEF NoUseAfterFree
<1>13. ExpiredInv'
  <2>1. ASSUME NEW e \in expired
        PROVE  /\ Id(e[2])' \notin activeTimers_'
               /\ Id(e[2])' \in cancelled' => Id(e[2])' \in cancelingTimers_' \cup tooEarly'
    <3>1. Id(e[2])' = Id(e[2]) BY <1>6, <1>8, Flat
    <3>2. Id(e[2]) \notin activeTimers_ /\ callingExpiredTimers_
          /\ (Id(e[2]) \in cancelled => Id(e[2]) \in cancelingTimers_ \cup tooEarly)
      BY DEF IndInv, ExpiredInv
    <3>. QED BY <3>1, <3>2, <1>1, <1>2, <1>3, <1>7
  <2>. QED BY <2>1, <1>1 DEF IndInv, ExpiredInv
<1>14. PendingInv'
  <2>1. ASSUME NEW b \in Addrs, InQueue(pending', b)
        PROVE  /\ Id(b)' \notin activeTimers_' \cup finished
               /\ \A e \in expired : e[2] # b
               /\ Id(b)' \in cancelled' => Id(b)' \in tooEarly'
    <3>1. Id(b)' = Id(b) /\ InQueue(pending, b) BY <2>1, <1>6, <1>8
    <3>2. /\ Id(b) \notin activeTimers_ \cup finished
          /\ \A e \in expired : e[2] # b
          /\ Id(b) \in cancelled => Id(b) \in tooEarly
      BY <3>1 DEF IndInv, PendingInv
    <3>3. Id(b) = id => id \in tooEarly'
      <4>1. Id(b) = id => b = a BY DEF Id, a
      <4>. QED BY <4>1, <3>1, <1>2
    <3>. QED BY <3>1, <3>2, <3>3, <1>1, <1>2, <1>7
  <2>. QED BY <2>1, <1>1 DEF IndInv, PendingInv
<1>15. AddingInv'
  <2>1. ASSUME NEW t \in Threads, adding[t] # NoTimer PROVE Id(adding[t])' \notin issued
    <3>1. /\ adding'[t] = adding[t] /\ adding[t] \in Addrs
          /\ (adding[t] # a \/ id \notin activeTimers_)
      BY <2>1, <1>4, Flat
    <3>2. Id(adding[t])' = Id(adding[t]) BY <3>1, <1>6 DEF Id, Sequence
    <3>. QED BY <2>1, <3>2 DEF IndInv, AddingInv
  <2>. QED BY <2>1 DEF IndInv, AddingInv
<1>16. FinishedInv'
  <2>1. \A b \in Addrs : heap'[b] = Freed => Id(b)' \notin finished
    BY DEF Id, Sequence, Freed, IndInv, TypeInv, IdsInv
  <2>2. \A b \in Addrs : heap'[b] = heap[b] => Id(b)' = Id(b) BY DEF Id, Sequence
  <2>. QED BY <2>1, <2>2, <1>5 DEF IndInv, FinishedInv
<1>17. NoResurrection'
  BY <1>1, <1>2, <1>7 DEF IndInv, NoResurrection
<1>. QED
  BY <1>9, <1>10, <1>11, <1>12, <1>13, <1>14, <1>15, <1>16, <1>17 DEF IndInv, TypeInv

\* cancel() on the loop's thread keeps the invariant.
LEMMA CancelHereKeeps ==
    ASSUME IndInv, NEW id \in issued, CancelHere(id)
    PROVE  IndInv'
<1>1. /\ CancelInLoop(id)
      /\ UNCHANGED <<s_numCreated_, batchVars, adding, wall, issued, finished>>
      /\ UNCHANGED pending
  BY DEF CancelHere, clockVars
<1>2. pending \in Seq(PendingRequests) /\ UniqueAdds(pending)
  BY DEF IndInv, TypeInv, TypeOK, PendingInv
<1>. QED BY <1>1, <1>2, CancelInLoopKeeps

\* addTimerInLoop() as a functor keeps the invariant.
LEMMA AddTimerInLoopKeeps ==
    ASSUME IndInv, pc = "loop", pending # << >>, Head(pending).op = "add",
           pending' = Tail(pending),
           AddTimerInLoop(Head(pending).timer, heap[Head(pending).timer]),
           UNCHANGED <<heap, cancelingTimers_, cancelled, tooEarly, s_numCreated_, batchVars,
                       adding, clockVars, issued, finished>>
    PROVE  IndInv'
<1>. DEFINE a == Head(pending).timer
<1>1. /\ a \in Addrs /\ InQueue(pending, a)
      /\ pending' \in Seq(PendingRequests)
      /\ \A b \in Addrs : InQueue(pending', b) => InQueue(pending, b) /\ b # a
      /\ UniqueAdds(pending') /\ Cancels(pending') \subseteq Cancels(pending)
  BY TailRequest DEF IndInv, TypeInv, TypeOK, PendingInv
<1>2. /\ timers_' = timers_ \cup {<<Expiration(a), a>>}
      /\ activeTimers_' = activeTimers_ \cup {Id(a)}
      /\ UNCHANGED <<expired, toRun, now, pc, callingExpiredTimers_, wall>>
  BY DEF AddTimerInLoop, Expiration, Id, Sequence, batchVars, clockVars
<1>. HIDE DEF a
<1>3. /\ Allocated(a) /\ Expiration(a) \in Int /\ Sequence(a) \in Nat
      /\ Id(a) \notin activeTimers_ \cup finished
      /\ Id(a) \in cancelled => Id(a) \in tooEarly
  BY <1>1, Flat DEF IndInv, PendingInv, Expiration, Sequence
<1>4. expired = {} BY DEF IndInv, ExpiredInv
<1>5. \A b \in Addrs : /\ Id(b)' = Id(b) /\ Sequence(b)' = Sequence(b)
                       /\ Expiration(b)' = Expiration(b) /\ (Allocated(b)' <=> Allocated(b))
  BY DEF Id, Sequence, Expiration, Allocated
<1>6. TypeOK'
  <2>1. TypeOK BY DEF IndInv, TypeInv
  <2>2. timers_' \subseteq Int \X Addrs BY <1>1, <1>2, <1>3, <2>1 DEF TypeOK
  <2>. QED BY <1>1, <1>2, <2>1, <2>2 DEF TypeOK
<1>7. IdsInv'
  <2>1. Id(a) \in Addrs \X (1..s_numCreated_)
    BY <1>1, <1>3 DEF IndInv, TypeInv, TypeOK, IdsInv, Id, Allocated
  <2>. QED BY <2>1, <1>2, <1>5 DEF IndInv, TypeInv, IdsInv
<1>8. SetsAgree'
  <2>1. ASSUME NEW e \in timers_'
        PROVE  Expiration(e[2])' = e[1] /\ Id(e[2])' \in activeTimers_'
    <3>1. CASE e \in timers_ BY <3>1, <1>2, <1>5, Flat
    <3>2. CASE e = <<Expiration(a), a>> BY <3>2, <1>1, <1>2, <1>5
    <3>. QED BY <3>1, <3>2, <1>2
  <2>2. ASSUME NEW x \in activeTimers_'
        PROVE  Sequence(x[1])' = x[2] /\ <<Expiration(x[1])', x[1]>> \in timers_'
    <3>1. CASE x \in activeTimers_
      <4>1. x[1] \in Addrs /\ x = Id(x[1]) /\ <<Expiration(x[1]), x[1]>> \in timers_
        BY <3>1, Flat
      <4>2. x[2] = Sequence(x[1]) BY <4>1 DEF Id
      <4>. QED BY <4>1, <4>2, <1>2, <1>5
    <3>2. CASE x = Id(a)
      <4>1. x[1] = a /\ x[2] = Sequence(a) BY <3>2 DEF Id
      <4>. QED BY <4>1, <1>1, <1>2, <1>5
    <3>. QED BY <3>1, <3>2, <1>2
  <2>. QED BY <2>1, <2>2 DEF SetsAgree, Id
<1>9. NoUseAfterFree'
  <2>1. \A e \in timers_' \cup expired' : Allocated(e[2])'
    BY <1>1, <1>2, <1>3, <1>5, Flat
  <2>2. \A b \in Addrs : InQueue(pending', b) => Allocated(b)' BY <1>1, <1>5, Flat
  <2>3. \A t \in Threads : adding'[t] # NoTimer => Allocated(adding[t])'
    BY Flat DEF Allocated, Sequence
  <2>. QED BY <2>1, <2>2, <2>3, <1>6, QueueSafe DEF NoUseAfterFree
<1>10. ExpiredInv' BY <1>2, <1>4 DEF IndInv, ExpiredInv
<1>11. PendingInv'
  <2>1. \A b \in Addrs : b # a => Id(b) # Id(a) BY DEF Id
  <2>. QED BY <2>1, <1>1, <1>2, <1>4, <1>5 DEF IndInv, PendingInv
<1>12. AddingInv' BY DEF IndInv, AddingInv, Id, Sequence
<1>13. FinishedInv' BY DEF IndInv, FinishedInv, Id, Sequence
<1>14. NoResurrection' BY <1>2, <1>3 DEF IndInv, NoResurrection
<1>. QED
  BY <1>6, <1>7, <1>8, <1>9, <1>10, <1>11, <1>12, <1>13, <1>14 DEF IndInv, TypeInv

\* The functors of the loop keep the invariant.
LEMMA RunPendingKeeps == IndInv /\ RunPending => IndInv'
<1>. SUFFICES ASSUME IndInv, RunPending PROVE IndInv'
  OBVIOUS
<1>1. /\ pc = "loop" /\ pending # << >> /\ pending' = Tail(pending)
      /\ UNCHANGED <<s_numCreated_, batchVars, adding, clockVars, issued, finished>>
  BY DEF RunPending
<1>2. CASE /\ Head(pending).op = "add"
           /\ AddTimerInLoop(Head(pending).timer, heap[Head(pending).timer])
           /\ UNCHANGED <<heap, cancelingTimers_, cancelled, tooEarly>>
  BY <1>1, <1>2, AddTimerInLoopKeeps
<1>3. CASE Head(pending).op = "cancel" /\ CancelInLoop(Head(pending).timer)
  <2>1. /\ pending \in Seq(PendingRequests) /\ UniqueAdds(pending)
        /\ Cancels(pending) \subseteq issued
    BY DEF IndInv, TypeInv, TypeOK, PendingInv
  <2>2. Head(pending).timer \in issued BY <1>1, <1>3, <2>1, TailRequest
  <2>3. /\ pending' \in Seq(PendingRequests) /\ UniqueAdds(pending')
        /\ \A a \in Addrs : InQueue(pending', a) => InQueue(pending, a)
        /\ Cancels(pending') \subseteq Cancels(pending)
    BY <1>1, <2>1, TailRequest
  <2>. QED BY <1>1, <1>3, <2>2, <2>3, CancelInLoopKeeps DEF clockVars
<1>. QED BY <1>2, <1>3 DEF RunPending

-----------------------------------------------------------------------------
\* handleRead() takes the expired timers out of both sets.
LEMMA HandleReadKeeps == IndInv /\ HandleRead => IndInv'
<1>. SUFFICES ASSUME IndInv, HandleRead PROVE IndInv'
  OBVIOUS
<1>1. /\ pc = "loop" /\ pc' = "run" /\ now' = wall
      /\ expired' \subseteq timers_ /\ toRun' = expired'
      /\ timers_' = timers_ \ expired'
      /\ activeTimers_' = activeTimers_ \ {Id(e[2]) : e \in expired'}
      /\ callingExpiredTimers_'
      /\ UNCHANGED <<heap, s_numCreated_, pending, adding, wall, issued, cancelled, tooEarly,
                     finished>>
  BY DEF HandleRead, GetExpired, Id, clockVars, historyVars
<1>2. \A b \in Addrs : /\ Id(b)' = Id(b) /\ Sequence(b)' = Sequence(b)
                       /\ Expiration(b)' = Expiration(b) /\ (Allocated(b)' <=> Allocated(b))
  BY <1>1 DEF Id, Sequence, Expiration, Allocated
<1>3. TypeOK'
  <2>1. TypeOK BY DEF IndInv, TypeInv
  <2>2. timers_' \subseteq Int \X Addrs /\ expired' \subseteq Int \X Addrs
        /\ toRun' \subseteq expired'
    BY <1>1, <2>1 DEF TypeOK
  <2>. QED BY <1>1, <2>1, <2>2 DEF TypeOK
<1>4. IdsInv' BY <1>1, <1>2 DEF IndInv, TypeInv, IdsInv
<1>5. SetsAgree'
  <2>1. ASSUME NEW e \in timers_'
        PROVE  Expiration(e[2])' = e[1] /\ Id(e[2])' \in activeTimers_'
    <3>1. /\ e \in timers_ /\ e \notin expired' /\ e[2] \in Addrs
          /\ Expiration(e[2]) = e[1] /\ Id(e[2]) \in activeTimers_ /\ e = <<e[1], e[2]>>
      BY <1>1, Flat
    <3>2. \A f \in expired' : f = <<Expiration(f[2]), f[2]>> BY <1>1, Flat
    <3>3. \A f \in expired' : f[2] # e[2] BY <3>1, <3>2
    <3>4. \A f \in expired' : Id(f[2]) # Id(e[2]) BY <3>3 DEF Id
    <3>. QED BY <1>1, <1>2, <3>1, <3>4
  <2>2. ASSUME NEW x \in activeTimers_'
        PROVE  Sequence(x[1])' = x[2] /\ <<Expiration(x[1])', x[1]>> \in timers_'
    <3>1. /\ x[1] \in Addrs /\ x = Id(x[1]) /\ <<Expiration(x[1]), x[1]>> \in timers_
          /\ \A f \in expired' : Id(f[2]) # x
      BY <1>1, Flat
    <3>2. <<Expiration(x[1]), x[1]>> \notin expired' BY <3>1
    <3>3. x[2] = Sequence(x[1]) BY <3>1 DEF Id
    <3>. QED BY <1>1, <1>2, <3>1, <3>2, <3>3
  <2>. QED BY <2>1, <2>2 DEF SetsAgree, Id
<1>6. NoUseAfterFree'
  <2>1. \A e \in timers_' \cup expired' : Allocated(e[2])' BY <1>1, <1>2, Flat
  <2>2. \A b \in Addrs : InQueue(pending', b) => Allocated(b)' BY <1>1, <1>2, Flat
  <2>3. \A t \in Threads : adding'[t] # NoTimer => Allocated(adding[t])'
    BY <1>1, Flat DEF Allocated, Sequence
  <2>. QED BY <2>1, <2>2, <2>3, <1>3, QueueSafe DEF NoUseAfterFree
<1>7. ExpiredInv'
  <2>1. ASSUME NEW e \in expired'
        PROVE  /\ Id(e[2])' \notin activeTimers_'
               /\ Id(e[2])' \in cancelled => Id(e[2])' \in tooEarly
    <3>1. e[2] \in Addrs /\ Id(e[2]) \in activeTimers_ /\ Id(e[2])' = Id(e[2])
      BY <1>1, <1>2, Flat
    <3>. QED BY <1>1, <3>1 DEF IndInv, NoResurrection
  <2>. QED BY <2>1, <1>1 DEF ExpiredInv
<1>8. PendingInv'
  <2>1. ASSUME NEW b \in Addrs, InQueue(pending, b), NEW e \in expired' PROVE e[2] # b
    <3>1. Id(e[2]) \in activeTimers_ BY <1>1, Flat
    <3>2. Id(b) \notin activeTimers_ BY <2>1 DEF IndInv, PendingInv
    <3>. QED BY <3>1, <3>2
  <2>. QED BY <2>1, <1>1, <1>2 DEF IndInv, PendingInv
<1>9. AddingInv' BY <1>1 DEF IndInv, AddingInv, Id, Sequence
<1>10. FinishedInv' BY <1>1 DEF IndInv, FinishedInv, Id, Sequence
<1>11. NoResurrection' BY <1>1 DEF IndInv, NoResurrection
<1>. QED
  BY <1>3, <1>4, <1>5, <1>6, <1>7, <1>8, <1>9, <1>10, <1>11 DEF IndInv, TypeInv

\* A timer of the batch is run.
LEMMA RunTimerKeeps == IndInv /\ RunTimer => IndInv'
<1>. SUFFICES ASSUME IndInv, RunTimer PROVE IndInv'
  OBVIOUS
<1>1. PICK e \in toRun :
         /\ toRun' = toRun \ {e}
         /\ finished' = IF heap[e[2]].interval = 0 THEN finished \cup {Id(e[2])} ELSE finished
  BY DEF RunTimer, Id
<1>2. /\ pc = "run" /\ pc' = "callback"
      /\ UNCHANGED <<heap, s_numCreated_, timers_, activeTimers_, cancelingTimers_, expired,
                     callingExpiredTimers_, now, pending, adding, wall, issued, cancelled,
                     tooEarly>>
  BY DEF RunTimer, clockVars
<1>3. e \in expired /\ e[2] \in Addrs /\ Allocated(e[2])
  <2>1. e \in expired BY DEF IndInv, TypeInv, TypeOK
  <2>. QED BY <2>1, Flat
<1>4. Id(e[2]) \notin activeTimers_ BY <1>3 DEF IndInv, ExpiredInv
<1>5. TypeOK' BY <1>1, <1>2 DEF IndInv, TypeInv, TypeOK
<1>6. IdsInv'
  <2>1. Id(e[2]) \in Addrs \X (1..s_numCreated_)
    <3>1. Sequence(e[2]) \in Nat BY <1>3, Flat DEF Sequence
    <3>. QED BY <3>1, <1>3 DEF IndInv, TypeInv, TypeOK, IdsInv, Id, Allocated
  <2>. QED BY <2>1, <1>1, <1>2 DEF IndInv, TypeInv, IdsInv, Sequence
<1>7. SetsAgree' BY <1>2 DEF IndInv, SetsAgree, Expiration, Sequence
<1>8. NoUseAfterFree' BY <1>2 DEF IndInv, NoUseAfterFree, Allocated, Sequence
<1>9. ExpiredInv' BY <1>2 DEF IndInv, ExpiredInv, Id, Sequence
<1>10. PendingInv'
  <2>1. ASSUME NEW b \in Addrs, InQueue(pending, b) PROVE Id(b) \notin finished'
    <3>1. Id(b) \notin finished /\ b # e[2] BY <2>1, <1>3 DEF IndInv, PendingInv
    <3>2. Id(b) # Id(e[2]) BY <3>1 DEF Id
    <3>. QED BY <3>1, <3>2, <1>1
  <2>. QED BY <2>1, <1>2 DEF IndInv, PendingInv, Id, Sequence
<1>11. AddingInv' BY <1>2 DEF IndInv, AddingInv, Id, Sequence
<1>12. FinishedInv'
  <2>1. ASSUME NEW b \in Addrs, Id(b) \in finished' PROVE heap[b].interval = 0
    <3>1. Id(b) = Id(e[2]) => b = e[2] BY DEF Id
    <3>. QED BY <2>1, <3>1, <1>1 DEF IndInv, FinishedInv
  <2>. QED BY <2>1, <1>2 DEF FinishedInv, Id, Sequence
<1>13. NoResurrection' BY <1>1, <1>2, <1>4 DEF IndInv, NoResurrection
<1>. QED
  BY <1>5, <1>6, <1>7, <1>8, <1>9, <1>10, <1>11, <1>12, <1>13 DEF IndInv, TypeInv

\* reset() restarts the timers of the batch that repeat, and inserts them again.
LEMMA ResetKeeps == IndInv /\ Reset => IndInv'
<1>. SUFFICES ASSUME IndInv, Reset PROVE IndInv'
  OBVIOUS
<1>1. /\ pc = "run" /\ pc' = "loop" /\ toRun = {} /\ expired' = {} /\ now' = 0
      /\ heap' = RestartHeap
      /\ timers_' = timers_ \cup RestartEntries
      /\ activeTimers_' = activeTimers_ \cup {Id(a) : a \in Restarted}
      /\ UNCHANGED <<s_numCreated_, cancelingTimers_, toRun, pending, adding, wall, issued,
                     cancelled, tooEarly, finished>>
  BY DEF Reset, Id, clockVars, historyVars
<1>2. \A a \in Restarted :
         /\ a \in Addrs /\ Allocated(a) /\ heap[a].interval > 0
         /\ Id(a) \notin activeTimers_ /\ Id(a) \notin cancelingTimers_
         /\ Id(a) \in cancelled => Id(a) \in tooEarly
         /\ ~InQueue(pending, a)
  <2>1. ASSUME NEW e \in expired, heap[e[2]].interval > 0, Id(e[2]) \notin cancelingTimers_
        PROVE  LET a == e[2]
               IN  /\ a \in Addrs /\ Allocated(a)
                   /\ Id(a) \notin activeTimers_
                   /\ Id(a) \in cancelled => Id(a) \in tooEarly
                   /\ ~InQueue(pending, a)
    <3>1. e[2] \in Addrs /\ Allocated(e[2]) BY Flat
    <3>. QED BY <2>1, <3>1 DEF IndInv, ExpiredInv, PendingInv
  <2>. QED BY <2>1 DEF Restarted, Id
<1>3. now \in Int /\ heap \in [Addrs -> [sequence : Nat, expiration : Int, interval : Nat]]
  BY DEF IndInv, TypeInv, TypeOK
<1>4. \A a \in Restarted : now + heap[a].interval \in Int BY <1>2, <1>3
<1>5. ASSUME NEW a \in Addrs
      PROVE  /\ heap'[a] \in [sequence : Nat, expiration : Int, interval : Nat]
             /\ heap'[a].sequence = heap[a].sequence /\ heap'[a].interval = heap[a].interval
             /\ a \in Restarted => heap'[a].expiration = now + heap[a].interval
             /\ a \notin Restarted => heap'[a] = heap[a]
  <2>1. CASE a \in Restarted
    <3>1. heap'[a] = [heap[a] EXCEPT !.expiration = now + heap[a].interval]
      BY <1>1, <2>1 DEF RestartHeap
    <3>. QED BY <2>1, <3>1, <1>3, <1>4
  <2>2. CASE a \notin Restarted
    <3>1. heap'[a] = heap[a] BY <1>1, <2>2 DEF RestartHeap
    <3>. QED BY <2>2, <3>1, <1>3
  <2>. QED BY <2>1, <2>2
<1>6. \A b \in Addrs : /\ Id(b)' = Id(b) /\ Sequence(b)' = Sequence(b)
                       /\ (Allocated(b)' <=> Allocated(b))
                       /\ b \notin Restarted => Expiration(b)' = Expiration(b)
                       /\ b \in Restarted => Expiration(b)' = now + heap[b].interval
  BY <1>5 DEF Id, Sequence, Expiration, Allocated
<1>7. TypeOK'
  <2>1. heap' \in [Addrs -> [sequence : Nat, expiration : Int, interval : Nat]]
    <3>1. DOMAIN heap' = Addrs /\ heap' = [a \in Addrs |-> heap'[a]]
      BY <1>1 DEF RestartHeap
    <3>. QED BY <3>1, <1>5
  <2>2. RestartEntries \subseteq Int \X Addrs BY <1>2, <1>4 DEF RestartEntries
  <2>. QED BY <2>1, <2>2, <1>1 DEF IndInv, TypeInv, TypeOK
<1>8. IdsInv'
  <2>1. \A a \in Restarted : Id(a) \in Addrs \X (1..s_numCreated_)
    <3>1. \A a \in Restarted : Sequence(a) \in Nat BY <1>2, Flat DEF Sequence
    <3>. QED BY <3>1, <1>2 DEF IndInv, TypeInv, TypeOK, IdsInv, Id, Allocated
  <2>. QED BY <2>1, <1>1, <1>6 DEF IndInv, TypeInv, IdsInv
<1>9. SetsAgree'
  <2>1. ASSUME NEW e \in timers_'
        PROVE  Expiration(e[2])' = e[1] /\ Id(e[2])' \in activeTimers_'
    <3>1. CASE e \in timers_
      <4>1. /\ e[2] \in Addrs /\ Expiration(e[2]) = e[1] /\ Id(e[2]) \in activeTimers_
        BY <3>1, Flat
      <4>2. e[2] \notin Restarted BY <4>1, <1>2
      <4>. QED BY <4>1, <4>2, <1>1, <1>6
    <3>2. ASSUME NEW a \in Restarted, e = <<now + heap[a].interval, a>>
          PROVE  Expiration(e[2])' = e[1] /\ Id(e[2])' \in activeTimers_'
      BY <3>2, <1>1, <1>2, <1>6
    <3>. QED BY <3>1, <3>2, <1>1 DEF RestartEntries
  <2>2. ASSUME NEW x \in activeTimers_'
        PROVE  Sequence(x[1])' = x[2] /\ <<Expiration(x[1])', x[1]>> \in timers_'
    <3>1. CASE x \in activeTimers_
      <4>1. x[1] \in Addrs /\ x = Id(x[1]) /\ <<Expiration(x[1]), x[1]>> \in timers_
        BY <3>1, Flat
      <4>2. x[1] \notin Restarted BY <4>1, <3>1, <1>2
      <4>3. x[2] = Sequence(x[1]) BY <4>1 DEF Id
      <4>. QED BY <4>1, <4>2, <4>3, <1>1, <1>6
    <3>2. ASSUME NEW a \in Restarted, x = Id(a)
          PROVE  Sequence(x[1])' = x[2] /\ <<Expiration(x[1])', x[1]>> \in timers_'
      <4>1. x[1] = a /\ x[2] = Sequence(a) BY <3>2 DEF Id
      <4>2. <<now + heap[a].interval, a>> \in RestartEntries BY DEF RestartEntries
      <4>. QED BY <4>1, <4>2, <1>1, <1>2, <1>6
    <3>. QED BY <3>1, <3>2, <1>1
  <2>. QED BY <2>1, <2>2 DEF SetsAgree, Id
<1>10. NoUseAfterFree'
  <2>1. \A e \in timers_' \cup expired' : Allocated(e[2])'
    <3>1. \A e \in RestartEntries : e[2] \in Restarted BY DEF RestartEntries
    <3>. QED BY <3>1, <1>1, <1>2, <1>6, Flat
  <2>2. \A b \in Addrs : InQueue(pending', b) => Allocated(b)' BY <1>1, <1>6, Flat
  <2>3. ASSUME NEW t \in Threads, adding'[t] # NoTimer PROVE Allocated(adding[t])'
    <3>1. adding'[t] = adding[t] /\ adding[t] \in Addrs /\ Allocated(adding[t])
      BY <2>3, <1>1, Flat
    <3>. QED BY <3>1, <1>5 DEF Allocated, Sequence
  <2>. QED BY <2>1, <2>2, <2>3, <1>7, QueueSafe DEF NoUseAfterFree
<1>11. ExpiredInv' BY <1>1 DEF ExpiredInv
<1>12. PendingInv'
  <2>1. ASSUME NEW b \in Addrs, InQueue(pending, b)
        PROVE  Id(b) \notin activeTimers_'
    <3>1. Id(b) \notin activeTimers_ /\ b \notin Restarted
      BY <2>1, <1>2 DEF IndInv, PendingInv
    <3>2. \A a \in Restarted : Id(a) # Id(b) BY <3>1 DEF Id
    <3>. QED BY <3>1, <3>2, <1>1
  <2>. QED BY <2>1, <1>1, <1>6 DEF IndInv, PendingInv
<1>13. AddingInv'
  <2>1. ASSUME NEW t \in Threads, adding[t] # NoTimer PROVE Id(adding[t])' = Id(adding[t])
    <3>1. adding'[t] = adding[t] /\ adding[t] \in Addrs BY <2>1, <1>1, Flat
    <3>. QED BY <3>1, <1>5 DEF Id, Sequence
  <2>. QED BY <2>1, <1>1 DEF IndInv, AddingInv
<1>14. FinishedInv' BY <1>1, <1>5, <1>6 DEF IndInv, FinishedInv
<1>15. NoResurrection'
  <2>1. \A a \in Restarted : Id(a) \notin (cancelled \ tooEarly) \cup finished
    <3>1. \A a \in Restarted : heap[a].interval # 0 BY <1>2, <1>3
    <3>. QED BY <3>1, <1>2 DEF IndInv, FinishedInv
  <2>. QED BY <2>1, <1>1 DEF IndInv, NoResurrection
<1>. QED
  BY <1>7, <1>8, <1>9, <1>10, <1>11, <1>12, <1>13, <1>14, <1>15 DEF IndInv, TypeInv

\* What changes nothing but the clocks, the timerfd, and whether a callback is
\* being run keeps the invariant.
LEMMA TimeKeeps ==
    ASSUME IndInv, wall' \in Int,
           pc' \in {"loop", "run", "callback"}, pc' = "loop" <=> pc = "loop",
           UNCHANGED <<heap, s_numCreated_, timers_, activeTimers_, cancelingTimers_, expired,
                       toRun, now, callingExpiredTimers_, pending, adding, historyVars>>
    PROVE  IndInv'
<1>. USE DEF historyVars
<1>1. TypeInv' BY DEF IndInv, TypeInv, TypeOK, IdsInv, Sequence
<1>2. SetsAgree' BY DEF IndInv, SetsAgree, Expiration, Sequence
<1>3. NoUseAfterFree' BY DEF IndInv, NoUseAfterFree, Allocated, Sequence
<1>4. ExpiredInv' BY DEF IndInv, ExpiredInv, Id, Sequence
<1>5. PendingInv' BY DEF IndInv, PendingInv, Id, Sequence, InQueue, UniqueAdds, Cancels
<1>6. AddingInv' BY DEF IndInv, AddingInv, Id, Sequence
<1>7. FinishedInv' BY DEF IndInv, FinishedInv, Id, Sequence
<1>8. NoResurrection' BY DEF IndInv, NoResurrection
<1>. QED BY <1>1, <1>2, <1>3, <1>4, <1>5, <1>6, <1>7, <1>8 DEF IndInv

\* The invariant holds at the start.
LEMMA InitIndInv == Init => IndInv
<1>. SUFFICES ASSUME Init PROVE IndInv
  OBVIOUS
<1>. USE DEF Init
<1>1. pending = << >> /\ << >> \in Seq(PendingRequests) /\ DOMAIN << >> = {} OBVIOUS
<1>2. Freed \in [sequence : Nat, expiration : Int, interval : Nat] BY DEF Freed
<1>3. TypeOK BY <1>1, <1>2 DEF TypeOK
<1>4. IdsInv BY DEF IdsInv, Sequence, Freed
<1>5. PendingInv BY <1>1 DEF PendingInv, InQueue, UniqueAdds, Cancels
<1>6. SetsAgree /\ ExpiredInv /\ FinishedInv /\ NoResurrection
  BY DEF SetsAgree, ExpiredInv, FinishedInv, NoResurrection
<1>7. NoUseAfterFree /\ AddingInv BY <1>1 DEF NoUseAfterFree, AddingInv
<1>. QED BY <1>3, <1>4, <1>5, <1>6, <1>7 DEF IndInv, TypeInv

\* IndInv is an invariant.
LEMMA Invariance == Spec => []IndInv
<1>1. IndInv /\ [Next]_vars => IndInv'
  <2>. SUFFICES ASSUME IndInv, [Next]_vars PROVE IndInv'
    OBVIOUS
  <2>1. wall \in Int /\ pc \in {"loop", "run", "callback"} BY DEF IndInv, TypeInv, TypeOK
  <2>2. CASE UNCHANGED vars
    BY <2>1, <2>2, TimeKeeps DEF vars, batchVars, clockVars
  <2>3. CASE LoopStep
    <3>1. CASE CallbackReturn
      BY <2>1, <3>1, TimeKeeps DEF CallbackReturn, clockVars
    <3>. QED
      BY <2>3, <3>1, RunPendingKeeps, HandleReadKeeps, RunTimerKeeps, ResetKeeps DEF LoopStep
  <2>4. CASE UserStep BY <2>4, AddTimerHereKeeps, CancelHereKeeps DEF UserStep
  <2>5. ASSUME NEW t \in Threads, ThreadStep(t) PROVE IndInv'
    BY <2>5, AddTimerKeeps, AddTimerReturnKeeps, CancelKeeps DEF ThreadStep
  <2>6. CASE Tick
    <3>1. wall' \in Int BY <2>1, <2>6 DEF Tick
    <3>. QED BY <2>1, <2>6, <3>1, TimeKeeps DEF Tick, batchVars
  <2>7. CASE SetClock
    <3>1. wall' \in Int BY <2>7, TimeAssumption DEF SetClock
    <3>. QED BY <2>1, <2>7, <3>1, TimeKeeps DEF SetClock, batchVars
  <2>. QED BY <2>2, <2>3, <2>4, <2>5, <2>6, <2>7 DEF Next
<1>. QED BY <1>1, InitIndInv, PTL DEF Spec

\* timers_ and activeTimers_ hold the same timers, filed under their expirations:
\* the assertions of insert(), getExpired() and cancelInLoop() hold.
THEOREM TheSetsAgree == Spec => []SetsAgree
<1>1. IndInv => SetsAgree BY DEF IndInv
<1>. QED BY <1>1, Invariance, PTL

\* No pointer of the queue, of a batch, of a queued functor or of an addTimer()
\* under way dangles, however addresses are used again.
THEOREM NoPointerDangles == Spec => []NoUseAfterFree
<1>1. IndInv => NoUseAfterFree BY DEF IndInv
<1>. QED BY <1>1, Invariance, PTL

\* What has run or was cancelled, in whatever order with its own batch, is never
\* scheduled again.
THEOREM NoTimerResurrected == Spec => []NoResurrection
<1>1. IndInv => NoResurrection BY DEF IndInv
<1>. QED BY <1>1, Invariance, PTL

\* A timer leaves the schedule by expiring or by being cancelled itself.
THEOREM CancellingIsPrecise == Spec => CancelIsPrecise
<1>. DEFINE A == \A id \in activeTimers_ \ activeTimers_' :
                    \/ id \in cancelled'
                    \/ \E e \in expired' : <<e[2], Sequence(e[2])>> = id
<1>1. [Next]_vars => [A]_vars
  <2>. SUFFICES ASSUME Next, NEW id \in activeTimers_, id \notin activeTimers_'
                PROVE  \/ id \in cancelled'
                       \/ \E e \in expired' : <<e[2], Sequence(e[2])>> = id
    OBVIOUS
  <2>1. \A i \in issued : CancelInLoop(i) => id \in cancelled' BY DEF CancelInLoop
  <2>2. CASE HandleRead BY <2>2 DEF HandleRead
  <2>3. CASE RunPending BY <2>3 DEF RunPending, AddTimerInLoop, CancelInLoop
  <2>4. CASE LoopStep
    BY <2>2, <2>3, <2>4 DEF LoopStep, RunTimer, CallbackReturn, Reset
  <2>5. CASE UserStep
    BY <2>1, <2>5 DEF UserStep, AddTimerHere, AddTimerInLoop, CancelHere
  <2>6. ASSUME NEW t \in Threads, ThreadStep(t) PROVE FALSE
    BY <2>6 DEF ThreadStep, AddTimer, AddTimerReturn, Cancel
  <2>. QED BY <2>4, <2>5, <2>6 DEF Next, Tick, SetClock
<1>. QED BY <1>1, PTL DEF Spec, CancelIsPrecise

=============================================================================
