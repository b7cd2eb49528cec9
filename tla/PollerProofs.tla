---------------------------- MODULE PollerProofs ----------------------------
(***************************************************************************)
(* Proofs about Poller for every set of Channels and every assignment of   *)
(* descriptors: the array, the map and the indices always agree, and a     *)
(* Channel is not disturbed by what happens to the others.                 *)
(***************************************************************************)
EXTENDS Poller, SequenceTheorems, TLAPS

\* A Channel that has never been registered has index -1, which is how
\* updateChannel() recognises it.
NewInv == \A c \in Channels : stage[c] = "new" => index_[c] = -1

\* The entry of a registered Channel without events is one poll(2) skips.
QuietInv ==
    \A c \in Channels :
        Registered(c) /\ events_[c] = {} => Entry(c).fd = Ignored(Fd[c])

IndInv == TypeOK /\ RegisteredConsistent /\ NoOrphanEntry /\ NewInv /\ QuietInv

\* Both encodings of a descriptor decode to it.
LEMMA DecodeEncode ==
    ASSUME NEW fd \in Nat
    PROVE  Decode(fd) = fd /\ Decode(Ignored(fd)) = fd /\ Ignored(fd) < 0
  BY DEF Decode, Ignored

\* Two registered Channels never share an entry.
LEMMA IndexInjective ==
    ASSUME RegisteredConsistent, NEW c \in Channels, NEW d \in Channels,
           Registered(c), Registered(d), index_[c] = index_[d]
    PROVE  c = d
<1>1. Fd[c] \in Nat /\ Fd[d] \in Nat BY FdAssumption
<1>2. Fd[c] = Fd[d]
  BY <1>1, DecodeEncode DEF RegisteredConsistent
<1>. QED BY <1>2 DEF RegisteredConsistent

-----------------------------------------------------------------------------
\* Registering a new Channel (the first branch of updateChannel()).
LEMMA AddInductive ==
    ASSUME IndInv, NEW c \in Channels, NEW ev \in Interests, ev # {},
           stage[c] = "new", MayEnable(c), Update(c, ev)
    PROVE  IndInv'
<1>. DEFINE n == Len(pollfds_)
            pfd == [fd |-> Fd[c], events |-> ev]
<1>1. /\ pollfds_ \in Seq([fd : Int, events : Interests]) /\ n \in Nat
      /\ Fd[c] \in Nat /\ pfd \in [fd : Int, events : Interests]
      /\ index_ \in [Channels -> Int] /\ events_ \in [Channels -> Interests]
      /\ stage \in [Channels -> {"new", "registered", "removed"}]
  BY FdAssumption DEF IndInv, TypeOK
<1>2. /\ pollfds_' = Append(pollfds_, pfd)
      /\ index_' = [index_ EXCEPT ![c] = n]
      /\ channels_' = [fd \in DOMAIN channels_ \cup {Fd[c]} |->
                          IF fd = Fd[c] THEN c ELSE channels_[fd]]
      /\ events_' = [events_ EXCEPT ![c] = ev]
      /\ stage' = [stage EXCEPT ![c] = "registered"]
      /\ activeChannels_' = activeChannels_
  BY <1>1 DEF Update, AddEntry, UpdateEntry, IndInv, NewInv
<1>3. /\ pollfds_' \in Seq([fd : Int, events : Interests])
      /\ Len(pollfds_') = n + 1
      /\ \A i \in 1..n : pollfds_'[i] = pollfds_[i]
      /\ pollfds_'[n + 1] = pfd
  BY <1>1, <1>2
<1>4. \A d \in Channels : Registered(d) => Fd[d] # Fd[c]
  BY DEF MayEnable, Registered
<1>5. TypeOK'
  BY <1>1, <1>2, <1>3 DEF IndInv, TypeOK
<1>6. RegisteredConsistent'
  <2>. SUFFICES ASSUME NEW d \in Channels, Registered(d)'
                PROVE  /\ Fd[d] \in DOMAIN channels_'
                       /\ channels_'[Fd[d]] = d
                       /\ index_'[d] + 1 \in 1..Len(pollfds_')
                       /\ pollfds_'[index_'[d] + 1].fd \in {Fd[d], Ignored(Fd[d])}
                       /\ pollfds_'[index_'[d] + 1].events = events_'[d]
    BY DEF RegisteredConsistent
  <2>1. CASE d = c BY <1>1, <1>2, <1>3, <2>1
  <2>2. CASE d # c
    <3>1. Registered(d) BY <1>1, <1>2, <2>2 DEF Registered
    <3>2. index_'[d] = index_[d] /\ events_'[d] = events_[d] BY <1>1, <1>2, <2>2
    <3>3. index_[d] + 1 \in 1..n BY <3>1 DEF IndInv, RegisteredConsistent
    <3>4. channels_'[Fd[d]] = d /\ Fd[d] \in DOMAIN channels_'
      BY <1>2, <1>4, <3>1 DEF IndInv, RegisteredConsistent
    <3>5. pollfds_'[index_'[d] + 1] = pollfds_[index_[d] + 1] BY <1>3, <3>2, <3>3
    <3>6. index_'[d] + 1 \in 1..Len(pollfds_') BY <1>1, <1>3, <3>2, <3>3
    <3>7. /\ pollfds_[index_[d] + 1].fd \in {Fd[d], Ignored(Fd[d])}
          /\ pollfds_[index_[d] + 1].events = events_[d]
      BY <3>1 DEF IndInv, RegisteredConsistent
    <3>. QED BY <3>2, <3>4, <3>5, <3>6, <3>7
  <2>. QED BY <2>1, <2>2
<1>7. NoOrphanEntry'
  <2>1. \A fd \in DOMAIN channels_ : fd # Fd[c] /\ channels_[fd] # c
    BY <1>4 DEF IndInv, NoOrphanEntry, TypeOK, Registered
  <2>2. ASSUME NEW fd \in DOMAIN channels_'
        PROVE  Registered(channels_[fd])' /\ Fd[channels_'[fd]] = fd
    <3>1. CASE fd = Fd[c] BY <3>1, <1>1, <1>2 DEF Registered
    <3>2. CASE fd # Fd[c]
      BY <3>2, <1>1, <1>2, <2>1 DEF Registered, IndInv, NoOrphanEntry, TypeOK
    <3>. QED BY <3>1, <3>2
  <2>3. ASSUME NEW i \in 1..Len(pollfds_')
        PROVE  /\ Decode(pollfds_'[i].fd) \in DOMAIN channels_'
               /\ index_'[channels_'[Decode(pollfds_'[i].fd)]] = i - 1
    <3>1. CASE i = n + 1
      <4>1. Decode(pollfds_'[i].fd) = Fd[c] BY <3>1, <1>1, <1>3, DecodeEncode
      <4>. QED BY <3>1, <4>1, <1>1, <1>2
    <3>2. CASE i \in 1..n
      <4>. DEFINE fd == Decode(pollfds_[i].fd)
      <4>1. fd \in DOMAIN channels_ /\ index_[channels_[fd]] = i - 1
        BY <3>2 DEF IndInv, NoOrphanEntry
      <4>2. channels_'[fd] = channels_[fd] /\ channels_[fd] # c BY <4>1, <2>1, <1>2
      <4>3. channels_[fd] \in Channels BY <4>1 DEF IndInv, TypeOK
      <4>4. index_'[channels_[fd]] = i - 1 BY <4>1, <4>2, <4>3, <1>1, <1>2
      <4>. QED BY <3>2, <4>1, <4>2, <4>4, <1>2, <1>3
    <3>. QED BY <3>1, <3>2, <1>1, <1>3
  <2>. QED BY <2>2, <2>3 DEF NoOrphanEntry, Registered
<1>8. NewInv' BY <1>1, <1>2 DEF IndInv, NewInv
<1>9. QuietInv'
  <2>. SUFFICES ASSUME NEW d \in Channels, Registered(d)', events_'[d] = {}
                PROVE  pollfds_'[index_'[d] + 1].fd = Ignored(Fd[d])
    BY DEF QuietInv, Entry
  <2>1. d # c /\ Registered(d) BY <1>1, <1>2 DEF Registered
  <2>2. index_'[d] = index_[d] /\ events_'[d] = events_[d] /\ index_[d] + 1 \in 1..n
    BY <2>1, <1>1, <1>2 DEF IndInv, RegisteredConsistent
  <2>. QED BY <2>1, <2>2, <1>3 DEF IndInv, QuietInv, Entry
<1>. QED BY <1>5, <1>6, <1>7, <1>8, <1>9 DEF IndInv

\* Changing the events of a registered Channel (the second branch).
LEMMA UpdateInductive ==
    ASSUME IndInv, NEW c \in Channels, NEW ev \in Interests, Registered(c), Update(c, ev)
    PROVE  /\ IndInv'
           /\ \A d \in Channels : Registered(d) /\ d # c =>
                 index_[d] + 1 \in 1..Len(pollfds_) /\ Entry(d)' = Entry(d)
<1>. DEFINE n == Len(pollfds_)
            i == index_[c] + 1
            pfd == [fd |-> IF ev = {} THEN Ignored(Fd[c]) ELSE pollfds_[i].fd, events |-> ev]
<1>1. /\ pollfds_ \in Seq([fd : Int, events : Interests]) /\ n \in Nat
      /\ Fd[c] \in Nat /\ Ignored(Fd[c]) \in Int /\ i \in 1..n
      /\ pollfds_[i].fd \in {Fd[c], Ignored(Fd[c])}
      /\ index_ \in [Channels -> Int] /\ events_ \in [Channels -> Interests]
      /\ stage \in [Channels -> {"new", "registered", "removed"}]
  BY FdAssumption DEF IndInv, TypeOK, RegisteredConsistent, Ignored
<1>2. /\ pollfds_' = [pollfds_ EXCEPT ![i] = pfd]
      /\ index_' = index_ /\ channels_' = channels_
      /\ events_' = [events_ EXCEPT ![c] = ev]
      /\ stage' = stage
      /\ activeChannels_' = activeChannels_
  BY <1>1 DEF Update, AddEntry, UpdateEntry, Registered
<1>3. pfd \in [fd : Int, events : Interests] /\ pfd.fd \in {Fd[c], Ignored(Fd[c])}
  BY <1>1
<1>4. /\ pollfds_' \in Seq([fd : Int, events : Interests])
      /\ Len(pollfds_') = n
      /\ \A j \in 1..n : pollfds_'[j] = IF j = i THEN pfd ELSE pollfds_[j]
  BY <1>1, <1>2, <1>3
<1>5. TypeOK' BY <1>1, <1>2, <1>4 DEF IndInv, TypeOK
<1>6. ASSUME NEW d \in Channels, Registered(d), d # c
      PROVE  index_[d] + 1 \in 1..n /\ index_[d] + 1 # i /\ Entry(d)' = Entry(d)
  <2>1. index_[d] + 1 \in 1..n BY <1>6 DEF IndInv, RegisteredConsistent
  <2>2. index_[d] # index_[c] BY <1>6, IndexInjective DEF IndInv
  <2>3. index_[d] + 1 # i BY <2>2, <1>1
  <2>. QED BY <2>1, <2>3, <1>2, <1>4 DEF Entry
<1>7. RegisteredConsistent' /\ QuietInv'
  <2>. SUFFICES ASSUME NEW d \in Channels, Registered(d)
                PROVE  /\ Fd[d] \in DOMAIN channels_
                       /\ channels_[Fd[d]] = d
                       /\ index_[d] + 1 \in 1..n
                       /\ Entry(d)'.fd \in {Fd[d], Ignored(Fd[d])}
                       /\ Entry(d)'.events = events_'[d]
                       /\ events_'[d] = {} => Entry(d)'.fd = Ignored(Fd[d])
    BY <1>2, <1>4 DEF RegisteredConsistent, QuietInv, Registered, Entry
  <2>1. CASE d = c
    BY <2>1, <1>1, <1>2, <1>3, <1>4 DEF IndInv, RegisteredConsistent, Entry
  <2>2. CASE d # c
    <3>1. Entry(d)' = Entry(d) /\ index_[d] + 1 \in 1..n BY <1>6, <2>2
    <3>2. events_'[d] = events_[d] BY <2>2, <1>1, <1>2
    <3>. QED BY <3>1, <3>2 DEF IndInv, RegisteredConsistent, QuietInv, Entry
  <2>. QED BY <2>1, <2>2
<1>8. NoOrphanEntry'
  <2>1. \A j \in 1..n : Decode(pollfds_'[j].fd) = Decode(pollfds_[j].fd)
    <3>. TAKE j \in 1..n
    <3>1. CASE j = i
      <4>1. Decode(pfd.fd) = Fd[c] BY <1>1, <1>3, DecodeEncode
      <4>2. Decode(pollfds_[i].fd) = Fd[c] BY <1>1, DecodeEncode
      <4>3. pollfds_'[j] = pfd BY <3>1, <1>4
      <4>. QED BY <3>1, <4>1, <4>2, <4>3
    <3>2. CASE j # i BY <3>2, <1>4
    <3>. QED BY <3>1, <3>2
  <2>. QED BY <2>1, <1>2, <1>4 DEF IndInv, NoOrphanEntry, Registered
<1>9. NewInv' BY <1>2 DEF IndInv, NewInv
<1>. QED BY <1>5, <1>6, <1>7, <1>8, <1>9 DEF IndInv
\* Removing a Channel, with the last entry moved into its place.
LEMMA RemoveInductive ==
    ASSUME IndInv, NEW c \in Channels, RemoveChannel(c)
    PROVE  /\ IndInv'
           /\ \A d \in Channels : Registered(d) /\ d # c => Entry(d)' = Entry(d)
<1>. DEFINE n == Len(pollfds_)
            i == index_[c] + 1
            lastFd == Decode(pollfds_[n].fd)
            e == channels_[lastFd]
<1>1. /\ pollfds_ \in Seq([fd : Int, events : Interests]) /\ n \in Nat
      /\ Registered(c) /\ i \in 1..n /\ Fd[c] \in Nat
      /\ index_ \in [Channels -> Int] /\ events_ \in [Channels -> Interests]
      /\ stage \in [Channels -> {"new", "registered", "removed"}]
  BY FdAssumption DEF RemoveChannel, IndInv, TypeOK, RegisteredConsistent
<1>2. /\ pollfds_' = [j \in 1..(n - 1) |-> IF j = i THEN pollfds_[n] ELSE pollfds_[j]]
      /\ index_' = IF i = n THEN index_ ELSE [index_ EXCEPT ![e] = index_[c]]
      /\ channels_' = [fd \in DOMAIN channels_ \ {Fd[c]} |-> channels_[fd]]
      /\ stage' = [stage EXCEPT ![c] = "removed"]
      /\ events_' = events_ /\ activeChannels_' = activeChannels_
  BY DEF RemoveChannel, RemoveEntry
<1>3. /\ lastFd \in DOMAIN channels_ /\ e \in Channels /\ Registered(e)
      /\ index_[e] = n - 1 /\ Fd[e] = lastFd
  BY <1>1 DEF IndInv, NoOrphanEntry, TypeOK
<1>4. /\ pollfds_' \in Seq([fd : Int, events : Interests])
      /\ Len(pollfds_') = n - 1
      /\ \A j \in 1..(n - 1) : pollfds_'[j] = IF j = i THEN pollfds_[n] ELSE pollfds_[j]
  <2>1. \A j \in 1..n : pollfds_[j] \in [fd : Int, events : Interests]
    BY <1>1, ElementOfSeq
  <2>2. pollfds_' \in [1..(n - 1) -> [fd : Int, events : Interests]]
    BY <1>1, <1>2, <2>1
  <2>3. n - 1 \in Nat BY <1>1
  <2>4. pollfds_' \in Seq([fd : Int, events : Interests])
    <3>. DEFINE R == [fd : Int, events : Interests]
                m == n - 1
    <3>. SUFFICES pollfds_' \in Seq(R) OBVIOUS
    <3>1. pollfds_' \in [1..m -> R] /\ m \in Nat BY <2>2, <2>3
    <3>. HIDE DEF R, m
    <3>. QED BY <3>1, SeqDef
  <2>5. Len(pollfds_') = n - 1 BY <2>2, <2>3, <2>4, LenProperties
  <2>. QED BY <1>2, <2>4, <2>5
<1>5. TypeOK' BY <1>1, <1>2, <1>3, <1>4 DEF IndInv, TypeOK
<1>6. e = c <=> i = n
  <2>1. e = c => i = n BY <1>1, <1>3
  <2>2. i = n => e = c BY <1>1, <1>3, IndexInjective DEF IndInv
  <2>. QED BY <2>1, <2>2
<1>7. ASSUME NEW d \in Channels, Registered(d), d # c
      PROVE  /\ index_'[d] = IF d = e THEN index_[c] ELSE index_[d]
             /\ index_'[d] + 1 \in 1..(n - 1)
             /\ Entry(d)' = Entry(d)
  <2>1. index_[d] + 1 \in 1..n /\ index_[d] \in Int
    BY <1>1, <1>7 DEF IndInv, RegisteredConsistent
  <2>2. index_[d] # index_[c] BY <1>1, <1>7, IndexInjective DEF IndInv
  <2>3. index_'[d] = IF d = e THEN index_[c] ELSE index_[d]
    BY <1>1, <1>2, <1>3, <1>6, <1>7
  <2>4. CASE d = e
    <3>1. i \in 1..(n - 1) BY <1>1, <1>6, <1>7, <2>4
    <3>2. pollfds_'[i] = pollfds_[n] BY <1>4, <3>1
    <3>3. index_[d] + 1 = n BY <1>1, <1>3, <2>4
    <3>. QED BY <2>3, <2>4, <3>1, <3>2, <3>3 DEF Entry
  <2>5. CASE d # e
    <3>1. index_[d] # n - 1
      BY <1>3, <1>7, <2>5, IndexInjective DEF IndInv
    <3>2. index_[d] + 1 \in 1..(n - 1) /\ index_[d] + 1 # i BY <1>1, <2>1, <2>2, <3>1
    <3>3. pollfds_'[index_[d] + 1] = pollfds_[index_[d] + 1] BY <1>4, <3>2
    <3>. QED BY <2>3, <2>5, <3>2, <3>3 DEF Entry
  <2>. QED BY <2>3, <2>4, <2>5
<1>8. \A d \in Channels : Registered(d)' => Registered(d) /\ d # c
  BY <1>1, <1>2 DEF Registered
<1>9. RegisteredConsistent' /\ QuietInv'
  <2>. SUFFICES ASSUME NEW d \in Channels, Registered(d), d # c
                PROVE  /\ Fd[d] \in DOMAIN channels_'
                       /\ channels_'[Fd[d]] = d
                       /\ index_'[d] + 1 \in 1..(n - 1)
                       /\ Entry(d)'.fd \in {Fd[d], Ignored(Fd[d])}
                       /\ Entry(d)'.events = events_[d]
                       /\ events_[d] = {} => Entry(d)'.fd = Ignored(Fd[d])
    BY <1>2, <1>4, <1>8 DEF RegisteredConsistent, QuietInv, Entry
  <2>1. /\ Fd[d] \in DOMAIN channels_ /\ channels_[Fd[d]] = d
        /\ channels_[Fd[c]] = c
    BY <1>1 DEF IndInv, RegisteredConsistent
  <2>2. Fd[d] \in DOMAIN channels_' /\ channels_'[Fd[d]] = d BY <1>2, <2>1
  <2>3. Entry(d)' = Entry(d) /\ index_'[d] + 1 \in 1..(n - 1) BY <1>7
  <2>4. /\ Entry(d).fd \in {Fd[d], Ignored(Fd[d])} /\ Entry(d).events = events_[d]
        /\ events_[d] = {} => Entry(d).fd = Ignored(Fd[d])
    BY DEF IndInv, RegisteredConsistent, QuietInv, Entry
  <2>. QED BY <2>2, <2>3, <2>4
<1>10. NoOrphanEntry'
  <2>1. ASSUME NEW fd \in DOMAIN channels_'
        PROVE  Registered(channels_[fd])' /\ Fd[channels_'[fd]] = fd
    <3>1. fd \in DOMAIN channels_ /\ fd # Fd[c] /\ channels_'[fd] = channels_[fd]
      BY <1>2
    <3>2. /\ channels_[fd] \in Channels /\ Registered(channels_[fd])
          /\ Fd[channels_[fd]] = fd
      BY <3>1 DEF IndInv, TypeOK, NoOrphanEntry
    <3>3. channels_[fd] # c BY <3>1, <3>2
    <3>. QED BY <3>1, <3>2, <3>3, <1>1, <1>2 DEF Registered
  <2>2. ASSUME NEW j \in 1..Len(pollfds_')
        PROVE  /\ Decode(pollfds_'[j].fd) \in DOMAIN channels_'
               /\ index_'[channels_'[Decode(pollfds_'[j].fd)]] = j - 1
    <3>0. j \in 1..(n - 1) BY <1>4
    <3>1. CASE j = i
      <4>1. e # c BY <3>0, <3>1, <1>1, <1>6
      <4>2. Decode(pollfds_'[j].fd) = lastFd BY <3>0, <3>1, <1>4
      <4>3. lastFd # Fd[c] BY <4>1, <1>1, <1>3 DEF IndInv, RegisteredConsistent
      <4>4. lastFd \in DOMAIN channels_' /\ channels_'[lastFd] = e BY <4>3, <1>2, <1>3
      <4>5. index_'[e] = j - 1 BY <3>1, <4>1, <1>1, <1>3, <1>7
      <4>. QED BY <4>2, <4>4, <4>5
    <3>2. CASE j # i
      <4>. DEFINE fd == Decode(pollfds_[j].fd)
      <4>1. pollfds_'[j] = pollfds_[j] BY <3>0, <3>2, <1>4
      <4>2. j \in 1..n BY <3>0, <1>1
      <4>3. fd \in DOMAIN channels_ /\ index_[channels_[fd]] = j - 1
        BY <4>2 DEF IndInv, NoOrphanEntry
      <4>4. /\ channels_[fd] \in Channels /\ Registered(channels_[fd])
            /\ Fd[channels_[fd]] = fd
        BY <4>3 DEF IndInv, TypeOK, NoOrphanEntry
      <4>5. channels_[fd] # c BY <3>0, <3>2, <4>3, <1>1
      <4>6. channels_[fd] # e BY <3>0, <4>3, <1>1, <1>3
      <4>7. fd # Fd[c] BY <4>5, <1>1 DEF IndInv, RegisteredConsistent
      <4>8. fd \in DOMAIN channels_' /\ channels_'[fd] = channels_[fd] BY <4>3, <4>7, <1>2
      <4>9. index_'[channels_[fd]] = j - 1 BY <4>3, <4>4, <4>5, <4>6, <1>7
      <4>. QED BY <4>1, <4>8, <4>9
    <3>. QED BY <3>1, <3>2
  <2>. QED BY <2>1, <2>2 DEF NoOrphanEntry, Registered
<1>11. NewInv'
  <2>. SUFFICES ASSUME NEW d \in Channels, stage'[d] = "new" PROVE index_'[d] = -1
    BY DEF NewInv
  <2>1. stage[d] = "new" /\ d # c BY <1>1, <1>2
  <2>2. d # e BY <2>1, <1>3 DEF Registered
  <2>. QED BY <2>1, <2>2, <1>1, <1>2, <1>3 DEF IndInv, NewInv
<1>. QED BY <1>5, <1>7, <1>9, <1>10, <1>11 DEF IndInv

\* Destroying a removed Channel, and poll() itself, change nothing the Poller
\* relies on.
LEMMA OtherInductive ==
    ASSUME IndInv, (\E c \in Channels : Renew(c)) \/ Poll
    PROVE  /\ IndInv'
           /\ \A d \in Channels : Registered(d) => Entry(d)' = Entry(d)
<1>1. CASE Poll
  <2>1. \A i \in Polled : channels_[pollfds_[i].fd] \in Channels
    <3>. TAKE i \in Polled
    <3>0. pollfds_ \in Seq([fd : Int, events : Interests]) BY DEF IndInv, TypeOK
    <3>1. i \in 1..Len(pollfds_) /\ pollfds_[i].fd >= 0 BY <3>0 DEF Polled
    <3>2. Decode(pollfds_[i].fd) = pollfds_[i].fd
      <4>1. pollfds_[i] \in [fd : Int, events : Interests] BY <3>0, <3>1, ElementOfSeq
      <4>2. pollfds_[i].fd \in Int BY <4>1
      <4>. QED BY <3>1, <4>2 DEF Decode
    <3>. QED BY <3>1, <3>2 DEF IndInv, NoOrphanEntry, TypeOK
  <2>2. activeChannels_' \subseteq Channels BY <1>1, <2>1 DEF Poll
  <2>. QED
    BY <1>1, <2>2 DEF Poll, IndInv, TypeOK, RegisteredConsistent, NoOrphanEntry,
                      NewInv, QuietInv, Entry, Registered
<1>2. ASSUME NEW c \in Channels, Renew(c)
      PROVE  IndInv' /\ \A d \in Channels : Registered(d) => Entry(d)' = Entry(d)
  <2>1. TypeOK' BY <1>2 DEF Renew, IndInv, TypeOK, Interests
  <2>2. \A d \in Channels : Registered(d)' <=> Registered(d)
    BY <1>2 DEF Renew, Registered, IndInv, TypeOK
  <2>3. /\ pollfds_' = pollfds_ /\ channels_' = channels_
        /\ \A d \in Channels : Registered(d) =>
              index_'[d] = index_[d] /\ events_'[d] = events_[d]
    BY <1>2 DEF Renew, Registered, IndInv, TypeOK
  <2>4. RegisteredConsistent' BY <2>2, <2>3 DEF IndInv, RegisteredConsistent
  <2>5. NoOrphanEntry'
    <3>1. \A fd \in DOMAIN channels_ : channels_[fd] \in Channels /\ Registered(channels_[fd])
      BY DEF IndInv, TypeOK, NoOrphanEntry
    <3>. QED BY <2>2, <2>3, <3>1 DEF IndInv, NoOrphanEntry
  <2>6. NewInv' BY <1>2 DEF Renew, IndInv, TypeOK, NewInv
  <2>7. QuietInv' BY <2>2, <2>3 DEF IndInv, QuietInv, Entry
  <2>. QED BY <2>1, <2>3, <2>4, <2>5, <2>6, <2>7 DEF IndInv, Entry
<1>. QED BY <1>1, <1>2

-----------------------------------------------------------------------------
\* The operations of a Channel are calls of updateChannel(): the first one
\* registers the Channel with some event, later ones change its entry.
LEMMA ChannelOperation ==
    ASSUME IndInv, NEW c \in Channels,
           EnableReading(c) \/ EnableWriting(c) \/ DisableWriting(c) \/ DisableAll(c)
    PROVE  \E ev \in Interests :
              /\ Update(c, ev)
              /\ Registered(c) \/ (stage[c] = "new" /\ MayEnable(c) /\ ev # {})
<1>. USE DEF IndInv, TypeOK, Interests
<1>1. events_[c] \in SUBSET {"read", "write"} OBVIOUS
<1>2. CASE EnableReading(c)
  <2>. WITNESS events_[c] \cup {"read"} \in Interests
  <2>. QED BY <1>2 DEF EnableReading, MayEnable
<1>3. CASE EnableWriting(c)
  <2>. WITNESS events_[c] \cup {"write"} \in Interests
  <2>. QED BY <1>3 DEF EnableWriting, MayEnable
<1>4. CASE DisableWriting(c)
  <2>. WITNESS events_[c] \ {"write"} \in Interests
  <2>. QED BY <1>4 DEF DisableWriting
<1>5. CASE DisableAll(c)
  <2>. WITNESS {} \in Interests
  <2>. QED BY <1>5 DEF DisableAll
<1>. QED BY <1>2, <1>3, <1>4, <1>5

\* Asking again for the events a registered Channel already has changes nothing.
LEMMA UpdateSame ==
    ASSUME IndInv, NEW c \in Channels, NEW ev \in Interests, Registered(c), Update(c, ev),
           events_'[c] = events_[c]
    PROVE  Entry(c)' = Entry(c)
<1>. DEFINE i == index_[c] + 1
<1>1. /\ pollfds_ \in Seq([fd : Int, events : Interests]) /\ i \in 1..Len(pollfds_)
      /\ pollfds_[i].events = events_[c] /\ index_[c] \in Int
      /\ events_ \in [Channels -> Interests]
  BY DEF IndInv, TypeOK, RegisteredConsistent
<1>2. ev = events_[c] BY <1>1 DEF Update
<1>3. /\ pollfds_'[i] = [fd |-> IF ev = {} THEN Ignored(Fd[c]) ELSE pollfds_[i].fd,
                         events |-> ev]
      /\ index_' = index_
  BY <1>1 DEF Update, AddEntry, UpdateEntry
<1>4. ev = {} => pollfds_[i].fd = Ignored(Fd[c])
  BY <1>2 DEF IndInv, QuietInv, Entry
<1>5. pollfds_'[i] = [fd |-> pollfds_[i].fd, events |-> pollfds_[i].events]
  BY <1>1, <1>2, <1>3, <1>4
<1>6. pollfds_[i] \in [fd : Int, events : Interests] BY <1>1, ElementOfSeq
<1>7. pollfds_'[i] = pollfds_[i] BY <1>5, <1>6
<1>. QED BY <1>3, <1>7 DEF Entry

\* Registering a Channel leaves the entries of the others alone.
LEMMA AddKeeps ==
    ASSUME IndInv, NEW c \in Channels, NEW ev \in Interests, stage[c] = "new",
           Update(c, ev)
    PROVE  \A d \in Channels : Registered(d) => Entry(d)' = Entry(d)
<1>. TAKE d \in Channels
<1>. HAVE Registered(d)
<1>1. d # c /\ index_[c] = -1 BY DEF Registered, IndInv, NewInv
<1>2. /\ pollfds_ \in Seq([fd : Int, events : Interests])
      /\ index_[d] + 1 \in 1..Len(pollfds_) /\ index_ \in [Channels -> Int]
  BY DEF IndInv, TypeOK, RegisteredConsistent
<1>3. /\ pollfds_' = Append(pollfds_, [fd |-> Fd[c], events |-> ev])
      /\ index_' = [index_ EXCEPT ![c] = Len(pollfds_)]
  BY <1>1 DEF Update, AddEntry, UpdateEntry
<1>4. index_'[d] = index_[d] BY <1>1, <1>2, <1>3
<1>5. Fd[c] \in Int BY FdAssumption
<1>6. [fd |-> Fd[c], events |-> ev] \in [fd : Int, events : Interests] BY <1>5
<1>7. pollfds_'[index_[d] + 1] = pollfds_[index_[d] + 1]
  BY <1>2, <1>3, <1>6, AppendProperties
<1>. QED BY <1>4, <1>7 DEF Entry

\* Every step keeps the inductive invariant and the entries of the Channels it
\* does not change.
LEMMA StepInductive ==
    ASSUME IndInv, [Next]_vars
    PROVE  /\ IndInv'
           /\ \A d \in Channels :
                 Registered(d) /\ stage'[d] = "registered" /\ events_'[d] = events_[d]
                    => Entry(d)' = Entry(d)
<1>. DEFINE Kept == \A d \in Channels :
                       Registered(d) /\ stage'[d] = "registered" /\ events_'[d] = events_[d]
                          => Entry(d)' = Entry(d)
<1>1. ASSUME NEW c \in Channels,
             EnableReading(c) \/ EnableWriting(c) \/ DisableWriting(c) \/ DisableAll(c)
      PROVE  IndInv' /\ Kept
  <2>1. PICK ev \in Interests :
           /\ Update(c, ev)
           /\ Registered(c) \/ (stage[c] = "new" /\ MayEnable(c) /\ ev # {})
    BY <1>1, ChannelOperation
  <2>2. CASE Registered(c)
    <3>1. /\ IndInv'
          /\ \A d \in Channels : Registered(d) /\ d # c => Entry(d)' = Entry(d)
      BY <2>1, <2>2, UpdateInductive
    <3>2. events_'[c] = events_[c] => Entry(c)' = Entry(c)
      BY <2>1, <2>2, UpdateSame
    <3>. QED BY <3>1, <3>2
  <2>3. CASE stage[c] = "new" /\ MayEnable(c) /\ ev # {}
    <3>1. IndInv' BY <2>1, <2>3, AddInductive
    <3>2. \A d \in Channels : Registered(d) => Entry(d)' = Entry(d)
      BY <2>1, <2>3, AddKeeps
    <3>. QED BY <3>1, <3>2
  <2>. QED BY <2>1, <2>2, <2>3
<1>2. ASSUME NEW c \in Channels, RemoveChannel(c) PROVE IndInv' /\ Kept
  <2>1. stage'[c] # "registered" BY <1>2 DEF RemoveChannel, IndInv, TypeOK
  <2>. QED BY <1>2, <2>1, RemoveInductive
<1>3. CASE (\E c \in Channels : Renew(c)) \/ Poll
  BY <1>3, OtherInductive
<1>4. CASE UNCHANGED vars
  BY <1>4 DEF vars, IndInv, TypeOK, RegisteredConsistent, NoOrphanEntry, NewInv,
              QuietInv, Entry, Registered
<1>. QED BY <1>1, <1>2, <1>3, <1>4 DEF Next

\* The empty Poller satisfies the inductive invariant.
LEMMA IndInvInit == Init => IndInv
<1>. SUFFICES ASSUME Init PROVE IndInv
  OBVIOUS
<1>1. << >> \in Seq([fd : Int, events : Interests]) /\ Len(<< >>) = 0
  OBVIOUS
<1>2. TypeOK BY <1>1 DEF Init, TypeOK, Interests
<1>3. RegisteredConsistent /\ NewInv /\ QuietInv
  BY DEF Init, RegisteredConsistent, NewInv, QuietInv, Registered
<1>4. NoOrphanEntry
  <2>1. 1..Len(pollfds_) = {} BY <1>1 DEF Init
  <2>2. DOMAIN channels_ = {} BY DEF Init
  <2>. QED BY <2>1, <2>2 DEF NoOrphanEntry
<1>. QED BY <1>2, <1>3, <1>4 DEF IndInv

\* Every reachable state satisfies the inductive invariant.
LEMMA IndInvInvariant == Spec => []IndInv
<1>1. IndInv /\ [Next]_vars => IndInv' BY StepInductive
<1>. QED BY IndInvInit, <1>1, PTL DEF Spec

\* The members of Poller and Channel keep their types.
THEOREM TypeCorrect == Spec => []TypeOK
<1>1. IndInv => TypeOK BY DEF IndInv
<1>. QED BY IndInvInvariant, <1>1, PTL

\* The assertions of updateChannel() and removeChannel() hold for every number
\* of Channels and after any sequence of updates and removals.
THEOREM IndicesAgree == Spec => []RegisteredConsistent
<1>1. IndInv => RegisteredConsistent BY DEF IndInv
<1>. QED BY IndInvInvariant, <1>1, PTL

\* The assertions of fillActiveChannels() hold: every entry of the array leads
\* to a registered Channel.
THEOREM EntriesOwned == Spec => []NoOrphanEntry
<1>1. IndInv => NoOrphanEntry BY DEF IndInv
<1>. QED BY IndInvInvariant, <1>1, PTL

\* updateChannel() and removeChannel() of one Channel leave what poll(2) is told
\* about every other Channel as it was.
THEOREM UpdatesAreLocal == Spec => OthersUntouched
<1>1. IndInv /\ [Next]_vars =>
         [\A c \in Channels :
             Registered(c) /\ stage'[c] = "registered" /\ events_'[c] = events_[c]
                => Entry(c)' = Entry(c)]_vars
  BY StepInductive
<1>. QED BY IndInvInvariant, <1>1, PTL DEF Spec, OthersUntouched

\* poll() reports no Channel that is unregistered or has asked for nothing.
THEOREM QuietAfterDisableAll == Spec => ReportsInterested
<1>1. IndInv /\ [Next]_vars =>
         [\A c \in activeChannels_' :
             c \in activeChannels_ \/ (Registered(c) /\ events_[c] # {})]_vars
  <2>. SUFFICES ASSUME IndInv, Next, activeChannels_' # activeChannels_
                PROVE  \A c \in activeChannels_' : Registered(c) /\ events_[c] # {}
    BY DEF vars
  <2>1. Poll
    BY DEF Next, EnableReading, EnableWriting, DisableWriting, DisableAll, Update,
           RemoveChannel, Renew
  <2>2. ASSUME NEW i \in Polled
        PROVE  LET c == channels_[pollfds_[i].fd] IN Registered(c) /\ events_[c] # {}
    <3>. DEFINE c == channels_[pollfds_[i].fd]
    <3>0. pollfds_ \in Seq([fd : Int, events : Interests]) BY DEF IndInv, TypeOK
    <3>1. i \in 1..Len(pollfds_) /\ pollfds_[i].fd >= 0 BY <3>0 DEF Polled
    <3>2. pollfds_[i].fd \in Int
      <4>1. pollfds_[i] \in [fd : Int, events : Interests] BY <3>0, <3>1, ElementOfSeq
      <4>. QED BY <4>1
    <3>3. Decode(pollfds_[i].fd) = pollfds_[i].fd BY <3>1, <3>2 DEF Decode
    <3>4. /\ c \in Channels /\ Registered(c) /\ index_[c] = i - 1
          /\ Fd[c] = pollfds_[i].fd
      BY <3>1, <3>3 DEF IndInv, NoOrphanEntry, TypeOK
    <3>5. Entry(c).fd >= 0
      <4>1. index_[c] + 1 = i BY <3>1, <3>4
      <4>. QED BY <3>1, <4>1 DEF Entry
    <3>6. Ignored(Fd[c]) < 0 BY <3>4, FdAssumption, DecodeEncode
    <3>7. Ignored(Fd[c]) \in Int BY <3>4, FdAssumption DEF Ignored
    <3>8. Entry(c).fd # Ignored(Fd[c]) BY <3>5, <3>6, <3>7
    <3>9. events_[c] # {} BY <3>4, <3>8 DEF IndInv, QuietInv
    <3>. QED BY <3>4, <3>9
  <2>. QED BY <2>1, <2>2 DEF Poll
<1>. QED BY IndInvInvariant, <1>1, PTL DEF Spec, ReportsInterested

=============================================================================
