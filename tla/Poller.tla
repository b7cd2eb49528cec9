------------------------------- MODULE Poller -------------------------------
(***************************************************************************)
(* Dalin's Poller with the Channels registered in it (src/net/Poller.cpp,  *)
(* src/net/Channel.cpp).  The Poller keeps the array it passes to poll(2)  *)
(* and a map from descriptors to Channels; a Channel keeps the position of *)
(* its entry in the array.  removeChannel() moves the last entry into the  *)
(* hole, so one Channel's removal rewrites another Channel's index.        *)
(*                                                                         *)
(* Everything here runs in the loop's thread, which every operation        *)
(* asserts.  The user of a Channel constructs it, enables an event, then   *)
(* enables and disables events at will, and calls disableAll() and         *)
(* removeChannel() before destroying it.  Two Channels may have the same   *)
(* descriptor one after the other, as a Connector's and the connection's   *)
(* have.                                                                   *)
(***************************************************************************)
EXTENDS Integers, Sequences

CONSTANTS
    Channels,      \* Channel objects
    Fd             \* the descriptor fd_ of each

ASSUME FdAssumption == Fd \in [Channels -> Nat]

VARIABLES
    pollfds_,          \* the array given to poll(2)
    channels_,         \* map from descriptors to registered Channels
    events_, index_,   \* members of each Channel
    stage,             \* where each Channel is in its life
    activeChannels_    \* what the last poll() reported

vars == <<pollfds_, channels_, events_, index_, stage, activeChannels_>>

Interests == SUBSET {"read", "write"}

\* poll(2) skips an entry whose descriptor is negative.
Ignored(fd) == -fd - 1
Decode(fd) == IF fd < 0 THEN -fd - 1 ELSE fd

Registered(c) == stage[c] = "registered"

Init ==
    /\ pollfds_ = << >>
    /\ channels_ = [fd \in {} |-> CHOOSE c \in Channels : TRUE]
    /\ events_ = [c \in Channels |-> {}]
    /\ index_ = [c \in Channels |-> -1]
    /\ stage = [c \in Channels |-> "new"]
    /\ activeChannels_ = {}

-----------------------------------------------------------------------------
(***************************************************************************)
(* updateChannel()                                                         *)
(***************************************************************************)
AddEntry(c, ev) ==
    /\ index_[c] < 0
    /\ pollfds_' = Append(pollfds_, [fd |-> Fd[c], events |-> ev])
    /\ index_' = [index_ EXCEPT ![c] = Len(pollfds_)]
    /\ channels_' = [fd \in DOMAIN channels_ \cup {Fd[c]} |->
                        IF fd = Fd[c] THEN c ELSE channels_[fd]]

\* Seeded fault: an entry without events keeps its descriptor.
UpdateEntryStillPolled(c, ev) ==
    /\ index_[c] >= 0
    /\ pollfds_' = [pollfds_ EXCEPT ![index_[c] + 1].events = ev]
    /\ UNCHANGED <<index_, channels_>>

UpdateEntry(c, ev) ==
    /\ index_[c] >= 0
    /\ LET i == index_[c] + 1 IN
       pollfds_' = [pollfds_ EXCEPT
                      ![i] = [fd |-> IF ev = {} THEN Ignored(Fd[c]) ELSE pollfds_[i].fd,
                              events |-> ev]]
    /\ UNCHANGED <<index_, channels_>>

Update(c, ev) ==
    /\ events_' = [events_ EXCEPT ![c] = ev]
    /\ stage' = [stage EXCEPT ![c] = "registered"]
    /\ AddEntry(c, ev) \/ UpdateEntry(c, ev)
    /\ UNCHANGED activeChannels_

\* The user enables an event of a Channel that is registered, or of a new one
\* while no other Channel is registered for the descriptor.
MayEnable(c) ==
    \/ Registered(c)
    \/ stage[c] = "new" /\ \A d \in Channels : Registered(d) => Fd[d] # Fd[c]

EnableReading(c)  == MayEnable(c) /\ Update(c, events_[c] \cup {"read"})
EnableWriting(c)  == MayEnable(c) /\ Update(c, events_[c] \cup {"write"})
DisableWriting(c) == Registered(c) /\ Update(c, events_[c] \ {"write"})
DisableAll(c)     == Registered(c) /\ Update(c, {})

(***************************************************************************)
(* removeChannel(): the last entry takes the place of the removed one.     *)
(***************************************************************************)
\* Seeded fault: the index of the Channel whose entry moved is not updated.
RemoveEntryNoReindex(c) ==
    LET i == index_[c] + 1
        n == Len(pollfds_)
    IN /\ pollfds_' = [j \in 1..(n - 1) |-> IF j = i THEN pollfds_[n] ELSE pollfds_[j]]
       /\ UNCHANGED index_

\* Seeded fault: the entries behind the removed one move up by one place and
\* only the Channel of the last entry gets a new index.
RemoveEntryShift(c) ==
    LET i == index_[c] + 1
        n == Len(pollfds_)
    IN /\ pollfds_' = [j \in 1..(n - 1) |-> pollfds_[IF j < i THEN j ELSE j + 1]]
       /\ index_' = IF i = n
                    THEN index_
                    ELSE [index_ EXCEPT ![channels_[Decode(pollfds_[n].fd)]] = n - 2]

RemoveEntry(c) ==
    LET i == index_[c] + 1
        n == Len(pollfds_)
        last == pollfds_[n]
    IN /\ pollfds_' = [j \in 1..(n - 1) |-> IF j = i THEN last ELSE pollfds_[j]]
       /\ index_' = IF i = n
                    THEN index_
                    ELSE [index_ EXCEPT ![channels_[Decode(last.fd)]] = index_[c]]

\* Seeded fault: the Channel is not erased from the map.
RemoveChannelKeepsMap(c) ==
    /\ Registered(c)
    /\ events_[c] = {}
    /\ RemoveEntry(c)
    /\ stage' = [stage EXCEPT ![c] = "removed"]
    /\ UNCHANGED <<channels_, events_, activeChannels_>>

RemoveChannel(c) ==
    /\ Registered(c)
    /\ events_[c] = {}
    /\ RemoveEntry(c)
    /\ channels_' = [fd \in DOMAIN channels_ \ {Fd[c]} |-> channels_[fd]]
    /\ stage' = [stage EXCEPT ![c] = "removed"]
    /\ UNCHANGED <<events_, activeChannels_>>

\* A removed Channel is destroyed; its name stands for a new Channel next.
Renew(c) ==
    /\ stage[c] = "removed"
    /\ stage' = [stage EXCEPT ![c] = "new"]
    /\ events_' = [events_ EXCEPT ![c] = {}]
    /\ index_' = [index_ EXCEPT ![c] = -1]
    /\ UNCHANGED <<pollfds_, channels_, activeChannels_>>

(***************************************************************************)
(* poll() and fillActiveChannels(): any entry poll(2) looks at may have    *)
(* something to report, errors and hang-ups without having asked for them. *)
(***************************************************************************)
Polled == {i \in DOMAIN pollfds_ : pollfds_[i].fd >= 0}

Poll ==
    /\ \E ready \in SUBSET Polled :
          activeChannels_' = {channels_[pollfds_[i].fd] : i \in ready}
    /\ UNCHANGED <<pollfds_, channels_, events_, index_, stage>>

Next ==
    \/ \E c \in Channels :
          \/ EnableReading(c)
          \/ EnableWriting(c)
          \/ DisableWriting(c)
          \/ DisableAll(c)
          \/ RemoveChannel(c)
          \/ Renew(c)
    \/ Poll

Spec == Init /\ [][Next]_vars

-----------------------------------------------------------------------------
\* Every variable holds a value of the type the classes declare.
TypeOK ==
    /\ pollfds_ \in Seq([fd : Int, events : Interests])
    /\ DOMAIN channels_ \subseteq Nat
    /\ \A fd \in DOMAIN channels_ : channels_[fd] \in Channels
    /\ events_ \in [Channels -> Interests]
    /\ index_ \in [Channels -> Int]
    /\ stage \in [Channels -> {"new", "registered", "removed"}]
    /\ activeChannels_ \subseteq Channels

\* The assertions of updateChannel() and removeChannel() about a registered
\* Channel: the map leads to it, its index leads to its entry, and the entry
\* has its descriptor and its events.
RegisteredConsistent ==
    \A c \in Channels : Registered(c) =>
        /\ Fd[c] \in DOMAIN channels_
        /\ channels_[Fd[c]] = c
        /\ index_[c] + 1 \in 1..Len(pollfds_)
        /\ pollfds_[index_[c] + 1].fd \in {Fd[c], Ignored(Fd[c])}
        /\ pollfds_[index_[c] + 1].events = events_[c]

\* The converse, on which fillActiveChannels() relies: every entry of the array
\* belongs to a registered Channel that has it as its own, and the map leads to
\* registered Channels only.
NoOrphanEntry ==
    /\ \A i \in 1..Len(pollfds_) :
          LET fd == Decode(pollfds_[i].fd) IN
             fd \in DOMAIN channels_ /\ index_[channels_[fd]] = i - 1
    /\ \A fd \in DOMAIN channels_ :
          Registered(channels_[fd]) /\ Fd[channels_[fd]] = fd

\* What poll(2) is told about a registered Channel.
Entry(c) == pollfds_[index_[c] + 1]

\* Changing or removing one Channel leaves what poll(2) is told about every
\* other Channel as it was, although removeChannel() moves entries.
OthersUntouched ==
    [][\A c \in Channels :
          Registered(c) /\ stage'[c] = "registered" /\ events_'[c] = events_[c]
             => Entry(c)' = Entry(c)]_vars

\* poll() reports only registered Channels that have asked for some event: a
\* Channel is quiet from disableAll() on.
ReportsInterested ==
    [][\A c \in activeChannels_' :
          c \in activeChannels_ \/ (Registered(c) /\ events_[c] # {})]_vars

\* updateChannel() "Changes the interested I/O events" (Poller.h): a registered
\* Channel that has asked for some event is looked at by poll(2).
InterestPolled ==
    \A c \in Channels :
        Registered(c) /\ events_[c] # {} => index_[c] + 1 \in Polled

=============================================================================
