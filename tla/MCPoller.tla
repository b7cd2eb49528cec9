---- MODULE MCPoller ----
\* Poller with three descriptors, one of them used by two Channels in turn.
EXTENDS Poller, TLC
CONSTANTS c1, c2, c3, c4
MCChannels == {c1, c2, c3, c4}
MCFd == c1 :> 0 @@ c2 :> 1 @@ c3 :> 2 @@ c4 :> 2
====
