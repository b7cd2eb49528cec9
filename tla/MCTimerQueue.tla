---- MODULE MCTimerQueue ----
\* TimerQueue with one foreign thread and two addresses, so that an address is
\* used again after a delete.
EXTENDS TimerQueue, TLC
CONSTANTS t1, a1, a2
MCAddrs == {a1, a2}
MCThreads == {t1}
MCDelays == {2}
MCIntervals == {1}
====
