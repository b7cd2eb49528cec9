---- MODULE MCEventLoopThread ----
\* The owner and another user of the loop, and two functors.
EXTENDS EventLoopThread, TLC
CONSTANTS user, f1, f2
MCThreads == {Owner, user}
MCFunctors == {f1, f2}
====
