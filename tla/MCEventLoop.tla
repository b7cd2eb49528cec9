---- MODULE MCEventLoop ----
\* EventLoop with two foreign threads and three functors, and an eventfd that
\* saturates after two writes.
EXTENDS EventLoop, TLC
CONSTANTS t1, t2, f1, f2, f3
MCThreads == {t1, t2}
MCFunctors == {f1, f2, f3}
====
