---- MODULE MCTcpConnection ----
\* TcpConnection with two foreign threads and two messages of two bytes.
EXTENDS TcpConnection, TLC
CONSTANTS t1, t2, m1, m2
MCThreads == {t1, t2}
MCMessages == {m1, m2}
====
