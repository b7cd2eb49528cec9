---- MODULE MCTcpClient ----
\* TcpClient with two descriptors and delays of 1, 2 and 3.
EXTENDS TcpClient, TLC
CONSTANTS s1, s2
MCSockets == {s1, s2}
MCTimerIds == 1..6
====
