---- MODULE MCTcpServer ----
\* A server with up to two I/O threads and three connections.
EXTENDS TcpServer, TLC
====
