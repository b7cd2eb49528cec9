---- MODULE MCLatchedPool ----
\* Two workers, two producers, four tasks, two of which count down.
EXTENDS LatchedPool, TLC
CONSTANTS w1, w2, p1, p2, k1, k2, k3, k4
MCWorkers == {w1, w2}
MCProducers == {p1, p2}
MCTasks == {k1, k2, k3, k4}
MCCounting == {k1, k2}
====
