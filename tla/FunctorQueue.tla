---------------------------- MODULE FunctorQueue ----------------------------
(***************************************************************************)
(* What EventLoop promises the callers of runInLoop() and queueInLoop():   *)
(* one FIFO of functors and one consumer.  A queued functor runs exactly   *)
(* once, in queueing order; a functor run directly by the loop's own       *)
(* thread never enters the queue.                                          *)
(***************************************************************************)
EXTENDS Sequences

CONSTANT Functors

VARIABLES
    queue,       \* functors queued and not yet run, oldest first
    ran          \* functors in the order in which they were run

vars == <<queue, ran>>

\* A functor object stands for one call of queueInLoop() or runInLoop().
Fresh(f) ==
    /\ \A i \in DOMAIN queue : queue[i] # f
    /\ \A i \in DOMAIN ran : ran[i] # f

Init ==
    /\ queue = << >>
    /\ ran = << >>

Submit(f) ==
    /\ Fresh(f)
    /\ queue' = Append(queue, f)
    /\ UNCHANGED ran

RunNow(f) ==
    /\ Fresh(f)
    /\ ran' = Append(ran, f)
    /\ UNCHANGED queue

RunOldest ==
    /\ queue # << >>
    /\ ran' = Append(ran, Head(queue))
    /\ queue' = Tail(queue)

Next ==
    \/ \E f \in Functors : Submit(f) \/ RunNow(f)
    \/ RunOldest

Spec == Init /\ [][Next]_vars

=============================================================================
