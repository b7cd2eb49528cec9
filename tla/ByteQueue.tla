----------------------------- MODULE ByteQueue ------------------------------
(***************************************************************************)
(* What a Buffer promises: a sequence of bytes that is extended at either  *)
(* end and read from the front.                                            *)
(***************************************************************************)
EXTENDS Integers, Sequences

VARIABLE readable

Init == readable = << >>

Push(data) == readable' = readable \o data
PushFront(data) == readable' = data \o readable
Take(n) == n \in 0..Len(readable) /\ readable' = SubSeq(readable, n + 1, Len(readable))

=============================================================================
