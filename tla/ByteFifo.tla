------------------------------ MODULE ByteFifo ------------------------------
(***************************************************************************)
(* What net/RingBuffer.h promises (append, prepend, read_skip, to_string): *)
(* a queue of bytes, with no limit on its length.                          *)
(***************************************************************************)
EXTENDS Naturals, Sequences

CONSTANT Chunk      \* what is put into the queue at a time

VARIABLE queue

Init == queue = << >>

Put(s) == queue' = queue \o s

PutBefore(s) == queue' = s \o queue

Skip(n) == queue' = SubSeq(queue, n + 1, Len(queue))

Next ==
    \/ \E s \in Chunk : Put(s) \/ PutBefore(s)
    \/ \E n \in 0 .. Len(queue) : Skip(n)

Spec == Init /\ [][Next]_queue
=============================================================================
