----------------------------- MODULE ByteStream -----------------------------
(***************************************************************************)
(* What TcpConnection promises of its output (net/TcpConnection.cc:75-145  *)
(* and 245-282): messages are taken whole, one after the other, and their  *)
(* bytes leave in that order, each once.  Nothing says where they go or    *)
(* that all of them leave.                                                 *)
(***************************************************************************)
EXTENDS Naturals, Sequences

CONSTANTS Message, Bytes(_)     \* the messages and the bytes of each

VARIABLES buffer, left          \* bytes that wait and bytes that left

svars == <<buffer, left>>

Init == buffer = << >> /\ left = << >>

\* The first n bytes of s leave, the others wait.
Leave(s, n) ==
    /\ left' = left \o SubSeq(s, 1, n)
    /\ buffer' = SubSeq(s, n + 1, Len(s))

\* A message is taken, and some bytes may leave at once.
Take(m) == \E n \in 0 .. Len(buffer \o Bytes(m)) : Leave(buffer \o Bytes(m), n)

Emit == \E n \in 0 .. Len(buffer) : Leave(buffer, n)

Next == Emit \/ \E m \in Message : Take(m)

Spec == Init /\ [][Next]_svars
=============================================================================
