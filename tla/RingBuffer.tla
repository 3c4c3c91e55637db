----------------------------- MODULE RingBuffer -----------------------------
(***************************************************************************)
(* net/RingBuffer: a vector of bytes with a read and a write index (from   *)
(* 0), of which the bytes between them are readable.  The indices have     *)
(* type size_t: a difference below zero wraps.                             *)
(*                                                                         *)
(* A buffer is used by one thread at a time.  Whoever prepends a header    *)
(* does so when the message is complete: he appends again only after the   *)
(* header was read, unless AppendsAfterPrepend.                            *)
(***************************************************************************)
EXTENDS Integers, Sequences

CONSTANTS
    Byte,
    Zero,               \* what resize() fills with
    Chunk,              \* what is appended, prepended or read at a time
    s_prepend,
    InitialSize,        \* the argument of the constructor
    SizeMax,            \* the largest size_t
    MaxReadable,        \* bound: nothing is put in beyond it
    AppendsAfterPrepend

ASSUME ConstantsAssumption ==
    /\ Zero \in Byte
    /\ Chunk \subseteq Seq(Byte)
    /\ s_prepend \in Nat /\ InitialSize \in Nat /\ s_prepend <= InitialSize
    /\ SizeMax \in Nat /\ MaxReadable \in Nat
    /\ AppendsAfterPrepend \in BOOLEAN

VARIABLES mc_buffer, m_read_start, m_write_start

vars == <<mc_buffer, m_read_start, m_write_start>>

\* A size_t below zero wraps.
SizeT(x) == IF x < 0 THEN x + SizeMax + 1 ELSE x

Fill(n) == [i \in 1 .. n |-> Zero]

Init ==
    /\ mc_buffer = Fill(InitialSize)
    /\ m_read_start = s_prepend
    /\ m_write_start = s_prepend

-----------------------------------------------------------------------------
(* The operations, as functions of a ring.                                 *)

Ring(buf, read, write) == [buf |-> buf, read |-> read, write |-> write]

This == Ring(mc_buffer, m_read_start, m_write_start)

read_size(ring) == SizeT(ring.write - ring.read)
write_size(ring) == SizeT(Len(ring.buf) - ring.write)

\* std::copy of s to begin() + at, as far as it stays inside the vector.
Copied(buf, at, s) ==
    [i \in 1 .. Len(buf) |-> IF i - at \in 1 .. Len(s) THEN s[i - at] ELSE buf[i]]

resize(buf, n) ==
    [i \in 1 .. n |-> IF i <= Len(buf) THEN buf[i] ELSE Zero]

Readable(ring) == SubSeq(ring.buf, ring.read + 1, ring.write)

\* Faulty variant: counts the room that prepend may use.
AllFree(ring) == write_size(ring) + ring.read
\* The room there is if the readable bytes move to the front.
Free(ring) == SizeT(write_size(ring) + ring.read - s_prepend)

\* Faulty variant: moves the bytes from the front of the vector.
MovedFromFront(ring) == Copied(ring.buf, s_prepend, SubSeq(ring.buf, 1, read_size(ring)))
Moved(ring) == Copied(ring.buf, s_prepend, Readable(ring))

re_ring(ring, len) ==
    IF Free(ring) < len
    THEN Ring(resize(ring.buf, ring.write + len), ring.read, ring.write)
    ELSE Ring(Moved(ring), s_prepend, s_prepend + read_size(ring))

ensure_write(ring, len) ==
    IF write_size(ring) < len THEN re_ring(ring, len) ELSE ring

\* s is written behind what is readable, where there is room for it.
Written(ring, s) ==
    Ring(Copied(ring.buf, ring.write, s), ring.read, ring.write + Len(s))

append(ring, s) == Written(ensure_write(ring, Len(s)), s)

\* readv into the free end of the vector and, beyond it, an array on the stack.
read_from_fd(ring, s) ==
    LET n == write_size(ring) IN
    IF Len(s) <= n THEN Written(ring, s)
    ELSE append(Written(ring, SubSeq(s, 1, n)), SubSeq(s, n + 1, Len(s)))

prepend(ring, s) ==
    Ring(Copied(ring.buf, ring.read - Len(s), s), ring.read - Len(s), ring.write)

\* read_skip, and read_skip_all when nothing is left.
read_skip(ring, len) ==
    IF len < read_size(ring) THEN Ring(ring.buf, ring.read + len, ring.write)
    ELSE Ring(ring.buf, s_prepend, s_prepend)

-----------------------------------------------------------------------------

Become(ring) ==
    /\ mc_buffer' = ring.buf
    /\ m_read_start' = ring.read
    /\ m_write_start' = ring.write

MayPut(s) ==
    /\ read_size(This) + Len(s) <= MaxReadable
    /\ AppendsAfterPrepend \/ m_read_start >= s_prepend

AppendBytes(s) == MayPut(s) /\ Become(append(This, s))

ReadFromFd(s) == MayPut(s) /\ Become(read_from_fd(This, s))

Prepend(s) ==
    /\ read_size(This) + Len(s) <= MaxReadable
    /\ Len(s) <= m_read_start
    /\ Become(prepend(This, s))

ReadSkip(n) == Become(read_skip(This, n))

Next ==
    \/ \E s \in Chunk : AppendBytes(s) \/ ReadFromFd(s) \/ Prepend(s)
    \/ \E n \in 0 .. read_size(This) : ReadSkip(n)

Spec == Init /\ [][Next]_vars

-----------------------------------------------------------------------------
(* Properties.                                                             *)

\* The indices stay in order and inside the vector, so that no copy leaves it
\* and no size wraps (RingBuffer.h:38-45, 186-203).
TypeOK ==
    /\ mc_buffer \in Seq(Byte)
    /\ m_read_start \in 0 .. m_write_start
    /\ m_write_start \in s_prepend .. Len(mc_buffer)

\* Moving to the front, growing and the two halves of read_from_fd lose,
\* repeat and reorder no byte.
Fifo == INSTANCE ByteFifo WITH queue <- Readable(This)
ImplementsByteFifo == Fifo!Spec
=============================================================================
