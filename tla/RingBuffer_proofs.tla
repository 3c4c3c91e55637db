------------------------- MODULE RingBuffer_proofs -------------------------
(***************************************************************************)
(* Proofs about RingBuffer for any bytes, chunks and sizes, given that     *)
(* nobody appends before a prepended header was read.                      *)
(***************************************************************************)
EXTENDS RingBuffer, SequenceTheorems, TLAPS

RingOK(ring) ==
    /\ ring.buf \in Seq(Byte)
    /\ ring.read \in 0 .. ring.write
    /\ ring.write \in s_prepend .. Len(ring.buf)

LEMMA RingFields ==
    ASSUME NEW b, NEW r, NEW w
    PROVE  Ring(b, r, w).buf = b /\ Ring(b, r, w).read = r /\ Ring(b, r, w).write = w
BY DEF Ring

\* The sizes of a ring in order do not wrap.
LEMMA Sizes ==
    ASSUME NEW ring, RingOK(ring)
    PROVE  /\ Len(ring.buf) \in Nat /\ ring.read \in Nat /\ ring.write \in Nat
           /\ s_prepend \in Nat
           /\ s_prepend <= ring.write /\ ring.read <= ring.write
           /\ ring.write <= Len(ring.buf)
           /\ read_size(ring) = ring.write - ring.read
           /\ write_size(ring) = Len(ring.buf) - ring.write
<1>1. Len(ring.buf) \in Nat /\ s_prepend \in Nat
  BY LenProperties, ConstantsAssumption DEF RingOK
<1>2. ring.write \in Nat /\ s_prepend <= ring.write /\ ring.write <= Len(ring.buf)
  BY <1>1 DEF RingOK
<1>3. ring.read \in Nat /\ ring.read <= ring.write
  BY <1>2 DEF RingOK
<1> QED
  BY <1>1, <1>2, <1>3 DEF read_size, write_size, SizeT

\* Copying changes the bytes it covers and no other.
LEMMA CopiedType ==
    ASSUME NEW b \in Seq(Byte), NEW at \in Nat, NEW s \in Seq(Byte)
    PROVE  /\ Copied(b, at, s) \in Seq(Byte)
           /\ Len(Copied(b, at, s)) = Len(b)
           /\ \A i \in 1 .. Len(b) :
                 Copied(b, at, s)[i] =
                    IF i - at \in 1 .. Len(s) THEN s[i - at] ELSE b[i]
<1>1. Len(b) \in Nat /\ Len(s) \in Nat
  BY LenProperties
<1>2. \A i \in 1 .. Len(b) :
         (IF i - at \in 1 .. Len(s) THEN s[i - at] ELSE b[i]) \in Byte
  BY <1>1, ElementOfSeq
<1> QED
  BY <1>1, <1>2 DEF Copied

LEMMA ReadableBytes ==
    ASSUME NEW ring, RingOK(ring)
    PROVE  /\ Readable(ring) \in Seq(Byte)
           /\ Len(Readable(ring)) = ring.write - ring.read
           /\ \A i \in 1 .. ring.write - ring.read :
                 Readable(ring)[i] = ring.buf[ring.read + i]
<1>1. /\ Len(ring.buf) \in Nat /\ ring.read \in Nat /\ ring.write \in Nat
      /\ ring.read <= ring.write /\ ring.write <= Len(ring.buf)
  BY Sizes
<1>2. ring.buf \in Seq(Byte)
  BY DEF RingOK
<1>3. \A i \in ring.read + 1 .. ring.write : ring.buf[i] \in Byte
  BY <1>1, <1>2, ElementOfSeq
<1>4. ring.read + 1 \in Int /\ ring.write \in Int
  BY <1>1
<1>5. /\ Readable(ring) \in Seq(Byte)
      /\ Len(Readable(ring)) = IF ring.read + 1 <= ring.write
                               THEN ring.write - (ring.read + 1) + 1 ELSE 0
      /\ \A i \in 1 .. ring.write - (ring.read + 1) + 1 :
            Readable(ring)[i] = ring.buf[(ring.read + 1) + i - 1]
  BY <1>3, <1>4, SubSeqProperties DEF Readable
<1>6. ring.write - (ring.read + 1) + 1 = ring.write - ring.read
  BY <1>1
<1>7. \A i \in 1 .. ring.write - ring.read : (ring.read + 1) + i - 1 = ring.read + i
  BY <1>1
<1> QED
  BY <1>1, <1>5, <1>6, <1>7

\* Two rings with the same readable bytes.
LEMMA SameReadable ==
    ASSUME NEW a, NEW b, RingOK(a), RingOK(b),
           a.write - a.read = b.write - b.read,
           \A i \in 1 .. a.write - a.read : a.buf[a.read + i] = b.buf[b.read + i]
    PROVE  Readable(a) = Readable(b)
BY ReadableBytes, SeqEqual

-----------------------------------------------------------------------------
(* Each operation keeps the ring in order and does with the readable bytes *)
(* what ByteFifo says.                                                     *)

\* Moving the readable bytes to the front keeps them.
LEMMA MovedRing ==
    ASSUME NEW ring, RingOK(ring),
           s_prepend + (ring.write - ring.read) <= Len(ring.buf)
    PROVE  LET new == Ring(Moved(ring), s_prepend, s_prepend + read_size(ring))
           IN  /\ RingOK(new)
               /\ Readable(new) = Readable(ring)
               /\ new.write = s_prepend + (ring.write - ring.read)
               /\ Len(new.buf) = Len(ring.buf)
<1> DEFINE n == ring.write - ring.read
           new == Ring(Moved(ring), s_prepend, s_prepend + read_size(ring))
<1>1. /\ Len(ring.buf) \in Nat /\ s_prepend \in Nat /\ n \in Nat
      /\ read_size(ring) = n
  BY Sizes
<1>2. /\ Readable(ring) \in Seq(Byte) /\ Len(Readable(ring)) = n
      /\ \A i \in 1 .. n : Readable(ring)[i] = ring.buf[ring.read + i]
  BY ReadableBytes
<1>3. /\ new.buf = Copied(ring.buf, s_prepend, Readable(ring))
      /\ new.read = s_prepend /\ new.write = s_prepend + n
  BY <1>1, RingFields DEF Moved
<1>4. /\ new.buf \in Seq(Byte) /\ Len(new.buf) = Len(ring.buf)
      /\ \A i \in 1 .. Len(ring.buf) :
            new.buf[i] = IF i - s_prepend \in 1 .. n
                         THEN Readable(ring)[i - s_prepend] ELSE ring.buf[i]
  BY SMTT(30), <1>1, <1>2, <1>3, CopiedType DEF RingOK
<1> HIDE DEF new, n
<1>5. RingOK(new)
  BY <1>1, <1>3, <1>4 DEF RingOK, n
<1>6. \A i \in 1 .. n : new.buf[new.read + i] = ring.buf[ring.read + i]
  <2> SUFFICES ASSUME NEW i \in 1 .. n
               PROVE  new.buf[new.read + i] = ring.buf[ring.read + i]
    OBVIOUS
  <2>1. s_prepend + i \in 1 .. Len(ring.buf) /\ (s_prepend + i) - s_prepend = i
    BY <1>1 DEF n
  <2> QED
    BY <1>2, <1>3, <1>4, <2>1
<1>7. new.write - new.read = ring.write - ring.read
  BY <1>1, <1>3 DEF n
<1>8. Readable(new) = Readable(ring)
  BY <1>5, <1>6, <1>7, SameReadable DEF n
<1> QED
  BY <1>3, <1>4, <1>5, <1>8 DEF new, n

\* Growing the vector keeps the bytes.
LEMMA ResizedRing ==
    ASSUME NEW ring, RingOK(ring), NEW size \in Nat, ring.write <= size,
           Len(ring.buf) <= size
    PROVE  LET new == Ring(resize(ring.buf, size), ring.read, ring.write)
           IN  /\ RingOK(new)
               /\ Readable(new) = Readable(ring)
               /\ new.write = ring.write
               /\ Len(new.buf) = size
<1> DEFINE new == Ring(resize(ring.buf, size), ring.read, ring.write)
<1>1. /\ Len(ring.buf) \in Nat /\ s_prepend \in Nat
      /\ ring.read \in Nat /\ ring.write \in Nat
      /\ s_prepend <= ring.write /\ ring.read <= ring.write
      /\ ring.write <= Len(ring.buf)
  BY Sizes
<1>2. \A i \in 1 .. size : (IF i <= Len(ring.buf) THEN ring.buf[i] ELSE Zero) \in Byte
  BY <1>1, ElementOfSeq, ConstantsAssumption DEF RingOK
<1>3. /\ resize(ring.buf, size) \in Seq(Byte)
      /\ Len(resize(ring.buf, size)) = size
      /\ \A i \in 1 .. size : resize(ring.buf, size)[i] =
                                IF i <= Len(ring.buf) THEN ring.buf[i] ELSE Zero
  BY <1>2 DEF resize
<1>4. /\ new.buf = resize(ring.buf, size)
      /\ new.read = ring.read /\ new.write = ring.write
  BY RingFields
<1> HIDE DEF new
<1>5. RingOK(new)
  BY <1>1, <1>3, <1>4 DEF RingOK
<1>6. \A i \in 1 .. ring.write - ring.read :
         new.buf[new.read + i] = ring.buf[ring.read + i]
  BY <1>1, <1>3, <1>4
<1>7. Readable(new) = Readable(ring)
  BY <1>4, <1>5, <1>6, SameReadable
<1> QED
  BY <1>3, <1>4, <1>5, <1>7 DEF new

\* ensure_write makes room and keeps what is readable.  The front part of the
\* vector is not in use, so that Free does not wrap.
LEMMA EnsureWrite ==
    ASSUME NEW ring, RingOK(ring), s_prepend <= ring.read, NEW len \in Nat
    PROVE  /\ RingOK(ensure_write(ring, len))
           /\ Readable(ensure_write(ring, len)) = Readable(ring)
           /\ ensure_write(ring, len).write + len <= Len(ensure_write(ring, len).buf)
<1>1. /\ Len(ring.buf) \in Nat /\ s_prepend \in Nat
      /\ ring.read \in Nat /\ ring.write \in Nat
      /\ ring.read <= ring.write /\ ring.write <= Len(ring.buf)
      /\ write_size(ring) = Len(ring.buf) - ring.write
  BY Sizes
<1>2. Free(ring) = (Len(ring.buf) - ring.write) + ring.read - s_prepend
  BY <1>1 DEF Free, SizeT
<1>3. CASE ~(write_size(ring) < len)
  BY <1>1, <1>3 DEF ensure_write
<1>4. CASE write_size(ring) < len /\ Free(ring) < len
  <2> DEFINE new == Ring(resize(ring.buf, ring.write + len), ring.read, ring.write)
  <2>1. ensure_write(ring, len) = new
    BY <1>4 DEF ensure_write, re_ring
  <2>2. /\ ring.write + len \in Nat /\ ring.write <= ring.write + len
        /\ Len(ring.buf) <= ring.write + len
    BY <1>1, <1>4
  <2>3. /\ RingOK(new) /\ Readable(new) = Readable(ring)
        /\ new.write = ring.write /\ Len(new.buf) = ring.write + len
    BY <2>2, ResizedRing
  <2> HIDE DEF new
  <2>4. new.write + len <= Len(new.buf)
    BY <1>1, <2>3
  <2> QED
    BY <2>1, <2>3, <2>4
<1>5. CASE write_size(ring) < len /\ ~(Free(ring) < len)
  <2> DEFINE new == Ring(Moved(ring), s_prepend, s_prepend + read_size(ring))
  <2>1. ensure_write(ring, len) = new
    BY <1>5 DEF ensure_write, re_ring
  <2>2. s_prepend + (ring.write - ring.read) + len <= Len(ring.buf)
    BY <1>1, <1>2, <1>5
  <2>3. s_prepend + (ring.write - ring.read) <= Len(ring.buf)
    BY <1>1, <2>2
  <2>4. /\ RingOK(new) /\ Readable(new) = Readable(ring)
        /\ new.write = s_prepend + (ring.write - ring.read)
        /\ Len(new.buf) = Len(ring.buf)
    BY <2>3, MovedRing
  <2> HIDE DEF new
  <2>5. new.write + len <= Len(new.buf)
    BY <2>2, <2>4
  <2> QED
    BY <2>1, <2>4, <2>5
<1> QED
  BY <1>3, <1>4, <1>5

\* Writing where there is room appends.
LEMMA WrittenRing ==
    ASSUME NEW ring, RingOK(ring), NEW s \in Seq(Byte),
           ring.write + Len(s) <= Len(ring.buf)
    PROVE  /\ RingOK(Written(ring, s))
           /\ Readable(Written(ring, s)) = Readable(ring) \o s
           /\ Written(ring, s).read = ring.read
           /\ Written(ring, s).write = ring.write + Len(s)
           /\ Len(Written(ring, s).buf) = Len(ring.buf)
<1> DEFINE new == Written(ring, s)
           n == ring.write - ring.read
<1>1. /\ Len(ring.buf) \in Nat /\ s_prepend \in Nat /\ Len(s) \in Nat
      /\ ring.read \in Nat /\ ring.write \in Nat /\ n \in Nat
      /\ s_prepend <= ring.write /\ ring.read <= ring.write
      /\ ring.write <= Len(ring.buf)
  BY Sizes, LenProperties
<1>2. /\ new.buf = Copied(ring.buf, ring.write, s)
      /\ new.read = ring.read /\ new.write = ring.write + Len(s)
  BY RingFields DEF Written
<1> HIDE DEF new
<1>15. ring.buf \in Seq(Byte)
  BY DEF RingOK
<1>3. /\ new.buf \in Seq(Byte) /\ Len(new.buf) = Len(ring.buf)
      /\ \A i \in 1 .. Len(ring.buf) :
            new.buf[i] = IF i - ring.write \in 1 .. Len(s)
                         THEN s[i - ring.write] ELSE ring.buf[i]
  <2>1. /\ Copied(ring.buf, ring.write, s) \in Seq(Byte)
        /\ Len(Copied(ring.buf, ring.write, s)) = Len(ring.buf)
        /\ \A i \in 1 .. Len(ring.buf) :
              Copied(ring.buf, ring.write, s)[i] =
                 IF i - ring.write \in 1 .. Len(s)
                 THEN s[i - ring.write] ELSE ring.buf[i]
    BY ZenonT(30), <1>1, <1>15, CopiedType
  <2> QED
    BY <2>1, <1>2
<1>4. RingOK(new)
  BY <1>1, <1>2, <1>3 DEF RingOK
<1>5. /\ Readable(ring) \in Seq(Byte) /\ Len(Readable(ring)) = n
      /\ \A i \in 1 .. n : Readable(ring)[i] = ring.buf[ring.read + i]
  BY ReadableBytes
<1>6. new.write - new.read = n + Len(s)
  BY <1>1, <1>2
<1>7. /\ Readable(new) \in Seq(Byte) /\ Len(Readable(new)) = n + Len(s)
      /\ \A i \in 1 .. n + Len(s) : Readable(new)[i] = new.buf[ring.read + i]
  BY <1>2, <1>4, <1>6, ReadableBytes
<1> DEFINE old == Readable(ring)
<1> HIDE DEF old, n
<1>8. /\ old \o s \in Seq(Byte) /\ Len(old \o s) = Len(old) + Len(s)
      /\ \A i \in 1 .. Len(old) + Len(s) :
            (old \o s)[i] = IF i <= Len(old) THEN old[i] ELSE s[i - Len(old)]
  BY ZenonT(30), <1>5, ConcatProperties DEF old
<1>9. ASSUME NEW i \in 1 .. n + Len(s)
      PROVE  Readable(new)[i] = (old \o s)[i]
  <2>1. PICK j \in 1 .. Len(ring.buf) : j = ring.read + i /\ j - ring.write = i - n
    <3>1. /\ ring.read + i \in 1 .. Len(ring.buf)
          /\ (ring.read + i) - ring.write = i - n
      BY SMTT(30), <1>1 DEF n
    <3> QED
      BY <3>1
  <2>2. Readable(new)[i] = new.buf[j]
    BY <1>7, <2>1
  <2>3. CASE i <= n
    <3>1. ~(j - ring.write \in 1 .. Len(s)) /\ i \in 1 .. n
      BY <1>1, <2>1, <2>3 DEF n
    <3>2. new.buf[j] = ring.buf[j]
      BY <1>3, <3>1, Zenon
    <3>3. old[i] = ring.buf[j]
      BY <1>5, <2>1, <3>1 DEF old
    <3>4. (old \o s)[i] = old[i]
      BY <1>5, <1>8, <2>3 DEF old
    <3> QED
      BY <2>2, <3>2, <3>3, <3>4
  <2>4. CASE ~(i <= n)
    <3>1. j - ring.write \in 1 .. Len(s)
      BY SMTT(30), <1>1, <2>1, <2>4 DEF n
    <3>2. new.buf[j] = s[j - ring.write]
      BY <1>3, <3>1, Zenon
    <3>3. (old \o s)[i] = s[i - n]
      BY <1>5, <1>8, <2>4 DEF old
    <3> QED
      BY <2>1, <2>2, <3>2, <3>3, Zenon
  <2> QED
    BY <2>3, <2>4
<1>10. Len(old \o s) = n + Len(s)
  BY <1>5, <1>8 DEF old
<1>11. Readable(new) = old \o s
  BY <1>7, <1>8, <1>9, <1>10, SeqEqual
<1> QED
  BY <1>2, <1>3, <1>4, <1>11 DEF new, old

LEMMA AppendRing ==
    ASSUME NEW ring, RingOK(ring), s_prepend <= ring.read, NEW s \in Seq(Byte)
    PROVE  /\ RingOK(append(ring, s))
           /\ Readable(append(ring, s)) = Readable(ring) \o s
<1>1. Len(s) \in Nat
  BY LenProperties
<1> DEFINE new == ensure_write(ring, Len(s))
<1>2. /\ RingOK(new) /\ Readable(new) = Readable(ring)
      /\ new.write + Len(s) <= Len(new.buf)
  BY <1>1, EnsureWrite
<1> HIDE DEF new
<1>3. RingOK(Written(new, s)) /\ Readable(Written(new, s)) = Readable(ring) \o s
  BY <1>2, WrittenRing
<1> QED
  BY <1>3 DEF append, new

\* What does not fit in the free end goes behind it, in order.
LEMMA ReadFromFdRing ==
    ASSUME NEW ring, RingOK(ring), s_prepend <= ring.read, NEW s \in Seq(Byte)
    PROVE  /\ RingOK(read_from_fd(ring, s))
           /\ Readable(read_from_fd(ring, s)) = Readable(ring) \o s
<1> DEFINE n == write_size(ring)
           a == SubSeq(s, 1, n)
           b == SubSeq(s, n + 1, Len(s))
<1>1. /\ Len(s) \in Nat /\ n \in Nat /\ ring.write \in Nat /\ Len(ring.buf) \in Nat
      /\ ring.write + n = Len(ring.buf)
  BY Sizes, LenProperties
<1>2. CASE Len(s) <= n
  <2>1. ring.write + Len(s) <= Len(ring.buf)
    BY <1>1, <1>2
  <2> QED
    BY <1>2, <2>1, WrittenRing DEF read_from_fd
<1>3. CASE ~(Len(s) <= n)
  <2> HIDE DEF n
  <2>1. a \in Seq(Byte) /\ Len(a) = n
    BY <1>1, <1>3, SubSeqProperties, ElementOfSeq
  <2>2. b \in Seq(Byte)
    BY <1>1, <1>3, SubSeqProperties, ElementOfSeq
  <2>3. a \o b = s
    <3>1. /\ 1 \in 1 .. Len(s) + 1 /\ n \in 1 - 1 .. Len(s)
          /\ Len(s) \in n .. Len(s)
      BY <1>1, <1>3
    <3>2. SubSeq(s, 1, n) \o SubSeq(s, n + 1, Len(s)) = SubSeq(s, 1, Len(s))
      BY <3>1, ConcatAdjacentSubSeq
    <3>3. SubSeq(s, 1, Len(s)) = s
      BY SubSeqFull
    <3> QED
      BY <3>2, <3>3
  <2> HIDE DEF a, b
  <2>4. /\ RingOK(Written(ring, a))
        /\ Readable(Written(ring, a)) = Readable(ring) \o a
        /\ Written(ring, a).read = ring.read
    BY <1>1, <2>1, WrittenRing
  <2>5. /\ RingOK(append(Written(ring, a), b))
        /\ Readable(append(Written(ring, a), b)) = (Readable(ring) \o a) \o b
    BY <2>2, <2>4, AppendRing
  <2>6. Readable(ring) \in Seq(Byte)
    BY ReadableBytes
  <2>7. (Readable(ring) \o a) \o b = Readable(ring) \o s
    <3>1. (Readable(ring) \o a) \o b = Readable(ring) \o (a \o b)
      BY SMTT(30), <2>1, <2>2, <2>6, ConcatAssociative
    <3> QED
      BY <2>3, <3>1
  <2>8. read_from_fd(ring, s) = append(Written(ring, a), b)
    BY <1>3 DEF read_from_fd, a, b, n
  <2> QED
    BY <2>5, <2>7, <2>8
<1> QED
  BY <1>2, <1>3

\* A header goes right before the readable bytes.
LEMMA PrependRing ==
    ASSUME NEW ring, RingOK(ring), NEW s \in Seq(Byte), Len(s) <= ring.read
    PROVE  /\ RingOK(prepend(ring, s))
           /\ Readable(prepend(ring, s)) = s \o Readable(ring)
<1> DEFINE new == prepend(ring, s)
           n == ring.write - ring.read
           old == Readable(ring)
           at == ring.read - Len(s)
<1>1. /\ Len(ring.buf) \in Nat /\ s_prepend \in Nat /\ Len(s) \in Nat
      /\ ring.read \in Nat /\ ring.write \in Nat /\ n \in Nat /\ at \in Nat
      /\ s_prepend <= ring.write /\ ring.read <= ring.write
      /\ ring.write <= Len(ring.buf)
  BY Sizes, LenProperties
<1>2. /\ new.buf = Copied(ring.buf, at, s)
      /\ new.read = at /\ new.write = ring.write
  BY RingFields DEF prepend
<1>3. /\ old \in Seq(Byte) /\ Len(old) = n
      /\ \A i \in 1 .. n : old[i] = ring.buf[ring.read + i]
  BY ReadableBytes
<1>4. /\ s \o old \in Seq(Byte) /\ Len(s \o old) = Len(s) + Len(old)
      /\ \A i \in 1 .. Len(s) + Len(old) :
            (s \o old)[i] = IF i <= Len(s) THEN s[i] ELSE old[i - Len(s)]
  BY <1>3, ConcatProperties
<1>5. ring.buf \in Seq(Byte)
  BY DEF RingOK
<1> HIDE DEF new, old
<1>6. /\ new.buf \in Seq(Byte) /\ Len(new.buf) = Len(ring.buf)
      /\ \A i \in 1 .. Len(ring.buf) :
            new.buf[i] = IF i - at \in 1 .. Len(s) THEN s[i - at] ELSE ring.buf[i]
  <2> HIDE DEF at
  <2>1. /\ Copied(ring.buf, at, s) \in Seq(Byte)
        /\ Len(Copied(ring.buf, at, s)) = Len(ring.buf)
        /\ \A i \in 1 .. Len(ring.buf) :
              Copied(ring.buf, at, s)[i] =
                 IF i - at \in 1 .. Len(s) THEN s[i - at] ELSE ring.buf[i]
    BY <1>1, <1>5, CopiedType
  <2> QED
    BY <2>1, <1>2
<1>7. RingOK(new)
  BY <1>1, <1>2, <1>6 DEF RingOK
<1>8. new.write - new.read = Len(s) + n
  BY <1>1, <1>2
<1>9. /\ Readable(new) \in Seq(Byte) /\ Len(Readable(new)) = Len(s) + n
      /\ \A i \in 1 .. Len(s) + n : Readable(new)[i] = new.buf[at + i]
  BY <1>2, <1>7, <1>8, ReadableBytes
<1>16. ring.read = at + Len(s) /\ ring.write = ring.read + n
  BY <1>1
<1> HIDE DEF n, at
<1>10. ASSUME NEW i \in 1 .. Len(s) + n
       PROVE  Readable(new)[i] = (s \o old)[i]
  <2>1. PICK j \in 1 .. Len(ring.buf) : j = at + i /\ j - at = i
    <3>1. /\ at + i \in 1 .. Len(ring.buf)
          /\ (at + i) - at = i
      BY <1>1, <1>16
    <3> QED
      BY <3>1
  <2>2. CASE i <= Len(s)
    <3>1. j - at \in 1 .. Len(s)
      BY <1>1, <2>1, <2>2
    <3>2. new.buf[j] = s[j - at]
      BY <1>6, <3>1, Zenon
    <3>3. Readable(new)[i] = s[i]
      BY <1>9, <2>1, <3>2
    <3> QED
      BY <1>3, <1>4, <2>2, <3>3
  <2>3. CASE ~(i <= Len(s))
    <3>1. ~(j - at \in 1 .. Len(s))
      BY <1>1, <2>1, <2>3
    <3>2. new.buf[j] = ring.buf[j]
      BY <1>6, <3>1, Zenon
    <3>3. i - Len(s) \in 1 .. n /\ ring.read + (i - Len(s)) = j
      BY <1>1, <1>16, <2>1, <2>3
    <3>4. old[i - Len(s)] = ring.buf[j]
      BY <1>3, <3>3
    <3>5. Readable(new)[i] = old[i - Len(s)]
      BY <1>9, <2>1, <3>2, <3>4
    <3> QED
      BY <1>3, <1>4, <2>3, <3>5
  <2> QED
    BY <2>2, <2>3
<1>11. Len(s \o old) = Len(s) + n
  BY <1>3, <1>4
<1>12. Readable(new) = s \o old
  BY <1>4, <1>9, <1>10, <1>11, SeqEqual
<1> QED
  BY <1>7, <1>12 DEF new, old

\* Skipping drops the first bytes, and starts over when none is left.
LEMMA ReadSkipRing ==
    ASSUME NEW ring, RingOK(ring), NEW n \in 0 .. (ring.write - ring.read)
    PROVE  /\ RingOK(read_skip(ring, n))
           /\ Readable(read_skip(ring, n)) =
                 SubSeq(Readable(ring), n + 1, Len(Readable(ring)))
<1> DEFINE new == read_skip(ring, n)
           old == Readable(ring)
<1>1. /\ Len(ring.buf) \in Nat /\ s_prepend \in Nat /\ n \in Nat
      /\ ring.read \in Nat /\ ring.write \in Nat
      /\ s_prepend <= ring.write /\ ring.read <= ring.write
      /\ ring.write <= Len(ring.buf) /\ read_size(ring) = ring.write - ring.read
  BY Sizes
<1>2. ring.buf \in Seq(Byte)
  BY DEF RingOK
<1>3. /\ old \in Seq(Byte) /\ Len(old) = ring.write - ring.read
      /\ \A i \in 1 .. ring.write - ring.read : old[i] = ring.buf[ring.read + i]
  BY ReadableBytes
<1>4. CASE n < ring.write - ring.read
  <2>1. new.buf = ring.buf /\ new.read = ring.read + n /\ new.write = ring.write
    BY <1>1, <1>4, RingFields DEF read_skip
  <2>2. RingOK(new)
    BY <1>1, <1>2, <1>4, <2>1 DEF RingOK
  <2>3. new.write - new.read = Len(old) - n
    BY <1>1, <1>3, <2>1
  <2> HIDE DEF new, old
  <2>4. /\ Readable(new) \in Seq(Byte) /\ Len(Readable(new)) = Len(old) - n
        /\ \A i \in 1 .. Len(old) - n : Readable(new)[i] = ring.buf[ring.read + n + i]
    BY <2>1, <2>2, <2>3, ReadableBytes
  <2>5. \A i \in n + 1 .. Len(old) : old[i] \in Byte
    BY <1>1, <1>3, ElementOfSeq
  <2>6. /\ SubSeq(old, n + 1, Len(old)) \in Seq(Byte)
        /\ Len(SubSeq(old, n + 1, Len(old))) = Len(old) - n
        /\ \A i \in 1 .. Len(old) - n : SubSeq(old, n + 1, Len(old))[i] = old[n + i]
    <3>1. n + 1 \in Int /\ Len(old) \in Int
      BY <1>1, <1>3
    <3>2. /\ SubSeq(old, n + 1, Len(old)) \in Seq(Byte)
          /\ Len(SubSeq(old, n + 1, Len(old))) =
                IF n + 1 <= Len(old) THEN Len(old) - (n + 1) + 1 ELSE 0
          /\ \A i \in 1 .. Len(old) - (n + 1) + 1 :
                SubSeq(old, n + 1, Len(old))[i] = old[(n + 1) + i - 1]
      BY <2>5, <3>1, SubSeqProperties
    <3>3. Len(old) - (n + 1) + 1 = Len(old) - n /\ n + 1 <= Len(old)
      BY <1>1, <1>3, <1>4
    <3>4. \A i \in 1 .. Len(old) - n : (n + 1) + i - 1 = n + i
      BY <1>1, <1>3
    <3> QED
      BY <3>2, <3>3, <3>4
  <2>7. ASSUME NEW i \in 1 .. Len(old) - n
        PROVE  Readable(new)[i] = SubSeq(old, n + 1, Len(old))[i]
    <3>1. PICK j \in 1 .. ring.write - ring.read :
             j = n + i /\ ring.read + j = ring.read + n + i
      BY <1>1, <1>3
    <3>2. old[j] = ring.buf[ring.read + j]
      BY <1>3
    <3> QED
      BY <2>4, <2>6, <3>1, <3>2
  <2>8. Readable(new) = SubSeq(old, n + 1, Len(old))
    BY <2>4, <2>6, <2>7, SeqEqual
  <2> QED
    BY <2>2, <2>8 DEF new, old
<1>5. CASE ~(n < ring.write - ring.read)
  <2>1. new.buf = ring.buf /\ new.read = s_prepend /\ new.write = s_prepend
    BY <1>1, <1>5, RingFields DEF read_skip
  <2>2. RingOK(new)
    BY <1>1, <1>2, <2>1 DEF RingOK
  <2> HIDE DEF new, old
  <2>3. Readable(new) = << >>
    BY <1>1, <2>1, <2>2, ReadableBytes, EmptySeq
  <2>4. n + 1 \in Int /\ Len(old) \in Int /\ Len(old) < n + 1
    BY <1>1, <1>3, <1>5
  <2>5. SubSeq(old, n + 1, Len(old)) = << >>
    BY <2>4, SubSeqEmpty
  <2> QED
    BY <2>2, <2>3, <2>5 DEF new, old
<1> QED
  BY <1>1, <1>4, <1>5

-----------------------------------------------------------------------------
(* The buffer as a state machine.                                          *)

LEMMA ThisOK ==
    ASSUME TypeOK
    PROVE  /\ RingOK(This)
           /\ This.read = m_read_start /\ This.write = m_write_start
           /\ This.buf = mc_buffer
BY RingFields DEF TypeOK, RingOK, This

LEMMA BecomeRing ==
    ASSUME NEW ring, RingOK(ring), Become(ring)
    PROVE  TypeOK' /\ Readable(This)' = Readable(ring)
<1>1. mc_buffer' = ring.buf /\ m_read_start' = ring.read /\ m_write_start' = ring.write
  BY DEF Become
<1>2. /\ This'.buf = ring.buf /\ This'.read = ring.read
      /\ This'.write = ring.write
  BY <1>1, RingFields DEF This
<1>3. TypeOK'
  BY <1>1 DEF TypeOK, RingOK
<1> QED
  BY <1>2, <1>3 DEF Readable

\* What a step does to the ring and to the queue.
LEMMA StepOK ==
    ASSUME TypeOK, [Next]_vars, ~AppendsAfterPrepend
    PROVE  TypeOK' /\ [Fifo!Next]_(Readable(This))
<1> USE DEF Fifo!Next, Fifo!Put, Fifo!PutBefore, Fifo!Skip
<1>1. ASSUME NEW s \in Chunk, AppendBytes(s)
      PROVE  TypeOK' /\ Fifo!Put(s)
  <2>1. s \in Seq(Byte) /\ s_prepend <= This.read
    BY <1>1, ThisOK, ConstantsAssumption DEF AppendBytes, MayPut
  <2>2. RingOK(append(This, s)) /\ Readable(append(This, s)) = Readable(This) \o s
    BY <2>1, ThisOK, AppendRing
  <2>3. Become(append(This, s))
    BY <1>1 DEF AppendBytes
  <2> QED
    BY <2>2, <2>3, BecomeRing
<1>2. ASSUME NEW s \in Chunk, ReadFromFd(s)
      PROVE  TypeOK' /\ Fifo!Put(s)
  <2>1. s \in Seq(Byte) /\ s_prepend <= This.read
    BY <1>2, ThisOK, ConstantsAssumption DEF ReadFromFd, MayPut
  <2>2. /\ RingOK(read_from_fd(This, s))
        /\ Readable(read_from_fd(This, s)) = Readable(This) \o s
    BY <2>1, ThisOK, ReadFromFdRing
  <2>3. Become(read_from_fd(This, s))
    BY <1>2 DEF ReadFromFd
  <2> QED
    BY <2>2, <2>3, BecomeRing
<1>3. ASSUME NEW s \in Chunk, Prepend(s)
      PROVE  TypeOK' /\ Fifo!PutBefore(s)
  <2>1. s \in Seq(Byte) /\ Len(s) <= This.read
    BY <1>3, ThisOK, ConstantsAssumption DEF Prepend
  <2>2. RingOK(prepend(This, s)) /\ Readable(prepend(This, s)) = s \o Readable(This)
    BY <2>1, ThisOK, PrependRing
  <2>3. Become(prepend(This, s))
    BY <1>3 DEF Prepend
  <2> QED
    BY <2>2, <2>3, BecomeRing
<1>4. ASSUME NEW n \in 0 .. read_size(This), ReadSkip(n)
      PROVE  TypeOK' /\ n \in 0 .. Len(Readable(This)) /\ Fifo!Skip(n)
  <2>1. n \in 0 .. (This.write - This.read)
    BY <1>4, ThisOK, Sizes
  <2>2. /\ RingOK(read_skip(This, n))
        /\ Readable(read_skip(This, n)) =
              SubSeq(Readable(This), n + 1, Len(Readable(This)))
    BY <2>1, ThisOK, ReadSkipRing
  <2>3. Become(read_skip(This, n))
    BY <1>4 DEF ReadSkip
  <2>4. n \in 0 .. Len(Readable(This))
    BY <2>1, ThisOK, ReadableBytes
  <2> QED
    BY <2>2, <2>3, <2>4, BecomeRing
<1>5. CASE UNCHANGED vars
  <2>1. TypeOK'
    BY <1>5 DEF TypeOK, vars
  <2>2. Readable(This)' = Readable(This)
    BY <1>5 DEF vars, This, Ring, Readable
  <2> QED
    BY <2>1, <2>2
<1> QED
  BY <1>1, <1>2, <1>3, <1>4, <1>5 DEF Next

LEMMA InitOK == Init => TypeOK /\ Fifo!Init
<1> SUFFICES ASSUME Init PROVE TypeOK /\ Fifo!Init
  OBVIOUS
<1>1. /\ mc_buffer \in Seq(Byte) /\ Len(mc_buffer) = InitialSize
      /\ m_read_start = s_prepend /\ m_write_start = s_prepend
  <2>1. Fill(InitialSize) \in Seq(Byte) /\ Len(Fill(InitialSize)) = InitialSize
    BY ConstantsAssumption DEF Fill
  <2> QED
    BY <2>1 DEF Init
<1>2. TypeOK
  BY <1>1, ConstantsAssumption DEF TypeOK
<1>3. Len(Readable(This)) = 0 /\ Readable(This) \in Seq(Byte)
  BY <1>1, <1>2, ThisOK, ReadableBytes, ConstantsAssumption
<1> QED
  BY <1>2, <1>3, EmptySeq DEF Fifo!Init

\* The indices of the buffer (RingBuffer.h:38-45, 186-203) stay in order and
\* inside the vector: no size wraps, no copy leaves it.
THEOREM TypeCorrect ==
    ASSUME ~AppendsAfterPrepend
    PROVE  Spec => []TypeOK
<1>1. Init => TypeOK
  BY InitOK
<1>2. TypeOK /\ [Next]_vars => TypeOK'
  BY StepOK
<1> QED
  BY <1>1, <1>2, PTL DEF Spec

\* Through every move, growth and split read (RingBuffer.cc:8-36) the buffer
\* is a queue of bytes.
THEOREM IsByteFifo ==
    ASSUME ~AppendsAfterPrepend
    PROVE  Spec => ImplementsByteFifo
<1>1. Init => TypeOK /\ Fifo!Init
  BY InitOK
<1>2. TypeOK /\ [Next]_vars => TypeOK' /\ [Fifo!Next]_(Readable(This))
  BY StepOK
<1> QED
  BY <1>1, <1>2, PTL DEF Spec, ImplementsByteFifo, Fifo!Spec

=============================================================================
