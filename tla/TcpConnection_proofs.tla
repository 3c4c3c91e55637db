------------------------ MODULE TcpConnection_proofs ------------------------
(***************************************************************************)
(* Proofs about TcpConnection for any message length, number of messages   *)
(* and room of the socket, and for anything m_fd may be.                   *)
(***************************************************************************)
EXTENDS TcpConnection, SequenceTheorems, TLAPS

Sent == [byte : Byte, fd : {"own", "other"}]

\* A sequence is its first n elements and the rest.
LEMMA Split ==
    ASSUME NEW S, NEW s \in Seq(S), NEW n \in 0 .. Len(s)
    PROVE  /\ SubSeq(s, 1, n) \in Seq(S)
           /\ Len(SubSeq(s, 1, n)) = n
           /\ SubSeq(s, n + 1, Len(s)) \in Seq(S)
           /\ Len(SubSeq(s, n + 1, Len(s))) = Len(s) - n
<1>1. Len(s) \in Nat /\ n \in Nat /\ n \in Int /\ Len(s) \in Int /\ n + 1 \in Int
  BY LenProperties
<1>2. \A i \in 1 .. Len(s) : s[i] \in S
  BY ElementOfSeq
<1>3. \A i \in 1 .. n : s[i] \in S
  BY <1>1, <1>2
<1>4. \A i \in n + 1 .. Len(s) : s[i] \in S
  BY <1>1, <1>2
<1>5. /\ SubSeq(s, 1, n) \in Seq(S)
      /\ Len(SubSeq(s, 1, n)) = IF 1 <= n THEN n - 1 + 1 ELSE 0
  BY <1>1, <1>3, SubSeqProperties
<1>6. /\ SubSeq(s, n + 1, Len(s)) \in Seq(S)
      /\ Len(SubSeq(s, n + 1, Len(s))) =
            IF n + 1 <= Len(s) THEN Len(s) - (n + 1) + 1 ELSE 0
  BY <1>1, <1>4, SubSeqProperties
<1> QED
  BY <1>1, <1>5, <1>6

\* Each message has MsgLen bytes.
LEMMA BytesType ==
    ASSUME NEW m \in Message
    PROVE  Bytes(m) \in Seq(Byte) /\ Len(Bytes(m)) = MsgLen
<1>1. MsgLen \in Nat
  BY ConstantsAssumption
<1>2. \A i \in 1 .. MsgLen : <<m, i>> \in Byte
  BY DEF Byte
<1> QED
  BY <1>1, <1>2 DEF Bytes

\* To keeps the length and marks each byte.
LEMMA ToType ==
    ASSUME NEW fd \in {"own", "other"}, NEW s \in Seq(Byte)
    PROVE  /\ To(fd, s) \in Seq(Sent)
           /\ Len(To(fd, s)) = Len(s)
           /\ \A i \in 1 .. Len(s) : To(fd, s)[i].byte = s[i]
<1>1. Len(s) \in Nat /\ \A i \in 1 .. Len(s) : s[i] \in Byte
  BY LenProperties, ElementOfSeq
<1>2. \A i \in 1 .. Len(s) : [byte |-> s[i], fd |-> fd] \in Sent
  BY <1>1 DEF Sent
<1> QED
  BY <1>1, <1>2 DEF To

\* The parts of a message that are written and that wait.
LEMMA RestType ==
    ASSUME NEW m \in Message, NEW n \in 0 .. MsgLen
    PROVE  /\ SubSeq(Bytes(m), 1, n) \in Seq(Byte)
           /\ Rest(Bytes(m), n) \in Seq(Byte)
           /\ Rest(Bytes(m), n) = SubSeq(Bytes(m), n + 1, Len(Bytes(m)))
BY BytesType, Split DEF Rest

LEMMA LeastInRange ==
    ASSUME NEW a \in Nat, NEW b \in Nat
    PROVE  Least(a, b) \in 0 .. a /\ Least(a, b) \in 0 .. b
BY DEF Least

\* What a step of HandleWrite does that writes n bytes.
HandleWrites(n) ==
    LET rest == SubSeq(mc_output, n + 1, Len(mc_output))
    IN  /\ left' = left \o To(m_fd, SubSeq(mc_output, 1, n))
        /\ mc_output' = rest
        /\ room' = IF m_fd = "own" THEN room - n ELSE room
        /\ IF rest = << >> THEN SetEvents(m_events \ {"write"})
           ELSE UNCHANGED <<m_events, deaf>>
        /\ fin' = (fin \/ FinAfterOutput(rest))

LEMMA WriteStep == HandleWrite => \E n \in Writable : HandleWrites(n)
BY DEF HandleWrite, HandleWrites

LEMMA WritableRange ==
    ASSUME TypeOK, NEW n \in Writable
    PROVE  n \in 0 .. Len(mc_output) /\ (m_fd = "own" => n \in 0 .. room)
<1>1. mc_output \in Seq(Byte) /\ Len(mc_output) \in Nat /\ room \in Nat
  BY ConstantsAssumption, LenProperties DEF TypeOK
<1>2. /\ Least(Len(mc_output), room) \in 0 .. Len(mc_output)
      /\ Least(Len(mc_output), room) \in 0 .. room
  BY <1>1, LeastInRange
<1>3. n \in 1 .. Len(mc_output) => n \in 0 .. Len(mc_output)
  BY <1>1
<1> QED
  BY <1>2, <1>3 DEF Writable

LEMMA TypeInit == Init => TypeOK
<1> SUFFICES ASSUME Init PROVE TypeOK
  OBVIOUS
<1>1. /\ << >> \in Seq(Byte) /\ << >> \in Seq(Task) /\ << >> \in Seq(Message)
      /\ << >> \in Seq([byte : Byte, fd : {"own", "other"}])
  OBVIOUS
<1>2. Room \in Nat /\ MaxSends \in Nat
  BY ConstantsAssumption
<1>3. room \in 0 .. Room
  BY <1>2 DEF Init
<1>4. sends \in [Thread -> 0 .. MaxSends]
  BY <1>2 DEF Init
<1> QED
  BY <1>1, <1>3, <1>4 DEF Init, TypeOK

\* send_run_in_loop keeps the types of what it changes.
LEMMA SendType ==
    ASSUME TypeOK, NEW m \in Message, send_run_in_loop(m)
    PROVE  /\ m_events' \subseteq {"read", "write"}
           /\ deaf' \in BOOLEAN
           /\ mc_output' \in Seq(Byte)
           /\ left' \in Seq(Sent)
           /\ room' \in 0 .. Room
           /\ taken' \in Seq(Message)
           /\ lost' \subseteq Message
           /\ killed' \in BOOLEAN
<1> USE DEF TypeOK, Sent
<1>1. CASE SendIntoClosed(m)
  BY <1>1 DEF SendIntoClosed
<1>2. CASE SendRaisesSigpipe(m) \/ SendFails(m)
  BY <1>2 DEF SendRaisesSigpipe, SendFails
<1>3. CASE SendWrites(m)
  <2> DEFINE n == Least(MsgLen, room)
  <2>1. MsgLen \in Nat /\ Room \in Nat /\ room \in Nat
    BY ConstantsAssumption
  <2>2. n \in 0 .. MsgLen /\ n \in 0 .. room
    BY <2>1, LeastInRange
  <2>3. /\ SubSeq(Bytes(m), 1, n) \in Seq(Byte)
        /\ Rest(Bytes(m), n) \in Seq(Byte)
    BY <2>2, RestType
  <2>4. To("own", SubSeq(Bytes(m), 1, n)) \in Seq(Sent)
    BY <2>3, ToType
  <2>5. left' \in Seq(Sent) /\ mc_output' \in Seq(Byte)
    BY <1>3, <2>3, <2>4, ConcatProperties DEF SendWrites
  <2>6. room' \in 0 .. Room
    BY <1>3, <2>1, <2>2 DEF SendWrites
  <2>7. m_events' \subseteq {"read", "write"} /\ deaf' \in BOOLEAN
    BY <1>3 DEF SendWrites, SetEvents, EventsAfter
  <2>8. taken' \in Seq(Message) /\ lost' \subseteq Message /\ killed' \in BOOLEAN
    BY <1>3 DEF SendWrites
  <2> QED
    BY <2>5, <2>6, <2>7, <2>8
<1>4. CASE SendBuffers(m)
  <2>1. mc_output' \in Seq(Byte)
    BY <1>4, BytesType, ConcatProperties DEF SendBuffers
  <2>2. m_events' \subseteq {"read", "write"} /\ deaf' \in BOOLEAN
    BY <1>4 DEF SendBuffers, SetEvents, EventsAfter
  <2> QED
    BY <1>4, <2>1, <2>2 DEF SendBuffers
<1> QED
  BY <1>1, <1>2, <1>3, <1>4 DEF send_run_in_loop

\* Every task but Shutdown is the send of a message.
LEMMA TaskIsSend ==
    ASSUME NEW x \in Task, x # Shutdown
    PROVE  x.msg \in Message /\ x = Send(x.msg)
BY DEF Task, Send

LEMMA NextMessageType ==
    ASSUME TypeOK, NEW t \in Thread, sends[t] < MaxSends
    PROVE  NextMessage(t) \in Message
BY ConstantsAssumption DEF TypeOK, NextMessage, Message

LEMMA TypeNext == TypeOK /\ [Next]_vars => TypeOK'
<1> SUFFICES ASSUME TypeOK, [Next]_vars PROVE TypeOK'
  OBVIOUS
<1>0. LoopThread \in Thread /\ Other \in Thread
  BY DEF Thread
<1>a. MaxSends \in Nat /\ Room \in Nat
  BY ConstantsAssumption
<1>1. CASE LoopSends
  <2>1. NextMessage(LoopThread) \in Message
    BY <1>0, <1>1, NextMessageType DEF LoopSends
  <2>2. send_run_in_loop(NextMessage(LoopThread))
    BY <1>1 DEF LoopSends
  <2>3. sends' \in [Thread -> 0 .. MaxSends]
    BY <1>0, <1>a, <1>1 DEF LoopSends, TypeOK
  <2> QED
    BY <1>1, <2>1, <2>2, <2>3, SendType DEF LoopSends, TypeOK, Sent
<1>2. CASE LoopShutsDown
  BY <1>2 DEF LoopShutsDown, shutdown_run_in_loop, FinAllowed, is_writing, TypeOK,
     io
<1>3. CASE StopRead
  BY <1>3 DEF StopRead, SetEvents, TypeOK
<1>4. CASE StartRead
  BY <1>4 DEF StartRead, SetEvents, TypeOK
<1>5. CASE RunTask
  <2>1. Head(tasks) \in Task /\ Tail(tasks) \in Seq(Task)
    BY <1>5, HeadTailProperties DEF RunTask, TypeOK
  <2>2. CASE Head(tasks) = Shutdown
    BY <1>5, <2>1, <2>2 DEF RunTask, shutdown_run_in_loop, FinAllowed, is_writing,
       TypeOK, io
  <2>3. CASE Head(tasks) # Shutdown
    <3>1. Head(tasks).msg \in Message
      BY <2>1, <2>3, TaskIsSend
    <3>2. send_run_in_loop(Head(tasks).msg) /\ UNCHANGED fin
      BY <1>5, <2>3 DEF RunTask
    <3> QED
      BY <1>5, <2>1, <3>1, <3>2, SendType DEF RunTask, TypeOK, Sent
  <2> QED
    BY <2>2, <2>3
<1>6. CASE HandleWrite
  <2> PICK n \in Writable : HandleWrites(n)
    BY <1>6, WriteStep
  <2> DEFINE rest == SubSeq(mc_output, n + 1, Len(mc_output))
  <2>1. mc_output \in Seq(Byte) /\ Len(mc_output) \in Nat /\ room \in Nat
    BY <1>a, LenProperties DEF TypeOK
  <2>2. n \in 0 .. Len(mc_output) /\ (m_fd = "own" => n \in 0 .. room)
    BY WritableRange
  <2>3. SubSeq(mc_output, 1, n) \in Seq(Byte) /\ rest \in Seq(Byte)
    BY <2>1, <2>2, Split
  <2>4. m_fd \in {"own", "other"}
    BY <1>6 DEF HandleWrite
  <2>5. To(m_fd, SubSeq(mc_output, 1, n)) \in Seq(Sent)
    BY <2>3, <2>4, ToType
  <2>6. left' \in Seq(Sent)
    BY <2>5, ConcatProperties DEF HandleWrites, TypeOK, Sent
  <2>7. room' \in 0 .. Room
    BY <1>a, <2>1, <2>2 DEF HandleWrites, TypeOK
  <2>8. mc_output' \in Seq(Byte)
    BY <2>3 DEF HandleWrites
  <2>9. m_events' \subseteq {"read", "write"} /\ deaf' \in BOOLEAN
    BY DEF HandleWrites, SetEvents, TypeOK
  <2>10. fin' \in BOOLEAN
    BY DEF HandleWrites, FinAfterOutput, TypeOK
  <2> QED
    BY <1>6, <2>6, <2>7, <2>8, <2>9, <2>10 DEF HandleWrite, TypeOK, Sent
<1>7. CASE HandleClose
  BY <1>7 DEF HandleClose, SetEvents, TypeOK
<1>8. CASE OtherSends
  <2>1. pending' \in Task
    BY <1>0, <1>8, NextMessageType DEF OtherSends, Task
  <2>2. sends' \in [Thread -> 0 .. MaxSends]
    BY <1>0, <1>a, <1>8 DEF OtherSends, TypeOK
  <2> QED
    BY <1>8, <2>1, <2>2 DEF OtherSends, TypeOK, io
<1>9. CASE OtherShutsDown
  BY <1>9 DEF OtherShutsDown, Task, TypeOK, io
<1>13. CASE OtherSetsStatus
  BY <1>13 DEF OtherSetsStatus, TypeOK, io
<1>10. CASE OtherQueues
  <2>1. (IF pending = Marked THEN Shutdown ELSE pending) \in Task
    BY <1>10 DEF OtherQueues, TypeOK, Task
  <2>2. tasks' \in Seq(Task)
    BY <1>10, <2>1 DEF OtherQueues, QueuedLast, TypeOK
  <2> QED
    BY <1>10, <2>2 DEF OtherQueues, TypeOK, io
<1>11. CASE PeerReads
  BY <1>11, <1>a DEF PeerReads, TypeOK
<1>12. CASE UNCHANGED vars
  BY <1>12 DEF vars, TypeOK
<1> QED
  BY <1>1, <1>2, <1>3, <1>4, <1>5, <1>6, <1>7, <1>8, <1>9, <1>10, <1>11, <1>12,
     <1>13 DEF Next

\* Every variable keeps its type: in particular room stays within the socket's
\* buffer, so that no write counts more bytes than there is room for
\* (handle_write, send_run_in_loop).
THEOREM TypeCorrect == Spec => []TypeOK
BY TypeInit, TypeNext, PTL DEF Spec

-----------------------------------------------------------------------------
(* The channel's interest, the output and the FIN.  Each of the two        *)
(* invariants needs the other: shutdown_run_in_loop infers from is_writing *)
(* that nothing waits, and send_run_in_loop may write at once after a FIN  *)
(* only if nothing waits.                                                  *)

OutputInv == WritingIffOutput /\ FinAfterWrites

\* A call of send_run_in_loop keeps the invariant, whatever the status.
LEMMA SendOutput ==
    ASSUME TypeOK, OutputInv, NEW m \in Message, send_run_in_loop(m),
           UNCHANGED <<closed, fin>>
    PROVE  OutputInv'
<1> USE DEF OutputInv, WritingIffOutput, FinAfterWrites, is_writing
<1>1. CASE SendIntoClosed(m)
  BY <1>1 DEF SendIntoClosed
<1>2. CASE SendRaisesSigpipe(m) \/ SendFails(m)
  BY <1>2 DEF SendRaisesSigpipe, SendFails
<1>3. CASE SendWrites(m)
  <2> DEFINE n == Least(MsgLen, room)
             rest == Rest(Bytes(m), n)
  <2>0. MsgLen \in Nat /\ room \in Nat
    BY ConstantsAssumption DEF TypeOK
  <2>1. n \in 0 .. MsgLen
    BY <2>0, LeastInRange
  <2>2. rest \in Seq(Byte)
    BY <2>1, RestType
  <2>3. mc_output' = rest
    BY <1>3, <2>2, ConcatEmptySeq DEF SendWrites, WritesAtOnce
  <2>4. "write" \in m_events' <=> rest # << >>
    BY <1>3 DEF SendWrites, WritesAtOnce, SetEvents, EventsAfter
  <2> QED
    BY <1>3, <2>3, <2>4 DEF SendWrites
<1>4. CASE SendBuffers(m)
  <2>1. Bytes(m) # << >>
    BY BytesType, EmptySeq, ConstantsAssumption
  <2>2. mc_output' # << >>
    BY <1>4, <2>1, BytesType, ConcatEqualIffEmpty DEF SendBuffers, TypeOK
  <2>3. "write" \in m_events'
    BY <1>4, <2>1 DEF SendBuffers, SetEvents, EventsAfter
  <2>4. ~closed => mc_output # << >>
    BY <1>4 DEF SendBuffers, WritesAtOnce
  <2> QED
    BY <2>2, <2>3, <2>4
<1> QED
  BY <1>1, <1>2, <1>3, <1>4 DEF send_run_in_loop

\* So does one of shutdown_run_in_loop.
LEMMA ShutdownOutput ==
    ASSUME OutputInv, shutdown_run_in_loop, UNCHANGED <<closed, io>>
    PROVE  OutputInv'
BY DEF OutputInv, WritingIffOutput, FinAfterWrites, is_writing,
   shutdown_run_in_loop, FinAllowed, io

LEMMA OutputNext ==
    ASSUME TypeOK, OutputInv, [Next]_vars
    PROVE  OutputInv'
<1>1. CASE LoopSends
  <2>1. NextMessage(LoopThread) \in Message
    BY <1>1, NextMessageType DEF LoopSends, Thread
  <2> QED
    BY <1>1, <2>1, SendOutput DEF LoopSends
<1>2. CASE LoopShutsDown
  BY <1>2, ShutdownOutput DEF LoopShutsDown
<1>3. CASE RunTask
  <2>1. Head(tasks) \in Task
    BY <1>3, HeadTailProperties DEF RunTask, TypeOK
  <2>2. CASE Head(tasks) = Shutdown
    <3>1. CASE shutdown_run_in_loop /\ UNCHANGED io
      BY <1>3, <3>1, ShutdownOutput DEF RunTask
    <3> QED
      BY <1>3, <2>2, <3>1 DEF RunTask
  <2>3. CASE Head(tasks) # Shutdown
    <3>1. Head(tasks).msg \in Message
      BY <2>1, <2>3, TaskIsSend
    <3> QED
      BY <1>3, <2>3, <3>1, SendOutput DEF RunTask
  <2> QED
    BY <2>2, <2>3
<1> USE DEF OutputInv, WritingIffOutput, FinAfterWrites, is_writing
<1>4. CASE StopRead
  BY <1>4 DEF StopRead, SetEvents
<1>5. CASE StartRead
  BY <1>5 DEF StartRead, SetEvents
<1>6. CASE HandleWrite
  <2> PICK n \in Writable : HandleWrites(n)
    BY <1>6, WriteStep
  <2>c. "write" \in m_events /\ mc_output # << >> /\ UNCHANGED closed
    BY <1>6 DEF HandleWrite
  <2> DEFINE rest == SubSeq(mc_output, n + 1, Len(mc_output))
  <2>1. CASE rest = << >>
    BY <2>c, <2>1 DEF HandleWrites, SetEvents
  <2>2. CASE rest # << >>
    BY <2>c, <2>2 DEF HandleWrites, FinAfterOutput
  <2> QED
    BY <2>1, <2>2
<1>7. CASE HandleClose
  BY <1>7 DEF HandleClose
<1>8. CASE OtherSends
  BY <1>8 DEF OtherSends, io
<1>9. CASE OtherShutsDown
  BY <1>9 DEF OtherShutsDown, io
<1>13. CASE OtherSetsStatus
  BY <1>13 DEF OtherSetsStatus, io
<1>10. CASE OtherQueues
  BY <1>10 DEF OtherQueues, io
<1>11. CASE PeerReads
  BY <1>11 DEF PeerReads
<1>12. CASE UNCHANGED vars
  BY <1>12 DEF vars
<1> QED
  BY <1>1, <1>2, <1>3, <1>4, <1>5, <1>6, <1>7, <1>8, <1>9, <1>10, <1>11, <1>12,
     <1>13 DEF Next

LEMMA OutputInvariant == Spec => []OutputInv
<1>1. Init => OutputInv
  BY DEF Init, OutputInv, WritingIffOutput, FinAfterWrites, is_writing
<1>2. TypeOK /\ OutputInv /\ [Next]_vars => OutputInv'
  BY OutputNext
<1> QED
  BY <1>1, <1>2, TypeCorrect, PTL DEF Spec

\* While the connection is open, its channel asks for room exactly while output
\* waits (send_run_in_loop, handle_write).
THEOREM AsksForRoomExactly == Spec => []WritingIffOutput
<1>1. OutputInv => WritingIffOutput
  BY DEF OutputInv
<1> QED
  BY <1>1, OutputInvariant, PTL

\* The FIN never overtakes bytes that wait (shutdown_run_in_loop,
\* handle_write).
THEOREM FinIsLast == Spec => []FinAfterWrites
<1>1. OutputInv => FinAfterWrites
  BY DEF OutputInv
<1> QED
  BY <1>1, OutputInvariant, PTL

-----------------------------------------------------------------------------
(* TcpConnection implements ByteStream: send_run_in_loop takes a message   *)
(* (or stutters, if it drops it), handle_write emits, the rest stutters.   *)

\* The bytes written, without the descriptors: the mapping of left.
Plain(l) == [i \in 1 .. Len(l) |-> l[i].byte]

LEMMA PlainType ==
    ASSUME NEW l \in Seq(Sent)
    PROVE  /\ Plain(l) \in Seq(Byte)
           /\ Len(Plain(l)) = Len(l)
           /\ \A i \in 1 .. Len(l) : Plain(l)[i] = l[i].byte
<1>1. Len(l) \in Nat /\ \A i \in 1 .. Len(l) : l[i] \in Sent
  BY LenProperties, ElementOfSeq
<1>2. \A i \in 1 .. Len(l) : l[i].byte \in Byte
  BY <1>1 DEF Sent
<1> QED
  BY <1>1, <1>2 DEF Plain

\* What is written is appended to what was written.
LEMMA PlainConcat ==
    ASSUME NEW l \in Seq(Sent), NEW fd \in {"own", "other"}, NEW s \in Seq(Byte)
    PROVE  Plain(l \o To(fd, s)) = Plain(l) \o s
<1> DEFINE t == To(fd, s)
           p == Plain(l)
<1>1. /\ t \in Seq(Sent) /\ Len(t) = Len(s)
      /\ \A i \in 1 .. Len(s) : t[i].byte = s[i]
  BY ToType
<1>2. p \in Seq(Byte) /\ Len(p) = Len(l) /\ \A i \in 1 .. Len(l) : p[i] = l[i].byte
  BY PlainType
<1>3. \A r \in Seq(Sent) : /\ Plain(r) \in Seq(Byte)
                           /\ Len(Plain(r)) = Len(r)
                           /\ \A i \in 1 .. Len(r) : Plain(r)[i] = r[i].byte
  BY PlainType
<1>4. Len(l) \in Nat /\ Len(s) \in Nat
  BY LenProperties
<1> HIDE DEF t, p
<1>5. /\ l \o t \in Seq(Sent)
      /\ Len(l \o t) = Len(l) + Len(t)
      /\ \A i \in 1 .. Len(l) + Len(t) :
            (l \o t)[i] = IF i <= Len(l) THEN l[i] ELSE t[i - Len(l)]
  BY ZenonT(30), <1>1, ConcatProperties
<1>6. /\ p \o s \in Seq(Byte)
      /\ Len(p \o s) = Len(p) + Len(s)
      /\ \A i \in 1 .. Len(p) + Len(s) :
            (p \o s)[i] = IF i <= Len(p) THEN p[i] ELSE s[i - Len(p)]
  BY <1>2, ConcatProperties
<1>7. ASSUME NEW i \in 1 .. Len(l) + Len(s)
      PROVE  Plain(l \o t)[i] = (p \o s)[i]
  <2>1. Plain(l \o t)[i] = (l \o t)[i].byte
    BY <1>1, <1>3, <1>5
  <2>2. CASE i <= Len(l)
    <3>1. i \in 1 .. Len(l)
      BY <1>4, <2>2
    <3>2. (l \o t)[i] = l[i]
      BY <1>1, <1>5, <2>2
    <3>3. (p \o s)[i] = p[i]
      BY <1>2, <1>6, <2>2
    <3> QED
      BY <1>2, <2>1, <3>1, <3>2, <3>3
  <2>3. CASE ~(i <= Len(l))
    <3>1. i - Len(l) \in 1 .. Len(s)
      BY <1>4, <2>3
    <3>2. (l \o t)[i] = t[i - Len(l)]
      BY <1>1, <1>5, <2>3
    <3>3. (p \o s)[i] = s[i - Len(l)]
      BY <1>2, <1>6, <2>3
    <3> QED
      BY <1>1, <2>1, <3>1, <3>2, <3>3
  <2> QED
    BY <2>2, <2>3
<1>8. Plain(l \o t) \in Seq(Byte) /\ Len(Plain(l \o t)) = Len(p \o s)
  BY <1>1, <1>2, <1>3, <1>5, <1>6
<1>9. Len(p \o s) = Len(l) + Len(s)
  BY <1>2, <1>6
<1>10. Plain(l \o t) = p \o s
  BY <1>6, <1>7, <1>8, <1>9, SeqEqual
<1> QED
  BY <1>10 DEF t, p

\* The step of ByteStream in terms of the mapping.
StreamLeave(s, n) ==
    /\ Plain(left)' = Plain(left) \o SubSeq(s, 1, n)
    /\ mc_output' = SubSeq(s, n + 1, Len(s))

LEMMA TakeStep ==
    ASSUME NEW m \in Message, NEW n \in 0 .. Len(mc_output \o Bytes(m)),
           StreamLeave(mc_output \o Bytes(m), n)
    PROVE  Stream!Next
BY DEF StreamLeave, Plain, Stream!Next, Stream!Take, Stream!Leave

LEMMA EmitStep ==
    ASSUME NEW n \in 0 .. Len(mc_output), StreamLeave(mc_output, n)
    PROVE  Stream!Next
BY DEF StreamLeave, Plain, Stream!Next, Stream!Emit, Stream!Leave

LEMMA SendStep ==
    ASSUME TypeOK, NEW m \in Message, send_run_in_loop(m)
    PROVE  [Stream!Next]_(Stream!svars)
<1>1. CASE SendIntoClosed(m)
  BY <1>1 DEF SendIntoClosed, Stream!svars
<1>2. CASE SendRaisesSigpipe(m) \/ SendFails(m)
  BY <1>2 DEF SendRaisesSigpipe, SendFails, Stream!svars
<1>3. CASE SendWrites(m)
  <2> DEFINE n == Least(MsgLen, room)
  <2>1. MsgLen \in Nat /\ room \in Nat
    BY ConstantsAssumption DEF TypeOK
  <2>2. n \in 0 .. MsgLen
    BY <2>1, LeastInRange
  <2>3. mc_output \o Bytes(m) = Bytes(m) /\ Len(Bytes(m)) = MsgLen
    BY <1>3, BytesType, ConcatEmptySeq DEF SendWrites, WritesAtOnce
  <2>4. left \in Seq(Sent) /\ SubSeq(Bytes(m), 1, n) \in Seq(Byte)
    BY <2>2, RestType DEF TypeOK, Sent
  <2>5. Plain(left') = Plain(left) \o SubSeq(Bytes(m), 1, n)
    BY <1>3, <2>4, PlainConcat DEF SendWrites
  <2>6. mc_output' = SubSeq(Bytes(m), n + 1, Len(Bytes(m)))
    BY <1>3, <2>2, RestType, ConcatEmptySeq DEF SendWrites, WritesAtOnce
  <2>7. StreamLeave(mc_output \o Bytes(m), n)
    BY <2>3, <2>5, <2>6 DEF StreamLeave, Plain
  <2> QED
    BY <2>2, <2>3, <2>7, TakeStep
<1>4. CASE SendBuffers(m)
  <2> DEFINE s == mc_output \o Bytes(m)
  <2>1. s \in Seq(Byte) /\ left \in Seq(Sent)
    BY BytesType, ConcatProperties DEF TypeOK, Sent
  <2>2. Len(s) \in Nat /\ 0 \in 0 .. Len(s)
    BY <2>1, LenProperties
  <2>3. SubSeq(s, 1, 0) = << >> /\ SubSeq(s, 0 + 1, Len(s)) = s
    BY <2>1, SubSeqEmpty, SubSeqFull
  <2>4. Plain(left) \o SubSeq(s, 1, 0) = Plain(left)
    BY <2>1, <2>3, PlainType, ConcatEmptySeq
  <2>5. mc_output' = s /\ left' = left
    BY <1>4 DEF SendBuffers
  <2>6. StreamLeave(s, 0)
    BY <2>3, <2>4, <2>5 DEF StreamLeave, Plain
  <2> QED
    BY <2>2, <2>6, TakeStep
<1> QED
  BY <1>1, <1>2, <1>3, <1>4 DEF send_run_in_loop

LEMMA StreamStep ==
    ASSUME TypeOK, [Next]_vars
    PROVE  [Stream!Next]_(Stream!svars)
<1>1. CASE LoopSends
  <2>1. NextMessage(LoopThread) \in Message
    BY <1>1, NextMessageType DEF LoopSends, Thread
  <2> QED
    BY <1>1, <2>1, SendStep DEF LoopSends
<1>2. CASE RunTask
  <2>1. Head(tasks) \in Task
    BY <1>2, HeadTailProperties DEF RunTask, TypeOK
  <2>2. CASE Head(tasks) = Shutdown
    BY <1>2, <2>2 DEF RunTask, io, Stream!svars
  <2>3. CASE Head(tasks) # Shutdown
    <3>1. Head(tasks).msg \in Message
      BY <2>1, <2>3, TaskIsSend
    <3> QED
      BY <1>2, <2>3, <3>1, SendStep DEF RunTask
  <2> QED
    BY <2>2, <2>3
<1>3. CASE HandleWrite
  <2>1. mc_output \in Seq(Byte) /\ Len(mc_output) \in Nat /\ room \in Nat
    BY ConstantsAssumption, LenProperties DEF TypeOK
  <2> PICK n \in Writable : HandleWrites(n)
    BY <1>3, WriteStep
  <2>2. n \in 0 .. Len(mc_output)
    BY WritableRange
  <2>3. left \in Seq(Sent) /\ SubSeq(mc_output, 1, n) \in Seq(Byte)
    BY <2>1, <2>2, Split DEF TypeOK, Sent
  <2>4. m_fd \in {"own", "other"}
    BY <1>3 DEF HandleWrite
  <2>5. Plain(left') = Plain(left) \o SubSeq(mc_output, 1, n)
    BY <2>3, <2>4, PlainConcat DEF HandleWrites
  <2>6. StreamLeave(mc_output, n)
    BY <2>5 DEF HandleWrites, StreamLeave, Plain
  <2> QED
    BY <2>2, <2>6, EmitStep
<1> USE DEF Stream!svars
<1>4. CASE LoopShutsDown
  BY <1>4 DEF LoopShutsDown, io
<1>5. CASE StopRead
  BY <1>5 DEF StopRead
<1>6. CASE StartRead
  BY <1>6 DEF StartRead
<1>7. CASE HandleClose
  BY <1>7 DEF HandleClose
<1>8. CASE OtherSends
  BY <1>8 DEF OtherSends, io
<1>9. CASE OtherShutsDown
  BY <1>9 DEF OtherShutsDown, io
<1>13. CASE OtherSetsStatus
  BY <1>13 DEF OtherSetsStatus, io
<1>10. CASE OtherQueues
  BY <1>10 DEF OtherQueues, io
<1>11. CASE PeerReads
  BY <1>11 DEF PeerReads
<1>12. CASE UNCHANGED vars
  BY <1>12 DEF vars
<1> QED
  BY <1>1, <1>2, <1>3, <1>4, <1>5, <1>6, <1>7, <1>8, <1>9, <1>10, <1>11, <1>12,
     <1>13 DEF Next

\* The output path is one stream of whole messages: no byte is lost inside a
\* message, duplicated or overtaken, through the direct write, the buffer and
\* handle_write (send_run_in_loop, handle_write).
THEOREM OutputIsOneStream == Spec => ImplementsByteStream
<1>1. Init => Stream!Init
  <2>1. Init => left = << >> /\ mc_output = << >>
    BY DEF Init
  <2>2. Plain(<< >>) = << >>
    BY DEF Plain
  <2> QED
    BY <2>1, <2>2 DEF Stream!Init, Plain
<1>2. TypeOK /\ [Next]_vars => [Stream!Next]_(Stream!svars)
  BY StreamStep
<1> QED
  BY <1>1, <1>2, TypeCorrect, PTL DEF Spec, ImplementsByteStream, Stream!Spec

-----------------------------------------------------------------------------
(* The order of one sender's messages.  The invariant follows a message    *)
(* from the call that has checked the status through the queue of tasks to *)
(* send_run_in_loop: what is further on is older.                          *)

\* No message is taken that was not given to send.
TakenWasSent == \A k \in 1 .. Len(taken) : taken[k].n <= sends[taken[k].from]

\* m is from Other, which has made count[Other] calls, and comes after
\* everything in seq that is from Other.
AfterTaken(m, seq, count) ==
    /\ m.from = Other
    /\ m.n <= count[Other]
    /\ \A k \in 1 .. Len(seq) : seq[k].from = Other => seq[k].n < m.n

TasksInOrder ==
    \A i \in 1 .. Len(tasks) : tasks[i] # Shutdown =>
        /\ AfterTaken(tasks[i].msg, taken, sends)
        /\ \A j \in 1 .. Len(tasks) :
              i < j /\ tasks[j] # Shutdown => tasks[i].msg.n < tasks[j].msg.n

PendingIsLast ==
    pending \notin {NoCall, Shutdown, Marked} =>
        /\ AfterTaken(pending.msg, taken, sends)
        /\ \A i \in 1 .. Len(tasks) :
              tasks[i] # Shutdown => tasks[i].msg.n < pending.msg.n

OrderInv == SenderOrder /\ TakenWasSent /\ TasksInOrder /\ PendingIsLast

LEMMA MessageType ==
    ASSUME NEW m \in Message
    PROVE  m.n \in Nat /\ m.from \in Thread
BY ConstantsAssumption DEF Message

LEMMA NextMessageFields ==
    ASSUME NEW t
    PROVE  NextMessage(t).from = t /\ NextMessage(t).n = sends[t] + 1
BY DEF NextMessage

\* send_run_in_loop appends the message to taken, or drops it.
LEMMA SendTakes ==
    ASSUME NEW m, send_run_in_loop(m)
    PROVE  taken' = taken \/ taken' = Append(taken, m)
BY DEF send_run_in_loop, SendIntoClosed, SendRaisesSigpipe, SendFails, SendWrites, SendBuffers

\* What is taken afterwards was taken before or is the message.
LEMMA TakenAfter ==
    ASSUME taken \in Seq(Message), NEW m \in Message,
           taken' = taken \/ taken' = Append(taken, m)
    PROVE  /\ Len(taken) \in Nat
           /\ taken' \in Seq(Message)
           /\ \A k \in 1 .. Len(taken) : taken[k] \in Message
           /\ \A k \in 1 .. Len(taken') :
                 \/ k \in 1 .. Len(taken) /\ taken'[k] = taken[k]
                 \/ k = Len(taken) + 1 /\ taken'[k] = m
<1>1. Len(taken) \in Nat /\ \A k \in 1 .. Len(taken) : taken[k] \in Message
  BY LenProperties, ElementOfSeq
<1>2. CASE taken' = taken
  BY <1>1, <1>2
<1>3. CASE taken' = Append(taken, m)
  <2>1. /\ taken' \in Seq(Message)
        /\ Len(taken') = Len(taken) + 1
        /\ \A k \in 1 .. Len(taken) : taken'[k] = taken[k]
        /\ taken'[Len(taken) + 1] = m
    BY <1>3, AppendProperties
  <2>2. \A k \in 1 .. Len(taken) + 1 : k \in 1 .. Len(taken) \/ k = Len(taken) + 1
    BY <1>1
  <2> QED
    BY <1>1, <2>1, <2>2
<1> QED
  BY <1>2, <1>3

\* A message that is newer than what was taken from its sender keeps the order.
LEMMA OrderKept ==
    ASSUME taken \in Seq(Message), NEW m \in Message, SenderOrder,
           taken' = taken \/ taken' = Append(taken, m),
           \A k \in 1 .. Len(taken) : taken[k].from = m.from => taken[k].n < m.n
    PROVE  SenderOrder'
<1>1. /\ Len(taken) \in Nat
      /\ \A k \in 1 .. Len(taken') :
            \/ k \in 1 .. Len(taken) /\ taken'[k] = taken[k]
            \/ k = Len(taken) + 1 /\ taken'[k] = m
  BY TakenAfter
<1> SUFFICES ASSUME NEW i \in 1 .. Len(taken'), NEW j \in 1 .. Len(taken'),
                    i < j, taken'[i].from = taken'[j].from
             PROVE  taken'[i].n < taken'[j].n
  BY DEF SenderOrder
<1>2. i \in 1 .. Len(taken) /\ taken'[i] = taken[i]
  BY <1>1
<1>3. CASE j \in 1 .. Len(taken) /\ taken'[j] = taken[j]
  BY <1>2, <1>3 DEF SenderOrder
<1>4. CASE j = Len(taken) + 1 /\ taken'[j] = m
  BY <1>2, <1>4
<1> QED
  BY <1>1, <1>3, <1>4

\* The call that LoopSends makes: the message is the newest of its sender and
\* of another sender than the tasks.
LEMMA OrderLoopSends ==
    ASSUME TypeOK, OrderInv, LoopSends
    PROVE  OrderInv'
<1> DEFINE m == NextMessage(LoopThread)
<1>1. /\ m \in Message /\ m.from = LoopThread /\ m.n = sends[LoopThread] + 1
      /\ LoopThread # Other
  BY NextMessageType, NextMessageFields, ConstantsAssumption DEF LoopSends, Thread
<1>2. taken' = taken \/ taken' = Append(taken, m)
  BY SendTakes DEF LoopSends
<1> HIDE DEF m
<1>3. /\ sends[LoopThread] \in Nat /\ sends[Other] \in Nat
      /\ sends'[LoopThread] = sends[LoopThread] + 1 /\ sends'[Other] = sends[Other]
  BY <1>1, ConstantsAssumption DEF LoopSends, TypeOK, Thread
<1>4. /\ Len(taken) \in Nat
      /\ \A k \in 1 .. Len(taken) : taken[k] \in Message
      /\ \A k \in 1 .. Len(taken') :
            \/ k \in 1 .. Len(taken) /\ taken'[k] = taken[k]
            \/ k = Len(taken) + 1 /\ taken'[k] = m
  BY <1>1, <1>2, TakenAfter DEF TypeOK
<1>5. \A k \in 1 .. Len(taken) : /\ taken[k].n \in Nat
                                 /\ taken[k].from \in {LoopThread, Other}
  BY <1>4, MessageType DEF Thread
<1>6. SenderOrder'
  <2>1. \A k \in 1 .. Len(taken) : taken[k].from = m.from => taken[k].n < m.n
    BY <1>1, <1>3, <1>5 DEF OrderInv, TakenWasSent
  <2> QED
    BY <1>1, <1>2, <2>1, OrderKept DEF OrderInv, TypeOK
<1>7. TakenWasSent'
  <2> SUFFICES ASSUME NEW k \in 1 .. Len(taken')
               PROVE  taken'[k].n <= sends'[taken'[k].from]
    BY DEF TakenWasSent
  <2>1. CASE k \in 1 .. Len(taken) /\ taken'[k] = taken[k]
    <3>1. taken[k].n <= sends[taken[k].from]
      BY <2>1 DEF OrderInv, TakenWasSent
    <3> QED
      BY <1>3, <1>5, <2>1, <3>1
  <2>2. CASE taken'[k] = m
    BY <1>1, <1>3, <2>2
  <2> QED
    BY <1>4, <2>1, <2>2
<1>8. ASSUME NEW x, AfterTaken(x, taken, sends)
      PROVE  AfterTaken(x, taken', sends')
  BY <1>1, <1>3, <1>4, <1>8 DEF AfterTaken
<1>9. TasksInOrder'
  BY <1>8 DEF OrderInv, TasksInOrder, LoopSends
<1>10. PendingIsLast'
  BY <1>8 DEF OrderInv, PendingIsLast, LoopSends
<1> QED
  BY <1>6, <1>7, <1>9, <1>10 DEF OrderInv

\* Running a task keeps the queue in order, if it takes nothing that is newer
\* than what stays.
LEMMA OrderOfRest ==
    ASSUME TypeOK, OrderInv, RunTask,
           \A x : /\ AfterTaken(x, taken, sends)
                  /\ Head(tasks) # Shutdown => Head(tasks).msg.n < x.n
                  => AfterTaken(x, taken', sends')
    PROVE  TasksInOrder' /\ PendingIsLast'
<1>1. /\ Len(tasks) \in Nat \ {0}
      /\ Head(tasks) = tasks[1]
      /\ tasks' = Tail(tasks) /\ Len(tasks') = Len(tasks) - 1
      /\ \A i \in 1 .. Len(tasks') : tasks'[i] = tasks[i + 1]
  BY HeadTailProperties, EmptySeq DEF RunTask, TypeOK
<1>2. \A i \in 1 .. Len(tasks') : i \in Nat /\ i + 1 \in 1 .. Len(tasks) /\ 1 < i + 1
  BY <1>1
<1>3. 1 \in 1 .. Len(tasks)
  BY <1>1
<1>4. ASSUME NEW i \in 1 .. Len(tasks'), tasks'[i] # Shutdown
      PROVE  AfterTaken(tasks'[i].msg, taken', sends')
  <2>1. AfterTaken(tasks[i + 1].msg, taken, sends)
    BY <1>1, <1>2, <1>4 DEF OrderInv, TasksInOrder
  <2>2. Head(tasks) # Shutdown => Head(tasks).msg.n < tasks[i + 1].msg.n
    BY <1>1, <1>2, <1>3, <1>4 DEF OrderInv, TasksInOrder
  <2>3. AfterTaken(tasks[i + 1].msg, taken', sends')
    BY <2>1, <2>2
  <2>4. tasks'[i].msg = tasks[i + 1].msg
    BY <1>1
  <2> QED
    BY <2>3, <2>4
<1>5. ASSUME NEW i \in 1 .. Len(tasks'), NEW j \in 1 .. Len(tasks'), i < j,
             tasks'[i] # Shutdown, tasks'[j] # Shutdown
      PROVE  tasks'[i].msg.n < tasks'[j].msg.n
  <2>1. i + 1 < j + 1
    BY <1>2, <1>5
  <2> QED
    BY <1>1, <1>2, <1>5, <2>1 DEF OrderInv, TasksInOrder
<1>6. PendingIsLast'
  <2> SUFFICES ASSUME pending \notin {NoCall, Shutdown, Marked}
               PROVE  /\ AfterTaken(pending.msg, taken', sends')
                      /\ \A i \in 1 .. Len(tasks') : tasks'[i] # Shutdown =>
                            tasks'[i].msg.n < pending.msg.n
    BY DEF PendingIsLast, RunTask
  <2>1. AfterTaken(pending.msg, taken, sends)
    BY DEF OrderInv, PendingIsLast
  <2>2. Head(tasks) # Shutdown => Head(tasks).msg.n < pending.msg.n
    BY <1>1, <1>3 DEF OrderInv, PendingIsLast
  <2>3. AfterTaken(pending.msg, taken', sends')
    BY <2>1, <2>2 DEF RunTask
  <2>4. \A i \in 1 .. Len(tasks') : tasks'[i] # Shutdown =>
           tasks'[i].msg.n < pending.msg.n
    BY <1>1, <1>2 DEF OrderInv, PendingIsLast
  <2> QED
    BY <2>3, <2>4
<1> QED
  BY <1>4, <1>5, <1>6 DEF TasksInOrder

LEMMA OrderRunTask ==
    ASSUME TypeOK, OrderInv, RunTask
    PROVE  OrderInv'
<1>1. /\ Len(tasks) \in Nat \ {0}
      /\ Head(tasks) \in Task /\ Head(tasks) = tasks[1]
  BY HeadTailProperties, EmptySeq DEF RunTask, TypeOK
<1>2. UNCHANGED sends
  BY DEF RunTask
<1>3. CASE Head(tasks) = Shutdown
  <2>1. taken' = taken
    BY <1>3 DEF RunTask, io
  <2>2. SenderOrder' /\ TakenWasSent'
    BY <1>2, <2>1 DEF OrderInv, SenderOrder, TakenWasSent
  <2>3. \A x : AfterTaken(x, taken, sends) => AfterTaken(x, taken', sends')
    BY <1>2, <2>1 DEF AfterTaken
  <2> QED
    BY <2>2, <2>3, OrderOfRest DEF OrderInv
<1>4. CASE Head(tasks) # Shutdown
  <2> DEFINE m == Head(tasks).msg
  <2>1. m \in Message /\ send_run_in_loop(m)
    BY <1>1, <1>4, TaskIsSend DEF RunTask
  <2>2. taken' = taken \/ taken' = Append(taken, m)
    BY <2>1, SendTakes
  <2>3. AfterTaken(m, taken, sends)
    BY <1>1, <1>4 DEF OrderInv, TasksInOrder
  <2> HIDE DEF m
  <2>4. /\ taken \in Seq(Message)
        /\ \A k \in 1 .. Len(taken') :
              \/ k \in 1 .. Len(taken) /\ taken'[k] = taken[k]
              \/ k = Len(taken) + 1 /\ taken'[k] = m
    BY <2>1, <2>2, TakenAfter DEF TypeOK
  <2>5. SenderOrder'
    BY <2>1, <2>2, <2>3, <2>4, OrderKept DEF OrderInv, AfterTaken
  <2>6. TakenWasSent'
    BY <1>2, <2>3, <2>4 DEF OrderInv, TakenWasSent, AfterTaken
  <2>7. \A x : AfterTaken(x, taken, sends) /\ m.n < x.n => AfterTaken(x, taken', sends')
    BY <1>2, <2>4 DEF AfterTaken
  <2>8. TasksInOrder' /\ PendingIsLast'
    BY <1>4, <2>7, OrderOfRest DEF m
  <2> QED
    BY <2>5, <2>6, <2>8 DEF OrderInv
<1> QED
  BY <1>3, <1>4

\* Other gives a message to send: it is the newest of all.
LEMMA OrderOtherSends ==
    ASSUME TypeOK, OrderInv, OtherSends
    PROVE  OrderInv'
<1> DEFINE m == NextMessage(Other)
<1>1. /\ m.from = Other /\ m.n = sends[Other] + 1
      /\ pending' = Send(m) /\ Send(m).msg = m
  BY NextMessageFields DEF OtherSends, Send
<1>2. \A t \in Thread : sends[t] \in Nat /\ sends'[t] \in Nat /\ sends[t] <= sends'[t]
  BY ConstantsAssumption DEF OtherSends, TypeOK, Thread
<1>3. Other \in Thread /\ sends'[Other] = m.n
  BY <1>1 DEF OtherSends, TypeOK, Thread
<1> HIDE DEF m
<1>4. \A k \in 1 .. Len(taken) : taken[k].n \in Nat /\ taken[k].from \in Thread
  BY ElementOfSeq, MessageType DEF TypeOK
<1>5. UNCHANGED <<taken, tasks>>
  BY DEF OtherSends, io
<1>6. ASSUME NEW i \in 1 .. Len(tasks), tasks[i] # Shutdown
      PROVE  tasks[i].msg.n \in Nat /\ tasks[i].msg.n <= sends[Other]
  <2>1. tasks[i].msg \in Message
    BY <1>6, ElementOfSeq, TaskIsSend DEF TypeOK
  <2>2. AfterTaken(tasks[i].msg, taken, sends)
    BY <1>6 DEF OrderInv, TasksInOrder
  <2> QED
    BY <2>1, <2>2, MessageType DEF AfterTaken
<1>7. SenderOrder'
  BY <1>5 DEF OrderInv, SenderOrder
<1>8. TakenWasSent'
  <2> SUFFICES ASSUME NEW k \in 1 .. Len(taken)
               PROVE  taken[k].n <= sends'[taken[k].from]
    BY <1>5 DEF TakenWasSent
  <2>1. taken[k].n <= sends[taken[k].from]
    BY DEF OrderInv, TakenWasSent
  <2> QED
    BY <1>2, <1>4, <2>1
<1>9. TasksInOrder'
  <2>1. ASSUME NEW i \in 1 .. Len(tasks), tasks[i] # Shutdown
        PROVE  AfterTaken(tasks[i].msg, taken', sends')
    <3>1. AfterTaken(tasks[i].msg, taken, sends)
      BY <2>1 DEF OrderInv, TasksInOrder
    <3>2. tasks[i].msg.n <= sends'[Other]
      BY <1>2, <1>3, <1>6, <2>1
    <3> QED
      BY <1>5, <3>1, <3>2 DEF AfterTaken
  <2> QED
    BY <1>5, <2>1 DEF OrderInv, TasksInOrder
<1>10. PendingIsLast'
  <2>1. \A k \in 1 .. Len(taken) : taken[k].from = Other => taken[k].n < m.n
    BY <1>1, <1>2, <1>3, <1>4 DEF OrderInv, TakenWasSent
  <2>2. m.n <= sends'[Other]
    BY <1>2, <1>3
  <2>3. AfterTaken(m, taken', sends')
    BY <1>1, <1>5, <2>1, <2>2 DEF AfterTaken
  <2>4. \A i \in 1 .. Len(tasks) : tasks[i] # Shutdown => tasks[i].msg.n < m.n
    BY <1>1, <1>2, <1>3, <1>6
  <2> QED
    BY <1>1, <1>5, <2>3, <2>4 DEF PendingIsLast
<1> QED
  BY <1>7, <1>8, <1>9, <1>10 DEF OrderInv

\* Other queues its task behind the older ones.
LEMMA OrderOtherQueues ==
    ASSUME TypeOK, OrderInv, OtherQueues
    PROVE  OrderInv'
<1>1. UNCHANGED <<taken, sends>> /\ pending' = NoCall
  BY DEF OtherQueues, io
<1>2. /\ Len(tasks) \in Nat
      /\ Len(tasks') = Len(tasks) + 1
      /\ \A i \in 1 .. Len(tasks) : tasks'[i] = tasks[i]
      /\ tasks'[Len(tasks) + 1] = IF pending = Marked THEN Shutdown ELSE pending
  <2>1. (IF pending = Marked THEN Shutdown ELSE pending) \in Task
    BY DEF OtherQueues, TypeOK, Task
  <2> QED
    BY <2>1, AppendProperties, LenProperties DEF OtherQueues, QueuedLast, TypeOK
<1>3. \A i \in 1 .. Len(tasks') : i \in 1 .. Len(tasks) \/ i = Len(tasks) + 1
  BY <1>2
<1>4. \A x : AfterTaken(x, taken, sends) => AfterTaken(x, taken', sends')
  BY <1>1 DEF AfterTaken
<1>5. ASSUME NEW i \in 1 .. Len(tasks'), tasks'[i] # Shutdown
      PROVE  AfterTaken(tasks'[i].msg, taken', sends')
  <2>1. CASE i \in 1 .. Len(tasks)
    <3>1. AfterTaken(tasks[i].msg, taken, sends)
      BY <1>2, <1>5, <2>1 DEF OrderInv, TasksInOrder
    <3> QED
      BY <1>2, <1>4, <2>1, <3>1
  <2>2. CASE i = Len(tasks) + 1
    <3>1. pending # Marked /\ tasks'[i] = pending
      BY <1>2, <1>5, <2>2
    <3>2. AfterTaken(pending.msg, taken, sends)
      BY <1>5, <3>1 DEF OrderInv, PendingIsLast, OtherQueues
    <3> QED
      BY <1>4, <3>1, <3>2
  <2> QED
    BY <1>3, <2>1, <2>2
<1>6. ASSUME NEW i \in 1 .. Len(tasks'), NEW j \in 1 .. Len(tasks'), i < j,
             tasks'[i] # Shutdown, tasks'[j] # Shutdown
      PROVE  tasks'[i].msg.n < tasks'[j].msg.n
  <2>1. i \in 1 .. Len(tasks)
    BY <1>2, <1>3, <1>6
  <2>2. CASE j \in 1 .. Len(tasks)
    BY <1>2, <1>6, <2>1, <2>2 DEF OrderInv, TasksInOrder
  <2>3. CASE j = Len(tasks) + 1
    BY <1>2, <1>6, <2>1, <2>3 DEF OrderInv, PendingIsLast, OtherQueues
  <2> QED
    BY <1>3, <2>2, <2>3
<1>7. SenderOrder' /\ TakenWasSent' /\ PendingIsLast'
  BY <1>1 DEF OrderInv, SenderOrder, TakenWasSent, PendingIsLast
<1>8. TasksInOrder'
  BY <1>5, <1>6 DEF TasksInOrder
<1> QED
  BY <1>7, <1>8 DEF OrderInv

LEMMA OrderNext ==
    ASSUME TypeOK, OrderInv, [Next]_vars
    PROVE  OrderInv'
<1>1. CASE LoopSends
  BY <1>1, OrderLoopSends
<1>2. CASE RunTask
  BY <1>2, OrderRunTask
<1>3. CASE OtherSends
  BY <1>3, OrderOtherSends
<1>4. CASE OtherQueues
  BY <1>4, OrderOtherQueues
<1>5. CASE UNCHANGED <<taken, sends, tasks>> /\ pending' \in {pending, Shutdown, Marked}
  BY <1>5 DEF OrderInv, SenderOrder, TakenWasSent, TasksInOrder, PendingIsLast,
     AfterTaken
<1>6. CASE LoopShutsDown
  BY <1>5, <1>6 DEF LoopShutsDown, io
<1>7. CASE StopRead
  BY <1>5, <1>7 DEF StopRead
<1>8. CASE StartRead
  BY <1>5, <1>8 DEF StartRead
<1>9. CASE HandleWrite
  BY <1>5, <1>9 DEF HandleWrite
<1>10. CASE HandleClose
  BY <1>5, <1>10 DEF HandleClose
<1>11. CASE OtherShutsDown
  BY <1>5, <1>11 DEF OtherShutsDown, io
<1>12. CASE PeerReads
  BY <1>5, <1>12 DEF PeerReads
<1>14. CASE OtherSetsStatus
  BY <1>5, <1>14 DEF OtherSetsStatus, io
<1>13. CASE UNCHANGED vars
  BY <1>5, <1>13 DEF vars
<1> QED
  BY <1>1, <1>2, <1>3, <1>4, <1>6, <1>7, <1>8, <1>9, <1>10, <1>11, <1>12, <1>13,
     <1>14 DEF Next

\* The messages of one thread are taken in the order of its calls, whether they
\* run at once or are queued (send, add_task_in_queue, send_run_in_loop).
THEOREM SendersAreInOrder == Spec => []SenderOrder
<1>1. Init => OrderInv
  <2>1. Init => taken = << >> /\ tasks = << >> /\ pending = NoCall
    BY DEF Init
  <2> QED
    BY <2>1 DEF OrderInv, SenderOrder, TakenWasSent, TasksInOrder, PendingIsLast
<1>2. TypeOK /\ OrderInv /\ [Next]_vars => OrderInv'
  BY OrderNext
<1>3. OrderInv => SenderOrder
  BY DEF OrderInv
<1> QED
  BY <1>1, <1>2, <1>3, TypeCorrect, PTL DEF Spec

=============================================================================
