--------------------------- MODULE TcpConnection ---------------------------
(***************************************************************************)
(* The output of one TcpConnection, from connect_establised to             *)
(* handle_close: send, shutdown, handle_write, start_read and stop_read,   *)
(* called in the loop thread (from callbacks) or by another thread, which  *)
(* reaches the loop through one FIFO queue of tasks (see TaskQueue).       *)
(*                                                                         *)
(* The socket takes at most `room' bytes; more room appears as the peer    *)
(* reads.  m_fd is never assigned by the code (TcpConnection.h:127):       *)
(* whatever its memory held may be the connection's own descriptor, that   *)
(* of something else, or none that takes anything.                         *)
(*                                                                         *)
(* A write after the socket was shut down for writing raises SIGPIPE       *)
(* (SockOps.h:52), which nothing in the library ignores: the process ends. *)
(*                                                                         *)
(* Bounds: each thread sends MaxSends messages; all have MsgLen bytes; the *)
(* socket has Room bytes.                                                  *)
(***************************************************************************)
EXTENDS Naturals, Sequences

CONSTANTS
    LoopThread, Other,  \* the loop thread and another thread
    MaxSends,
    MsgLen,
    Room,
    FdOutcomes          \* what m_fd may happen to be

ASSUME ConstantsAssumption ==
    /\ LoopThread # Other
    /\ MaxSends \in Nat /\ MsgLen \in Nat \ {0} /\ Room \in Nat
    /\ FdOutcomes \subseteq {"own", "other", "none"} /\ FdOutcomes # {}

VARIABLES
    m_status,   \* "connected", "disconnecting" or "disconnected"
    m_events,   \* what the channel asks for: "read", "write"
    deaf,       \* the channel was removed from epoll and is not put back
    m_fd,
    mc_output,
    left,       \* the bytes written so far, with the descriptor they went to
    room,
    fin,        \* the socket is shut down for writing
    tasks,      \* the tasks of Other, in its loop's queue
    pending,    \* the call of Other that has checked the status
    sends,      \* how many messages each thread has given to send
    taken,      \* the messages send_run_in_loop wrote or buffered, in order
    lost,       \* the messages it dropped
    closed,     \* handle_close has run
    killed      \* SIGPIPE has ended the process

io == <<m_events, deaf, mc_output, left, room, taken, lost, killed>>
vars == <<m_status, m_events, deaf, m_fd, mc_output, left, room, fin, tasks,
          pending, sends, taken, lost, closed, killed>>

Thread == {LoopThread, Other}
Message == [from : Thread, n : 1 .. MaxSends]
Bytes(m) == [i \in 1 .. MsgLen |-> <<m, i>>]
Byte == Message \X (1 .. MsgLen)

Shutdown == [op |-> "shutdown"]
Send(m) == [op |-> "send", msg |-> m]
NoCall == [op |-> "none"]
Marked == [op |-> "marked"]     \* shutdown has written the status
Task == {Shutdown} \union {Send(m) : m \in Message}

Init ==
    /\ m_status = "connected"
    /\ m_events = {"read"}
    /\ deaf = FALSE
    /\ m_fd \in FdOutcomes
    /\ mc_output = << >>
    /\ left = << >>
    /\ room = Room
    /\ fin = FALSE
    /\ tasks = << >>
    /\ pending = NoCall
    /\ sends = [t \in Thread |-> 0]
    /\ taken = << >>
    /\ lost = {}
    /\ closed = FALSE
    /\ killed = FALSE

-----------------------------------------------------------------------------

is_writing == "write" \in m_events

\* Channel::update.  A channel that asks for nothing is deleted from epoll;
\* asking again modifies a registration that does not exist.
SetEvents(events) ==
    /\ m_events' = events
    /\ deaf' = (deaf \/ events = {})

\* The bytes s with the descriptor they are written to.
To(fd, s) == [i \in 1 .. Len(s) |-> [byte |-> s[i], fd |-> fd]]

Least(a, b) == IF a < b THEN a ELSE b

\* Faulty variant: forgets to wait for room.
EventsUnchanged(rest) == m_events
\* The channel waits for room if something of a message is left.
EventsAfter(rest) == IF rest # << >> THEN m_events \union {"write"} ELSE m_events

\* Faulty variant: buffers the message as a whole after a partial write.
RestWhole(s, n) == IF n < Len(s) THEN s ELSE << >>
Rest(s, n) == SubSeq(s, n + 1, Len(s))

\* send_run_in_loop: after handle_close the message is dropped ...
SendIntoClosed(m) ==
    /\ m_status = "disconnected"
    /\ lost' = lost \union {m}
    /\ UNCHANGED <<m_events, deaf, mc_output, left, room, taken, killed>>

WritesAtOnce == ~is_writing /\ mc_output = << >>

\* ... it is written at once if nothing waits, which after a FIN is the end ...
SendRaisesSigpipe(m) ==
    /\ m_status # "disconnected"
    /\ WritesAtOnce
    /\ fin
    /\ killed' = TRUE
    /\ UNCHANGED <<m_events, deaf, mc_output, left, room, taken, lost>>

\* ... while EAGAIN, as any error that write returns, drops it ...
SendFails(m) ==
    /\ m_status # "disconnected"
    /\ WritesAtOnce
    /\ ~fin /\ room = 0
    /\ lost' = lost \union {m}
    /\ UNCHANGED <<m_events, deaf, mc_output, left, room, taken, killed>>

SendWrites(m) ==
    /\ m_status # "disconnected"
    /\ WritesAtOnce
    /\ ~fin /\ room > 0
    /\ LET n == Least(MsgLen, room)
       IN  /\ left' = left \o To("own", SubSeq(Bytes(m), 1, n))
           /\ room' = room - n
           /\ mc_output' = mc_output \o Rest(Bytes(m), n)
           /\ SetEvents(EventsAfter(Rest(Bytes(m), n)))
    /\ taken' = Append(taken, m)
    /\ UNCHANGED <<lost, killed>>

\* ... and it is buffered behind what waits.
SendBuffers(m) ==
    /\ m_status # "disconnected"
    /\ ~WritesAtOnce
    /\ mc_output' = mc_output \o Bytes(m)
    /\ SetEvents(EventsAfter(Bytes(m)))
    /\ taken' = Append(taken, m)
    /\ UNCHANGED <<left, room, lost, killed>>

send_run_in_loop(m) ==
    \/ SendIntoClosed(m)
    \/ SendRaisesSigpipe(m) \/ SendFails(m) \/ SendWrites(m)
    \/ SendBuffers(m)

\* Faulty variant: does not look at what waits.
FinNow(writing) == TRUE
\* shutdown_run_in_loop: nothing must wait to be written.
FinAllowed(writing) == ~writing

shutdown_run_in_loop == fin' = (fin \/ FinAllowed(is_writing))

-----------------------------------------------------------------------------
(* The loop thread: calls made in its callbacks, its tasks and its events. *)

NextMessage(t) == [from |-> t, n |-> sends[t] + 1]

LoopSends ==
    /\ ~killed
    /\ m_status = "connected"
    /\ sends[LoopThread] < MaxSends
    /\ send_run_in_loop(NextMessage(LoopThread))
    /\ sends' = [sends EXCEPT ![LoopThread] = @ + 1]
    /\ UNCHANGED <<m_status, m_fd, fin, tasks, pending, closed>>

LoopShutsDown ==
    /\ ~killed
    /\ m_status = "connected"
    /\ m_status' = "disconnecting"
    /\ shutdown_run_in_loop
    /\ UNCHANGED <<io, m_fd, tasks, pending, sends, closed>>

\* start_read and stop_read leave mb_reading equal to the channel's state.
StopRead ==
    /\ ~killed
    /\ "read" \in m_events
    /\ SetEvents(m_events \ {"read"})
    /\ UNCHANGED <<m_status, m_fd, mc_output, left, room, fin, tasks, pending,
                   sends, taken, lost, closed, killed>>

StartRead ==
    /\ ~killed
    /\ ~closed
    /\ SetEvents(m_events \union {"read"})
    /\ UNCHANGED <<m_status, m_fd, mc_output, left, room, fin, tasks, pending,
                   sends, taken, lost, closed, killed>>

RunTask ==
    /\ ~killed
    /\ tasks # << >>
    /\ tasks' = Tail(tasks)
    /\ \/ /\ Head(tasks) = Shutdown
          /\ shutdown_run_in_loop
          /\ UNCHANGED io
       \/ /\ Head(tasks) # Shutdown
          /\ send_run_in_loop(Head(tasks).msg)
          /\ UNCHANGED fin
    /\ UNCHANGED <<m_status, m_fd, pending, sends, closed>>

\* Faulty variant: takes everything for written.
WritableAll == {Len(mc_output)}
\* How many bytes a write of handle_write may take; another descriptor has
\* room of its own.
Writable ==
    IF m_fd = "own" THEN {Least(Len(mc_output), room)} ELSE 1 .. Len(mc_output)

\* Faulty variant: forgets the shutdown that waited for the output.
NoFinAfterOutput(rest) == FALSE
FinAfterOutput(rest) == rest = << >> /\ m_status = "disconnecting"

\* handle_write: epoll found room in the connection's socket, the bytes go
\* to m_fd.  The last one ends the wait and does a shutdown that came before.
\* A failing write changes nothing.
HandleWrite ==
    /\ ~killed
    /\ is_writing /\ ~deaf
    /\ room > 0
    /\ mc_output # << >>
    /\ m_fd = "other" \/ (m_fd = "own" /\ ~fin)
    /\ \E n \in Writable :
           LET rest == SubSeq(mc_output, n + 1, Len(mc_output))
           IN
           /\ left' = left \o To(m_fd, SubSeq(mc_output, 1, n))
           /\ mc_output' = rest
           /\ room' = IF m_fd = "own" THEN room - n ELSE room
           /\ IF rest = << >> THEN SetEvents(m_events \ {"write"})
              ELSE UNCHANGED <<m_events, deaf>>
           /\ fin' = (fin \/ FinAfterOutput(rest))
    /\ UNCHANGED <<m_status, m_fd, tasks, pending, sends, taken, lost, closed,
                   killed>>

\* handle_close: the peer has closed, or force_close.
HandleClose ==
    /\ ~killed
    /\ m_status \in {"connected", "disconnecting"}
    /\ ~closed
    /\ m_status' = "disconnected"
    /\ closed' = TRUE
    /\ SetEvents({})
    /\ UNCHANGED <<m_fd, mc_output, left, room, fin, tasks, pending, sends, taken,
                   lost, killed>>

-----------------------------------------------------------------------------
(* The other thread, which checks the status first, and the network.       *)

OtherSends ==
    /\ ~killed
    /\ pending = NoCall
    /\ m_status = "connected"
    /\ sends[Other] < MaxSends
    /\ pending' = Send(NextMessage(Other))
    /\ sends' = [sends EXCEPT ![Other] = @ + 1]
    /\ UNCHANGED <<io, m_status, m_fd, fin, tasks, closed>>

OtherShutsDown ==
    /\ ~killed
    /\ pending = NoCall
    /\ m_status = "connected"
    /\ pending' = Shutdown
    /\ UNCHANGED <<io, m_status, m_fd, fin, tasks, sends, closed>>

\* Faulty variant: a task that overtakes.
QueuedFirst(task) == <<task>> \o tasks
QueuedLast(task) == Append(tasks, task)

\* shutdown writes the status, whatever it is by now ...
OtherSetsStatus ==
    /\ ~killed
    /\ pending = Shutdown
    /\ m_status' = "disconnecting"
    /\ pending' = Marked
    /\ UNCHANGED <<io, m_fd, fin, tasks, sends, closed>>

\* ... and then queues its task, as send does at once.
OtherQueues ==
    /\ ~killed
    /\ pending \notin {NoCall, Shutdown}
    /\ tasks' = QueuedLast(IF pending = Marked THEN Shutdown ELSE pending)
    /\ pending' = NoCall
    /\ UNCHANGED <<io, m_status, m_fd, fin, sends, closed>>

PeerReads ==
    /\ ~killed
    /\ room < Room
    /\ room' = room + 1
    /\ UNCHANGED <<m_status, m_events, deaf, m_fd, mc_output, left, fin, tasks,
                   pending, sends, taken, lost, closed, killed>>

-----------------------------------------------------------------------------

Next ==
    \/ LoopSends \/ LoopShutsDown \/ StopRead \/ StartRead
    \/ RunTask \/ HandleWrite \/ HandleClose
    \/ OtherSends \/ OtherShutsDown \/ OtherSetsStatus \/ OtherQueues
    \/ PeerReads

Spec == Init /\ [][Next]_vars

\* The loop serves its tasks and the events epoll reports; the peer reads; a
\* call that has begun goes on.
FairSpec ==
    /\ Spec
    /\ WF_vars(RunTask) /\ WF_vars(HandleWrite) /\ WF_vars(PeerReads)
    /\ WF_vars(OtherQueues)

-----------------------------------------------------------------------------
(* Properties.                                                             *)

\* Each variable has its type.
TypeOK ==
    /\ m_status \in {"connected", "disconnecting", "disconnected"}
    /\ m_events \subseteq {"read", "write"}
    /\ deaf \in BOOLEAN
    /\ m_fd \in FdOutcomes
    /\ mc_output \in Seq(Byte)
    /\ left \in Seq([byte : Byte, fd : {"own", "other"}])
    /\ room \in 0 .. Room
    /\ fin \in BOOLEAN
    /\ tasks \in Seq(Task)
    /\ pending \in Task \union {NoCall, Marked}
    /\ sends \in [Thread -> 0 .. MaxSends]
    /\ taken \in Seq(Message)
    /\ lost \subseteq Message
    /\ closed \in BOOLEAN
    /\ killed \in BOOLEAN

\* Until it is closed, a connection asks for room exactly while output waits:
\* otherwise the output would be stuck, or the loop would spin on a socket
\* with room.  shutdown_run_in_loop relies on it when it tests is_writing.
WritingIffOutput == ~closed => (is_writing <=> mc_output # << >>)

\* shutdown closes only after what waited was written, whoever called it and
\* whichever of handle_write and shutdown_run_in_loop comes last
\* (TcpConnection.h:24).
FinAfterWrites == fin /\ ~closed => mc_output = << >>

\* The direct write, the buffer and handle_write together are one stream:
\* no byte is lost inside a message, duplicated or overtaken.
Stream == INSTANCE ByteStream WITH
              buffer <- mc_output,
              left <- [i \in 1 .. Len(left) |-> left[i].byte]
ImplementsByteStream == Stream!Spec

\* The messages of one thread are taken in the order it sent them, whether
\* its calls run at once or go through the queue.
SenderOrder ==
    \A i, j \in 1 .. Len(taken) :
        i < j /\ taken[i].from = taken[j].from => taken[i].n < taken[j].n

\* What waits is written as the peer reads, unless the connection closes, its
\* channel was deleted from epoll before, or m_fd is no descriptor.
OutputDrains ==
    (mc_output # << >>) ~>
        (mc_output = << >> \/ closed \/ deaf \/ m_fd = "none")

\* A shutdown gets to the socket, with the same exceptions, although it is
\* handed from shutdown_run_in_loop to handle_write while output waits.
ShutdownHappens ==
    (m_status = "disconnecting") ~> (fin \/ closed \/ deaf \/ m_fd = "none")

\* No message is written to a socket that was shut down for writing.
NoSigpipe == ~killed

\* Buffered output goes to the connection's own socket, which
\* TcpConnection.cc:139-141 waits for to become writable.
OutputGoesToSocket == \A i \in 1 .. Len(left) : left[i].fd = "own"

\* shutdown makes sure that all data is written before it closes
\* (TcpConnection.h:24): the FIN does not follow a message that
\* send_run_in_loop has dropped.
ShutdownKeepsData == fin /\ ~closed => lost = {}

\* shutdown goes through the loop so that what was sent before is written
\* first (TcpConnection.cc:154): no message waits in the queue of tasks when
\* the socket is shut down.
QueuedBeforeFin ==
    [][fin' /\ ~fin => \A i \in 1 .. Len(tasks) : tasks[i] = Shutdown]_vars
=============================================================================
