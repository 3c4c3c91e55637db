----------------------------- MODULE TcpClient -----------------------------
(***************************************************************************)
(* net/TcpClient and its net/Connector: the attempts to connect, their     *)
(* retries, and the hand-over of the connected socket to a TcpConnection.  *)
(* Everything runs in the loop thread, in rounds of poll, events and tasks *)
(* (see EventLoop), except the calls of connect() and stop(), which come   *)
(* from the user's thread.  A task holds the raw `this' of the Connector,  *)
(* a timer of retry() a shared_ptr.  A failed assert or the use of a null  *)
(* pointer aborts: nothing follows it.                                     *)
(*                                                                         *)
(* Of the connection itself only its end matters here.  disconnect() tests *)
(* a flag that it has just cleared (TcpClient.cc:37-41) and does nothing.  *)
(* Descriptors are numbered in the order of socket(), never reused.        *)
(***************************************************************************)
EXTENDS Naturals, Sequences

CONSTANTS
    MaxConnects,    \* bound: calls of connect()
    MaxStops,       \* bound: calls of stop()
    MaxFailures     \* bound: attempts that fail

ASSUME ConstantsAssumption ==
    MaxConnects \in Nat /\ MaxStops \in Nat /\ MaxFailures \in Nat

VARIABLES
    m_status,   \* Connector: "disconnected" or "connecting"
    mb_connect,
    m_channel,  \* the descriptor of the Channel object, 0 if there is none
    watched,    \* the channel is in the poller and asks for writing
    revents,    \* the events of m_channel that handle_event still goes through
    timers,     \* retries that wait for their time
    m_conn,     \* TcpClient holds its Connector
    m_tcp_conn, \* the descriptor of its TcpConnection, 0 if there is none
    conn_open,  \* that connection is not closed yet
    open,       \* the descriptors that are open
    tasks,      \* mc_tasks of the loop
    batch,      \* the tasks of this round still to run
    active,     \* what the poll returned and is not handled yet
    phase,      \* "poll", "events", "tasks"
    connects, stops, sockets, failures,     \* how many so far
    gave_up,    \* connect() met an error that it does not retry
    failed      \* the asserts that failed

connector == <<m_status, m_channel, watched, timers, m_tcp_conn, conn_open, open,
               sockets, failures, gave_up, failed>>
round == <<batch, active, phase, revents>>
user == <<mb_connect, connects, stops>>
vars == <<connector, round, user, m_conn, tasks>>

Init ==
    /\ m_status = "disconnected"
    /\ mb_connect = FALSE
    /\ m_channel = 0 /\ watched = FALSE /\ revents = {}
    /\ timers = 0
    /\ m_conn = TRUE
    /\ m_tcp_conn = 0 /\ conn_open = FALSE
    /\ open = {}
    /\ tasks = << >> /\ batch = << >> /\ active = {} /\ phase = "poll"
    /\ connects = 0 /\ stops = 0 /\ sockets = 0 /\ failures = 0
    /\ gave_up = FALSE
    /\ failed = {}

\* The Connector is destroyed with its last shared_ptr.
Alive == m_conn \/ timers > 0

Abort(where) ==
    /\ failed' = {where}
    /\ UNCHANGED <<m_status, m_channel, watched, timers, m_tcp_conn, conn_open,
                   open, sockets, failures, gave_up, tasks>>

-----------------------------------------------------------------------------
(* The Connector.  `waiting' is the number of timers that are left when    *)
(* the call is made.                                                       *)

\* Faulty variant: leaves the status as it was.
KeepsStatus == m_status
StatusAfterFailure == "disconnected"

\* Faulty variant: forgets to close the socket.
NotClosed(fds, fd) == fds
Closed(fds, fd) == fds \ {fd}

\* Faulty variant: gives up.
NoRetry(waiting) == waiting
Retries(waiting) == IF mb_connect THEN waiting + 1 ELSE waiting

\* retry: the socket fd is closed, and another attempt set if one is wanted.
retry(fds, fd, waiting) ==
    /\ failures < MaxFailures
    /\ failures' = failures + 1
    /\ open' = Closed(fds, fd)
    /\ m_status' = StatusAfterFailure
    /\ timers' = Retries(waiting)

\* connecting: the attempt goes on in the background.
connecting(fd, waiting) ==
    IF m_channel # 0 THEN Abort("connecting: m_channel")
    ELSE /\ m_status' = "connecting"
         /\ m_channel' = fd
         /\ watched' = TRUE
         /\ open' = open \union {fd}
         /\ sockets' = fd
         /\ timers' = waiting
         /\ UNCHANGED <<failures, gave_up, m_tcp_conn, conn_open, failed, tasks>>

\* connect: a socket, and one of three kinds of answers.
connect(waiting) ==
    LET fd == sockets + 1 IN
    \/ connecting(fd, waiting)
    \/ /\ sockets' = fd
       /\ retry(open \union {fd}, fd, waiting)
       /\ UNCHANGED <<m_channel, watched, gave_up, m_tcp_conn, conn_open, failed,
                      tasks>>
    \/ /\ sockets' = fd
       /\ open' = Closed(open \union {fd}, fd)
       /\ gave_up' = TRUE
       /\ timers' = waiting
       /\ UNCHANGED <<m_status, m_channel, watched, failures, m_tcp_conn,
                      conn_open, failed, tasks>>

start_in_loop(waiting) ==
    CASE m_status # "disconnected" -> Abort("start_in_loop: m_status")
      [] m_status = "disconnected" /\ mb_connect -> connect(waiting)
      [] OTHER -> /\ timers' = waiting
                  /\ UNCHANGED <<m_status, m_channel, watched, m_tcp_conn, conn_open,
                                 open, sockets, failures, gave_up, failed, tasks>>

\* remove: the channel leaves the poller now and is destroyed by a task.
remove ==
    /\ watched' = FALSE
    /\ tasks' = Append(tasks, "reset")
    /\ UNCHANGED m_channel

stop_in_loop ==
    IF m_channel = 0 THEN Abort("stop_in_loop: m_channel")
    ELSE /\ remove
         /\ UNCHANGED <<m_status, timers, m_tcp_conn, conn_open, open, sockets,
                        failures, gave_up, failed>>

reset ==
    /\ m_channel' = 0
    /\ UNCHANGED <<m_status, watched, timers, m_tcp_conn, conn_open, open, sockets,
                   failures, gave_up, failed, tasks>>

-----------------------------------------------------------------------------
(* One round of the loop.                                                  *)

Ready == (IF watched THEN {"channel"} ELSE {})
            \union (IF timers > 0 THEN {"timer"} ELSE {})
            \union (IF conn_open THEN {"connection"} ELSE {})

\* The poll returns with events or for a queued task.
Poll ==
    /\ failed = {}
    /\ phase = "poll"
    /\ active' \in SUBSET Ready
    /\ active' # {} \/ tasks # << >>
    /\ phase' = "events"
    /\ UNCHANGED <<connector, user, m_conn, tasks, batch, revents>>

Handling == failed = {} /\ phase = "events"

\* What came for the channel: it can be written, or an error, of which epoll
\* says that it can be written, too.
ChannelEvent ==
    /\ Handling
    /\ revents = {}
    /\ "channel" \in active
    /\ active' = active \ {"channel"}
    /\ \/ revents' = {"out"}
       \/ failures < MaxFailures /\ revents' = {"err", "out"}
    /\ UNCHANGED <<connector, user, m_conn, tasks, batch, phase>>

\* Faulty variant: does not ask whether the attempt is over.
AnyAttempt == TRUE
UnderWay == m_status = "connecting"

\* handle_error comes first ...
HandleError ==
    /\ Handling
    /\ "err" \in revents
    /\ revents' = revents \ {"err"}
    /\ IF UnderWay
       THEN /\ remove
            /\ retry(open, m_channel, timers)
            /\ UNCHANGED <<sockets, gave_up, m_tcp_conn, conn_open, failed>>
       ELSE UNCHANGED <<connector, tasks>>
    /\ UNCHANGED <<user, m_conn, batch, active, phase>>

\* TcpClient::new_conn, or close if the connection is not wanted any more.
HandOver(fd) ==
    /\ IF mb_connect
       THEN m_tcp_conn' = fd /\ conn_open' = TRUE /\ UNCHANGED open
       ELSE open' = Closed(open, fd) /\ UNCHANGED <<m_tcp_conn, conn_open>>
    /\ UNCHANGED <<m_status, timers, failures>>

\* ... handle_write after it: it must see that the attempt is over.
HandleWrite ==
    /\ Handling
    /\ revents = {"out"}
    /\ revents' = {}
    /\ IF UnderWay
       THEN /\ remove
            /\ \/ HandOver(m_channel)
               \/ /\ retry(open, m_channel, timers)
                  /\ UNCHANGED <<m_tcp_conn, conn_open>>
            /\ UNCHANGED <<sockets, gave_up, failed>>
       ELSE UNCHANGED <<connector, tasks>>
    /\ UNCHANGED <<user, m_conn, batch, active, phase>>

\* The time of a retry has come.
RunTimer ==
    /\ Handling
    /\ revents = {}
    /\ "timer" \in active
    /\ active' = active \ {"timer"}
    /\ start_in_loop(timers - 1)
    /\ UNCHANGED <<user, m_conn, batch, phase, revents>>

\* TcpConnection::handle_close, and remove_conn, which lets go of the Connector
\* and keeps the connection.
ConnectionCloses ==
    /\ Handling
    /\ revents = {}
    /\ "connection" \in active
    /\ active' = active \ {"connection"}
    /\ conn_open' = FALSE
    /\ m_conn' = FALSE
    /\ m_channel' = IF timers = 0 THEN 0 ELSE m_channel
    /\ UNCHANGED <<m_status, watched, timers, m_tcp_conn, open, sockets, failures,
                   gave_up, failed, tasks, user, batch, phase, revents>>

Swap ==
    /\ Handling
    /\ active = {} /\ revents = {}
    /\ phase' = "tasks"
    /\ batch' = tasks
    /\ tasks' = << >>
    /\ UNCHANGED <<connector, user, m_conn, active, revents>>

RunTask ==
    /\ failed = {}
    /\ phase = "tasks"
    /\ batch # << >>
    /\ batch' = Tail(batch)
    /\ CASE ~Alive -> Abort("the Connector of a task")
         [] Alive /\ Head(batch) = "start" -> start_in_loop(timers)
         [] Alive /\ Head(batch) = "stop" -> stop_in_loop
         [] Alive /\ Head(batch) = "reset" -> reset
    /\ UNCHANGED <<user, m_conn, active, phase, revents>>

EndRound ==
    /\ failed = {}
    /\ phase = "tasks"
    /\ batch = << >>
    /\ phase' = "poll"
    /\ UNCHANGED <<connector, user, m_conn, tasks, batch, active, revents>>

-----------------------------------------------------------------------------
(* The user's thread.                                                      *)

Connect ==
    /\ failed = {}
    /\ connects < MaxConnects
    /\ connects' = connects + 1
    /\ mb_connect' = TRUE
    /\ IF m_conn
       THEN tasks' = Append(tasks, "start") /\ UNCHANGED connector
       ELSE Abort("connect: m_conn")
    /\ UNCHANGED <<round, stops, m_conn>>

Stop ==
    /\ failed = {}
    /\ stops < MaxStops
    /\ stops' = stops + 1
    /\ mb_connect' = FALSE
    /\ IF m_conn
       THEN tasks' = Append(tasks, "stop") /\ UNCHANGED connector
       ELSE Abort("stop: m_conn")
    /\ UNCHANGED <<round, connects, m_conn>>

-----------------------------------------------------------------------------

LoopStep ==
    \/ Poll \/ ChannelEvent \/ HandleError \/ HandleWrite \/ RunTimer
    \/ ConnectionCloses \/ Swap \/ RunTask \/ EndRound

Next == LoopStep \/ Connect \/ Stop

Spec == Init /\ [][Next]_vars

\* The loop goes on as long as the poll has something to return; what became
\* of an attempt and a retry whose time has come are reported in the end.
FairSpec ==
    /\ Spec
    /\ WF_vars(LoopStep)
    /\ \A x \in {"channel", "timer"} : SF_vars(Poll /\ x \in active')

-----------------------------------------------------------------------------
(* Properties.  stop() does not work: its task uses m_channel, which exists *)
(* only between connecting() and the result, and drops the descriptor.     *)

\* Types; the poller knows only a channel that exists.
TypeOK ==
    /\ m_status \in {"disconnected", "connecting"}
    /\ mb_connect \in BOOLEAN
    /\ m_channel \in 0 .. sockets /\ watched \in BOOLEAN
    /\ watched => m_channel # 0
    /\ revents \subseteq {"out", "err"}
    /\ timers \in Nat
    /\ m_conn \in BOOLEAN
    /\ m_tcp_conn \in 0 .. sockets /\ conn_open \in BOOLEAN
    /\ open \subseteq 1 .. sockets
    /\ tasks \in Seq({"start", "stop", "reset"})
    /\ batch \in Seq({"start", "stop", "reset"})
    /\ active \subseteq {"channel", "timer", "connection"}
    /\ phase \in {"poll", "events", "tasks"}
    /\ connects \in 0 .. MaxConnects /\ stops \in 0 .. MaxStops
    /\ sockets \in Nat /\ failures \in 0 .. MaxFailures
    /\ gave_up \in BOOLEAN

\* Until stop() is called, each assert of the Connector holds and each task
\* finds it alive: one event runs handle_error and handle_write, the channel
\* outlives its handle_event and is gone before the next attempt, and the
\* hand-over of the descriptor leaves nothing behind that uses the Connector
\* (Connector.cc:62, 145, 241).
NoAssertFails == stops = 0 => failed = {}

\* Until stop() is called, a descriptor is open exactly as long as an attempt or
\* the connection owns it: none leaks over the retries and none is closed twice
\* or under its owner (Connector.cc:159-161, 213-234).
OpenIsOwned ==
    stops = 0 /\ failed = {} =>
        open = {fd \in 1 .. sockets : \/ watched /\ fd = m_channel
                                      \/ fd = m_tcp_conn}

\* The ways in which a wanted connection goes on.
Attempts ==
    {x \in {"queued", "retry", "watched", "connected", "gave up"} :
        \/ x = "queued" /\ \E i \in 1 .. Len(batch \o tasks) :
                              (batch \o tasks)[i] = "start"
        \/ x = "retry" /\ timers > 0
        \/ x = "watched" /\ watched
        \/ x = "connected" /\ m_tcp_conn # 0
        \/ x = "gave up" /\ gave_up}

\* Until stop() is called, a wanted connection has exactly one attempt on its
\* way: a failure is followed by one retry, never by none or by two.
OneAttempt ==
    stops = 0 /\ failed = {} /\ connects = 1 =>
        timers <= 1 /\ \E x \in Attempts : Attempts = {x}

\* A wanted connection is made after finitely many failures, unless connect()
\* met an error it does not retry, or stop() was called.
GetsConnected ==
    mb_connect ~> (m_tcp_conn # 0 \/ gave_up \/ stops > 0)
=============================================================================
