----------------------------- MODULE TcpServer -----------------------------
(***************************************************************************)
(* The lifetime of TcpConnections: net/TcpServer in its own loop, the      *)
(* connections in the loops of the pool, and the user, who runs in their   *)
(* callbacks and in a thread of his own.                                   *)
(*                                                                         *)
(* A loop thread l has a stack of calls under way, calls[l], and a queue   *)
(* of tasks.  add_task pushes a call when the caller is the loop thread    *)
(* and queues a task otherwise.  A call or task holds a shared_ptr to its  *)
(* connection or only the raw `this'; the connection is destroyed in the   *)
(* step that drops its last shared_ptr.  The tasks of a batch are          *)
(* destroyed, and let go of what they hold, at the end of the batch        *)
(* (EventLoop.cc:218).  A failed assert aborts: nothing follows it.        *)
(*                                                                         *)
(* Of the output only that some waits is modelled, by the channel's        *)
(* "write".  Bounds: one use of each member of Conn; MaxTasks.             *)
(***************************************************************************)
EXTENDS Naturals, Sequences, SequencesExt

CONSTANTS
    Conn,
    IoLoop,         \* the loops of the pool; none: all runs in Main
    Main,           \* the loop of the TcpServer
    InCallback,     \* what callbacks do, out of "keep", "shutdown",
                    \* "force_close", "close_other", "send", "stop_read"
    Foreign,        \* what the user's thread does, out of "shutdown", "force_close"
    Busy,           \* bound: the connections that the user keeps, that have
                    \* output, and whose peer may break off
    DropsEarly,     \* whether he lets go of a connection while a task
                    \* that he queued for it waits
    MaxTasks        \* bound: he calls only while fewer tasks are queued

ASSUME ConstantsAssumption ==
    /\ Main \notin IoLoop
    /\ InCallback \subseteq {"keep", "shutdown", "force_close", "close_other",
                        "send", "stop_read"}
    /\ Foreign \subseteq {"shutdown", "force_close"}
    /\ Busy \subseteq Conn
    /\ MaxTasks \in Nat
    /\ DropsEarly \in BOOLEAN

Loop == {Main} \union IoLoop
\* EventLoopThreadPool::next_loop.
ConnLoop == IF IoLoop = {} THEN {Main} ELSE IoLoop

VARIABLES
    live,           \* connections whose object exists
    m_status,
    listening,      \* mb_listening of the Acceptor
    events,         \* what the channel asks for: "read", "write"
    deaf,           \* connections whose channel asked for nothing once: epoll
                    \* knows them no more, and update() cannot add them again
    registered,     \* connections whose channel is in the poller's map
    loop,           \* the io loop of a connection
    mc_connections, \* TcpServer's map
    tasks,          \* mc_tasks of each loop
    batch,          \* the tasks of handle_tasks() still to run
    spent,          \* connections held by tasks of the batch that have run
    calls,          \* the stack of each loop thread, innermost first
    active,         \* m_revents of the channels that the poll returned and
                    \* that are not handled yet
    phase,          \* "poll", "events" or "tasks" of each loop
    kept,           \* connections the user holds a shared_ptr to
    pending,        \* the user's call under way, between check and effect
    peer,           \* "open"; "closed", the next read returns 0; "reset", it
                    \* fails; "aborted", that was reported
    failed          \* the asserts that failed

channels == <<events, deaf, registered>>
outside == <<listening, loop, phase, pending, peer>>
vars == <<live, m_status, listening, events, deaf, registered, loop,
          mc_connections, tasks, batch, spent, calls, active, phase, kept,
          pending, peer, failed>>

Nobody == "nobody"
NoCall == [op |-> "none", conn |-> Nobody]

\* Calls and tasks that hold a shared_ptr; the others have the raw `this'.
SharedOp == {"connect_establised", "callback", "close_cb", "guard",
             "remove_conn", "connect_destroy"}
RawOp == {"handle_event", "handle_read", "handle_write", "handle_error",
          "handle_close", "force_close", "shutdown", "channel_remove"}
Call == [op : SharedOp \union RawOp, conn : Conn]

C(op, c) == [op |-> op, conn |-> c]

Holds(s, c) == \E n \in DOMAIN s : s[n].conn = c /\ s[n].op \in SharedOp

\* Some shared_ptr to c exists.
Referenced(c) ==
    \/ c \in mc_connections \union kept
    \/ \E l \in Loop : \/ c \in spent[l]
                       \/ Holds(tasks[l] \o batch[l] \o calls[l], c)

Init ==
    /\ live = {} /\ deaf = {} /\ registered = {} /\ mc_connections = {}
    /\ kept = {} /\ failed = {}
    /\ listening = FALSE
    /\ events = [c \in Conn |-> {}]
    /\ peer = [c \in Conn |-> "open"]
    /\ m_status = [c \in Conn |-> "none"]
    /\ loop \in [Conn -> ConnLoop]
    /\ tasks = [l \in Loop |-> << >>]
    /\ batch = [l \in Loop |-> << >>]
    /\ calls = [l \in Loop |-> << >>]
    /\ spent = [l \in Loop |-> {}]
    /\ active = [c \in Conn |-> {}]
    /\ phase = [l \in Loop |-> "poll"]
    /\ pending = NoCall

-----------------------------------------------------------------------------

\* ~TcpConnection asserts m_status == e_disconnected.
MayBeDestroyed(c) == m_status'[c] = "disconnected"

\* Ends every step that may drop a shared_ptr: connections without a reference
\* are destroyed.  holds is the claim of the assert at `name', if the step has
\* one.
FinishAsserting(name, holds) ==
    LET gone == {c \in live : ~Referenced(c)'}
    IN  /\ live' = live \ gone
        /\ failed' = failed
             \union (IF holds THEN {} ELSE {name})
             \union (IF \A c \in gone : MayBeDestroyed(c) THEN {}
                     ELSE {"TcpConnection.cc:62"})
             \union (IF gone \intersect registered' = {} THEN {}
                     ELSE {"Channel.cc:26"})

Finish == FinishAsserting("none", TRUE)

\* add_task(l, call) by thread t on top of the calls s of t that remain.
AddTask(t, l, call, s) ==
    IF t = l
    THEN /\ calls' = [calls EXCEPT ![t] = <<call>> \o s]
         /\ UNCHANGED tasks
    ELSE /\ calls' = [calls EXCEPT ![t] = s]
         /\ tasks' = [tasks EXCEPT ![l] = Append(@, call)]

\* The loop thread l is between two callbacks of the current round.
Between(l) == calls[l] = << >> /\ phase[l] = "events" /\ failed = {}

\* Top(l, op): the loop thread l is about to do op for the connection c, and
\* c still exists; what it would do to a destroyed one is not modelled.
Top(l, op) ==
    /\ failed = {}
    /\ calls[l] # << >>
    /\ Head(calls[l]).op = op
    /\ Head(calls[l]).conn \in live

TopConn(l) == Head(calls[l]).conn

\* Channel::enable_*, disable_*.
SetEvents(c, E) ==
    /\ events' = [events EXCEPT ![c] = E]
    /\ deaf' = IF E = {} THEN deaf \union {c} ELSE deaf

-----------------------------------------------------------------------------
(* TcpServer.                                                              *)

\* Acceptor::listen.
Listen == listening' = TRUE

\* start(), before loop(): the pool starts its loops; add_task calls listen at
\* once.
Start ==
    /\ ~listening
    /\ Listen
    /\ UNCHANGED <<live, m_status, channels, loop, mc_connections, tasks, batch,
                   spent, calls, active, phase, kept, pending, peer, failed>>

\* Acceptor::handle_read; its callback is new_conn.
Accepts(c) == Between(Main) /\ m_status[c] = "none"

NewConn(c) ==
    /\ Accepts(c)
    /\ m_status' = [m_status EXCEPT ![c] = "connecting"]
    /\ live' = live \union {c}
    /\ mc_connections' = mc_connections \union {c}
    /\ AddTask(Main, loop[c], C("connect_establised", c), calls[Main])
    /\ UNCHANGED <<channels, batch, spent, active, kept, failed, outside>>

\* Faulty variant: the connection's own loop changes the map.
OwnLoop(l) == l
\* The loop that owns the map, whichever loop l closes a connection.
ServerLoop(l) == Main

\* remove_conn, called by m_close_cb.
CloseCb(l) ==
    /\ Top(l, "close_cb")
    /\ AddTask(l, ServerLoop(l), C("remove_conn", TopConn(l)), Tail(calls[l]))
    /\ UNCHANGED <<m_status, channels, mc_connections, batch, spent,
                   active, kept, outside>>
    /\ Finish

\* connect_destroy goes to the loop of the connection.
DestroyLater(l, c) == AddTask(l, loop[c], C("connect_destroy", c), Tail(calls[l]))

\* remove_conn_run_in_loop.
RemoveConn(l) ==
    /\ Top(l, "remove_conn")
    /\ LET c == TopConn(l)
       IN  /\ mc_connections' = mc_connections \ {c}
           /\ DestroyLater(l, c)
           /\ UNCHANGED <<m_status, channels, batch, spent, active,
                          kept, outside>>
           /\ FinishAsserting("TcpServer.cc:109", c \in mc_connections)

-----------------------------------------------------------------------------
(* TcpConnection, in its loop.                                             *)

ConnectEstablised(l) ==
    /\ Top(l, "connect_establised")
    /\ LET c == TopConn(l)
       IN  /\ m_status' = [m_status EXCEPT ![c] = "connected"]
           /\ SetEvents(c, events[c] \union {"read"})
           /\ registered' = registered \union {c}
           /\ calls' = [calls EXCEPT ![l] = <<C("callback", c)>> \o Tail(@)]
    /\ UNCHANGED <<mc_connections, tasks, batch, spent, active, kept, outside>>
    /\ Finish

\* Faulty variant: the server is not told.
CallbackOnly(c) == <<C("callback", c), C("guard", c)>>
\* conn_cb, then close_cb, under a shared_ptr on the stack.
ClosingCalls(c) == <<C("callback", c), C("close_cb", c), C("guard", c)>>

\* Faulty variant: what is closed keeps listening.
StillReading(c) == SetEvents(c, events[c] \ {"write"})
DisableAll(c) == SetEvents(c, {})

HandleClose(l) ==
    /\ Top(l, "handle_close")
    /\ LET c == TopConn(l)
       IN  /\ m_status' = [m_status EXCEPT ![c] = "disconnected"]
           /\ DisableAll(c)
           /\ calls' = [calls EXCEPT ![l] = ClosingCalls(c) \o Tail(@)]
           /\ UNCHANGED <<registered, mc_connections, tasks, batch, spent,
                          active, kept, outside>>
           /\ FinishAsserting("TcpConnection.cc:290",
                              m_status[c] \in {"connected", "disconnecting"})

\* A message, the end, or an error, which is only logged.
HandleRead(l) ==
    /\ Top(l, "handle_read")
    /\ LET c == TopConn(l)
           op == CASE peer[c] = "open" -> <<C("callback", c)>>
                   [] peer[c] = "reset" -> << >>
                   [] OTHER -> <<C("handle_close", c)>>
       IN  /\ calls' = [calls EXCEPT ![l] = op \o Tail(@)]
           /\ peer' = IF peer[c] = "reset" THEN [peer EXCEPT ![c] = "aborted"]
                      ELSE peer
    /\ UNCHANGED <<m_status, channels, mc_connections, tasks, batch, spent,
                   active, kept, listening, loop, phase, pending>>
    /\ Finish

\* Fetching the error clears it, if m_fd happens to be this socket.
HandleError(l) ==
    /\ Top(l, "handle_error")
    /\ calls' = [calls EXCEPT ![l] = Tail(@)]
    /\ peer' \in {peer, [peer EXCEPT ![TopConn(l)] = IF @ = "reset" THEN "aborted"
                                                   ELSE @]}
    /\ UNCHANGED <<m_status, channels, mc_connections, tasks, batch, spent,
                   active, kept, listening, loop, phase, pending>>
    /\ Finish

\* What waits gets out, or not all of it.
HandleWrite(l) ==
    /\ Top(l, "handle_write")
    /\ LET c == TopConn(l)
       IN  \/ "write" \in events[c] /\ SetEvents(c, events[c] \ {"write"})
           \/ UNCHANGED <<events, deaf>>
    /\ calls' = [calls EXCEPT ![l] = Tail(@)]
    /\ UNCHANGED <<m_status, registered, mc_connections, tasks, batch, spent,
                   active, kept, outside>>
    /\ Finish

\* Calls that only return, or that look at the socket alone.
Return(l) ==
    /\ \E op \in {"guard", "handle_event", "shutdown"} : Top(l, op)
    /\ calls' = [calls EXCEPT ![l] = Tail(@)]
    /\ UNCHANGED <<m_status, channels, mc_connections, tasks, batch,
                   spent, active, kept, outside>>
    /\ Finish

ConnectDestroy(l) ==
    /\ Top(l, "connect_destroy")
    /\ LET c == TopConn(l)
           rest == <<C("channel_remove", c), C("guard", c)>> \o Tail(calls[l])
       IN  IF m_status[c] = "connected"
           THEN /\ m_status' = [m_status EXCEPT ![c] = "disconnected"]
                /\ DisableAll(c)
                /\ calls' = [calls EXCEPT ![l] = <<C("callback", c)>> \o rest]
           ELSE /\ calls' = [calls EXCEPT ![l] = rest]
                /\ UNCHANGED <<m_status, events, deaf>>
    /\ UNCHANGED <<registered, mc_connections, tasks, batch, spent, active, kept,
                   outside>>
    /\ Finish

\* Channel::remove.
ChannelRemove(l) ==
    /\ Top(l, "channel_remove")
    /\ LET c == TopConn(l)
       IN  /\ registered' = registered \ {c}
           /\ calls' = [calls EXCEPT ![l] = Tail(@)]
           /\ UNCHANGED <<m_status, events, deaf, mc_connections, tasks, batch,
                          spent, active, kept, outside>>
           /\ FinishAsserting("Channel.cc:43", events[c] = {})

\* Faulty variant: closes whatever the status is.
AnyMayClose(c) == TRUE
MayClose(c) == m_status[c] \in {"connected", "disconnecting"}

\* force_close_run_in_loop.
ForceClose(l) ==
    /\ Top(l, "force_close")
    /\ calls' = [calls EXCEPT ![l] =
          IF MayClose(TopConn(l))
          THEN <<C("handle_close", TopConn(l))>> \o Tail(@) ELSE Tail(@)]
    /\ UNCHANGED <<m_status, channels, mc_connections, tasks, batch,
                   spent, active, kept, outside>>
    /\ Finish

-----------------------------------------------------------------------------
(* A callback of connection c in loop l: it does one thing and returns.    *)

CallbackReturns(l) ==
    /\ Top(l, "callback")
    /\ \/ UNCHANGED kept
       \/ /\ "keep" \in InCallback
          /\ TopConn(l) \in Busy
          /\ kept' = kept \union {TopConn(l)}
    /\ calls' = [calls EXCEPT ![l] = Tail(@)]
    /\ UNCHANGED <<m_status, channels, mc_connections, tasks, batch,
                   spent, active, outside>>
    /\ Finish

MayShutDown(c) == m_status[c] = "connected"

\* shutdown(): its task runs at once and only looks at the channel.
CallbackShutsDown(l) ==
    /\ "shutdown" \in InCallback
    /\ Top(l, "callback")
    /\ MayShutDown(TopConn(l))
    /\ m_status' = [m_status EXCEPT ![TopConn(l)] = "disconnecting"]
    /\ calls' = [calls EXCEPT ![l] = Tail(@)]
    /\ UNCHANGED <<channels, mc_connections, tasks, batch, spent, active, kept,
                   outside>>
    /\ Finish

\* send() of more than the socket takes, and stop_read().
CallbackAsks(l) ==
    /\ Top(l, "callback")
    /\ LET c == TopConn(l)
       IN  \E what \in InCallback \intersect {"send", "stop_read"} :
             /\ what = "send" => c \in Busy /\ m_status[c] = "connected"
             /\ SetEvents(c, IF what = "send" THEN events[c] \union {"write"}
                             ELSE events[c] \ {"read"})
    /\ calls' = [calls EXCEPT ![l] = Tail(@)]
    /\ UNCHANGED <<m_status, registered, mc_connections, tasks, batch, spent,
                   active, kept, outside>>
    /\ Finish

\* force_close() of the connection itself, or of another one of this loop
\* that the user holds.
CallbackCloses(l) ==
    /\ Top(l, "callback")
    /\ \E d \in Conn :
          /\ \/ "force_close" \in InCallback /\ d = TopConn(l)
             \/ "close_other" \in InCallback /\ d \in kept \ {TopConn(l)}
          /\ loop[d] = l
          /\ MayClose(d)
          /\ calls' = [calls EXCEPT ![l] =
               <<C("force_close", d), C("guard", TopConn(l))>> \o Tail(@)]
    /\ UNCHANGED <<m_status, channels, mc_connections, tasks, batch,
                   spent, active, kept, outside>>
    /\ Finish

-----------------------------------------------------------------------------
(* The loops.                                                              *)

\* What epoll reports of a channel, beyond what may or may not be there:
\* the end of the peer when it is asked for; a connection that is broken or
\* closed both ways always.
Due(c) ==
    (IF peer[c] # "open" /\ "read" \in events[c] THEN {"IN"} ELSE {})
    \union (IF \/ peer[c] \in {"reset", "aborted"}
               \/ /\ peer[c] = "closed" /\ m_status[c] = "disconnecting"
                  /\ "write" \notin events[c]
            THEN {"HUP"} \union (IF "write" \in events[c] THEN {"OUT"} ELSE {})
            ELSE {})
    \union (IF peer[c] = "reset" THEN {"ERR"} ELSE {})

Maybe(c) == (IF "read" \in events[c] THEN {"IN"} ELSE {})
            \union (IF "write" \in events[c] THEN {"OUT"} ELSE {})

\* epoll_wait also returns on the timeout, with nothing.
Poll(l) ==
    /\ failed = {}
    /\ listening
    /\ phase[l] = "poll"
    /\ phase' = [phase EXCEPT ![l] = "events"]
    /\ LET heard == {c \in registered \ deaf : loop[c] = l /\ events[c] # {}}
       IN  \E more \in [heard -> SUBSET {"IN", "OUT"}] :
             /\ \A c \in heard : more[c] \subseteq Maybe(c) \ Due(c)
             /\ active' = [c \in Conn |->
                              IF c \in heard THEN Due(c) \union more[c]
                              ELSE active[c]]
    /\ UNCHANGED <<live, m_status, listening, channels, loop, mc_connections,
                   tasks, batch, spent, calls, kept, pending, peer, failed>>

\* The calls of Channel::handle_event for the events R, in their order.
EventCalls(c, R) ==
    LET If(cond, op) == IF cond THEN <<C(op, c)>> ELSE << >>
    IN  If("HUP" \in R /\ "IN" \notin R, "handle_close")
        \o If("ERR" \in R, "handle_error")
        \o If(R \intersect {"IN", "HUP"} # {}, "handle_read")
        \o If("OUT" \in R, "handle_write")

\* The channel is in use until handle_event returns.
HandleEvent(l) ==
    /\ Between(l)
    /\ \E c \in live :
          /\ loop[c] = l
          /\ active[c] # {}
          /\ active' = [active EXCEPT ![c] = {}]
          /\ calls' = [calls EXCEPT ![l] =
               EventCalls(c, active[c]) \o <<C("handle_event", c)>>]
    /\ UNCHANGED <<live, m_status, channels, mc_connections, tasks, batch,
                   spent, kept, failed, outside>>

\* handle_tasks takes the queue.
Swap(l) ==
    /\ Between(l)
    /\ \A c \in Conn : loop[c] = l => active[c] = {}
    /\ phase' = [phase EXCEPT ![l] = "tasks"]
    /\ batch' = [batch EXCEPT ![l] = tasks[l]]
    /\ tasks' = [tasks EXCEPT ![l] = << >>]
    /\ UNCHANGED <<live, m_status, listening, channels, loop, mc_connections,
                   spent, calls, active, kept, pending, peer,
                   failed>>

RunTask(l) ==
    /\ failed = {}
    /\ calls[l] = << >>
    /\ batch[l] # << >>
    /\ calls' = [calls EXCEPT ![l] = <<Head(batch[l])>>]
    /\ batch' = [batch EXCEPT ![l] = Tail(@)]
    /\ spent' = [spent EXCEPT ![l] =
                   IF Head(batch[l]).op \in SharedOp
                   THEN @ \union {Head(batch[l]).conn} ELSE @]
    /\ UNCHANGED <<live, m_status, channels, mc_connections, tasks,
                   active, kept, failed, outside>>

\* The batch is destroyed with the shared_ptrs its tasks hold.
EndBatch(l) ==
    /\ failed = {}
    /\ calls[l] = << >>
    /\ batch[l] = << >>
    /\ phase[l] = "tasks"
    /\ phase' = [phase EXCEPT ![l] = "poll"]
    /\ spent' = [spent EXCEPT ![l] = {}]
    /\ UNCHANGED <<m_status, listening, channels, loop, mc_connections,
                   tasks, batch, calls, active, kept, pending, peer>>
    /\ Finish

-----------------------------------------------------------------------------
(* The user's own thread and the peer.                                     *)

\* shutdown() and force_close() check the status ...
UserChecks ==
    /\ pending = NoCall
    /\ failed = {}
    /\ \E c \in kept, op \in Foreign :
          /\ IF op = "shutdown" THEN MayShutDown(c) ELSE MayClose(c)
          /\ Len(tasks[loop[c]]) < MaxTasks
          /\ pending' = C(op, c)
    /\ UNCHANGED <<live, m_status, listening, channels, loop, mc_connections,
                   tasks, batch, spent, calls, active, phase, kept,
                   peer, failed>>

\* ... and act on what they saw.
UserActs ==
    /\ pending # NoCall
    /\ failed = {}
    /\ m_status' = IF pending.op = "shutdown"
                   THEN [m_status EXCEPT ![pending.conn] = "disconnecting"]
                   ELSE m_status
    /\ tasks' = [tasks EXCEPT ![loop[pending.conn]] = Append(@, pending)]
    /\ pending' = NoCall
    /\ UNCHANGED <<live, listening, channels, loop, mc_connections, batch,
                   spent, calls, active, phase, kept, peer, failed>>

\* A task with the raw `this' of c waits.
Queued(c) == \E t \in Range(tasks[loop[c]] \o batch[loop[c]] \o calls[loop[c]]) :
                t \in [op : Foreign, conn : {c}]

UserDrops(c) ==
    /\ failed = {}
    /\ c \in kept
    /\ pending.conn # c
    /\ DropsEarly \/ ~Queued(c)
    /\ kept' = kept \ {c}
    /\ UNCHANGED <<m_status, channels, mc_connections, tasks, batch,
                   spent, calls, active, outside>>
    /\ Finish

\* The peer has closed, and all it sent has been read, or has broken off.
PeerCloses(c) ==
    /\ m_status[c] # "none"
    /\ \/ peer[c] = "open" /\ peer' = [peer EXCEPT ![c] = "closed"]
       \/ /\ c \in Busy /\ peer[c] \in {"open", "closed"}
          /\ peer' = [peer EXCEPT ![c] = "reset"]
    /\ UNCHANGED <<live, m_status, listening, channels, loop, mc_connections,
                   tasks, batch, spent, calls, active, phase, kept, pending,
                   failed>>

-----------------------------------------------------------------------------

LoopStep(l) ==
    \/ Poll(l) \/ HandleEvent(l) \/ Swap(l) \/ RunTask(l) \/ EndBatch(l)
    \/ CloseCb(l) \/ RemoveConn(l) \/ ConnectEstablised(l) \/ HandleClose(l)
    \/ HandleRead(l) \/ HandleError(l) \/ HandleWrite(l) \/ CallbackAsks(l)
    \/ Return(l) \/ ConnectDestroy(l) \/ ChannelRemove(l) \/ ForceClose(l)
    \/ CallbackReturns(l) \/ CallbackShutsDown(l) \/ CallbackCloses(l)

Next ==
    \/ Start
    \/ \E c \in Conn : NewConn(c) \/ UserDrops(c) \/ PeerCloses(c)
    \/ \E l \in Loop : LoopStep(l)
    \/ UserChecks \/ UserActs

Spec == Init /\ [][Next]_vars

\* Each loop thread goes on: epoll_wait returns within its 100 s and the
\* callbacks return.  Nothing is assumed of the peers and the user.
FairSpec == Spec /\ \A l \in Loop : WF_vars(LoopStep(l))

-----------------------------------------------------------------------------
(* Properties.                                                             *)

\* Types; only objects that exist are mapped, registered or kept.
TypeOK ==
    /\ live \subseteq Conn /\ mc_connections \subseteq live
    /\ kept \subseteq live /\ registered \subseteq live
    /\ listening \in BOOLEAN
    /\ events \in [Conn -> SUBSET {"read", "write"}]
    /\ deaf \subseteq Conn
    /\ \A c \in Conn : events[c] # {} => c \in registered
    /\ m_status \in [Conn -> {"none", "connecting", "connected",
                              "disconnecting", "disconnected"}]
    /\ loop \in [Conn -> ConnLoop]
    /\ tasks \in [Loop -> Seq(Call)]
    /\ batch \in [Loop -> Seq(Call)]
    /\ calls \in [Loop -> Seq(Call)]
    /\ spent \in [Loop -> SUBSET live]
    /\ active \in [Conn -> SUBSET {"IN", "OUT", "HUP", "ERR"}]
    /\ phase \in [Loop -> {"poll", "events", "tasks"}]
    /\ pending \in Call \union {NoCall}
    /\ peer \in [Conn -> {"open", "closed", "reset", "aborted"}]

\* No assert of TcpServer, TcpConnection and Channel fails, whatever the order
\* of the two hand-overs between the loops, of the user's callbacks, of the
\* peer's close and of the callbacks of one event: remove_conn finds its
\* connection, handle_close runs once, the channel is silent when removed, the
\* destructors find a closed connection.
NoAssertFails == failed = {}

\* Everything a loop thread is inside of, has queued, or is about to handle
\* works on a connection that exists: handle_event, handle_close and
\* Channel::remove run on a raw `this'.  Channel.cc:24 says that a channel is
\* not destroyed while it handles an event.
InUseIsAlive ==
    /\ \A c \in Conn : active[c] # {} => c \in live
    /\ \A l \in Loop : \A n \in DOMAIN calls[l] : calls[l][n].conn \in live

\* A task that was queued with a raw `this' finds its connection alive
\* (TcpConnection.h:3: smart pointers maintain the lifetime throughout).
TasksFindTheirConnection ==
    \A l \in Loop : \A n \in DOMAIN (tasks[l] \o batch[l]) :
        (tasks[l] \o batch[l])[n].conn \in live

\* The destructor finds the status e_disconnected (TcpConnection.cc:62).
DestroyedDisconnected == "TcpConnection.cc:62" \notin failed

\* A channel is removed only once it watches nothing (Channel.cc:42).
RemovedSilent == "Channel.cc:43" \notin failed

\* A connection whose peer has closed leaves the server's map and the poller,
\* and is destroyed unless the user holds it: handle_close, remove_conn and
\* connect_destroy all get their turn, through two queues and two loops.
ClosedIsReleased ==
    \A c \in Conn :
        peer[c] # "open" ~>
            /\ c \notin mc_connections \union registered
            /\ c \in live => c \in kept
=============================================================================
