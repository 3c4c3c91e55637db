-------------------------- MODULE TcpClient_proofs --------------------------
(***************************************************************************)
(* Proofs about TcpClient for any number of failures, given that connect() *)
(* is called once.  Until stop() is called, the connector is in one of the *)
(* stages below, each of which says where descriptor, channel, retry and   *)
(* tasks are; each step leads from one stage to another.                   *)
(***************************************************************************)
EXTENDS TcpClient, TLAPS

\* The task that waits, in mc_tasks or in the batch.
Waiting(x) ==
    \/ batch = << >> /\ tasks = <<x>>
    \/ batch = <<x>> /\ tasks = << >> /\ phase = "tasks"

NothingWaits == batch = << >> /\ tasks = << >>

\* The channel that left the poller is destroyed by the round that removed it,
\* before the poll can return a retry or an event of the connection.
ChannelGoes ==
    \/ m_channel = 0 /\ NothingWaits
    \/ /\ m_channel # 0 /\ Waiting("reset") /\ active = {}
       /\ IF tasks = << >> THEN phase = "tasks" ELSE phase = "events"

NoEvents == active = {} /\ revents = {}

Unwanted ==
    /\ connects = 0 /\ ~mb_connect
    /\ m_status = "disconnected" /\ m_channel = 0 /\ ~watched
    /\ timers = 0 /\ m_conn /\ m_tcp_conn = 0 /\ ~conn_open /\ open = {} /\ ~gave_up
    /\ NothingWaits /\ NoEvents

Queued ==
    /\ connects = 1 /\ mb_connect
    /\ m_status = "disconnected" /\ m_channel = 0 /\ ~watched
    /\ timers = 0 /\ m_conn /\ m_tcp_conn = 0 /\ ~conn_open /\ open = {} /\ ~gave_up
    /\ Waiting("start") /\ NoEvents

Watched ==
    /\ connects = 1 /\ mb_connect
    /\ m_status = "connecting" /\ m_channel \in 1 .. sockets /\ watched
    /\ timers = 0 /\ m_conn /\ m_tcp_conn = 0 /\ ~conn_open
    /\ open = {m_channel} /\ ~gave_up
    /\ NothingWaits
    /\ active \subseteq {"channel"}
    /\ revents # {} => active = {}

Retrying ==
    /\ connects = 1 /\ mb_connect
    /\ m_status = "disconnected" /\ ~watched
    /\ timers = 1 /\ m_conn /\ m_tcp_conn = 0 /\ ~conn_open /\ open = {} /\ ~gave_up
    /\ ChannelGoes
    /\ active \subseteq {"timer"}
    /\ revents \in {{}, {"out"}}
    /\ revents # {} => active = {}

Connected ==
    /\ connects = 1 /\ mb_connect
    /\ m_status = "connecting" /\ ~watched
    /\ timers = 0 /\ m_tcp_conn \in 1 .. sockets /\ open = {m_tcp_conn} /\ ~gave_up
    /\ ChannelGoes
    /\ active \subseteq {"connection"} /\ revents = {}
    /\ \/ m_conn /\ conn_open
       \/ ~conn_open /\ NothingWaits /\ active = {}

GaveUp ==
    /\ connects = 1 /\ mb_connect
    /\ m_channel = 0 /\ ~watched
    /\ timers = 0 /\ m_conn /\ m_tcp_conn = 0 /\ ~conn_open /\ open = {} /\ gave_up
    /\ NothingWaits /\ NoEvents

Stage == Unwanted \/ Queued \/ Watched \/ Retrying \/ Connected \/ GaveUp

Fine ==
    /\ failed = {}
    /\ sockets \in Nat
    /\ revents \subseteq {"out", "err"}
    /\ phase \in {"poll", "events", "tasks"}
    /\ phase # "tasks" => batch = << >>
    /\ phase # "events" => NoEvents
    /\ Stage

\* The inductive invariant.
IInv == stops \in Nat /\ (stops = 0 => Fine)

LEMMA OneTask ==
    ASSUME NEW x
    PROVE  /\ Append(<< >>, x) = <<x>> /\ Tail(<<x>>) = << >> /\ Head(<<x>>) = x
           /\ <<x>> # << >>
OBVIOUS

LEMMA InitInv == Init => IInv
BY DEF Init, IInv, Fine, NoEvents, Stage, Unwanted, NothingWaits

-----------------------------------------------------------------------------
(* The round of the loop.                                                  *)

\* Each stage lets the poll return what belongs to it.
LEMMA PollInv ==
    ASSUME Fine, Poll
    PROVE  Fine'
<1> USE DEF Fine, Poll, connector, user
<1>1. /\ phase = "poll" /\ phase' = "events" /\ revents = {} /\ revents' = {}
      /\ active' \subseteq Ready /\ batch = << >> /\ batch' = << >>
      /\ active' # {} \/ tasks # << >>
  BY DEF NoEvents
<1>2. Stage'
  <2>1. CASE Unwanted
    <3>1. Ready = {} /\ tasks = << >>
      BY <2>1 DEF Unwanted, NothingWaits, Ready
    <3> QED
      BY <1>1, <3>1
  <2>2. CASE Queued
    <3>1. Ready = {} /\ tasks = <<"start">>
      BY <1>1, <2>2 DEF Queued, Waiting, Ready
    <3>2. Waiting("start")' /\ NoEvents'
      BY <1>1, <3>1 DEF Waiting, NoEvents
    <3> QED
      BY <2>2, <3>2 DEF Stage, Queued
  <2>3. CASE Watched
    BY <1>1, <2>3 DEF Stage, Watched, NothingWaits, Ready
  <2>4. CASE Retrying
    BY <1>1, <2>4 DEF Stage, Retrying, ChannelGoes, NothingWaits, Ready
  <2>5. CASE Connected
    <3>1. m_channel = 0 /\ NothingWaits /\ Ready # {}
      BY <1>1, <2>5 DEF Connected, ChannelGoes, NothingWaits
    <3>2. m_conn /\ conn_open /\ Ready = {"connection"}
      BY <2>5, <3>1 DEF Connected, Ready
    <3>3. ChannelGoes'
      BY <1>1, <3>1 DEF ChannelGoes, NothingWaits
    <3>4. Connected'
      BY <1>1, <2>5, <3>2, <3>3 DEF Connected
    <3> QED
      BY <3>4 DEF Stage
  <2>6. CASE GaveUp
    <3>1. Ready = {} /\ tasks = << >>
      BY <2>6 DEF GaveUp, NothingWaits, Ready
    <3> QED
      BY <1>1, <3>1
  <2> QED
    BY <2>1, <2>2, <2>3, <2>4, <2>5, <2>6 DEF Stage
<1> QED
  BY <1>1, <1>2

LEMMA ChannelEventInv ==
    ASSUME Fine, ChannelEvent
    PROVE  Fine'
BY DEF Fine, ChannelEvent, Handling, NoEvents, Stage, Unwanted, Queued, Watched,
   Retrying, Connected, GaveUp, ChannelGoes, NothingWaits, connector, user

\* The failure of an attempt leaves the channel to a task and one retry.
LEMMA FailedAttempt ==
    ASSUME Fine, Watched, phase = "events", active = {}, remove,
           retry(open, m_channel, timers),
           revents' \in {{}, {"out"}},
           UNCHANGED <<user, m_conn, batch, active, phase, sockets, gave_up,
                       m_tcp_conn, conn_open, failed>>
    PROVE  Fine'
<1> USE DEF Watched, remove, retry, user
<1>1. open' = {} /\ m_status' = "disconnected" /\ timers' = 1
  BY DEF Closed, StatusAfterFailure, Retries
<1>2. batch' = << >> /\ tasks' = <<"reset">>
  BY OneTask DEF NothingWaits
<1>3. m_channel' # 0
  BY DEF Fine
<1>4. ChannelGoes'
  BY <1>2, <1>3, OneTask DEF ChannelGoes, Waiting
<1>5. Retrying'
  BY <1>1, <1>4 DEF Retrying
<1> QED
  BY <1>5 DEF Fine, Stage, NothingWaits

LEMMA UnderWayMeansWatched ==
    ASSUME Fine, phase = "events", revents # {}
    PROVE  /\ active = {}
           /\ Watched \/ Retrying
           /\ UnderWay <=> Watched
BY DEF Fine, Stage, Unwanted, Queued, Watched, Retrying, Connected, GaveUp, NoEvents,
   UnderWay

LEMMA HandleErrorInv ==
    ASSUME Fine, HandleError
    PROVE  Fine'
<1> USE DEF HandleError, Handling
<1>1. /\ phase = "events" /\ "err" \in revents /\ active = {}
      /\ UNCHANGED <<user, m_conn, batch, active, phase>>
      /\ UnderWay /\ Watched
  BY UnderWayMeansWatched DEF Retrying
<1>2. revents' \in {{}, {"out"}}
  BY DEF Fine
<1> QED
  BY <1>1, <1>2, FailedAttempt

LEMMA HandleWriteInv ==
    ASSUME Fine, HandleWrite
    PROVE  Fine'
<1> USE DEF HandleWrite, Handling
<1>1. /\ phase = "events" /\ revents # {} /\ revents' = {} /\ active = {}
      /\ UNCHANGED <<user, m_conn, batch, active, phase>>
      /\ Watched \/ Retrying
      /\ UnderWay <=> Watched
  BY UnderWayMeansWatched
<1>2. CASE Retrying
  <2>1. UNCHANGED <<connector, tasks>>
    BY <1>1, <1>2 DEF Retrying, UnderWay
  <2>2. Retrying'
    BY <1>1, <1>2, <2>1 DEF Retrying, ChannelGoes, Waiting, NothingWaits, connector, user
  <2> QED
    BY <1>1, <2>1, <2>2 DEF Fine, Stage, connector
<1>3. CASE Watched /\ retry(open, m_channel, timers) /\ UNCHANGED <<m_tcp_conn, conn_open>>
  BY <1>1, <1>3, FailedAttempt
<1>4. CASE Watched /\ HandOver(m_channel)
  <2> USE DEF Watched
  <2>1. /\ m_tcp_conn' = m_channel /\ conn_open' = TRUE /\ open' = {m_channel}
        /\ m_status' = "connecting" /\ timers' = 0
    BY <1>4 DEF HandOver
  <2>2. /\ watched' = FALSE /\ m_channel' = m_channel /\ m_channel # 0
        /\ batch' = << >> /\ tasks' = <<"reset">>
        /\ UNCHANGED <<sockets, gave_up, failed>>
    BY <1>1, <1>4, OneTask DEF remove, NothingWaits, Fine
  <2>3. Connected'
    BY <1>1, <1>4, <2>1, <2>2 DEF Connected, ChannelGoes, Waiting, user
  <2> QED
    BY <1>1, <2>2, <2>3 DEF Fine, Stage
<1> QED
  BY <1>1, <1>2, <1>3, <1>4

LEMMA ConnectionClosesInv ==
    ASSUME Fine, ConnectionCloses
    PROVE  Fine'
<1> USE DEF ConnectionCloses, Handling
<1>1. Connected /\ phase = "events" /\ m_channel = 0 /\ NothingWaits
  BY DEF Fine, Stage, Unwanted, Queued, Watched, Retrying, Connected, GaveUp,
     ChannelGoes, NoEvents
<1>2. Connected'
  BY <1>1 DEF Connected, ChannelGoes, NothingWaits, user
<1> QED
  BY <1>1, <1>2 DEF Fine, Stage

LEMMA SwapInv ==
    ASSUME Fine, Swap
    PROVE  Fine'
<1> USE DEF Fine, Swap, Handling, connector, user
<1>1. /\ phase = "events" /\ phase' = "tasks" /\ active = {} /\ revents = {}
      /\ active' = {} /\ revents' = {}
      /\ batch = << >> /\ batch' = tasks /\ tasks' = << >>
  BY DEF NoEvents
<1>2. /\ NothingWaits => NothingWaits'
      /\ \A x : Waiting(x) => Waiting(x)'
      /\ ChannelGoes => ChannelGoes'
  BY <1>1 DEF NothingWaits, Waiting, ChannelGoes
<1>3. Stage'
  BY <1>1, <1>2 DEF Stage, Unwanted, Queued, Watched, Retrying, Connected, GaveUp,
     NoEvents
<1> QED
  BY <1>1, <1>3 DEF NoEvents

-----------------------------------------------------------------------------
(* Tasks and retries.                                                      *)

\* An attempt is begun when there is no channel: it ends as one of three stages.
LEMMA StartedInLoop ==
    ASSUME NEW waiting, waiting = 0, failed = {}, sockets \in Nat,
           m_status = "disconnected", mb_connect, m_channel = 0, ~watched, open = {},
           start_in_loop(waiting)
    PROVE  /\ failed' = {} /\ sockets' \in Nat
           /\ UNCHANGED <<m_tcp_conn, conn_open, tasks>>
           /\ \/ /\ m_status' = "connecting" /\ m_channel' \in 1 .. sockets'
                 /\ watched' = TRUE /\ timers' = 0 /\ open' = {m_channel'}
                 /\ UNCHANGED gave_up
              \/ /\ m_status' = "disconnected" /\ m_channel' = 0 /\ watched' = FALSE
                 /\ timers' = 1 /\ open' = {} /\ UNCHANGED gave_up
              \/ /\ m_channel' = 0 /\ watched' = FALSE
                 /\ timers' = 0 /\ open' = {} /\ gave_up' = TRUE
<1>1. connect(waiting)
  BY DEF start_in_loop
<1>2. CASE connecting(sockets + 1, waiting)
  BY <1>2 DEF connecting
<1>3. CASE /\ sockets' = sockets + 1
           /\ retry(open \union {sockets + 1}, sockets + 1, waiting)
           /\ UNCHANGED <<m_channel, watched, gave_up, m_tcp_conn, conn_open, failed,
                          tasks>>
  BY <1>3 DEF retry, Closed, StatusAfterFailure, Retries
<1>4. CASE /\ sockets' = sockets + 1
           /\ open' = Closed(open \union {sockets + 1}, sockets + 1)
           /\ gave_up' = TRUE
           /\ timers' = waiting
           /\ UNCHANGED <<m_status, m_channel, watched, failures, m_tcp_conn,
                          conn_open, failed, tasks>>
  BY <1>4 DEF Closed
<1> QED
  BY <1>1, <1>2, <1>3, <1>4 DEF connect

LEMMA AttemptBegins ==
    ASSUME Fine, Queued \/ Retrying, phase \in {"events", "tasks"},
           m_channel = 0, start_in_loop(0),
           UNCHANGED <<user, m_conn, phase, revents>>, revents = {},
           batch' = << >>, tasks = << >>, active' = {}
    PROVE  Fine'
<1>1. /\ failed = {} /\ sockets \in Nat /\ m_status = "disconnected" /\ mb_connect
      /\ ~watched /\ open = {} /\ connects = 1 /\ m_conn /\ m_tcp_conn = 0
      /\ ~conn_open /\ ~gave_up
  BY DEF Fine, Queued, Retrying
<1>2. /\ failed' = {} /\ sockets' \in Nat
      /\ UNCHANGED <<m_tcp_conn, conn_open, tasks>>
      /\ \/ /\ m_status' = "connecting" /\ m_channel' \in 1 .. sockets'
            /\ watched' = TRUE /\ timers' = 0 /\ open' = {m_channel'}
            /\ UNCHANGED gave_up
         \/ /\ m_status' = "disconnected" /\ m_channel' = 0 /\ watched' = FALSE
            /\ timers' = 1 /\ open' = {} /\ UNCHANGED gave_up
         \/ /\ m_channel' = 0 /\ watched' = FALSE
            /\ timers' = 0 /\ open' = {} /\ gave_up' = TRUE
  BY <1>1, StartedInLoop
<1>3. Watched' \/ Retrying' \/ GaveUp'
  BY <1>1, <1>2 DEF Watched, Retrying, GaveUp, NothingWaits, NoEvents, ChannelGoes, user
<1> QED
  BY <1>2, <1>3 DEF Fine, Stage, NoEvents

LEMMA RunTimerInv ==
    ASSUME Fine, RunTimer
    PROVE  Fine'
<1>1. /\ phase = "events" /\ revents = {} /\ "timer" \in active
      /\ UNCHANGED <<user, m_conn, batch, phase, revents>>
      /\ start_in_loop(timers - 1) /\ active' = active \ {"timer"}
  BY DEF RunTimer, Handling
<1>2. Retrying /\ m_channel = 0 /\ NothingWaits /\ active = {"timer"} /\ timers = 1
  BY <1>1 DEF Fine, Stage, Unwanted, Queued, Watched, Retrying, Connected, GaveUp,
     ChannelGoes, NoEvents
<1>3. timers - 1 = 0
  BY <1>2
<1> QED
  BY <1>1, <1>2, <1>3, AttemptBegins DEF NothingWaits

\* The task is the start of the attempt, or the end of the last one's channel.
LEMMA RunTaskInv ==
    ASSUME Fine, RunTask
    PROVE  Fine'
<1>1. /\ phase = "tasks" /\ batch # << >> /\ batch' = Tail(batch)
      /\ active = {} /\ revents = {}
      /\ UNCHANGED <<user, m_conn, active, phase, revents>>
  BY DEF Fine, RunTask, NoEvents
<1>2. CASE Queued
  <2>1. batch = <<"start">> /\ tasks = << >> /\ batch' = << >> /\ timers = 0
    BY <1>1, <1>2, OneTask DEF Queued, Waiting
  <2>2. m_channel = 0 /\ Alive
    BY <1>2 DEF Queued, Alive
  <2>3. start_in_loop(timers)
    BY <2>1, <2>2 DEF RunTask
  <2> QED
    BY <1>1, <1>2, <2>1, <2>2, <2>3, AttemptBegins
<1>3. CASE Retrying \/ Connected
  <2>1. batch = <<"reset">> /\ tasks = << >> /\ batch' = << >> /\ m_channel # 0
    BY <1>1, <1>3, OneTask DEF Retrying, Connected, ChannelGoes, NothingWaits, Waiting
  <2>2. Alive
    BY <1>3, <2>1 DEF Retrying, Connected, NothingWaits, Alive
  <2>3. reset
    BY <2>1, <2>2 DEF RunTask
  <2>4. ChannelGoes' /\ NothingWaits'
    BY <2>1, <2>3 DEF reset, ChannelGoes, NothingWaits
  <2>5. Retrying' \/ Connected'
    BY <1>1, <1>3, <2>3, <2>4 DEF reset, Retrying, Connected, user
  <2> QED
    BY <1>1, <2>3, <2>5 DEF Fine, Stage, reset, NoEvents
<1>4. Queued \/ Retrying \/ Connected
  BY <1>1 DEF Fine, Stage, Unwanted, Watched, GaveUp, NothingWaits
<1> QED
  BY <1>2, <1>3, <1>4

LEMMA EndRoundInv ==
    ASSUME Fine, EndRound
    PROVE  Fine'
<1> USE DEF EndRound, connector, user
<1>1. /\ NothingWaits => NothingWaits'
      /\ batch = << >> /\ phase = "tasks" /\ NoEvents
  BY DEF NothingWaits, Fine
<1>2. CASE Queued
  <2>1. Waiting("start")'
    BY <1>1, <1>2, OneTask DEF Queued, Waiting
  <2> QED
    BY <1>1, <1>2, <2>1 DEF Fine, Stage, Queued, NoEvents
<1>3. CASE Unwanted \/ Watched \/ Retrying \/ Connected \/ GaveUp
  <2>1. ChannelGoes /\ batch = << >> => ChannelGoes'
    BY <1>1, OneTask DEF ChannelGoes, Waiting, NothingWaits
  <2> QED
    BY <1>1, <1>3, <2>1 DEF Fine, Stage, Unwanted, Watched, Retrying, Connected,
       GaveUp, NoEvents
<1> QED
  BY <1>2, <1>3 DEF Fine, Stage

-----------------------------------------------------------------------------

LEMMA ConnectInv ==
    ASSUME MaxConnects = 1, Fine, Connect
    PROVE  Fine'
<1>1. Unwanted /\ connects' = 1 /\ mb_connect' = TRUE
  <2>1. connects < 1 /\ connects' = connects + 1 /\ mb_connect' = TRUE
    BY DEF Connect
  <2>2. \/ connects = 0 /\ Unwanted
        \/ connects = 1
    BY DEF Fine, Stage, Unwanted, Queued, Watched, Retrying, Connected, GaveUp
  <2> QED
    BY <2>1, <2>2
<1>2. batch' = << >> /\ tasks' = <<"start">> /\ UNCHANGED <<connector, round, m_conn>>
  BY <1>1, OneTask DEF Connect, Unwanted, NothingWaits, round
<1>3. Queued'
  BY <1>1, <1>2 DEF Unwanted, Queued, Waiting, NoEvents, connector, round
<1> QED
  BY <1>1, <1>2, <1>3 DEF Fine, Stage, NoEvents, connector, round, Unwanted

LEMMA StutterInv ==
    ASSUME Fine, UNCHANGED vars
    PROVE  Fine'
BY DEF Fine, vars, connector, round, user, NoEvents, Stage, Unwanted, Queued, Watched,
   Retrying, Connected, GaveUp, ChannelGoes, Waiting, NothingWaits

LEMMA NextInv ==
    ASSUME MaxConnects = 1
    PROVE  IInv /\ [Next]_vars => IInv'
<1> SUFFICES ASSUME IInv, [Next]_vars PROVE IInv'
  OBVIOUS
<1>1. CASE Stop
  <2>1. stops \in Nat /\ stops' = stops + 1
    BY <1>1 DEF Stop, IInv
  <2>2. stops' \in Nat /\ stops' # 0
    BY <2>1
  <2> QED
    BY <2>2 DEF IInv
<1>2. CASE UNCHANGED vars
  BY <1>2, StutterInv DEF IInv, vars, user
<1>3. CASE LoopStep \/ Connect
  <2>1. UNCHANGED stops
    BY <1>3 DEF LoopStep, Connect, Poll, ChannelEvent, HandleError, HandleWrite,
       RunTimer, ConnectionCloses, Swap, RunTask, EndRound, user
  <2>2. Fine => Fine'
    BY <1>3, PollInv, ChannelEventInv, HandleErrorInv, HandleWriteInv, RunTimerInv,
       ConnectionClosesInv, SwapInv, RunTaskInv, EndRoundInv, ConnectInv DEF LoopStep
  <2> QED
    BY <2>1, <2>2 DEF IInv
<1> QED
  BY <1>1, <1>2, <1>3 DEF Next

-----------------------------------------------------------------------------
(* What the stages say of descriptors and attempts.                        *)

LEMMA StagesOwn ==
    ASSUME Fine
    PROVE  open = {fd \in 1 .. sockets : \/ watched /\ fd = m_channel
                                         \/ fd = m_tcp_conn}
<1>1. CASE Watched
  BY <1>1 DEF Fine, Watched
<1>2. CASE Connected
  BY <1>2 DEF Fine, Connected
<1>3. CASE Unwanted \/ Queued \/ Retrying \/ GaveUp
  BY <1>3 DEF Fine, Unwanted, Queued, Retrying, GaveUp
<1> QED
  BY <1>1, <1>2, <1>3 DEF Fine, Stage

LEMMA Joined ==
    ASSUME NEW x
    PROVE  /\ << >> \o <<x>> = <<x>> /\ <<x>> \o << >> = <<x>>
           /\ << >> \o << >> = << >>
           /\ Len(<<x>>) = 1 /\ <<x>>[1] = x /\ 1 \in 1 .. Len(<<x>>)
           /\ \A i \in 1 .. Len(<<x>>) : <<x>>[i] = x
OBVIOUS

LEMMA StartsQueued ==
    ASSUME Fine, connects = 1
    PROVE  (\E i \in 1 .. Len(batch \o tasks) : (batch \o tasks)[i] = "start")
             <=> Queued
<1>1. CASE Queued
  <2>1. \/ batch = << >> /\ tasks = <<"start">>
        \/ batch = <<"start">> /\ tasks = << >>
    BY <1>1 DEF Queued, Waiting
  <2>2. batch \o tasks = <<"start">>
    BY <2>1, Joined
  <2> QED
    BY <1>1, <2>2, Joined
<1>2. CASE ~Queued
  <2>1. NothingWaits \/ Waiting("reset")
    BY <1>2 DEF Fine, Stage, Unwanted, Watched, Retrying, Connected, GaveUp, ChannelGoes
  <2>2. \/ batch = << >> /\ tasks = << >>
        \/ batch = << >> /\ tasks = <<"reset">>
        \/ batch = <<"reset">> /\ tasks = << >>
    BY <2>1 DEF NothingWaits, Waiting
  <2>3. batch \o tasks = << >> \/ batch \o tasks = <<"reset">>
    BY <2>2, Joined
  <2>4. \A i \in 1 .. Len(<< >>) : FALSE
    OBVIOUS
  <2>5. "reset" # "start"
    OBVIOUS
  <2>6. ~\E i \in 1 .. Len(batch \o tasks) : (batch \o tasks)[i] = "start"
    BY <2>3, <2>4, <2>5, Joined
  <2> QED
    BY <1>2, <2>6
<1> QED
  BY <1>1, <1>2

LEMMA StagesAttempt ==
    ASSUME Fine, connects = 1
    PROVE  timers <= 1 /\ \E x \in Attempts : Attempts = {x}
<1>1. Attempts =
        {x \in {"queued", "retry", "watched", "connected", "gave up"} :
           \/ x = "queued" /\ Queued
           \/ x = "retry" /\ timers > 0
           \/ x = "watched" /\ watched
           \/ x = "connected" /\ m_tcp_conn # 0
           \/ x = "gave up" /\ gave_up}
  BY StartsQueued DEF Attempts
<1>2. CASE Queued
  <2>1. timers <= 1 /\ ~(timers > 0) /\ ~watched /\ m_tcp_conn = 0 /\ ~gave_up
    BY <1>2 DEF Queued
  <2>2. Attempts = {"queued"}
    BY <1>1, <1>2, <2>1, Zenon
  <2> QED
    BY <2>1, <2>2, Zenon
<1>3. CASE Watched
  <2>1. timers <= 1 /\ ~(timers > 0) /\ watched /\ m_tcp_conn = 0 /\ ~gave_up /\ ~Queued
    BY <1>3 DEF Watched, Queued
  <2>2. Attempts = {"watched"}
    BY <1>1, <2>1, Zenon
  <2> QED
    BY <2>1, <2>2, Zenon
<1>4. CASE Retrying
  <2>1. timers <= 1 /\ timers > 0 /\ ~watched /\ m_tcp_conn = 0 /\ ~gave_up /\ ~Queued
    BY <1>4 DEF Retrying, Queued
  <2>2. Attempts = {"retry"}
    BY <1>1, <2>1, Zenon
  <2> QED
    BY <2>1, <2>2, Zenon
<1>5. CASE Connected
  <2>1. timers <= 1 /\ ~(timers > 0) /\ ~watched /\ m_tcp_conn # 0 /\ ~gave_up /\ ~Queued
    BY <1>5 DEF Fine, Connected, Queued
  <2>2. Attempts = {"connected"}
    BY <1>1, <2>1, Zenon
  <2> QED
    BY <2>1, <2>2, Zenon
<1>6. CASE GaveUp
  <2>1. timers <= 1 /\ ~(timers > 0) /\ ~watched /\ m_tcp_conn = 0 /\ gave_up /\ ~Queued
    BY <1>6 DEF GaveUp, Queued
  <2>2. Attempts = {"gave up"}
    BY <1>1, <2>1, Zenon
  <2> QED
    BY <2>1, <2>2, Zenon
<1>7. ~Unwanted
  BY DEF Unwanted
<1> QED
  BY <1>2, <1>3, <1>4, <1>5, <1>6, <1>7 DEF Fine, Stage

\* Connector.cc:62, 145, 241: after one connect() and up to stop(), no assert of
\* the connector fails, after any number of failures.
THEOREM AssertsHold ==
    ASSUME MaxConnects = 1
    PROVE  Spec => []NoAssertFails
<1>1. IInv => NoAssertFails
  BY DEF IInv, Fine, NoAssertFails
<1> QED
  BY <1>1, InitInv, NextInv, PTL DEF Spec

\* Connector.cc:159-161, 213-234: every descriptor is closed once, by whoever
\* has it, after any number of failures.
THEOREM DescriptorsOwned ==
    ASSUME MaxConnects = 1
    PROVE  Spec => []OpenIsOwned
<1>1. IInv => OpenIsOwned
  BY StagesOwn DEF IInv, OpenIsOwned
<1> QED
  BY <1>1, InitInv, NextInv, PTL DEF Spec

\* Connector.cc:164-173: each failure is followed by one attempt, not by none
\* and not by two.
THEOREM OneAttemptAtATime ==
    ASSUME MaxConnects = 1
    PROVE  Spec => []OneAttempt
<1>1. IInv => OneAttempt
  BY StagesAttempt DEF IInv, OneAttempt
<1> QED
  BY <1>1, InitInv, NextInv, PTL DEF Spec
=============================================================================
