-------------------------- MODULE TcpServer_proofs --------------------------
(***************************************************************************)
(* Proofs about TcpServer for any connections and any pool of loops: no    *)
(* assert fails, and whatever a loop thread works on exists.  What a loop  *)
(* thread is inside of and has still to do is read as one line, of which   *)
(* it takes the first and puts its own calls in front; the other loops add *)
(* at the end.  A close is one entry that moves through two such lines.    *)
(***************************************************************************)
EXTENDS TcpServer, SequenceTheorems, TLAPS

\* The uses under which the code keeps its promises: there is a pool, no
\* callback closes another connection, none stops reading where another sends, no
\* thread calls shutdown, and who calls force_close keeps his pointer until it ran.  Without
\* any one of these TLC finds a promise broken.
SafeUse ==
    /\ IoLoop # {}
    /\ "close_other" \notin InCallback
    /\ ~({"send", "stop_read"} \subseteq InCallback)
    /\ "shutdown" \notin Foreign
    /\ ~DropsEarly

\* What a loop thread has still to do, in its order: the calls it is inside of,
\* the rest of the batch, the queue.
line == [l \in Loop |-> calls[l] \o (batch[l] \o tasks[l])]

In(l, x) == \E n \in DOMAIN line[l] : line[l][n] = x

\* The calls of which a connection has at most one, wherever: how it is set up,
\* and the hand-overs of its close.
MyOp == {"connect_establised", "close_cb", "remove_conn", "connect_destroy",
         "channel_remove"}
Handler == {"handle_event", "handle_read", "handle_write", "handle_error"}
Open == {"connected", "disconnecting"}

Types ==
    /\ live \subseteq Conn /\ mc_connections \subseteq Conn
    /\ kept \subseteq Conn /\ registered \subseteq Conn
    /\ m_status \in [Conn -> {"none", "connecting", "connected",
                              "disconnecting", "disconnected"}]
    /\ events \in [Conn -> SUBSET {"read", "write"}]
    /\ loop \in [Conn -> ConnLoop]
    /\ tasks \in [Loop -> Seq(Call)]
    /\ batch \in [Loop -> Seq(Call)]
    /\ calls \in [Loop -> Seq(Call)]
    /\ spent \in [Loop -> SUBSET Conn]
    /\ active \in [Conn -> SUBSET {"IN", "OUT", "HUP", "ERR"}]
    /\ phase \in [Loop -> {"poll", "events", "tasks"}]
    /\ pending \in Call \union {NoCall}
    /\ peer \in [Conn -> {"open", "closed", "reset", "aborted"}]
    /\ listening \in BOOLEAN /\ deaf \subseteq Conn

\* The loop thread in which x runs.
Home(x) == IF x.op = "remove_conn" THEN Main ELSE loop[x.conn]

\* Every call is in the line of its thread; nobody queued a shutdown.
Placed == \A l \in Loop : \A n \in DOMAIN line[l] :
    line[l][n].op # "shutdown" /\ l = Home(line[l][n])

\* What an entry x says of its connection, whose status is s, and of the map.
Agrees(x, s, map) ==
    /\ x.op = "connect_establised" <=> s = "connecting"
    /\ s # "none"
    /\ x.op \in {"close_cb", "remove_conn"} => s = "disconnected" /\ x.conn \in map
    /\ x.op \in {"connect_destroy", "channel_remove"} =>
          s = "disconnected" /\ x.conn \notin map
    /\ x.op \in {"handle_close", "handle_read"} => s \in Open

\* Every call finds its connection in the state its asserts name.
Agreed == \A l \in Loop : \A n \in DOMAIN line[l] :
    Agrees(line[l][n], m_status[line[l][n].conn], mc_connections)

\* Setting up and closing are one entry in one line.
OneHandOver ==
    \A l, k \in Loop : \A n \in DOMAIN line[l], m \in DOMAIN line[k] :
        /\ line[l][n].op \in MyOp /\ line[k][m].op \in MyOp
        /\ line[l][n].conn = line[k][m].conn
        => l = k /\ n = m

\* handle_close is never behind another call; in front of handle_read there is
\* at most handle_error.
ClosesFirst == \A l \in Loop : \A n \in DOMAIN line[l] :
    /\ line[l][n].op \in {"handle_close", "handle_error"} => n = 1
    /\ line[l][n].op = "handle_read" =>
          n = 1 \/ (n = 2 /\ line[l][1].op = "handle_error")

\* The caller holds a shared_ptr until the call behind its own returns.
NextIsGuard(l, n) ==
    n + 1 \in DOMAIN line[l] /\ line[l][n + 1] = C("guard", line[l][n].conn)

\* A call on a raw this has that guard behind it, or its caller's pointer.
Guarded == \A l \in Loop : \A n \in DOMAIN line[l] :
    /\ line[l][n].op = "channel_remove" => NextIsGuard(l, n)
    /\ line[l][n].op = "force_close" =>
          \/ NextIsGuard(l, n)
          \/ "force_close" \in Foreign /\ line[l][n].conn \in kept

\* An event is handled to its end before connect_destroy gets its turn.
HandledFirst == \A l \in Loop : \A n \in DOMAIN line[l] :
    line[l][n].op \in Handler =>
        \/ line[l][n].conn \in mc_connections
        \/ \E m \in DOMAIN line[l] :
              m > n /\ line[l][m] = C("connect_destroy", line[l][n].conn)

\* The second half of the close of c is still to come, or the first.
Removing(c) == \E l \in Loop : In(l, C("connect_destroy", c)) \/ In(l, C("channel_remove", c))
Closing(c) == \E l \in Loop : In(l, C("close_cb", c)) \/ In(l, C("remove_conn", c))

\* How the status of c, the map, the poller and the hand-overs go together:
\* only an open connection watches, and never without reading; a closed one that
\* the map or the poller knows is on its way out.
Stage(c) ==
    /\ m_status[c] = "none" =>
          c \notin mc_connections /\ \A l \in Loop : c \notin spent[l]
    /\ m_status[c] \in {"none", "connecting"} => c \notin kept
    /\ m_status[c] \in {"connecting"} \union Open => c \in mc_connections
    /\ "send" \in InCallback /\ m_status[c] \in Open => "read" \in events[c]
    /\ "write" \in events[c] => "send" \in InCallback
    /\ events[c] # {} =>
          m_status[c] \in Open /\ c \in registered /\ "read" \in events[c]
    /\ c \in registered =>
          \/ m_status[c] \in Open
          \/ m_status[c] = "disconnected" /\ c \in mc_connections
          \/ Removing(c)
    /\ m_status[c] = "disconnected" /\ c \in mc_connections => Closing(c)

Stages == \A c \in Conn : Stage(c)

\* An event that waits to be handled is of an open connection the loop is not
\* inside of, and brings IN with HUP, as the connection reads.
Events == \A c \in Conn :
    active[c] # {} =>
        /\ m_status[c] \in Open
        /\ phase[loop[c]] = "events"
        /\ "HUP" \in active[c] => "IN" \in active[c]
        /\ \A l \in Loop : \A n \in DOMAIN calls[l] : calls[l][n].conn # c

\* The loop is inside of calls and batch only after its poll.
Rounds == \A l \in Loop :
    /\ phase[l] # "tasks" => batch[l] = << >>
    /\ phase[l] = "poll" => calls[l] = << >>

\* The calls that are queued.
TaskOp == {"connect_establised", "remove_conn", "connect_destroy", "force_close"}
Queues == \A l \in Loop : \A q \in {batch[l], tasks[l]} : \A n \in DOMAIN q :
    q[n].op \in TaskOp

\* Who is about to queue a call has his pointer.
Calling == pending # NoCall =>
    pending.op = "force_close" /\ pending.op \in Foreign /\ pending.conn \in kept

\* The inductive invariant: what moves, ...
Core ==
    /\ Types /\ Placed /\ Agreed /\ OneHandOver /\ ClosesFirst /\ Guarded
    /\ HandledFirst /\ Stages /\ Events /\ Rounds /\ Queues /\ Calling

\* ... and who is held: what is referenced exists, and no assert failed.
Alive ==
    /\ failed = {}
    /\ \A c \in Conn : Referenced(c) => c \in live
    /\ \A c \in live : m_status[c] # "none"

IInv == Core /\ Alive

-----------------------------------------------------------------------------
(* Lines.                                                                  *)

LEMMA SeqTypes ==
    ASSUME Types, NEW l \in Loop
    PROVE  /\ calls[l] \in Seq(Call) /\ batch[l] \in Seq(Call) /\ tasks[l] \in Seq(Call)
           /\ line[l] = calls[l] \o (batch[l] \o tasks[l])
           /\ line[l] \in Seq(Call)
<1>1. calls[l] \in Seq(Call) /\ batch[l] \in Seq(Call) /\ tasks[l] \in Seq(Call)
  BY DEF Types
<1>2. line[l] = calls[l] \o (batch[l] \o tasks[l])
  BY DEF line
<1> QED
  BY <1>1, <1>2

LEMMA Concat ==
    ASSUME NEW s \in Seq(Call), NEW t \in Seq(Call)
    PROVE  /\ s \o t \in Seq(Call)
           /\ Len(s \o t) = Len(s) + Len(t)
           /\ Len(s) \in Nat /\ Len(t) \in Nat
           /\ DOMAIN s = 1 .. Len(s) /\ DOMAIN t = 1 .. Len(t)
           /\ DOMAIN (s \o t) = 1 .. Len(s) + Len(t)
           /\ \A n \in 1 .. Len(s) : (s \o t)[n] = s[n]
           /\ \A n \in 1 .. Len(t) : (s \o t)[Len(s) + n] = t[n]
OBVIOUS

LEMMA FrontOf ==
    ASSUME NEW s \in Seq(Call), s # << >>, NEW t \in Seq(Call)
    PROVE  /\ Head(s) = (s \o t)[1] /\ 1 \in DOMAIN (s \o t)
           /\ s = <<Head(s)>> \o Tail(s)
           /\ Tail(s) \in Seq(Call) /\ Len(Tail(s)) = Len(s) - 1
           /\ \A n \in 1 .. Len(s) - 1 : Tail(s)[n] = s[n + 1]
<1>1. Len(s) \in Nat /\ Len(s) # 0
  OBVIOUS
<1>2. Head(s) = s[1] /\ 1 \in 1 .. Len(s)
  BY <1>1
<1>3. Tail(s) \in Seq(Call) /\ Len(Tail(s)) = Len(s) - 1
  BY <1>1
<1>4. \A n \in 1 .. Len(s) - 1 : Tail(s)[n] = s[n + 1]
  BY <1>1
<1>5. s = <<Head(s)>> \o Tail(s)
  BY <1>2, <1>3, <1>4
<1> QED
  BY <1>2, <1>3, <1>4, <1>5, Concat

LEMMA CallTypes ==
    /\ \A op \in SharedOp \union RawOp, c \in Conn :
          C(op, c) \in Call /\ C(op, c).op = op /\ C(op, c).conn = c
    /\ \A x \in Call : x.conn \in Conn /\ x.op \in SharedOp \union RawOp
                       /\ x = C(x.op, x.conn)
    /\ NoCall \notin Call
<1>1. \A op \in SharedOp \union RawOp, c \in Conn :
          C(op, c) \in Call /\ C(op, c).op = op /\ C(op, c).conn = c
  BY DEF Call, C
<1>2. \A x \in Call : x.conn \in Conn /\ x.op \in SharedOp \union RawOp
                      /\ x = C(x.op, x.conn)
  BY DEF Call, C
<1>3. "none" \notin SharedOp \union RawOp
  BY DEF SharedOp, RawOp
<1>4. NoCall \notin Call
  BY <1>2, <1>3 DEF NoCall
<1> QED
  BY <1>1, <1>2, <1>4

\* What a loop thread works on is the first entry of its line.
LEMMA TopFacts ==
    ASSUME Types, NEW l \in Loop, NEW op, Top(l, op)
    PROVE  /\ calls[l] \in Seq(Call) /\ calls[l] # << >>
           /\ Head(calls[l]) \in Call /\ Tail(calls[l]) \in Seq(Call)
           /\ TopConn(l) \in Conn /\ TopConn(l) \in live
           /\ Head(calls[l]) = C(op, TopConn(l))
           /\ op \in SharedOp \union RawOp
           /\ 1 \in DOMAIN line[l] /\ line[l][1] = C(op, TopConn(l))
           /\ failed = {}
<1>1. calls[l] # << >> /\ Head(calls[l]).op = op /\ Head(calls[l]).conn \in live
      /\ failed = {}
  BY DEF Top
<1>2. /\ calls[l] \in Seq(Call) /\ batch[l] \o tasks[l] \in Seq(Call)
      /\ line[l] = calls[l] \o (batch[l] \o tasks[l])
  BY SeqTypes, Concat
<1>3. Head(calls[l]) \in Call /\ Tail(calls[l]) \in Seq(Call)
  BY <1>1, <1>2
<1>4. Head(calls[l]) = C(op, TopConn(l)) /\ TopConn(l) \in Conn
      /\ op \in SharedOp \union RawOp
  BY <1>1, <1>3, CallTypes DEF TopConn
<1>5. 1 \in DOMAIN line[l] /\ line[l][1] = Head(calls[l])
  <2>1. \A s, t \in Seq(Call) : s # << >> => Head(s) = (s \o t)[1] /\ 1 \in DOMAIN (s \o t)
    BY FrontOf
  <2> QED
    BY <1>1, <1>2, <2>1
<1> QED
  BY <1>1, <1>2, <1>3, <1>4, <1>5 DEF TopConn

\* f changes at l only, to v.
Sets(f, g, l, v) == g[l] = v /\ \A k \in Loop : k # l => g[k] = f[k]

\* The shapes of a step: the loop thread l puts the calls `new' in the place of
\* its first entry, or in front of it; k gets a further task x; or both.
Puts(l, new) ==
    /\ \A k \in Loop : k # l => line'[k] = line[k]
    /\ line'[l] = new \o Tail(line[l])

Pushes(l, new) ==
    /\ \A k \in Loop : k # l => line'[k] = line[k]
    /\ line'[l] = new \o line[l]

Adds(l, x) ==
    /\ \A k \in Loop : k # l => line'[k] = line[k]
    /\ line'[l] = Append(line[l], x)

HandsOver(l, k, x) ==
    /\ l # k
    /\ \A j \in Loop : j # l /\ j # k => line'[j] = line[j]
    /\ line'[l] = Tail(line[l])
    /\ line'[k] = Append(line[k], x)

LEMMA Associates ==
    ASSUME NEW s \in Seq(Call), NEW t \in Seq(Call), NEW u \in Seq(Call)
    PROVE  (s \o t) \o u = s \o (t \o u)
BY ConcatAssociative

LEMMA PopConcat ==
    ASSUME NEW new \in Seq(Call), NEW s \in Seq(Call), s # << >>, NEW t \in Seq(Call)
    PROVE  /\ Tail(s \o t) = Tail(s) \o t
           /\ (new \o Tail(s)) \o t = new \o Tail(s \o t)
<1>1. Len(s) \in Nat /\ Len(s) # 0 /\ Tail(s) \in Seq(Call) /\ Len(Tail(s)) = Len(s) - 1
  BY FrontOf
<1>2. Tail(s \o t) \in Seq(Call) /\ Tail(s) \o t \in Seq(Call)
      /\ Len(Tail(s \o t)) = Len(s) + Len(t) - 1
      /\ Len(Tail(s) \o t) = Len(s) - 1 + Len(t)
  BY <1>1
<1>3. \A n \in 1 .. Len(s) + Len(t) - 1 : Tail(s \o t)[n] = (Tail(s) \o t)[n]
  BY <1>1
<1>4. Tail(s \o t) = Tail(s) \o t
  BY <1>2, <1>3, SeqEqual
<1>5. (new \o Tail(s)) \o t = new \o (Tail(s) \o t)
  <2>1. new \in Seq(Call) /\ Tail(s) \in Seq(Call) /\ t \in Seq(Call)
    BY <1>1
  <2> QED
    BY <2>1, Associates
<1> QED
  BY <1>4, <1>5

\* The steps seen on the lines: the first call becomes others,
LEMMA PutsLine ==
    ASSUME Types, Types', NEW l \in Loop, calls[l] # << >>, NEW new \in Seq(Call),
           calls' = [calls EXCEPT ![l] = new \o Tail(calls[l])],
           UNCHANGED <<tasks, batch>>
    PROVE  Puts(l, new)
<1>1. \A k \in Loop : line'[k] = calls'[k] \o (batch[k] \o tasks[k])
  BY DEF line
<1>2. \A k \in Loop : k # l => calls'[k] = calls[k]
  BY DEF Types
<1>3. calls'[l] = new \o Tail(calls[l])
  BY DEF Types
<1>4. calls[l] \in Seq(Call) /\ batch[l] \o tasks[l] \in Seq(Call)
      /\ line[l] = calls[l] \o (batch[l] \o tasks[l])
  BY SeqTypes, Concat
<1>5. (new \o Tail(calls[l])) \o (batch[l] \o tasks[l])
      = new \o Tail(calls[l] \o (batch[l] \o tasks[l]))
  BY <1>4, PopConcat
<1>6. line'[l] = new \o Tail(line[l])
  BY <1>1, <1>3, <1>4, <1>5
<1>7. \A k \in Loop : line[k] = calls[k] \o (batch[k] \o tasks[k])
  BY DEF line
<1>8. \A k \in Loop : k # l => line'[k] = line[k]
  BY <1>1, <1>2, <1>7
<1> QED
  BY <1>6, <1>8 DEF Puts

\* others come in front of all,
LEMMA PushesLine ==
    ASSUME Types, NEW l \in Loop, calls[l] = << >>, NEW new \in Seq(Call),
           calls' = [calls EXCEPT ![l] = new], UNCHANGED <<tasks, batch>>
    PROVE  Pushes(l, new)
<1>1. \A k \in Loop : /\ line'[k] = calls'[k] \o (batch[k] \o tasks[k])
                      /\ line[k] = calls[k] \o (batch[k] \o tasks[k])
  BY DEF line
<1>2. \A k \in Loop : k # l => calls'[k] = calls[k]
  BY DEF Types
<1>3. calls'[l] = new
  BY DEF Types
<1>4. batch[l] \o tasks[l] \in Seq(Call)
  BY SeqTypes, Concat
<1>5. << >> \o (batch[l] \o tasks[l]) = batch[l] \o tasks[l]
  BY <1>4
<1>6. line[l] = batch[l] \o tasks[l]
  BY <1>1, <1>5
<1>7. line'[l] = new \o line[l]
  BY <1>1, <1>3, <1>6
<1>8. \A k \in Loop : k # l => line'[k] = line[k]
  BY <1>1, <1>2
<1> QED
  BY <1>7, <1>8 DEF Pushes

LEMMA AppendConcat ==
    ASSUME NEW s \in Seq(Call), NEW t \in Seq(Call), NEW u \in Seq(Call), NEW x \in Call
    PROVE  s \o (t \o Append(u, x)) = Append(s \o (t \o u), x)
<1>1. t \o Append(u, x) = Append(t \o u, x)
  OBVIOUS
<1>2. t \o u \in Seq(Call)
  OBVIOUS
<1>3. s \o Append(t \o u, x) = Append(s \o (t \o u), x)
  BY <1>2
<1> QED
  BY <1>1, <1>3

\* one comes at the end,
LEMMA AddsLine ==
    ASSUME Types, NEW l \in Loop, NEW x \in Call,
           tasks' = [tasks EXCEPT ![l] = Append(tasks[l], x)], UNCHANGED <<calls, batch>>
    PROVE  Adds(l, x)
<1>1. \A k \in Loop : /\ line'[k] = calls[k] \o (batch[k] \o tasks'[k])
                      /\ line[k] = calls[k] \o (batch[k] \o tasks[k])
  BY DEF line
<1>2. \A k \in Loop : k # l => tasks'[k] = tasks[k]
  BY DEF Types
<1>3. tasks'[l] = Append(tasks[l], x)
  BY DEF Types
<1>4. calls[l] \in Seq(Call) /\ batch[l] \in Seq(Call) /\ tasks[l] \in Seq(Call)
  BY SeqTypes
<1>5. calls[l] \o (batch[l] \o Append(tasks[l], x))
      = Append(calls[l] \o (batch[l] \o tasks[l]), x)
  <2>1. \A s, t, u \in Seq(Call) : s \o (t \o Append(u, x)) = Append(s \o (t \o u), x)
    BY AppendConcat
  <2> QED
    BY <1>4, <2>1
<1>6. line'[l] = Append(line[l], x)
  BY <1>1, <1>3, <1>5
<1>7. \A k \in Loop : k # l => line'[k] = line[k]
  BY <1>1, <1>2
<1> QED
  BY <1>6, <1>7 DEF Adds

\* the first of one line becomes the last of another,
LEMMA HandsOverLine ==
    ASSUME Types, NEW l \in Loop, NEW k \in Loop, l # k, NEW x \in Call, calls[l] # << >>,
           Sets(calls, calls', l, Tail(calls[l])),
           Sets(tasks, tasks', k, Append(tasks[k], x)), UNCHANGED batch
    PROVE  HandsOver(l, k, x)
<1>1. \A j \in Loop : /\ line'[j] = calls'[j] \o (batch[j] \o tasks'[j])
                      /\ line[j] = calls[j] \o (batch[j] \o tasks[j])
  BY DEF line
<1>2. \A j \in Loop : /\ j # l => calls'[j] = calls[j]
                      /\ j # k => tasks'[j] = tasks[j]
  BY DEF Sets
<1>3. tasks'[k] = Append(tasks[k], x) /\ calls'[l] = Tail(calls[l])
  BY DEF Sets
<1>4. calls[k] \in Seq(Call) /\ batch[k] \in Seq(Call) /\ tasks[k] \in Seq(Call)
  BY SeqTypes
<1>5. calls[k] \o (batch[k] \o Append(tasks[k], x))
      = Append(calls[k] \o (batch[k] \o tasks[k]), x)
  <2>1. \A s, t, u \in Seq(Call) : s \o (t \o Append(u, x)) = Append(s \o (t \o u), x)
    BY AppendConcat
  <2> QED
    BY <1>4, <2>1
<1>6. line'[k] = Append(line[k], x)
  BY <1>1, <1>2, <1>3, <1>5
<1>7. calls[l] \in Seq(Call) /\ batch[l] \in Seq(Call) /\ tasks[l] \in Seq(Call)
  BY SeqTypes
<1>8. batch[l] \o tasks[l] \in Seq(Call) /\ << >> \in Seq(Call)
  BY <1>7
<1>9. Tail(calls[l] \o (batch[l] \o tasks[l])) = Tail(calls[l]) \o (batch[l] \o tasks[l])
  <2>1. \A s, t \in Seq(Call) : s # << >> => Tail(s \o t) = Tail(s) \o t
    <3>1. << >> \in Seq(Call)
      OBVIOUS
    <3> QED
      BY <3>1, PopConcat
  <2> QED
    BY <1>7, <1>8, <2>1
<1>10. line'[l] = Tail(line[l])
  BY <1>1, <1>2, <1>3, <1>9
<1>11. \A j \in Loop : j # l /\ j # k => line'[j] = line[j]
  BY <1>1, <1>2
<1> QED
  BY <1>6, <1>10, <1>11 DEF HandsOver

\* the head of the batch becomes a call, which moves nothing,
LEMMA RunTaskLine ==
    ASSUME Types, NEW l \in Loop, calls[l] = << >>, batch[l] # << >>,
           Sets(calls, calls', l, <<Head(batch[l])>>),
           Sets(batch, batch', l, Tail(batch[l])), UNCHANGED tasks
    PROVE  /\ \A k \in Loop : line'[k] = line[k]
           /\ Head(batch[l]) \in Call /\ Head(batch[l]) = line[l][1]
           /\ 1 \in DOMAIN line[l]
<1>1. \A k \in Loop : /\ line'[k] = calls'[k] \o (batch'[k] \o tasks[k])
                      /\ line[k] = calls[k] \o (batch[k] \o tasks[k])
  BY DEF line
<1>2. \A k \in Loop : k # l => calls'[k] = calls[k] /\ batch'[k] = batch[k]
  BY DEF Sets
<1>3. calls'[l] = <<Head(batch[l])>> /\ batch'[l] = Tail(batch[l])
  BY DEF Sets
<1>4. batch[l] \in Seq(Call) /\ tasks[l] \in Seq(Call)
  BY SeqTypes
<1>5. batch[l] \o tasks[l] \in Seq(Call) /\ Head(batch[l]) \in Call
  BY <1>4
<1>6. << >> \o (batch[l] \o tasks[l]) = batch[l] \o tasks[l]
  BY <1>5
<1>7. /\ batch[l] = <<Head(batch[l])>> \o Tail(batch[l]) /\ Tail(batch[l]) \in Seq(Call)
      /\ Head(batch[l]) = (batch[l] \o tasks[l])[1]
      /\ 1 \in DOMAIN (batch[l] \o tasks[l])
  BY <1>4, FrontOf
<1>8. <<Head(batch[l])>> \in Seq(Call)
  BY <1>5
<1>9. batch[l] \o tasks[l] = <<Head(batch[l])>> \o (Tail(batch[l]) \o tasks[l])
  <2>1. (<<Head(batch[l])>> \o Tail(batch[l])) \o tasks[l]
        = <<Head(batch[l])>> \o (Tail(batch[l]) \o tasks[l])
    BY <1>4, <1>7, <1>8, Associates
  <2> QED
    BY <1>7, <2>1
<1>10. line[l] = batch[l] \o tasks[l] /\ line'[l] = line[l]
  BY <1>1, <1>3, <1>6, <1>9
<1>11. \A k \in Loop : k # l => line'[k] = line[k]
  BY <1>1, <1>2
<1> QED
  BY <1>5, <1>7, <1>10, <1>11

\* and neither does the swap.
LEMMA SwapLine ==
    ASSUME Types, NEW l \in Loop, batch[l] = << >>,
           Sets(batch, batch', l, tasks[l]), Sets(tasks, tasks', l, << >>), UNCHANGED calls
    PROVE  \A k \in Loop : line'[k] = line[k]
<1>1. \A k \in Loop : /\ line'[k] = calls[k] \o (batch'[k] \o tasks'[k])
                      /\ line[k] = calls[k] \o (batch[k] \o tasks[k])
  BY DEF line
<1>2. \A k \in Loop : k # l => tasks'[k] = tasks[k] /\ batch'[k] = batch[k]
  BY DEF Sets
<1>3. batch'[l] = tasks[l] /\ tasks'[l] = << >>
  BY DEF Sets
<1>4. tasks[l] \in Seq(Call)
  BY SeqTypes
<1>5. << >> \o tasks[l] = tasks[l] /\ tasks[l] \o << >> = tasks[l]
  BY <1>4
<1>6. line'[l] = line[l]
  BY <1>1, <1>3, <1>5
<1>7. \A k \in Loop : k # l => line'[k] = line[k]
  BY <1>1, <1>2
<1> QED
  BY <1>6, <1>7

-----------------------------------------------------------------------------
(* Types.                                                                  *)

LEMMA LoopFacts ==
    /\ Main \in Loop /\ ConnLoop \subseteq Loop
    /\ \A c \in Conn : loop \in [Conn -> ConnLoop] => loop[c] \in Loop
BY DEF Loop, ConnLoop

LEMMA TypesInit == Init => Types
<1> SUFFICES ASSUME Init PROVE Types
  OBVIOUS
<1>1. << >> \in Seq(Call)
  OBVIOUS
<1>2. \A l \in Loop : tasks[l] \in Seq(Call) /\ batch[l] \in Seq(Call) /\ calls[l] \in Seq(Call)
  BY DEF Init
<1> QED
  BY <1>1, <1>2 DEF Init, Types

LEMMA AddTaskTypes ==
    ASSUME Types, NEW t \in Loop, NEW l \in Loop, NEW x \in Call, NEW s \in Seq(Call),
           AddTask(t, l, x, s)
    PROVE  calls' \in [Loop -> Seq(Call)] /\ tasks' \in [Loop -> Seq(Call)]
<1>1. tasks[l] \in Seq(Call)
  BY SeqTypes
<1>2. <<x>> \o s \in Seq(Call) /\ Append(tasks[l], x) \in Seq(Call)
  BY <1>1
<1>3. calls \in [Loop -> Seq(Call)] /\ tasks \in [Loop -> Seq(Call)]
  BY DEF Types
<1>4. CASE t = l
  BY <1>2, <1>3, <1>4 DEF AddTask
<1>5. CASE t # l
  BY <1>2, <1>3, <1>5 DEF AddTask
<1> QED
  BY <1>4, <1>5

\* Steps of the loop thread l that change only its own calls, to s.
LEMMA OwnCallsTypes ==
    ASSUME Types, NEW l \in Loop, NEW s \in Seq(Call), calls' = [calls EXCEPT ![l] = s]
    PROVE  calls' \in [Loop -> Seq(Call)]
BY DEF Types

LEMMA SetEventsTypes ==
    ASSUME Types, NEW c \in Conn, NEW E \in SUBSET {"read", "write"}, SetEvents(c, E)
    PROVE  events' \in [Conn -> SUBSET {"read", "write"}] /\ deaf' \subseteq Conn
BY DEF SetEvents, Types

LEMMA TypesTop ==
    ASSUME Types, NEW l \in Loop, NEW op, Top(l, op)
    PROVE  /\ \A a \in Call : <<a>> \o Tail(calls[l]) \in Seq(Call)
           /\ \A a, b \in Call : <<a, b>> \o Tail(calls[l]) \in Seq(Call)
           /\ \A a, b, c \in Call : <<a, b, c>> \o Tail(calls[l]) \in Seq(Call)
           /\ << >> \o Tail(calls[l]) \in Seq(Call)
           /\ << >> \o Tail(calls[l]) = Tail(calls[l])
           /\ calls[l] \in Seq(Call) /\ Tail(calls[l]) \in Seq(Call)
BY TopFacts

LEMMA TypesServer ==
    ASSUME Types, Start \/ (\E c \in Conn : NewConn(c))
                  \/ (\E l \in Loop : CloseCb(l) \/ RemoveConn(l))
    PROVE  Types'
<1>1. CASE Start
  BY <1>1 DEF Start, Listen, Types, channels
<1>2. ASSUME NEW c \in Conn, NewConn(c) PROVE Types'
  <2>1. calls[Main] \in Seq(Call) /\ C("connect_establised", c) \in Call
    BY LoopFacts, SeqTypes, CallTypes DEF SharedOp
  <2>2. calls' \in [Loop -> Seq(Call)] /\ tasks' \in [Loop -> Seq(Call)]
    BY <1>2, <2>1, LoopFacts, AddTaskTypes DEF NewConn, Types
  <2> QED
    BY <1>2, <2>2 DEF NewConn, Types, channels, outside
<1>3. ASSUME NEW l \in Loop, CloseCb(l) PROVE Types'
  <2>1. Top(l, "close_cb") /\ AddTask(l, Main, C("remove_conn", TopConn(l)), Tail(calls[l]))
    BY <1>3 DEF CloseCb, ServerLoop
  <2>2. Tail(calls[l]) \in Seq(Call) /\ C("remove_conn", TopConn(l)) \in Call
    BY <2>1, TopFacts, CallTypes DEF SharedOp
  <2>3. calls' \in [Loop -> Seq(Call)] /\ tasks' \in [Loop -> Seq(Call)]
    BY <2>1, <2>2, LoopFacts, AddTaskTypes
  <2> QED
    BY <1>3, <2>3 DEF CloseCb, Types, channels, outside, Finish, FinishAsserting
<1>4. ASSUME NEW l \in Loop, RemoveConn(l) PROVE Types'
  <2>1. Top(l, "remove_conn") /\ AddTask(l, loop[TopConn(l)],
                                   C("connect_destroy", TopConn(l)), Tail(calls[l]))
    BY <1>4 DEF RemoveConn, DestroyLater
  <2>2. Tail(calls[l]) \in Seq(Call) /\ C("connect_destroy", TopConn(l)) \in Call
        /\ TopConn(l) \in Conn
    BY <2>1, TopFacts, CallTypes DEF SharedOp
  <2>3. calls' \in [Loop -> Seq(Call)] /\ tasks' \in [Loop -> Seq(Call)]
    BY <2>1, <2>2, LoopFacts, AddTaskTypes DEF Types
  <2> QED
    BY <1>4, <2>3 DEF RemoveConn, Types, channels, outside, FinishAsserting
<1> QED
  BY <1>1, <1>2, <1>3, <1>4

LEMMA EventCallsType ==
    ASSUME NEW c \in Conn, NEW R
    PROVE  EventCalls(c, R) \in Seq(Call)
<1> DEFINE a == IF "HUP" \in R /\ "IN" \notin R THEN <<C("handle_close", c)>> ELSE << >>
           b == IF "ERR" \in R THEN <<C("handle_error", c)>> ELSE << >>
           d == IF R \intersect {"IN", "HUP"} # {} THEN <<C("handle_read", c)>> ELSE << >>
           e == IF "OUT" \in R THEN <<C("handle_write", c)>> ELSE << >>
<1>1. \A op \in RawOp : C(op, c) \in Call
  BY CallTypes
<1>2. a \in Seq(Call) /\ b \in Seq(Call) /\ d \in Seq(Call) /\ e \in Seq(Call)
  BY <1>1 DEF RawOp
<1>3. EventCalls(c, R) = a \o b \o d \o e
  BY DEF EventCalls
<1> HIDE DEF a, b, d, e
<1>4. a \o b \in Seq(Call)
  BY <1>2, Concat
<1>5. a \o b \o d \in Seq(Call)
  BY <1>2, <1>4, Concat
<1>6. a \o b \o d \o e \in Seq(Call)
  BY <1>2, <1>5, Concat
<1> QED
  BY <1>3, <1>6

LEMMA TypesLoop ==
    ASSUME Types, NEW l \in Loop,
           Poll(l) \/ HandleEvent(l) \/ Swap(l) \/ RunTask(l) \/ EndBatch(l)
    PROVE  Types'
<1> USE DEF channels, outside
<1>0. calls[l] \in Seq(Call) /\ batch[l] \in Seq(Call) /\ tasks[l] \in Seq(Call)
  BY SeqTypes
<1>1. CASE Poll(l)
  <2>1. \A c \in Conn : Due(c) \subseteq {"IN", "OUT", "HUP", "ERR"}
    BY DEF Due
  <2>2. active' \in [Conn -> SUBSET {"IN", "OUT", "HUP", "ERR"}]
    <3> DEFINE heard == {c \in registered \ deaf : loop[c] = l /\ events[c] # {}}
    <3>1. PICK more \in [heard -> SUBSET {"IN", "OUT"}] :
            active' = [c \in Conn |-> IF c \in heard THEN Due(c) \union more[c]
                                      ELSE active[c]]
      BY <1>1 DEF Poll
    <3>2. ASSUME NEW c \in Conn
          PROVE  (IF c \in heard THEN Due(c) \union more[c] ELSE active[c])
                    \in SUBSET {"IN", "OUT", "HUP", "ERR"}
      BY <3>1, <2>1 DEF Types
    <3> QED
      BY <3>1, <3>2
  <2> QED
    BY <1>1, <2>2 DEF Poll, Types
<1>2. CASE HandleEvent(l)
  <2>1. PICK c \in live :
          /\ active' = [active EXCEPT ![c] = {}]
          /\ calls' = [calls EXCEPT ![l] = EventCalls(c, active[c]) \o <<C("handle_event", c)>>]
    BY <1>2 DEF HandleEvent
  <2>2. c \in Conn
    BY DEF Types
  <2>3. EventCalls(c, active[c]) \in Seq(Call)
    BY <2>2, EventCallsType
  <2>4. EventCalls(c, active[c]) \o <<C("handle_event", c)>> \in Seq(Call)
    <3>1. C("handle_event", c) \in Call
      BY <2>2, CallTypes DEF RawOp
    <3>2. <<C("handle_event", c)>> \in Seq(Call)
      BY <3>1
    <3> QED
      BY <2>3, <3>2, Concat
  <2>5. calls' \in [Loop -> Seq(Call)]
    BY <2>1, <2>4 DEF Types
  <2> QED
    BY <1>2, <2>1, <2>2, <2>5 DEF HandleEvent, Types
<1>3. CASE Swap(l)
  BY <1>0, <1>3 DEF Swap, Types
<1>4. CASE RunTask(l)
  <2>1. Head(batch[l]) \in Call /\ Tail(batch[l]) \in Seq(Call)
    BY <1>0, <1>4 DEF RunTask
  <2>2. Head(batch[l]).conn \in Conn /\ <<Head(batch[l])>> \in Seq(Call)
    BY <2>1, CallTypes
  <2> QED
    BY <1>4, <2>1, <2>2 DEF RunTask, Types
<1>5. CASE EndBatch(l)
  BY <1>5 DEF EndBatch, Types, Finish, FinishAsserting
<1> QED
  BY <1>1, <1>2, <1>3, <1>4, <1>5

LEMMA TypesUser ==
    ASSUME Types,
           UserChecks \/ UserActs \/ (\E c \in Conn : UserDrops(c) \/ PeerCloses(c))
    PROVE  Types'
<1> USE DEF channels, outside
<1>1. CASE UserChecks
  <2>1. \A op \in Foreign, c \in Conn : C(op, c) \in Call
    BY CallTypes, ConstantsAssumption DEF RawOp
  <2> QED
    BY <1>1, <2>1 DEF UserChecks, Types
<1>2. CASE UserActs
  <2>1. pending \in Call /\ pending.conn \in Conn
    BY <1>2, CallTypes DEF UserActs, Types
  <2>2. loop[pending.conn] \in Loop
    BY <2>1, LoopFacts DEF Types
  <2>3. Append(tasks[loop[pending.conn]], pending) \in Seq(Call)
    <3>1. tasks[loop[pending.conn]] \in Seq(Call)
      BY <2>2, SeqTypes
    <3> QED
      BY <2>1, <3>1
  <2>4. tasks' \in [Loop -> Seq(Call)]
    BY <1>2, <2>2, <2>3 DEF UserActs, Types
  <2>5. m_status' \in [Conn -> {"none", "connecting", "connected",
                              "disconnecting", "disconnected"}]
    BY <1>2, <2>1 DEF UserActs, Types
  <2> QED
    BY <1>2, <2>4, <2>5 DEF UserActs, Types
<1>3. ASSUME NEW c \in Conn, UserDrops(c) PROVE Types'
  BY <1>3 DEF UserDrops, Types, Finish, FinishAsserting
<1>4. ASSUME NEW c \in Conn, PeerCloses(c) PROVE Types'
  <2>1. peer' \in [Conn -> {"open", "closed", "reset", "aborted"}]
    BY <1>4 DEF PeerCloses, Types
  <2> QED
    BY <1>4, <2>1 DEF PeerCloses, Types, channels
<1> QED
  BY <1>1, <1>2, <1>3, <1>4

\* The steps that leave the lines of the other loops and the map alone.
ConnStep(l) ==
    \/ ConnectEstablised(l) \/ HandleClose(l) \/ HandleRead(l) \/ HandleError(l)
    \/ HandleWrite(l) \/ CallbackAsks(l) \/ Return(l) \/ ConnectDestroy(l)
    \/ ChannelRemove(l) \/ ForceClose(l) \/ CallbackReturns(l)
    \/ CallbackShutsDown(l) \/ CallbackCloses(l)

LEMMA TypesConn ==
    ASSUME Types, NEW l \in Loop, ConnStep(l)
    PROVE  Types'
<1> DEFINE c == TopConn(l)
<1> USE DEF channels, outside, Finish, FinishAsserting
<1>1. \A op \in SharedOp \union RawOp, d \in Conn : C(op, d) \in Call
  BY CallTypes
<1>2. CASE ConnectEstablised(l)
  <2>1. Top(l, "connect_establised")
    BY <1>2 DEF ConnectEstablised
  <2>2. c \in Conn /\ <<C("callback", c)>> \o Tail(calls[l]) \in Seq(Call)
    BY <1>1, <2>1, TopFacts, TypesTop DEF SharedOp
  <2>3. events[c] \union {"read"} \in SUBSET {"read", "write"}
    BY <2>2 DEF Types
  <2>4. SetEvents(c, events[c] \union {"read"})
    BY <1>2 DEF ConnectEstablised
  <2> QED
    BY <1>2, <2>2, <2>3, <2>4, SetEventsTypes DEF ConnectEstablised, Types
<1>3. CASE HandleClose(l)
  <2>1. Top(l, "handle_close")
    BY <1>3 DEF HandleClose
  <2>2. c \in Conn /\ ClosingCalls(c) \o Tail(calls[l]) \in Seq(Call)
    BY <1>1, <2>1, TopFacts, TypesTop DEF SharedOp, ClosingCalls
  <2>3. SetEvents(c, {})
    BY <1>3 DEF HandleClose, DisableAll
  <2> QED
    BY <1>3, <2>2, <2>3, SetEventsTypes DEF HandleClose, Types
<1>4. CASE HandleRead(l)
  <2>1. Top(l, "handle_read")
    BY <1>4 DEF HandleRead
  <2>2. /\ c \in Conn
        /\ \A op \in {<<C("callback", c)>>, << >>, <<C("handle_close", c)>>} :
              op \o Tail(calls[l]) \in Seq(Call)
    BY <1>1, <2>1, TopFacts, TypesTop DEF SharedOp, RawOp
  <2>3. PICK op \in {<<C("callback", c)>>, << >>, <<C("handle_close", c)>>} :
          calls' = [calls EXCEPT ![l] = op \o Tail(calls[l])]
    BY <1>4 DEF HandleRead
  <2>4. op \o Tail(calls[l]) \in Seq(Call)
    BY <2>2
  <2>5. calls' \in [Loop -> Seq(Call)]
    BY <2>3, <2>4, OwnCallsTypes
  <2> QED
    BY <1>4, <2>2, <2>5 DEF HandleRead, Types
<1>5. CASE HandleError(l)
  <2>1. Top(l, "handle_error")
    BY <1>5 DEF HandleError
  <2>2. c \in Conn /\ Tail(calls[l]) \in Seq(Call)
    BY <2>1, TopFacts
  <2>3. calls' \in [Loop -> Seq(Call)]
    BY <1>5, <2>2 DEF HandleError, Types
  <2>4. peer' \in [Conn -> {"open", "closed", "reset", "aborted"}]
    BY <1>5, <2>2 DEF HandleError, Types
  <2> QED
    BY <1>5, <2>3, <2>4 DEF HandleError, Types
<1>6. CASE HandleWrite(l)
  <2>1. Top(l, "handle_write")
    BY <1>6 DEF HandleWrite
  <2>2. c \in Conn /\ Tail(calls[l]) \in Seq(Call)
    BY <2>1, TopFacts
  <2>3. events' \in [Conn -> SUBSET {"read", "write"}] /\ deaf' \subseteq Conn
    <3>1. CASE SetEvents(c, events[c] \ {"write"})
      BY <2>2, <3>1, SetEventsTypes DEF Types
    <3>2. CASE UNCHANGED <<events, deaf>>
      BY <3>2 DEF Types
    <3> QED
      BY <1>6, <3>1, <3>2 DEF HandleWrite
  <2> QED
    BY <1>6, <2>2, <2>3 DEF HandleWrite, Types
<1>7. CASE CallbackAsks(l)
  <2>1. Top(l, "callback")
    BY <1>7 DEF CallbackAsks
  <2>2. c \in Conn /\ Tail(calls[l]) \in Seq(Call)
    BY <2>1, TopFacts
  <2>3. PICK E \in SUBSET {"read", "write"} : SetEvents(c, E)
    <3>1. \A E \in {events[c] \union {"write"}, events[c] \ {"read"}} :
            E \in SUBSET {"read", "write"}
      BY <2>2 DEF Types
    <3>2. \E E \in {events[c] \union {"write"}, events[c] \ {"read"}} : SetEvents(c, E)
      BY <1>7 DEF CallbackAsks
    <3> QED
      BY <3>1, <3>2
  <2> QED
    BY <1>7, <2>2, <2>3, SetEventsTypes DEF CallbackAsks, Types
<1>8. CASE Return(l)
  <2>1. \E op : Top(l, op)
    BY <1>8 DEF Return
  <2> QED
    BY <1>8, <2>1, TopFacts DEF Return, Types
<1>9. CASE ConnectDestroy(l)
  <2>1. Top(l, "connect_destroy")
    BY <1>9 DEF ConnectDestroy
  <2> DEFINE rest == <<C("channel_remove", c), C("guard", c)>> \o Tail(calls[l])
  <2>2. c \in Conn /\ rest \in Seq(Call) /\ C("callback", c) \in Call
    BY <1>1, <2>1, TopFacts, TypesTop DEF SharedOp, RawOp
  <2>3. <<C("callback", c)>> \o rest \in Seq(Call)
    BY <2>2
  <2>4. calls' \in [Loop -> Seq(Call)]
    <3>1. \E s \in {rest, <<C("callback", c)>> \o rest} : calls' = [calls EXCEPT ![l] = s]
      BY <1>9 DEF ConnectDestroy
    <3> QED
      BY <2>2, <2>3, <3>1, OwnCallsTypes
  <2>5. SetEvents(c, {}) \/ UNCHANGED <<events, deaf>>
    BY <1>9 DEF ConnectDestroy, DisableAll
  <2>6. events' \in [Conn -> SUBSET {"read", "write"}] /\ deaf' \subseteq Conn
    BY <2>2, <2>5, SetEventsTypes DEF Types
  <2>7. m_status' \in [Conn -> {"none", "connecting", "connected",
                              "disconnecting", "disconnected"}]
    <3>1. m_status' = [m_status EXCEPT ![c] = "disconnected"] \/ m_status' = m_status
      BY <1>9 DEF ConnectDestroy
    <3> QED
      BY <3>1 DEF Types
  <2> QED
    BY <1>9, <2>4, <2>6, <2>7 DEF ConnectDestroy, Types
<1>10. CASE ChannelRemove(l)
  <2>1. Top(l, "channel_remove")
    BY <1>10 DEF ChannelRemove
  <2> QED
    BY <1>10, <2>1, TopFacts DEF ChannelRemove, Types
<1>11. CASE ForceClose(l)
  <2>1. Top(l, "force_close")
    BY <1>11 DEF ForceClose
  <2>2. <<C("handle_close", c)>> \o Tail(calls[l]) \in Seq(Call) /\ Tail(calls[l]) \in Seq(Call)
    BY <1>1, <2>1, TopFacts, TypesTop DEF RawOp
  <2>3. \E s \in {<<C("handle_close", c)>> \o Tail(calls[l]), Tail(calls[l])} :
           calls' = [calls EXCEPT ![l] = s]
    BY <1>11 DEF ForceClose
  <2>4. calls' \in [Loop -> Seq(Call)]
    BY <2>2, <2>3, OwnCallsTypes
  <2> QED
    BY <1>11, <2>4 DEF ForceClose, Types
<1>12. CASE CallbackReturns(l)
  <2>1. Top(l, "callback")
    BY <1>12 DEF CallbackReturns
  <2>2. c \in Conn /\ Tail(calls[l]) \in Seq(Call)
    BY <2>1, TopFacts
  <2> QED
    BY <1>12, <2>2 DEF CallbackReturns, Types
<1>13. CASE CallbackShutsDown(l)
  <2>1. Top(l, "callback")
    BY <1>13 DEF CallbackShutsDown
  <2>2. c \in Conn /\ Tail(calls[l]) \in Seq(Call)
    BY <2>1, TopFacts
  <2> QED
    BY <1>13, <2>2 DEF CallbackShutsDown, Types
<1>14. CASE CallbackCloses(l)
  <2>1. Top(l, "callback")
    BY <1>14 DEF CallbackCloses
  <2>2. PICK d \in Conn : calls' = [calls EXCEPT ![l] =
               <<C("force_close", d), C("guard", c)>> \o Tail(calls[l])]
    BY <1>14 DEF CallbackCloses
  <2>3. <<C("force_close", d), C("guard", c)>> \o Tail(calls[l]) \in Seq(Call)
    BY <1>1, <2>1, TopFacts, TypesTop DEF SharedOp, RawOp
  <2>4. calls' \in [Loop -> Seq(Call)]
    BY <2>2, <2>3, OwnCallsTypes
  <2> QED
    BY <1>14, <2>4 DEF CallbackCloses, Types
<1> QED
  BY <1>2, <1>3, <1>4, <1>5, <1>6, <1>7, <1>8, <1>9, <1>10, <1>11, <1>12, <1>13, <1>14
     DEF ConnStep

LEMMA TypesNext == Types /\ [Next]_vars => Types'
<1> SUFFICES ASSUME Types, [Next]_vars PROVE Types'
  OBVIOUS
<1>1. CASE UNCHANGED vars
  BY <1>1 DEF vars, channels, outside, Types
<1> QED
  BY <1>1, TypesServer, TypesLoop, TypesUser, TypesConn DEF Next, LoopStep, ConnStep

-----------------------------------------------------------------------------
(* What the steps of a connection do to the line of its loop: the loop     *)
(* thread l replaces the call op of c by the calls `new'.                  *)

Does(l, op, c, new) ==
    /\ 1 \in DOMAIN line[l] /\ line[l][1] = C(op, c) /\ c \in Conn /\ op # "none"
    /\ new \in Seq(Call) /\ Puts(l, new)
    /\ calls[l] # << >> /\ Head(calls[l]) = C(op, c)
    /\ calls' = [calls EXCEPT ![l] = new \o Tail(calls[l])]
    /\ UNCHANGED <<mc_connections, tasks, batch, spent, active, loop, phase, pending>>

Establishes(l, c) ==
    /\ Does(l, "connect_establised", c, <<C("callback", c)>>)
    /\ m_status' = [m_status EXCEPT ![c] = "connected"]
    /\ events' = [events EXCEPT ![c] = events[c] \union {"read"}]
    /\ registered' = registered \union {c}
    /\ UNCHANGED kept

Closes(l, c) ==
    /\ Does(l, "handle_close", c, <<C("callback", c), C("close_cb", c), C("guard", c)>>)
    /\ m_status' = [m_status EXCEPT ![c] = "disconnected"]
    /\ events' = [events EXCEPT ![c] = {}]
    /\ UNCHANGED <<registered, kept>>

ShutsDown(l, c) ==
    /\ Does(l, "callback", c, << >>)
    /\ m_status[c] = "connected"
    /\ m_status' = [m_status EXCEPT ![c] = "disconnecting"]
    /\ UNCHANGED <<events, registered, kept>>

\* What c asks for changes as long as it is open.
Returns(l, op, c) ==
    /\ Does(l, op, c, << >>)
    /\ op \notin MyOp \union {"handle_close"}
    /\ UNCHANGED <<m_status, registered>>
    /\ kept' = kept \/ (op = "callback" /\ kept' = kept \union {c})
    /\ \/ UNCHANGED events
       \/ events' = [events EXCEPT ![c] = events[c] \ {"write"}]
       \/ /\ "send" \in InCallback /\ m_status[c] = "connected"
          /\ events' = [events EXCEPT ![c] = events[c] \union {"write"}]
       \/ /\ "send" \notin InCallback
          /\ events' = [events EXCEPT ![c] = events[c] \ {"read"}]

Removes(l, c) ==
    /\ Does(l, "channel_remove", c, << >>)
    /\ registered' = registered \ {c}
    /\ UNCHANGED <<m_status, events, kept>>

\* <<op, new>>, without any further effect.
Expands(l, op, c, new) ==
    /\ Does(l, op, c, new)
    /\ \/ op = "handle_read" /\ new \in {<<C("callback", c)>>, <<C("handle_close", c)>>}
       \/ op = "connect_destroy" /\ new = <<C("channel_remove", c), C("guard", c)>>
       \/ op = "force_close" /\ m_status[c] \in Open /\ new = <<C("handle_close", c)>>
       \/ op = "callback" /\ m_status[c] \in Open
          /\ new = <<C("force_close", c), C("guard", c)>>
    /\ UNCHANGED <<m_status, events, registered, kept>>

LEMMA DoesFrom ==
    ASSUME Types, Types', NEW l \in Loop, NEW op, Top(l, op), NEW new \in Seq(Call),
           calls' = [calls EXCEPT ![l] = new \o Tail(calls[l])],
           UNCHANGED <<mc_connections, tasks, batch, spent, active, loop, phase, pending>>
    PROVE  Does(l, op, TopConn(l), new)
<1>1. Puts(l, new)
  BY TopFacts, PutsLine
<1>2. op # "none"
  BY TopFacts DEF SharedOp, RawOp
<1> QED
  BY <1>1, <1>2, TopFacts DEF Does

\* Every step of a connection does one of six things to status and line.
LEMMA ConnEffect ==
    ASSUME SafeUse, Types, Types', Agreed, NEW l \in Loop, ConnStep(l)
    PROVE  \E c \in Conn :
              \/ Establishes(l, c) \/ Closes(l, c) \/ ShutsDown(l, c) \/ Removes(l, c)
              \/ \E op : Returns(l, op, c)
              \/ \E op, new : Expands(l, op, c, new)
<1> DEFINE c == TopConn(l)
<1> USE DEF channels, outside
<1>0. \A op \in SharedOp \union RawOp, d \in Conn :
         /\ C(op, d) \in Call /\ <<C(op, d)>> \in Seq(Call)
         /\ C(op, d).op = op
  BY CallTypes
<1>1. << >> \in Seq(Call)
  OBVIOUS
<1>2. CASE ConnectEstablised(l)
  <2>1. Top(l, "connect_establised") /\ c \in Conn
    BY <1>2, TopFacts DEF ConnectEstablised
  <2>2. Does(l, "connect_establised", c, <<C("callback", c)>>)
    BY <1>0, <1>2, <2>1, DoesFrom DEF ConnectEstablised, SharedOp
  <2> QED
    BY <1>2, <2>1, <2>2 DEF ConnectEstablised, Establishes, SetEvents
<1>3. CASE HandleClose(l)
  <2>1. Top(l, "handle_close") /\ c \in Conn
    BY <1>3, TopFacts DEF HandleClose
  <2>2. ClosingCalls(c) \in Seq(Call)
    BY <1>0, <2>1 DEF SharedOp, ClosingCalls
  <2>3. Does(l, "handle_close", c, ClosingCalls(c))
    BY <1>3, <2>1, <2>2, DoesFrom DEF HandleClose
  <2> QED
    BY <1>3, <2>1, <2>3 DEF HandleClose, Closes, SetEvents, DisableAll, ClosingCalls
<1>4. CASE HandleRead(l)
  <2>1. Top(l, "handle_read") /\ c \in Conn
    BY <1>4, TopFacts DEF HandleRead
  <2>2. PICK new \in {<<C("callback", c)>>, << >>, <<C("handle_close", c)>>} :
          calls' = [calls EXCEPT ![l] = new \o Tail(calls[l])]
    BY <1>4 DEF HandleRead
  <2>3. new \in Seq(Call)
    BY <1>0, <1>1, <2>1 DEF SharedOp, RawOp
  <2>4. Does(l, "handle_read", c, new)
    BY <1>4, <2>1, <2>2, <2>3, DoesFrom DEF HandleRead
  <2>5. CASE new = << >>
    BY <1>4, <2>1, <2>4, <2>5 DEF HandleRead, Returns, MyOp
  <2>6. CASE new # << >>
    BY <1>4, <2>1, <2>4, <2>6 DEF HandleRead, Expands
  <2> QED
    BY <2>5, <2>6
<1>5. CASE HandleError(l)
  <2>1. Top(l, "handle_error") /\ c \in Conn
    BY <1>5, TopFacts DEF HandleError
  <2>2. Does(l, "handle_error", c, << >>)
    BY <1>1, <1>5, <2>1, TypesTop, DoesFrom DEF HandleError
  <2> QED
    BY <1>5, <2>1, <2>2 DEF HandleError, Returns, MyOp
<1>6. CASE HandleWrite(l)
  <2>1. Top(l, "handle_write") /\ c \in Conn
    BY <1>6, TopFacts DEF HandleWrite
  <2>2. Does(l, "handle_write", c, << >>)
    BY <1>1, <1>6, <2>1, TypesTop, DoesFrom DEF HandleWrite
  <2> QED
    BY <1>6, <2>1, <2>2 DEF HandleWrite, Returns, MyOp, SetEvents
<1>7. CASE CallbackAsks(l)
  <2>1. Top(l, "callback") /\ c \in Conn
    BY <1>7, TopFacts DEF CallbackAsks
  <2>2. Does(l, "callback", c, << >>)
    BY <1>1, <1>7, <2>1, TypesTop, DoesFrom DEF CallbackAsks
  <2>3. \/ /\ "send" \in InCallback /\ m_status[c] = "connected"
           /\ SetEvents(c, events[c] \union {"write"})
        \/ "send" \notin InCallback /\ SetEvents(c, events[c] \ {"read"})
    BY <1>7 DEF CallbackAsks, SafeUse
  <2> QED
    BY <1>7, <2>1, <2>2, <2>3 DEF CallbackAsks, Returns, MyOp, SetEvents
<1>8. CASE Return(l)
  <2>1. PICK op \in {"guard", "handle_event", "shutdown"} : Top(l, op)
    BY <1>8 DEF Return
  <2>2. Does(l, op, c, << >>) /\ c \in Conn
    BY <1>1, <1>8, <2>1, TopFacts, TypesTop, DoesFrom DEF Return
  <2> QED
    BY <1>8, <2>1, <2>2 DEF Return, Returns, MyOp
<1>9. CASE ConnectDestroy(l)
  <2>1. Top(l, "connect_destroy") /\ c \in Conn
    BY <1>9, TopFacts DEF ConnectDestroy
  <2>2. m_status[c] = "disconnected"
    <3>1. line[l][1] = C("connect_destroy", c) /\ 1 \in DOMAIN line[l]
      BY <2>1, TopFacts
    <3>2. C("connect_destroy", c).op = "connect_destroy" /\ C("connect_destroy", c).conn = c
      BY DEF C
    <3> QED
      BY <3>1, <3>2 DEF Agreed, Agrees
  <2> DEFINE new == <<C("channel_remove", c), C("guard", c)>>
  <2>3. new \in Seq(Call)
    BY <1>0, <2>1 DEF SharedOp, RawOp
  <2>4. Does(l, "connect_destroy", c, new)
    BY <1>9, <2>1, <2>2, <2>3, DoesFrom DEF ConnectDestroy
  <2> QED
    BY <1>9, <2>1, <2>2, <2>4 DEF ConnectDestroy, Expands
<1>10. CASE ChannelRemove(l)
  <2>1. Top(l, "channel_remove") /\ c \in Conn
    BY <1>10, TopFacts DEF ChannelRemove
  <2>2. Does(l, "channel_remove", c, << >>)
    BY <1>1, <1>10, <2>1, TypesTop, DoesFrom DEF ChannelRemove
  <2> QED
    BY <1>10, <2>1, <2>2 DEF ChannelRemove, Removes
<1>11. CASE ForceClose(l)
  <2>1. Top(l, "force_close") /\ c \in Conn
    BY <1>11, TopFacts DEF ForceClose
  <2>2. CASE MayClose(c)
    <3>1. <<C("handle_close", c)>> \in Seq(Call)
      BY <1>0, <2>1 DEF RawOp
    <3>2. Does(l, "force_close", c, <<C("handle_close", c)>>)
      BY <1>11, <2>1, <2>2, <3>1, DoesFrom DEF ForceClose
    <3> QED
      BY <1>11, <2>1, <2>2, <3>2 DEF ForceClose, Expands, MayClose, Open
  <2>3. CASE ~MayClose(c)
    <3>1. Does(l, "force_close", c, << >>)
      BY <1>1, <1>11, <2>1, <2>3, TypesTop, DoesFrom DEF ForceClose
    <3> QED
      BY <1>11, <2>1, <3>1 DEF ForceClose, Returns, MyOp
  <2> QED
    BY <2>2, <2>3
<1>12. CASE CallbackReturns(l)
  <2>1. Top(l, "callback") /\ c \in Conn
    BY <1>12, TopFacts DEF CallbackReturns
  <2>2. Does(l, "callback", c, << >>)
    BY <1>1, <1>12, <2>1, TypesTop, DoesFrom DEF CallbackReturns
  <2> QED
    BY <1>12, <2>1, <2>2 DEF CallbackReturns, Returns, MyOp
<1>13. CASE CallbackShutsDown(l)
  <2>1. Top(l, "callback") /\ c \in Conn
    BY <1>13, TopFacts DEF CallbackShutsDown
  <2>2. Does(l, "callback", c, << >>)
    BY <1>1, <1>13, <2>1, TypesTop, DoesFrom DEF CallbackShutsDown
  <2> QED
    BY <1>13, <2>1, <2>2 DEF CallbackShutsDown, ShutsDown, MayShutDown
<1>14. CASE CallbackCloses(l)
  <2>1. Top(l, "callback") /\ c \in Conn
    BY <1>14, TopFacts DEF CallbackCloses
  <2> DEFINE new == <<C("force_close", c), C("guard", c)>>
  <2>2. calls' = [calls EXCEPT ![l] = new \o Tail(calls[l])] /\ MayClose(c)
    BY <1>14 DEF CallbackCloses, SafeUse
  <2>3. new \in Seq(Call)
    BY <1>0, <2>1 DEF SharedOp, RawOp
  <2>4. Does(l, "callback", c, new)
    BY <1>14, <2>1, <2>2, <2>3, DoesFrom DEF CallbackCloses
  <2> QED
    BY <1>14, <2>1, <2>2, <2>4 DEF CallbackCloses, Expands, MayClose, Open
<1> QED
  BY <1>2, <1>3, <1>4, <1>5, <1>6, <1>7, <1>8, <1>9, <1>10, <1>11, <1>12, <1>13, <1>14
     DEF ConnStep

\* Where the entries stand after it.
LEMMA DoesIndex ==
    ASSUME Types, NEW l \in Loop, NEW op, NEW c, NEW new, Does(l, op, c, new)
    PROVE  /\ Len(line[l]) \in Nat \ {0} /\ DOMAIN line[l] = 1 .. Len(line[l])
           /\ Len(new) \in Nat /\ DOMAIN new = 1 .. Len(new)
           /\ DOMAIN line'[l] = 1 .. Len(new) + Len(line[l]) - 1
           /\ \A n \in 1 .. Len(new) : line'[l][n] = new[n]
           /\ \A n \in 2 .. Len(line[l]) : line'[l][Len(new) + n - 1] = line[l][n]
<1>1. line[l] \in Seq(Call) /\ new \in Seq(Call) /\ 1 \in DOMAIN line[l]
      /\ line'[l] = new \o Tail(line[l])
  BY SeqTypes DEF Does, Puts
<1>2. line[l] # << >>
  BY <1>1
<1>3. << >> \in Seq(Call)
  OBVIOUS
<1>4. Tail(line[l]) \in Seq(Call) /\ Len(Tail(line[l])) = Len(line[l]) - 1
      /\ \A n \in 1 .. Len(line[l]) - 1 : Tail(line[l])[n] = line[l][n + 1]
  BY <1>1, <1>2, <1>3, FrontOf
<1>5. /\ DOMAIN line'[l] = 1 .. Len(new) + (Len(line[l]) - 1)
      /\ Len(new) \in Nat /\ DOMAIN new = 1 .. Len(new)
      /\ \A n \in 1 .. Len(new) : line'[l][n] = new[n]
      /\ \A n \in 1 .. Len(line[l]) - 1 : line'[l][Len(new) + n] = Tail(line[l])[n]
  BY <1>1, <1>4, Concat
<1>6. Len(line[l]) \in Nat \ {0} /\ DOMAIN line[l] = 1 .. Len(line[l])
  BY <1>1, <1>2
<1>7. ASSUME NEW n \in 2 .. Len(line[l])
      PROVE  line'[l][Len(new) + n - 1] = line[l][n]
  <2>1. n - 1 \in 1 .. Len(line[l]) - 1 /\ (n - 1) + 1 = n
        /\ Len(new) + (n - 1) = Len(new) + n - 1
    BY <1>5, <1>6
  <2> QED
    BY <1>4, <1>5, <2>1
<1>8. Len(new) + (Len(line[l]) - 1) = Len(new) + Len(line[l]) - 1
  BY <1>5, <1>6
<1> QED
  BY <1>5, <1>6, <1>7, <1>8

\* An entry of the new lines is one of the calls that were put, or an old one
\* other than the first of l, behind them.
LEMMA DoesEntries ==
    ASSUME Types, NEW l \in Loop, NEW op, NEW c, NEW new, Does(l, op, c, new),
           NEW k \in Loop, NEW m \in DOMAIN line'[k]
    PROVE  \/ k = l /\ m \in DOMAIN new /\ line'[k][m] = new[m]
           \/ k = l /\ \E n \in DOMAIN line[k] :
                          n > 1 /\ m = Len(new) + n - 1 /\ line'[k][m] = line[k][n]
           \/ k # l /\ m \in DOMAIN line[k] /\ line'[k][m] = line[k][m]
<1>1. CASE k # l
  BY <1>1 DEF Does, Puts
<1>2. CASE k = l /\ m \in 1 .. Len(new)
  BY <1>2, DoesIndex
<1>3. CASE k = l /\ m \notin 1 .. Len(new)
  <2>1. m \in 1 .. Len(new) + Len(line[l]) - 1 /\ Len(new) \in Nat
        /\ Len(line[l]) \in Nat
    BY <1>3, DoesIndex
  <2>2. m - Len(new) + 1 \in 2 .. Len(line[l])
    BY <1>3, <2>1
  <2>3. m = Len(new) + (m - Len(new) + 1) - 1 /\ m - Len(new) + 1 > 1
    BY <2>1, <2>2
  <2>4. line'[l][Len(new) + (m - Len(new) + 1) - 1] = line[l][m - Len(new) + 1]
    BY <2>2, DoesIndex
  <2>5. m - Len(new) + 1 \in DOMAIN line[l]
    BY <2>1, <2>2, DoesIndex
  <2> QED
    BY <1>3, <2>3, <2>4, <2>5
<1> QED
  BY <1>1, <1>2, <1>3

\* So what holds of the new calls and of the old ones holds of all.
LEMMA DoesOld ==
    ASSUME Types, NEW l \in Loop, NEW op, NEW c, NEW new, Does(l, op, c, new),
           NEW k \in Loop, NEW m \in DOMAIN line'[k]
    PROVE  \/ k = l /\ m \in DOMAIN new /\ line'[k][m] = new[m]
           \/ \E n \in DOMAIN line[k] : ~(k = l /\ n = 1) /\ line'[k][m] = line[k][n]
BY DoesEntries

\* Nothing but the first entry of l leaves.
LEMMA DoesKeeps ==
    ASSUME Types, NEW l \in Loop, NEW op, NEW c, NEW new, Does(l, op, c, new),
           NEW k \in Loop, NEW x, In(k, x), k # l \/ x # C(op, c)
    PROVE  In(k, x)'
<1>1. PICK n \in DOMAIN line[k] : line[k][n] = x
  BY DEF In
<1>2. CASE k # l
  BY <1>1, <1>2 DEF Does, Puts, In
<1>3. CASE k = l
  <2>0. n # 1
    BY <1>1, <1>3 DEF Does
  <2>1. n # 1 /\ n \in 1 .. Len(line[l])
    BY <1>1, <1>3, <2>0, DoesIndex
  <2>2. Len(line[l]) \in Nat /\ Len(new) \in Nat
    BY DoesIndex
  <2>3. n \in 2 .. Len(line[l]) /\ Len(new) + n - 1 \in 1 .. Len(new) + Len(line[l]) - 1
    BY <2>1, <2>2
  <2>4. line'[l][Len(new) + n - 1] = x /\ Len(new) + n - 1 \in DOMAIN line'[l]
    BY <1>1, <1>3, <2>3, DoesIndex
  <2> QED
    BY <1>3, <2>4 DEF In
<1> QED
  BY <1>2, <1>3

LEMMA DoesPuts ==
    ASSUME Types, NEW l \in Loop, NEW op, NEW c, NEW new, Does(l, op, c, new),
           NEW n \in DOMAIN new
    PROVE  In(l, new[n])'
<1>1. n \in DOMAIN line'[l] /\ line'[l][n] = new[n]
  BY DoesIndex
<1> QED
  BY <1>1 DEF In

-----------------------------------------------------------------------------
(* The invariant through these steps.                                      *)

ConnEffects(l, c) ==
    \/ Establishes(l, c) \/ Closes(l, c) \/ ShutsDown(l, c) \/ Removes(l, c)
    \/ \E op : Returns(l, op, c)
    \/ \E op, new : Expands(l, op, c, new)

\* The calls it puts in front are of its own connection.
LEMMA NewCalls ==
    ASSUME NEW l \in Loop, NEW c \in Conn, ConnEffects(l, c)
    PROVE  \E op, new :
              /\ Does(l, op, c, new)
              /\ \A n \in DOMAIN new :
                    /\ new[n].conn = c
                    /\ new[n].op \in {"callback", "close_cb", "guard", "handle_close",
                                      "channel_remove", "force_close"}
<1> DEFINE Fine(new) == \A n \in DOMAIN new :
              /\ new[n].conn = c
              /\ new[n].op \in {"callback", "close_cb", "guard", "handle_close",
                                "channel_remove", "force_close"}
<1>0. SUFFICES \E op, new : Does(l, op, c, new) /\ Fine(new)
  OBVIOUS
<1>1. Fine(<< >>)
  OBVIOUS
<1>2. \A o \in {"callback", "handle_close"} : Fine(<<C(o, c)>>)
  BY DEF C
<1>3. \A o \in {"channel_remove", "force_close"} : Fine(<<C(o, c), C("guard", c)>>)
  BY DEF C
<1>4. Fine(<<C("callback", c), C("close_cb", c), C("guard", c)>>)
  BY DEF C
<1> HIDE DEF Fine
<1>5. CASE Establishes(l, c)
  BY <1>2, <1>5 DEF Establishes
<1>6. CASE Closes(l, c)
  BY <1>4, <1>6 DEF Closes
<1>7. CASE ShutsDown(l, c) \/ Removes(l, c) \/ \E op : Returns(l, op, c)
  BY <1>1, <1>7 DEF ShutsDown, Removes, Returns
<1>8. CASE \E op, new : Expands(l, op, c, new)
  BY <1>2, <1>3, <1>8 DEF Expands
<1> QED
  BY <1>5, <1>6, <1>7, <1>8 DEF ConnEffects

LEMMA CallFields == \A op, c : C(op, c).op = op /\ C(op, c).conn = c
BY DEF C

\* The call that is done runs in the loop of its connection.
LEMMA AtHome ==
    ASSUME Placed, NEW l \in Loop, NEW op, NEW c, NEW new, Does(l, op, c, new)
    PROVE  IF op = "remove_conn" THEN l = Main ELSE l = loop[c]
BY CallFields DEF Placed, Home, Does

LEMMA PlacedConn ==
    ASSUME SafeUse, Core, Types', NEW l \in Loop, NEW c \in Conn, ConnEffects(l, c),
           l = loop[c]
    PROVE  Placed'
<1>1. PICK op, new :
         /\ Does(l, op, c, new)
         /\ \A n \in DOMAIN new :
               /\ new[n].conn = c
               /\ new[n].op \in {"callback", "close_cb", "guard", "handle_close",
                                 "channel_remove", "force_close"}
  BY NewCalls
<1>2. loop' = loop
  BY <1>1 DEF Does
<1>3. SUFFICES ASSUME NEW k \in Loop, NEW m \in DOMAIN line'[k]
               PROVE  /\ line'[k][m].op # "shutdown"
                      /\ k = IF line'[k][m].op = "remove_conn" THEN Main
                             ELSE loop'[line'[k][m].conn]
  BY DEF Placed, Home
<1>4. Types
  BY DEF Core
<1>5. CASE k = l /\ m \in DOMAIN new /\ line'[k][m] = new[m]
  BY <1>1, <1>2, <1>5
<1>6. CASE \E n \in DOMAIN line[k] : line'[k][m] = line[k][n]
  BY <1>2, <1>6 DEF Home, Core, Placed
<1> QED
  BY <1>1, <1>4, <1>5, <1>6, DoesOld

\* What the steps change of a connection's status.
LEMMA NewStatus ==
    ASSUME Types, NEW l \in Loop, NEW c \in Conn, ConnEffects(l, c)
    PROVE  /\ \A d \in Conn : d # c => m_status'[d] = m_status[d]
           /\ Establishes(l, c) => m_status'[c] = "connected"
           /\ Closes(l, c) => m_status'[c] = "disconnected"
           /\ ShutsDown(l, c) => m_status[c] = "connected" /\ m_status'[c] = "disconnecting"
           /\ Removes(l, c) \/ (\E op : Returns(l, op, c))
              \/ (\E op, new : Expands(l, op, c, new)) => m_status' = m_status
           /\ mc_connections' = mc_connections /\ loop' = loop
<1>1. mc_connections' = mc_connections /\ loop' = loop
  BY NewCalls DEF Does
<1> QED
  BY <1>1 DEF ConnEffects, Establishes, Closes, ShutsDown, Removes, Returns, Expands, Types

\* What stands behind handle_close, or stays when the first entry leaves.
LEMMA OthersOf ==
    ASSUME Core, NEW l \in Loop, NEW op, NEW c \in Conn, NEW new, Does(l, op, c, new),
           NEW k \in Loop, NEW n \in DOMAIN line[k], ~(k = l /\ n = 1),
           line[k][n].conn = c
    PROVE  /\ op \in MyOp => line[k][n].op \notin MyOp
           /\ op = "handle_close" =>
                 line[k][n].op \notin MyOp \union {"handle_close", "handle_read"}
<1>1. 1 \in DOMAIN line[l] /\ line[l][1].op = op /\ line[l][1].conn = c
  BY CallFields DEF Does
<1>2. op \in MyOp => line[k][n].op \notin MyOp
  BY <1>1 DEF Core, OneHandOver
<1>3. ASSUME op = "handle_close"
      PROVE  line[k][n].op \notin MyOp \union {"handle_close", "handle_read"}
  <2>1. m_status[c] \in Open
    BY <1>1, <1>3 DEF Core, Agreed, Agrees
  <2>2. line[k][n].op \notin MyOp
    BY <2>1 DEF Core, Agreed, Agrees, MyOp, Open
  <2>3. k = loop[c] /\ l = loop[c]
    BY <1>1, <1>3, <2>2 DEF Core, Placed, Home, MyOp
  <2>4. line[k][n].op \notin {"handle_close", "handle_read"}
    BY <1>1, <1>3, <2>3 DEF Core, ClosesFirst
  <2> QED
    BY <2>2, <2>4
<1> QED
  BY <1>2, <1>3

LEMMA LineCalls ==
    ASSUME Types, NEW l \in Loop, NEW n \in DOMAIN line[l]
    PROVE  line[l][n] \in Call /\ line[l][n].conn \in Conn
<1>1. line[l] \in Seq(Call)
  BY SeqTypes
<1>2. line[l][n] \in Call
  BY <1>1
<1> QED
  BY <1>2, CallTypes

\* What is left to show for Agreed: the new calls, and the others of c.
LEMMA AgreedDoes ==
    ASSUME Core, NEW l \in Loop, NEW op, NEW c \in Conn, NEW new, Does(l, op, c, new),
           \A d \in Conn : d # c => m_status'[d] = m_status[d],
           \A n \in DOMAIN new :
              new[n].conn = c /\ Agrees(new[n], m_status'[c], mc_connections),
           \A k \in Loop : \A n \in DOMAIN line[k] :
              ~(k = l /\ n = 1) /\ line[k][n].conn = c
                 => Agrees(line[k][n], m_status'[c], mc_connections)
    PROVE  Agreed'
<1>1. SUFFICES ASSUME NEW k \in Loop, NEW m \in DOMAIN line'[k]
               PROVE  Agrees(line'[k][m], m_status'[line'[k][m].conn], mc_connections')
  BY DEF Agreed
<1>2. Types /\ mc_connections' = mc_connections
  BY DEF Core, Does
<1>3. ASSUME NEW n \in DOMAIN line[k], ~(k = l /\ n = 1), line'[k][m] = line[k][n]
      PROVE  Agrees(line'[k][m], m_status'[line'[k][m].conn], mc_connections')
  <2>1. line[k][n].conn \in Conn
        /\ Agrees(line[k][n], m_status[line[k][n].conn], mc_connections)
    BY <1>2, LineCalls DEF Core, Agreed
  <2> QED
    BY <1>2, <1>3, <2>1
<1>4. ASSUME k = l, m \in DOMAIN new, line'[k][m] = new[m]
      PROVE  Agrees(line'[k][m], m_status'[line'[k][m].conn], mc_connections')
  BY <1>2, <1>4
<1> QED
  BY <1>2, <1>3, <1>4, DoesOld

LEMMA AgreedConn ==
    ASSUME Core, Types', NEW l \in Loop, NEW c \in Conn, ConnEffects(l, c)
    PROVE  Agreed'
<1> DEFINE Old(s) == \A k \in Loop : \A n \in DOMAIN line[k] :
              ~(k = l /\ n = 1) /\ line[k][n].conn = c
                 => Agrees(line[k][n], s, mc_connections)
           New(new, s) == \A n \in DOMAIN new :
              new[n].conn = c /\ Agrees(new[n], s, mc_connections)
<1>1. Types /\ \A d \in Conn : d # c => m_status'[d] = m_status[d]
  BY NewStatus DEF Core
<1>2. \A op, new : Does(l, op, c, new) => Agrees(C(op, c), m_status[c], mc_connections)
  BY CallFields DEF Core, Agreed, Does
<1>3. Old(m_status[c])
  BY DEF Core, Agreed
<1>4. CASE Establishes(l, c)
  <2>1. m_status'[c] = "connected" /\ Does(l, "connect_establised", c, <<C("callback", c)>>)
    BY <1>1, <1>4, NewStatus DEF Establishes
  <2>2. New(<<C("callback", c)>>, "connected")
    BY CallFields DEF Agrees
  <2>3. m_status[c] = "connecting"
    BY <1>2, <2>1, CallFields DEF Agrees
  <2>4. Old("connected")
    <3>1. SUFFICES ASSUME NEW k \in Loop, NEW n \in DOMAIN line[k],
                          ~(k = l /\ n = 1), line[k][n].conn = c
                   PROVE  FALSE
      OBVIOUS
    <3>2. line[k][n].op = "connect_establised"
      BY <1>3, <2>3, <3>1 DEF Agrees
    <3> QED
      BY <2>1, <3>1, <3>2, OthersOf DEF MyOp
  <2> QED
    BY <1>1, <2>1, <2>2, <2>4, AgreedDoes
<1>5. CASE Closes(l, c)
  <2> DEFINE new == <<C("callback", c), C("close_cb", c), C("guard", c)>>
  <2>1. m_status'[c] = "disconnected" /\ Does(l, "handle_close", c, new)
    BY <1>1, <1>5, NewStatus DEF Closes
  <2>2. m_status[c] \in Open /\ c \in mc_connections
    BY <1>2, <2>1, CallFields DEF Agrees, Core, Stages, Stage
  <2>3. New(new, "disconnected")
    BY <2>2, CallFields DEF Agrees
  <2>4. Old("disconnected")
    <3>1. SUFFICES ASSUME NEW k \in Loop, NEW n \in DOMAIN line[k],
                          ~(k = l /\ n = 1), line[k][n].conn = c
                   PROVE  Agrees(line[k][n], "disconnected", mc_connections)
      OBVIOUS
    <3>2. line[k][n].op \notin MyOp \union {"handle_close", "handle_read"}
      BY <2>1, <3>1, OthersOf
    <3> QED
      BY <3>2 DEF Agrees, MyOp
  <2> HIDE DEF new
  <2> QED
    BY <1>1, <2>1, <2>3, <2>4, AgreedDoes
<1>6. CASE ShutsDown(l, c)
  <2>1. m_status'[c] = "disconnecting" /\ m_status[c] = "connected"
        /\ Does(l, "callback", c, << >>)
    BY <1>1, <1>6, NewStatus DEF ShutsDown
  <2>2. New(<< >>, "disconnecting")
    OBVIOUS
  <2>3. Old("disconnecting")
    BY <1>3, <2>1 DEF Agrees, Open
  <2> QED
    BY <1>1, <2>1, <2>2, <2>3, AgreedDoes
<1>7. CASE Removes(l, c) \/ \E op : Returns(l, op, c)
  <2>1. PICK op : Does(l, op, c, << >>)
    BY <1>7 DEF Removes, Returns
  <2>2. m_status' = m_status
    BY <1>1, <1>7, NewStatus
  <2>3. New(<< >>, m_status[c])
    OBVIOUS
  <2> QED
    BY <1>1, <1>3, <2>1, <2>2, <2>3, AgreedDoes
<1>8. CASE \E op, new : Expands(l, op, c, new)
  <2>1. PICK op, new : Expands(l, op, c, new)
    BY <1>8
  <2>2. m_status' = m_status /\ Does(l, op, c, new)
    BY <2>1 DEF Expands
  <2>3. Agrees(C(op, c), m_status[c], mc_connections)
    BY <1>2, <2>2
  <2>4. New(new, m_status[c])
    <3>1. CASE op = "handle_read"
      <4>1. m_status[c] \in Open
        BY <2>3, <3>1, CallFields DEF Agrees
      <4>2. new = <<C("callback", c)>> \/ new = <<C("handle_close", c)>>
        BY <2>1, <3>1 DEF Expands
      <4> QED
        BY <4>1, <4>2, CallFields DEF Agrees, Open
    <3>2. CASE op = "connect_destroy"
      <4>1. m_status[c] = "disconnected" /\ c \notin mc_connections
        BY <2>3, <3>2, CallFields DEF Agrees
      <4>2. new = <<C("channel_remove", c), C("guard", c)>>
        BY <2>1, <3>2 DEF Expands
      <4> QED
        BY <4>1, <4>2, CallFields DEF Agrees
    <3>3. CASE op \in {"force_close", "callback"}
      <4>1. m_status[c] \in Open
            /\ (new = <<C("handle_close", c)>> \/ new = <<C("force_close", c), C("guard", c)>>)
        BY <2>1, <3>3 DEF Expands
      <4> QED
        BY <4>1, CallFields DEF Agrees, Open
    <3> QED
      BY <2>1, <3>1, <3>2, <3>3 DEF Expands
  <2> QED
    BY <1>1, <1>3, <2>2, <2>4, AgreedDoes
<1> QED
  BY <1>4, <1>5, <1>6, <1>7, <1>8 DEF ConnEffects

LEMMA OneHandOverDoes ==
    ASSUME Core, NEW l \in Loop, NEW op, NEW c \in Conn, NEW new, Does(l, op, c, new),
           NEW i, op \in MyOp \union {"handle_close"} \/ i \notin DOMAIN new,
           \A n \in DOMAIN new : new[n].op \in MyOp => n = i /\ new[n].conn = c
    PROVE  OneHandOver'
<1>1. SUFFICES ASSUME NEW k \in Loop, NEW m \in DOMAIN line'[k],
                      NEW j \in Loop, NEW p \in DOMAIN line'[j],
                      line'[k][m].op \in MyOp, line'[j][p].op \in MyOp,
                      line'[k][m].conn = line'[j][p].conn
               PROVE  k = j /\ m = p
  BY DEF OneHandOver
<1>2. Types /\ OneHandOver
  BY DEF Core
<1>3. ASSUME NEW k1 \in Loop, NEW n \in DOMAIN line[k1], ~(k1 = l /\ n = 1),
             line[k1][n].op \in MyOp, line[k1][n].conn = c,
             op \in MyOp \union {"handle_close"}
      PROVE  FALSE
  BY <1>3, OthersOf
<1>4. CASE k = l /\ m \in DOMAIN new /\ line'[k][m] = new[m]
  <2>1. m = i /\ new[m].conn = c /\ op \in MyOp \union {"handle_close"}
    BY <1>1, <1>4
  <2>2. CASE j = l /\ p \in DOMAIN new /\ line'[j][p] = new[p]
    BY <1>1, <1>4, <2>1, <2>2
  <2>3. CASE \E n \in DOMAIN line[j] : ~(j = l /\ n = 1) /\ line'[j][p] = line[j][n]
    BY <1>1, <1>3, <1>4, <2>1, <2>3
  <2> QED
    BY <1>2, <2>2, <2>3, DoesOld
<1>5. CASE j = l /\ p \in DOMAIN new /\ line'[j][p] = new[p]
  <2>1. p = i /\ new[p].conn = c /\ op \in MyOp \union {"handle_close"}
    BY <1>1, <1>5
  <2>2. CASE k = l /\ m \in DOMAIN new /\ line'[k][m] = new[m]
    BY <1>4, <2>2
  <2>3. CASE \E n \in DOMAIN line[k] : ~(k = l /\ n = 1) /\ line'[k][m] = line[k][n]
    BY <1>1, <1>3, <1>5, <2>1, <2>3
  <2> QED
    BY <1>2, <2>2, <2>3, DoesOld
<1>6. CASE /\ ~(k = l /\ m \in DOMAIN new /\ line'[k][m] = new[m])
           /\ ~(j = l /\ p \in DOMAIN new /\ line'[j][p] = new[p])
  <2>1. \/ k = l /\ \E n \in DOMAIN line[k] :
                          n > 1 /\ m = Len(new) + n - 1 /\ line'[k][m] = line[k][n]
        \/ k # l /\ m \in DOMAIN line[k] /\ line'[k][m] = line[k][m]
    BY <1>2, <1>6, DoesEntries
  <2>2. \/ j = l /\ \E n \in DOMAIN line[j] :
                          n > 1 /\ p = Len(new) + n - 1 /\ line'[j][p] = line[j][n]
        \/ j # l /\ p \in DOMAIN line[j] /\ line'[j][p] = line[j][p]
    BY <1>2, <1>6, DoesEntries
  <2> QED
    BY <1>1, <1>2, <2>1, <2>2 DEF OneHandOver
<1> QED
  BY <1>4, <1>5, <1>6

LEMMA OneHandOverConn ==
    ASSUME Core, NEW l \in Loop, NEW c \in Conn, ConnEffects(l, c)
    PROVE  OneHandOver'
<1> DEFINE Fine(op, new) == \E i :
              /\ op \in MyOp \union {"handle_close"} \/ i \notin DOMAIN new
              /\ \A n \in DOMAIN new : new[n].op \in MyOp => n = i /\ new[n].conn = c
<1>1. SUFFICES \E op, new : Does(l, op, c, new) /\ Fine(op, new)
  BY OneHandOverDoes
<1>2. \A op : Fine(op, << >>)
  OBVIOUS
<1>3. \A op, x : x.op \notin MyOp => Fine(op, <<x>>)
  <2>1. SUFFICES ASSUME NEW op, NEW x, x.op \notin MyOp
                 PROVE  /\ 2 \notin DOMAIN <<x>>
                        /\ \A n \in DOMAIN <<x>> :
                              <<x>>[n].op \in MyOp => n = 2 /\ <<x>>[n].conn = c
    OBVIOUS
  <2> QED
    BY <2>1
<1>4. \A op : Fine(op, <<C("force_close", c), C("guard", c)>>)
  <2>1. SUFFICES /\ 3 \notin DOMAIN <<C("force_close", c), C("guard", c)>>
                 /\ \A n \in DOMAIN <<C("force_close", c), C("guard", c)>> :
                      <<C("force_close", c), C("guard", c)>>[n].op \notin MyOp
    OBVIOUS
  <2> QED
    BY CallFields DEF MyOp
<1>5. Fine("connect_destroy", <<C("channel_remove", c), C("guard", c)>>)
  <2>1. SUFFICES \A n \in DOMAIN <<C("channel_remove", c), C("guard", c)>> :
                    <<C("channel_remove", c), C("guard", c)>>[n].op \in MyOp =>
                      n = 1 /\ <<C("channel_remove", c), C("guard", c)>>[n].conn = c
    BY DEF MyOp
  <2> QED
    BY CallFields DEF MyOp
<1>6. Fine("handle_close", <<C("callback", c), C("close_cb", c), C("guard", c)>>)
  <2>1. SUFFICES \A n \in DOMAIN <<C("callback", c), C("close_cb", c), C("guard", c)>> :
                    <<C("callback", c), C("close_cb", c), C("guard", c)>>[n].op \in MyOp =>
                      n = 2 /\ <<C("callback", c), C("close_cb", c), C("guard", c)>>[n].conn = c
    OBVIOUS
  <2> QED
    BY CallFields DEF MyOp
<1>7. C("callback", c).op \notin MyOp /\ C("handle_close", c).op \notin MyOp
  BY CallFields DEF MyOp
<1> HIDE DEF Fine
<1>8. CASE Establishes(l, c)
  BY <1>3, <1>7, <1>8 DEF Establishes
<1>9. CASE Closes(l, c)
  BY <1>6, <1>9 DEF Closes
<1>10. CASE ShutsDown(l, c) \/ Removes(l, c) \/ \E op : Returns(l, op, c)
  BY <1>2, <1>10 DEF ShutsDown, Removes, Returns
<1>11. CASE \E op, new : Expands(l, op, c, new)
  BY <1>3, <1>4, <1>5, <1>7, <1>11 DEF Expands
<1> QED
  BY <1>8, <1>9, <1>10, <1>11 DEF ConnEffects

LEMMA ClosesFirstDoes ==
    ASSUME Core, NEW l \in Loop, NEW op, NEW c \in Conn, NEW new, Does(l, op, c, new),
           op = "handle_error" => new = << >>,
           \A n \in DOMAIN new : /\ new[n].op \notin {"handle_read", "handle_error"}
                                 /\ new[n].op = "handle_close" => n = 1
    PROVE  ClosesFirst'
<1>1. SUFFICES ASSUME NEW k \in Loop, NEW m \in DOMAIN line'[k]
               PROVE  /\ line'[k][m].op \in {"handle_close", "handle_error"} => m = 1
                      /\ line'[k][m].op = "handle_read" =>
                            m = 1 \/ (m = 2 /\ line'[k][1].op = "handle_error")
  BY DEF ClosesFirst
<1>2. Types /\ ClosesFirst
  BY DEF Core
<1>3. CASE k = l /\ m \in DOMAIN new /\ line'[k][m] = new[m]
  BY <1>3
<1>4. CASE k # l
  BY <1>2, <1>4 DEF ClosesFirst, Does, Puts
<1>5. ASSUME k = l, NEW n \in DOMAIN line[k], n > 1, m = Len(new) + n - 1,
             line'[k][m] = line[k][n]
      PROVE  /\ line'[k][m].op \notin {"handle_close", "handle_error"}
             /\ line'[k][m].op = "handle_read" => m = 1
  <2>1. /\ line[k][n].op \notin {"handle_close", "handle_error"}
        /\ line[k][n].op = "handle_read" => n = 2 /\ line[k][1].op = "handle_error"
    BY <1>2, <1>5 DEF ClosesFirst
  <2>2. line[l][1].op = op
    BY CallFields DEF Does
  <2>3. line[k][n].op = "handle_read" => m = 1
    BY <1>5, <2>1, <2>2
  <2> QED
    BY <1>5, <2>1, <2>3
<1> QED
  BY <1>2, <1>3, <1>4, <1>5, DoesEntries

LEMMA ClosesFirstConn ==
    ASSUME Core, NEW l \in Loop, NEW c \in Conn, ConnEffects(l, c)
    PROVE  ClosesFirst'
<1> DEFINE Fine(new) ==
       \A n \in DOMAIN new : /\ new[n].op \notin {"handle_read", "handle_error"}
                             /\ new[n].op = "handle_close" => n = 1
<1>1. SUFFICES \E op, new : /\ Does(l, op, c, new) /\ Fine(new)
                            /\ op = "handle_error" => new = << >>
  BY ClosesFirstDoes
<1>2. Fine(<< >>)
  OBVIOUS
<1>3. \A o \in {"callback", "handle_close"} : Fine(<<C(o, c)>>)
  BY CallFields
<1>4. \A o \in {"channel_remove", "force_close"} : Fine(<<C(o, c), C("guard", c)>>)
  BY CallFields
<1>5. Fine(<<C("callback", c), C("close_cb", c), C("guard", c)>>)
  BY CallFields
<1> HIDE DEF Fine
<1>6. CASE Establishes(l, c)
  BY <1>3, <1>6 DEF Establishes
<1>7. CASE Closes(l, c)
  BY <1>5, <1>7 DEF Closes
<1>8. CASE ShutsDown(l, c) \/ Removes(l, c) \/ \E op : Returns(l, op, c)
  BY <1>2, <1>8 DEF ShutsDown, Removes, Returns
<1>9. CASE \E op, new : Expands(l, op, c, new)
  BY <1>3, <1>4, <1>9 DEF Expands
<1> QED
  BY <1>6, <1>7, <1>8, <1>9 DEF ConnEffects

\* An entry behind the first moves by the length of the new calls.
LEMMA DoesLater ==
    ASSUME Types, NEW l \in Loop, NEW op, NEW c, NEW new, Does(l, op, c, new),
           NEW n \in DOMAIN line[l], n > 1
    PROVE  /\ Len(new) + n - 1 \in DOMAIN line'[l]
           /\ line'[l][Len(new) + n - 1] = line[l][n]
           /\ n \in Nat /\ Len(new) \in Nat
<1>1. n \in 1 .. Len(line[l]) /\ Len(line[l]) \in Nat /\ Len(new) \in Nat
      /\ DOMAIN line'[l] = 1 .. Len(new) + Len(line[l]) - 1
  BY DoesIndex
<1>2. n \in 2 .. Len(line[l]) /\ Len(new) + n - 1 \in 1 .. Len(new) + Len(line[l]) - 1
  BY <1>1
<1> QED
  BY <1>1, <1>2, DoesIndex

LEMMA GuardedDoes ==
    ASSUME Core, NEW l \in Loop, NEW op, NEW c \in Conn, NEW new, Does(l, op, c, new),
           kept \subseteq kept',
           \A n \in DOMAIN new : new[n].op \in {"channel_remove", "force_close"} =>
               n + 1 \in DOMAIN new /\ new[n + 1] = C("guard", new[n].conn)
    PROVE  Guarded'
<1> DEFINE Next1(k, m) ==
       m + 1 \in DOMAIN line'[k] /\ line'[k][m + 1] = C("guard", line'[k][m].conn)
<1>1. SUFFICES ASSUME NEW k \in Loop, NEW m \in DOMAIN line'[k]
               PROVE  /\ line'[k][m].op = "channel_remove" => Next1(k, m)
                      /\ line'[k][m].op = "force_close" =>
                            \/ Next1(k, m)
                            \/ "force_close" \in Foreign /\ line'[k][m].conn \in kept'
  BY DEF Guarded, NextIsGuard
<1>2. Types /\ Guarded
  BY DEF Core
<1>3. CASE k = l /\ m \in DOMAIN new /\ line'[k][m] = new[m]
  <2>1. \A n \in DOMAIN new : n \in DOMAIN line'[l] /\ line'[l][n] = new[n]
    BY <1>2, DoesIndex
  <2> QED
    BY <1>3, <2>1
<1>4. CASE k # l
  BY <1>2, <1>4 DEF Guarded, NextIsGuard, Does, Puts
<1>5. ASSUME k = l, NEW n \in DOMAIN line[k], n > 1, m = Len(new) + n - 1,
             line'[k][m] = line[k][n]
      PROVE  /\ line'[k][m].op = "channel_remove" => Next1(k, m)
             /\ line'[k][m].op = "force_close" =>
                    \/ Next1(k, m)
                    \/ "force_close" \in Foreign /\ line'[k][m].conn \in kept'
  <2>1. ASSUME NextIsGuard(k, n) PROVE Next1(k, m)
    <3>1. n + 1 \in DOMAIN line[l] /\ line[l][n + 1] = C("guard", line[l][n].conn)
      BY <1>5, <2>1 DEF NextIsGuard
    <3>2. n \in Nat /\ Len(new) \in Nat
      BY <1>2, <1>5, DoesLater
    <3>3. n + 1 > 1 /\ Len(new) + (n + 1) - 1 = m + 1
      BY <1>5, <3>2
    <3>4. Len(new) + (n + 1) - 1 \in DOMAIN line'[l]
          /\ line'[l][Len(new) + (n + 1) - 1] = line[l][n + 1]
      BY <1>2, <3>1, <3>3, DoesLater
    <3> QED
      BY <1>5, <3>1, <3>3, <3>4
  <2> QED
    BY <1>2, <1>5, <2>1 DEF Guarded
<1> QED
  BY <1>2, <1>3, <1>4, <1>5, DoesEntries

LEMMA GuardedConn ==
    ASSUME Core, NEW l \in Loop, NEW c \in Conn, ConnEffects(l, c)
    PROVE  Guarded'
<1> DEFINE Fine(new) == \A n \in DOMAIN new :
               new[n].op \in {"channel_remove", "force_close"} =>
                  n + 1 \in DOMAIN new /\ new[n + 1] = C("guard", new[n].conn)
<1>0. kept \subseteq kept'
  BY DEF ConnEffects, Establishes, Closes, ShutsDown, Removes, Returns, Expands
<1>1. SUFFICES \E op, new : Does(l, op, c, new) /\ Fine(new)
  BY <1>0, GuardedDoes
<1>2. Fine(<< >>)
  OBVIOUS
<1>3. \A o \in {"callback", "handle_close"} : Fine(<<C(o, c)>>)
  BY CallFields
<1>4. \A o \in {"channel_remove", "force_close"} : Fine(<<C(o, c), C("guard", c)>>)
  BY CallFields
<1>5. Fine(<<C("callback", c), C("close_cb", c), C("guard", c)>>)
  BY CallFields
<1> HIDE DEF Fine
<1>6. CASE Establishes(l, c)
  BY <1>3, <1>6 DEF Establishes
<1>7. CASE Closes(l, c)
  BY <1>5, <1>7 DEF Closes
<1>8. CASE ShutsDown(l, c) \/ Removes(l, c) \/ \E op : Returns(l, op, c)
  BY <1>2, <1>8 DEF ShutsDown, Removes, Returns
<1>9. CASE \E op, new : Expands(l, op, c, new)
  BY <1>3, <1>4, <1>9 DEF Expands
<1> QED
  BY <1>6, <1>7, <1>8, <1>9 DEF ConnEffects

LEMMA HandledFirstConn ==
    ASSUME Core, NEW l \in Loop, NEW c \in Conn, ConnEffects(l, c)
    PROVE  HandledFirst'
<1>1. PICK op, new :
         /\ Does(l, op, c, new)
         /\ \A n \in DOMAIN new :
               /\ new[n].conn = c
               /\ new[n].op \in {"callback", "close_cb", "guard", "handle_close",
                                 "channel_remove", "force_close"}
  BY NewCalls
<1>2. Types /\ HandledFirst
  BY DEF Core
<1>3. mc_connections' = mc_connections
  BY <1>1 DEF Does
<1>4. SUFFICES ASSUME NEW k \in Loop, NEW m \in DOMAIN line'[k], line'[k][m].op \in Handler
               PROVE  \/ line'[k][m].conn \in mc_connections
                      \/ \E p \in DOMAIN line'[k] :
                            p > m /\ line'[k][p] = C("connect_destroy", line'[k][m].conn)
  BY <1>3 DEF HandledFirst
<1>5. ~(k = l /\ m \in DOMAIN new /\ line'[k][m] = new[m])
  BY <1>1, <1>4 DEF Handler
<1>6. CASE k # l
  BY <1>1, <1>2, <1>4, <1>6 DEF HandledFirst, Does, Puts
<1>7. ASSUME k = l, NEW n \in DOMAIN line[k], n > 1, m = Len(new) + n - 1,
             line'[k][m] = line[k][n]
      PROVE  \/ line'[k][m].conn \in mc_connections
             \/ \E p \in DOMAIN line'[k] :
                   p > m /\ line'[k][p] = C("connect_destroy", line'[k][m].conn)
  <2>1. CASE line[k][n].conn \in mc_connections
    BY <1>7, <2>1
  <2>2. ASSUME NEW q \in DOMAIN line[k], q > n,
               line[k][q] = C("connect_destroy", line[k][n].conn)
        PROVE  \E p \in DOMAIN line'[k] :
                  p > m /\ line'[k][p] = C("connect_destroy", line'[k][m].conn)
    <3>0. n \in Nat /\ Len(new) \in Nat
      BY <1>1, <1>2, <1>7, DoesLater
    <3>1. q \in 1 .. Len(line[l]) /\ Len(line[l]) \in Nat
      BY <1>1, <1>2, <1>7, <2>2, DoesIndex
    <3>2. q > 1 /\ Len(new) + q - 1 > m
      BY <1>7, <2>2, <3>0, <3>1
    <3>3. Len(new) + q - 1 \in DOMAIN line'[l] /\ line'[l][Len(new) + q - 1] = line[l][q]
      BY <1>1, <1>2, <1>7, <2>2, <3>2, DoesLater
    <3> QED
      BY <1>7, <2>2, <3>2, <3>3
  <2> QED
    BY <1>2, <1>4, <1>7, <2>1, <2>2 DEF HandledFirst
<1> QED
  BY <1>1, <1>2, <1>5, <1>6, <1>7, DoesEntries

\* A connection the step is not about.
LEMMA StageStays ==
    ASSUME NEW c, Stage(c), m_status'[c] = m_status[c], events'[c] = events[c],
           c \in mc_connections' <=> c \in mc_connections, c \in kept' => c \in kept,
           c \in registered' <=> c \in registered,
           \A l \in Loop : c \in spent'[l] => c \in spent[l] \/ m_status[c] # "none",
           Removing(c) => Removing(c)', Closing(c) => Closing(c)'
    PROVE  Stage(c)'
BY DEF Stage

LEMMA HandOversKept ==
    ASSUME NEW c, \A l \in Loop, op \in MyOp : In(l, C(op, c)) => In(l, C(op, c))'
    PROVE  (Removing(c) => Removing(c)') /\ (Closing(c) => Closing(c)')
BY DEF Removing, Closing, MyOp

LEMMA StagesConn ==
    ASSUME Core, Types', NEW l \in Loop, NEW c \in Conn, ConnEffects(l, c)
    PROVE  Stages'
<1> USE DEF Open
<1>0. Types /\ Stages /\ Agreed
  BY DEF Core
<1>1. PICK op, new : Does(l, op, c, new)
  BY NewCalls
<1>2. mc_connections' = mc_connections /\ spent' = spent
  BY <1>1 DEF Does
<1>3. ASSUME NEW d \in Conn, d # c PROVE Stage(d)'
  <2>1. \A o : C(o, d) # C(op, c)
    BY <1>3, CallFields
  <2>2. \A k \in Loop, o \in MyOp : In(k, C(o, d)) => In(k, C(o, d))'
    BY <1>0, <1>1, <2>1, DoesKeeps
  <2>3. (Removing(d) => Removing(d)') /\ (Closing(d) => Closing(d)')
    BY <2>2, HandOversKept
  <2>4. m_status'[d] = m_status[d]
    BY <1>0, <1>3, NewStatus
  <2>5. events'[d] = events[d] /\ (d \in kept' => d \in kept)
        /\ (d \in registered' <=> d \in registered)
    BY <1>0, <1>3 DEF ConnEffects, Establishes, Closes, ShutsDown, Removes, Returns,
                      Expands, Types
  <2> QED
    BY <1>0, <1>2, <2>3, <2>4, <2>5, StageStays DEF Stages
<1>4. Stage(c)
  BY <1>0 DEF Stages
<1>5. \A o, s : Does(l, o, c, s) => Agrees(C(o, c), m_status[c], mc_connections)
  BY <1>0, CallFields DEF Does, Agreed
<1>6. ASSUME Establishes(l, c) PROVE Stage(c)'
  <2>1. m_status'[c] = "connected" /\ events'[c] = events[c] \union {"read"}
        /\ c \in registered' /\ kept' = kept
    BY <1>0, <1>6 DEF Establishes, Types
  <2>2. m_status[c] = "connecting"
    BY <1>5, <1>6, CallFields DEF Establishes, Agrees
  <2> QED
    BY <1>2, <1>4, <2>1, <2>2 DEF Stage
<1>7. ASSUME Closes(l, c) PROVE Stage(c)'
  <2> DEFINE s == <<C("callback", c), C("close_cb", c), C("guard", c)>>
  <2>1. m_status'[c] = "disconnected" /\ events'[c] = {}
        /\ registered' = registered /\ kept' = kept
    BY <1>0, <1>7 DEF Closes, Types
  <2>2. m_status[c] \in Open
    BY <1>5, <1>7, CallFields DEF Closes, Agrees
  <2>3. Closing(c)'
    <3>1. Does(l, "handle_close", c, s) /\ 2 \in DOMAIN s /\ s[2] = C("close_cb", c)
      BY <1>7 DEF Closes
    <3>2. In(l, s[2])'
      BY <1>0, <3>1, DoesPuts
    <3>3. In(l, C("close_cb", c))'
      BY <3>1, <3>2 DEF In
    <3> QED
      BY <3>3 DEF Closing
  <2> QED
    BY <1>2, <1>4, <2>1, <2>2, <2>3 DEF Stage
<1>8. ASSUME ShutsDown(l, c) PROVE Stage(c)'
  <2>1. m_status[c] = "connected" /\ m_status'[c] = "disconnecting"
        /\ events' = events /\ registered' = registered /\ kept' = kept
    BY <1>0, <1>8 DEF ShutsDown, Types
  <2> QED
    BY <1>2, <1>4, <2>1 DEF Stage
<1>9. ASSUME Removes(l, c) PROVE Stage(c)'
  <2>1. m_status' = m_status /\ events' = events /\ registered' = registered \ {c}
        /\ kept' = kept
    BY <1>9 DEF Removes
  <2>2. m_status[c] = "disconnected" /\ c \notin mc_connections
    BY <1>5, <1>9, CallFields DEF Removes, Agrees
  <2> QED
    BY <1>2, <1>4, <2>1, <2>2 DEF Stage
<1>10. ASSUME NEW o, Returns(l, o, c) PROVE Stage(c)'
  <2>0. Does(l, o, c, << >>) /\ o \notin MyOp
    BY <1>10 DEF Returns
  <2>1. m_status' = m_status /\ registered' = registered
        /\ (c \in kept' => c \in kept \/ o = "callback")
    BY <1>10 DEF Returns
  <2>2. \/ events'[c] = events[c]
        \/ events'[c] = events[c] \ {"write"}
        \/ /\ "send" \in InCallback /\ m_status[c] = "connected"
           /\ events'[c] = events[c] \union {"write"}
        \/ "send" \notin InCallback /\ events'[c] = events[c] \ {"read"}
    BY <1>0, <1>10 DEF Returns, Types
  <2>3. m_status[c] \notin {"none", "connecting"}
    BY <1>5, <2>0, CallFields DEF Agrees, MyOp
  <2>4. \A k \in Loop, p \in MyOp : In(k, C(p, c)) => In(k, C(p, c))'
    BY <1>0, <2>0, CallFields, DoesKeeps
  <2>5. (Removing(c) => Removing(c)') /\ (Closing(c) => Closing(c)')
    BY <2>4, HandOversKept
  <2>6. /\ "send" \in InCallback /\ m_status[c] \in Open => "read" \in events'[c]
        /\ "write" \in events'[c] => "send" \in InCallback
        /\ events'[c] # {} =>
              m_status[c] \in Open /\ c \in registered /\ "read" \in events'[c]
    <3>1. events[c] \in SUBSET {"read", "write"}
      BY <1>0 DEF Types
    <3>2. "connected" \in Open
      OBVIOUS
    <3>3. /\ "send" \in InCallback /\ m_status[c] \in Open => "read" \in events[c]
          /\ "write" \in events[c] => "send" \in InCallback
          /\ events[c] # {} =>
                m_status[c] \in Open /\ c \in registered /\ "read" \in events[c]
          /\ m_status[c] \in Open /\ "read" \in events[c] => c \in registered
      BY <1>4 DEF Stage
    <3> HIDE DEF Open
    <3> QED
      BY <2>2, <3>1, <3>2, <3>3
  <2> QED
    BY <1>2, <1>4, <2>1, <2>3, <2>5, <2>6 DEF Stage
<1>11. ASSUME NEW o, NEW s, Expands(l, o, c, s) PROVE Stage(c)'
  <2>1. Does(l, o, c, s) /\ UNCHANGED <<m_status, events, registered, kept>>
    BY <1>11 DEF Expands
  <2>2. Closing(c) => Closing(c)'
    <3>1. o \notin {"close_cb", "remove_conn"}
      BY <1>11 DEF Expands
    <3>2. \A k \in Loop, p \in {"close_cb", "remove_conn"} : In(k, C(p, c)) => In(k, C(p, c))'
      BY <1>0, <2>1, <3>1, CallFields, DoesKeeps
    <3> QED
      BY <3>2 DEF Closing
  <2>3. Removing(c) => Removing(c)'
    <3>1. CASE o = "connect_destroy"
      <4>1. s = <<C("channel_remove", c), C("guard", c)>>
        BY <1>11, <3>1 DEF Expands
      <4>2. 1 \in DOMAIN s /\ s[1] = C("channel_remove", c)
        BY <4>1
      <4>3. In(l, s[1])'
        BY <1>0, <2>1, <4>2, DoesPuts
      <4>4. In(l, C("channel_remove", c))'
        BY <4>2, <4>3 DEF In
      <4> QED
        BY <4>4 DEF Removing
    <3>2. CASE o # "connect_destroy"
      <4>1. o # "channel_remove"
        BY <1>11 DEF Expands
      <4>2. \A k \in Loop, p \in {"connect_destroy", "channel_remove"} :
               In(k, C(p, c)) => In(k, C(p, c))'
        BY <1>0, <2>1, <3>2, <4>1, CallFields, DoesKeeps
      <4> QED
        BY <4>2 DEF Removing
    <3> QED
      BY <3>1, <3>2
  <2> QED
    BY <1>2, <1>4, <2>1, <2>2, <2>3 DEF Stage
<1>12. Stage(c)'
  BY <1>6, <1>7, <1>8, <1>9, <1>10, <1>11 DEF ConnEffects
<1> QED
  BY <1>3, <1>12 DEF Stages

LEMMA DoesCalls ==
    ASSUME Types, NEW l \in Loop, NEW op, NEW c, NEW new, Does(l, op, c, new),
           NEW k \in Loop, NEW m \in DOMAIN calls'[k]
    PROVE  \/ m \in DOMAIN new /\ calls'[k][m] = new[m]
           \/ \E n \in DOMAIN calls[k] : calls'[k][m] = calls[k][n]
<1>0. << >> \in Seq(Call)
  OBVIOUS
<1>1. calls[l] \in Seq(Call) /\ calls[l] # << >> /\ new \in Seq(Call)
  BY SeqTypes DEF Does
<1>2. /\ calls'[l] = new \o Tail(calls[l])
      /\ k # l => calls'[k] = calls[k]
  BY DEF Does, Types
<1>3. CASE k # l
  BY <1>2, <1>3
<1>4. CASE k = l
  <2>1. Tail(calls[l]) \in Seq(Call) /\ Len(Tail(calls[l])) = Len(calls[l]) - 1
        /\ \A n \in 1 .. Len(calls[l]) - 1 : Tail(calls[l])[n] = calls[l][n + 1]
    BY <1>0, <1>1, FrontOf
  <2>2. /\ DOMAIN calls'[l] = 1 .. Len(new) + (Len(calls[l]) - 1)
        /\ Len(new) \in Nat /\ DOMAIN new = 1 .. Len(new)
        /\ \A n \in 1 .. Len(new) : calls'[l][n] = new[n]
        /\ \A n \in 1 .. Len(calls[l]) - 1 : calls'[l][Len(new) + n] = Tail(calls[l])[n]
    BY <1>1, <1>2, <2>1, Concat
  <2>3. DOMAIN calls[l] = 1 .. Len(calls[l]) /\ Len(calls[l]) \in Nat
    BY <1>1
  <2>4. CASE m \in 1 .. Len(new)
    BY <1>4, <2>2, <2>4
  <2>5. CASE m \notin 1 .. Len(new)
    <3>1. m - Len(new) \in 1 .. Len(calls[l]) - 1 /\ Len(new) + (m - Len(new)) = m
          /\ m - Len(new) + 1 \in 1 .. Len(calls[l])
      BY <1>4, <2>2, <2>3, <2>5
    <3>2. calls'[l][m] = calls[l][m - Len(new) + 1]
      BY <2>1, <2>2, <3>1
    <3> QED
      BY <1>4, <2>3, <3>1, <3>2
  <2> QED
    BY <2>4, <2>5
<1> QED
  BY <1>3, <1>4

LEMMA EventsConn ==
    ASSUME Core, NEW l \in Loop, NEW c \in Conn, ConnEffects(l, c)
    PROVE  Events'
<1>0. Types /\ Events
  BY DEF Core
<1>1. PICK op, new :
         /\ Does(l, op, c, new)
         /\ \A n \in DOMAIN new :
               /\ new[n].conn = c
               /\ new[n].op \in {"callback", "close_cb", "guard", "handle_close",
                                 "channel_remove", "force_close"}
  BY NewCalls
<1>2. active' = active /\ phase' = phase /\ loop' = loop
  BY <1>1 DEF Does
<1>3. SUFFICES ASSUME NEW d \in Conn, active[d] # {}
               PROVE  /\ m_status'[d] \in Open
                      /\ phase[loop[d]] = "events"
                      /\ "HUP" \in active[d] => "IN" \in active[d]
                      /\ \A k \in Loop : \A m \in DOMAIN calls'[k] : calls'[k][m].conn # d
  BY <1>2 DEF Events
<1>4. /\ m_status[d] \in Open
      /\ phase[loop[d]] = "events"
      /\ "HUP" \in active[d] => "IN" \in active[d]
      /\ \A k \in Loop : \A m \in DOMAIN calls[k] : calls[k][m].conn # d
  BY <1>0, <1>3 DEF Events
<1>5. d # c
  <2>0. calls[l] \in Seq(Call)
    BY <1>0, SeqTypes
  <2>1. calls[l] # << >> /\ Head(calls[l]).conn = c
    BY <1>1, CallFields DEF Does
  <2>2. 1 \in DOMAIN calls[l] /\ calls[l][1] = Head(calls[l])
    BY <2>0, <2>1
  <2> QED
    BY <1>4, <2>1, <2>2
<1>6. m_status'[d] = m_status[d]
  BY <1>0, <1>5, NewStatus
<1>7. \A k \in Loop : \A m \in DOMAIN calls'[k] : calls'[k][m].conn # d
  BY <1>0, <1>1, <1>4, <1>5, DoesCalls
<1> QED
  BY <1>4, <1>6, <1>7

LEMMA RoundsConn ==
    ASSUME Core, NEW l \in Loop, NEW c \in Conn, ConnEffects(l, c)
    PROVE  Rounds' /\ Queues' /\ Calling'
<1>0. Types /\ Rounds /\ Queues /\ Calling
  BY DEF Core
<1>1. PICK op, new : Does(l, op, c, new)
  BY NewCalls
<1>2. phase' = phase /\ batch' = batch /\ pending' = pending /\ calls[l] # << >>
      /\ \A k \in Loop : k # l => calls'[k] = calls[k]
  BY <1>0, <1>1 DEF Does, Types
<1>3. Rounds'
  BY <1>0, <1>2 DEF Rounds
<1>4. kept \subseteq kept'
  BY DEF ConnEffects, Establishes, Closes, ShutsDown, Removes, Returns, Expands
<1>5. Calling'
  BY <1>0, <1>2, <1>4 DEF Calling
<1>6. Queues'
  BY <1>0, <1>1 DEF Queues, Does
<1> QED
  BY <1>3, <1>5, <1>6

\* A step of a connection runs in its loop.
LEMMA HomeConn ==
    ASSUME Placed, NEW l \in Loop, NEW c \in Conn, ConnEffects(l, c)
    PROVE  l = loop[c]
<1>1. PICK op, new : Does(l, op, c, new) /\ op # "remove_conn"
  BY DEF ConnEffects, Establishes, Closes, ShutsDown, Removes, Returns, Expands, MyOp
<1> QED
  BY <1>1, AtHome

LEMMA CoreConn ==
    ASSUME SafeUse, Core, NEW l \in Loop, ConnStep(l)
    PROVE  Core'
<1>1. Types /\ Agreed /\ Placed
  BY DEF Core
<1>2. Types'
  BY <1>1, TypesConn
<1>3. PICK c \in Conn : ConnEffects(l, c)
  BY <1>1, <1>2, ConnEffect DEF ConnEffects
<1>4. l = loop[c]
  BY <1>1, <1>3, HomeConn
<1> QED
  BY <1>2, <1>3, <1>4, PlacedConn, AgreedConn, OneHandOverConn, ClosesFirstConn,
     GuardedConn, HandledFirstConn, StagesConn, EventsConn, RoundsConn DEF Core

-----------------------------------------------------------------------------
(* The steps that leave the lines, the map and the channels alone.         *)

LEMMA LineStays ==
    ASSUME Core, \A k \in Loop : line'[k] = line[k],
           UNCHANGED <<m_status, mc_connections, loop>>
    PROVE  Placed' /\ Agreed' /\ OneHandOver' /\ ClosesFirst' /\ HandledFirst'
<1>1. Placed'
  BY DEF Core, Placed, Home
<1>2. Agreed'
  BY DEF Core, Agreed
<1>3. OneHandOver'
  BY DEF Core, OneHandOver
<1>4. ClosesFirst'
  BY DEF Core, ClosesFirst
<1>5. HandledFirst'
  BY DEF Core, HandledFirst
<1> QED
  BY <1>1, <1>2, <1>3, <1>4, <1>5

LEMMA GuardedStays ==
    ASSUME Guarded, \A k \in Loop : line'[k] = line[k],
           \A k \in Loop : \A n \in DOMAIN line[k] :
              line[k][n].op = "force_close" /\ line[k][n].conn \in kept
                 => NextIsGuard(k, n) \/ line[k][n].conn \in kept'
    PROVE  Guarded'
<1>1. ASSUME NEW k \in Loop, NEW n \in DOMAIN line'[k]
      PROVE  n \in DOMAIN line[k] /\ line'[k][n] = line[k][n]
             /\ (NextIsGuard(k, n) => n + 1 \in DOMAIN line'[k]
                    /\ line'[k][n + 1] = C("guard", line'[k][n].conn))
  BY <1>1 DEF NextIsGuard
<1> QED
  BY <1>1 DEF Guarded, NextIsGuard

LEMMA StagesStay ==
    ASSUME Stages, \A k \in Loop : line'[k] = line[k],
           UNCHANGED <<m_status, mc_connections, events, registered>>,
           kept' \subseteq kept,
           \A l \in Loop, c \in Conn :
              c \in spent'[l] => c \in spent[l] \/ m_status[c] # "none"
    PROVE  Stages'
<1>1. SUFFICES ASSUME NEW c \in Conn PROVE Stage(c)'
  BY DEF Stages
<1>2. \A k \in Loop, op \in MyOp : In(k, C(op, c)) => In(k, C(op, c))'
  BY DEF In
<1>3. (Removing(c) => Removing(c)') /\ (Closing(c) => Closing(c)')
  BY <1>2, HandOversKept
<1>4. Stage(c)
  BY DEF Stages
<1> QED
  BY <1>3, <1>4, StageStays

-----------------------------------------------------------------------------
(* The steps that put a call at the end of a line, or in front of it.      *)

\* Where the entries stand after a call came at the end of the line k,
LEMMA AddsEntries ==
    ASSUME Types, NEW k \in Loop, NEW x \in Call, Adds(k, x), NEW j \in Loop
    PROVE  /\ \A m \in DOMAIN line'[j] :
                 \/ j = k /\ m = Len(line[k]) + 1 /\ line'[j][m] = x
                 \/ m \in DOMAIN line[j] /\ line'[j][m] = line[j][m]
           /\ \A n \in DOMAIN line[j] : n \in DOMAIN line'[j] /\ line'[j][n] = line[j][n]
           /\ j = k => /\ Len(line[k]) + 1 \in DOMAIN line'[k]
                       /\ line'[k][Len(line[k]) + 1] = x
           /\ DOMAIN line[j] = 1 .. Len(line[j]) /\ Len(line[j]) \in Nat
<1>1. line[j] \in Seq(Call)
  BY SeqTypes
<1>2. DOMAIN line[j] = 1 .. Len(line[j]) /\ Len(line[j]) \in Nat
  BY <1>1
<1>3. CASE j # k
  BY <1>2, <1>3 DEF Adds
<1>4. CASE j = k
  <2>1. line'[k] = Append(line[k], x)
    BY DEF Adds
  <2>2. DOMAIN line'[k] = 1 .. Len(line[k]) + 1 /\ line'[k][Len(line[k]) + 1] = x
        /\ \A n \in 1 .. Len(line[k]) : line'[k][n] = line[k][n]
    BY <1>1, <1>4, <2>1
  <2> QED
    BY <1>2, <1>4, <2>2
<1> QED
  BY <1>3, <1>4

\* after the first of l became the last of k,
LEMMA HandsEntries ==
    ASSUME Types, NEW l \in Loop, NEW k \in Loop, NEW x \in Call, HandsOver(l, k, x),
           1 \in DOMAIN line[l], NEW j \in Loop
    PROVE  /\ \A m \in DOMAIN line'[j] :
                 \/ j = k /\ m = Len(line[k]) + 1 /\ line'[j][m] = x
                 \/ j # l /\ m \in DOMAIN line[j] /\ line'[j][m] = line[j][m]
                 \/ j = l /\ m + 1 \in DOMAIN line[l] /\ line'[j][m] = line[l][m + 1]
           /\ j # l => \A n \in DOMAIN line[j] :
                 n \in DOMAIN line'[j] /\ line'[j][n] = line[j][n]
           /\ j = l => \A n \in DOMAIN line[j] :
                 n = 1 \/ (n - 1 \in DOMAIN line'[j] /\ line'[j][n - 1] = line[j][n])
           /\ j = k => /\ Len(line[k]) + 1 \in DOMAIN line'[k]
                       /\ line'[k][Len(line[k]) + 1] = x
           /\ DOMAIN line[j] = 1 .. Len(line[j]) /\ Len(line[j]) \in Nat
           /\ DOMAIN line'[j] \subseteq Nat \ {0}
<1>0. << >> \in Seq(Call)
  OBVIOUS
<1>1. line[j] \in Seq(Call)
  BY SeqTypes
<1>2. DOMAIN line[j] = 1 .. Len(line[j]) /\ Len(line[j]) \in Nat /\ l # k
  BY <1>1 DEF HandsOver
<1>3. CASE j # k /\ j # l
  BY <1>2, <1>3 DEF HandsOver
<1>4. CASE j = k
  <2>1. line'[k] = Append(line[k], x)
    BY DEF HandsOver
  <2>2. DOMAIN line'[k] = 1 .. Len(line[k]) + 1 /\ line'[k][Len(line[k]) + 1] = x
        /\ \A n \in 1 .. Len(line[k]) : line'[k][n] = line[k][n]
    BY <1>1, <1>4, <2>1
  <2> QED
    BY <1>2, <1>4, <2>2
<1>5. CASE j = l
  <2>1. line'[l] = Tail(line[l])
    BY DEF HandsOver
  <2>2. line[l] # << >>
    BY <1>1, <1>5
  <2>3. /\ Tail(line[l]) \in Seq(Call) /\ Len(Tail(line[l])) = Len(line[l]) - 1
        /\ \A n \in 1 .. Len(line[l]) - 1 : Tail(line[l])[n] = line[l][n + 1]
    BY <1>0, <1>1, <1>5, <2>2, FrontOf
  <2>4. DOMAIN line'[l] = 1 .. Len(line[l]) - 1
    BY <2>1, <2>3
  <2>5. \A m \in DOMAIN line'[l] : m + 1 \in DOMAIN line[l] /\ line'[l][m] = line[l][m + 1]
    BY <1>2, <1>5, <2>1, <2>3, <2>4
  <2>6. ASSUME NEW n \in DOMAIN line[l], n # 1
        PROVE  n - 1 \in DOMAIN line'[l] /\ line'[l][n - 1] = line[l][n]
    <3>1. n - 1 \in 1 .. Len(line[l]) - 1 /\ (n - 1) + 1 = n
      BY <1>2, <1>5, <2>6
    <3> QED
      BY <2>1, <2>3, <2>4, <3>1
  <2> QED
    BY <1>2, <1>5, <2>4, <2>5, <2>6
<1> QED
  BY <1>3, <1>4, <1>5

\* and after calls came in front of the line l.
LEMMA PushesEntries ==
    ASSUME Types, NEW l \in Loop, NEW new \in Seq(Call), Pushes(l, new), NEW j \in Loop
    PROVE  /\ \A m \in DOMAIN line'[j] :
                 \/ j = l /\ m \in DOMAIN new /\ line'[j][m] = new[m]
                 \/ j = l /\ \E n \in DOMAIN line[j] :
                                m = Len(new) + n /\ line'[j][m] = line[j][n]
                 \/ j # l /\ m \in DOMAIN line[j] /\ line'[j][m] = line[j][m]
           /\ j # l => \A n \in DOMAIN line[j] :
                 n \in DOMAIN line'[j] /\ line'[j][n] = line[j][n]
           /\ j = l => \A n \in DOMAIN line[j] :
                 Len(new) + n \in DOMAIN line'[j] /\ line'[j][Len(new) + n] = line[j][n]
           /\ j = l => \A n \in DOMAIN new : n \in DOMAIN line'[j] /\ line'[j][n] = new[n]
           /\ DOMAIN line[j] = 1 .. Len(line[j]) /\ Len(line[j]) \in Nat
           /\ DOMAIN new = 1 .. Len(new) /\ Len(new) \in Nat
<1>1. line[j] \in Seq(Call)
  BY SeqTypes
<1>2. /\ DOMAIN line[j] = 1 .. Len(line[j]) /\ Len(line[j]) \in Nat
      /\ DOMAIN new = 1 .. Len(new) /\ Len(new) \in Nat
  BY <1>1
<1>3. CASE j # l
  BY <1>2, <1>3 DEF Pushes
<1>4. CASE j = l
  <2>1. line'[l] = new \o line[l]
    BY DEF Pushes
  <2>2. /\ DOMAIN line'[l] = 1 .. Len(new) + Len(line[l])
        /\ \A n \in 1 .. Len(new) : line'[l][n] = new[n]
        /\ \A n \in 1 .. Len(line[l]) : line'[l][Len(new) + n] = line[l][n]
    BY <1>1, <1>4, <2>1, Concat
  <2>3. ASSUME NEW m \in DOMAIN line'[l], m \notin DOMAIN new
        PROVE  \E n \in DOMAIN line[l] : m = Len(new) + n /\ line'[l][m] = line[l][n]
    <3>1. m - Len(new) \in 1 .. Len(line[l]) /\ Len(new) + (m - Len(new)) = m
      BY <1>2, <1>4, <2>2, <2>3
    <3> QED
      BY <1>2, <1>4, <2>2, <3>1
  <2>4. \A n \in 1 .. Len(line[l]) : Len(new) + n \in 1 .. Len(new) + Len(line[l])
    BY <1>2, <1>4
  <2>5. \A n \in DOMAIN line[l] :
           Len(new) + n \in DOMAIN line'[l] /\ line'[l][Len(new) + n] = line[l][n]
    BY <1>2, <1>4, <2>2, <2>4
  <2>6. \A n \in DOMAIN new : n \in DOMAIN line'[l] /\ line'[l][n] = new[n]
    BY <1>2, <1>4, <2>2
  <2> QED
    BY <1>2, <1>4, <2>2, <2>3, <2>5, <2>6
<1> QED
  BY <1>3, <1>4

-----------------------------------------------------------------------------
(* What is in a line, whatever the order.                                  *)

Within(s, x) == \E n \in DOMAIN s : s[n] = x

LEMMA WithinConcat ==
    ASSUME NEW s \in Seq(Call), NEW t \in Seq(Call), NEW x
    PROVE  Within(s \o t, x) <=> Within(s, x) \/ Within(t, x)
<1>0. /\ Len(s) \in Nat /\ Len(t) \in Nat
      /\ DOMAIN s = 1 .. Len(s) /\ DOMAIN t = 1 .. Len(t)
      /\ DOMAIN (s \o t) = 1 .. Len(s) + Len(t)
      /\ \A n \in 1 .. Len(s) : (s \o t)[n] = s[n]
      /\ \A n \in 1 .. Len(t) : (s \o t)[Len(s) + n] = t[n]
  BY Concat
<1>1. ASSUME NEW n \in DOMAIN (s \o t) PROVE Within(s, (s \o t)[n]) \/ Within(t, (s \o t)[n])
  <2>1. CASE n \in 1 .. Len(s)
    BY <1>0, <2>1 DEF Within
  <2>2. CASE n \notin 1 .. Len(s)
    <3>1. n - Len(s) \in 1 .. Len(t) /\ Len(s) + (n - Len(s)) = n
      BY <1>0, <1>1, <2>2
    <3> QED
      BY <1>0, <3>1 DEF Within
  <2> QED
    BY <2>1, <2>2
<1>2. Within(s, x) => Within(s \o t, x)
  <2>1. \A n \in 1 .. Len(s) : n \in 1 .. Len(s) + Len(t)
    BY <1>0
  <2> QED
    BY <1>0, <2>1 DEF Within
<1>3. Within(t, x) => Within(s \o t, x)
  <2>1. \A n \in 1 .. Len(t) : Len(s) + n \in 1 .. Len(s) + Len(t)
    BY <1>0
  <2> QED
    BY <1>0, <2>1 DEF Within
<1>4. Within(s \o t, x) => Within(s, x) \/ Within(t, x)
  BY <1>1 DEF Within
<1> QED
  BY <1>2, <1>3, <1>4

LEMMA InParts ==
    ASSUME Types, NEW l \in Loop, NEW x
    PROVE  /\ In(l, x) <=> Within(calls[l], x) \/ Within(batch[l], x) \/ Within(tasks[l], x)
           /\ In(l, x) <=> Within(tasks[l] \o batch[l] \o calls[l], x)
<1>1. /\ calls[l] \in Seq(Call) /\ batch[l] \in Seq(Call) /\ tasks[l] \in Seq(Call)
      /\ line[l] = calls[l] \o (batch[l] \o tasks[l])
  BY SeqTypes
<1>2. batch[l] \o tasks[l] \in Seq(Call) /\ tasks[l] \o batch[l] \in Seq(Call)
  BY <1>1
<1>3. Within(batch[l] \o tasks[l], x) <=> Within(batch[l], x) \/ Within(tasks[l], x)
  BY <1>1, WithinConcat
<1>4. Within(tasks[l] \o batch[l], x) <=> Within(tasks[l], x) \/ Within(batch[l], x)
  BY <1>1, WithinConcat
<1>5. Within(calls[l] \o (batch[l] \o tasks[l]), x)
      <=> Within(calls[l], x) \/ Within(batch[l] \o tasks[l], x)
  BY <1>1, <1>2, WithinConcat
<1>6. Within((tasks[l] \o batch[l]) \o calls[l], x)
      <=> Within(tasks[l] \o batch[l], x) \/ Within(calls[l], x)
  BY <1>1, <1>2, WithinConcat
<1>7. In(l, x) <=> Within(line[l], x)
  BY DEF In, Within
<1> QED
  BY <1>1, <1>3, <1>4, <1>5, <1>6, <1>7

LEMMA CallsInLine ==
    ASSUME Types, NEW l \in Loop, NEW n \in DOMAIN calls[l]
    PROVE  In(l, calls[l][n])
<1>1. Within(calls[l], calls[l][n])
  BY DEF Within
<1> QED
  BY <1>1, InParts

\* Where the entries of a line are at home.
LEMMA InHome ==
    ASSUME Placed, Agreed, NEW l \in Loop, NEW x, In(l, x)
    PROVE  /\ x.op = "remove_conn" => l = Main /\ m_status[x.conn] = "disconnected"
           /\ x.op # "remove_conn" => l = loop[x.conn]
           /\ Agrees(x, m_status[x.conn], mc_connections)
BY DEF Placed, Home, Agreed, In, Agrees

\* A force_close in a line is one of the calls that keep UserDrops away.
LEMMA QueuedForceClose ==
    ASSUME Core, NEW k \in Loop, NEW n \in DOMAIN line[k],
           line[k][n].op = "force_close", "force_close" \in Foreign
    PROVE  Queued(line[k][n].conn)
<1> DEFINE x == line[k][n]
<1>1. Types /\ Placed
  BY DEF Core
<1>2. x \in Call /\ k = loop[x.conn]
  BY <1>1, LineCalls DEF Placed, Home
<1>3. Within(tasks[k] \o batch[k] \o calls[k], x)
  BY <1>1, InParts DEF In
<1>4. x \in [op : Foreign, conn : {x.conn}]
  BY <1>2 DEF Call
<1>5. x \in Range(tasks[k] \o batch[k] \o calls[k])
  BY <1>3 DEF Within, Range
<1> QED
  BY <1>2, <1>4, <1>5 DEF Queued

-----------------------------------------------------------------------------
(* The invariant through the loop's own steps and the user's.              *)

LEMMA CoreQuiet ==
    ASSUME Core, Types', \A k \in Loop : line'[k] = line[k],
           UNCHANGED <<m_status, mc_connections, loop, events, registered>>,
           kept' = kept,
           \A l \in Loop, c \in Conn :
              c \in spent'[l] => c \in spent[l] \/ m_status[c] # "none",
           Events', Rounds', Queues', Calling'
    PROVE  Core'
<1>1. Guarded'
  BY GuardedStays DEF Core
<1>2. Stages'
  BY StagesStay DEF Core
<1> QED
  BY <1>1, <1>2, LineStays DEF Core

LEMMA CorePoll ==
    ASSUME Core, NEW l \in Loop, Poll(l)
    PROVE  Core'
<1> USE DEF channels
<1>0. Types /\ Rounds /\ Queues /\ Events /\ Calling /\ Stages /\ Placed /\ Agreed
  BY DEF Core
<1>1. Types'
  BY <1>0, TypesLoop
<1>2. \A k \in Loop : line'[k] = line[k]
  BY DEF Poll, line
<1>3. calls[l] = << >> /\ phase[l] = "poll" /\ batch[l] = << >>
  BY <1>0 DEF Poll, Rounds
<1>4. phase'[l] = "events" /\ \A k \in Loop : k # l => phase'[k] = phase[k]
  BY <1>0 DEF Poll, Types
<1>5. Rounds'
  BY <1>0, <1>3, <1>4 DEF Poll, Rounds
<1>6. ASSUME NEW c \in Conn, active'[c] # {}
      PROVE  /\ m_status[c] \in Open
             /\ phase'[loop[c]] = "events"
             /\ "HUP" \in active'[c] => "IN" \in active'[c]
             /\ \A k \in Loop : \A n \in DOMAIN calls[k] : calls[k][n].conn # c
  <2> DEFINE heard == {d \in registered \ deaf : loop[d] = l /\ events[d] # {}}
  <2>1. PICK more \in [heard -> SUBSET {"IN", "OUT"}] :
          active' = [d \in Conn |-> IF d \in heard THEN Due(d) \union more[d]
                                    ELSE active[d]]
    BY DEF Poll
  <2>2. CASE c \in heard
    <3>1. loop[c] = l /\ m_status[c] \in Open /\ "read" \in events[c]
      BY <1>0, <2>2 DEF Stages, Stage
    <3>2. active'[c] = Due(c) \union more[c] /\ "HUP" \notin more[c]
      BY <2>1, <2>2
    <3>3. "HUP" \in Due(c) => "IN" \in Due(c)
      BY <3>1 DEF Due
    <3>4. ASSUME NEW k \in Loop, NEW n \in DOMAIN calls[k], calls[k][n].conn = c
          PROVE  FALSE
      <4>1. In(k, calls[k][n])
        BY <1>0, CallsInLine
      <4>2. k = loop[c]
        BY <1>0, <3>1, <3>4, <4>1, InHome DEF Open
      <4> QED
        BY <1>3, <3>1, <3>4, <4>2
    <3> QED
      BY <1>4, <3>1, <3>2, <3>3, <3>4
  <2>3. CASE c \notin heard
    <3>1. active[c] # {} /\ active'[c] = active[c]
      BY <1>6, <2>1, <2>3
    <3>2. m_status[c] \in Open /\ phase[loop[c]] = "events"
          /\ ("HUP" \in active[c] => "IN" \in active[c])
          /\ \A k \in Loop : \A n \in DOMAIN calls[k] : calls[k][n].conn # c
      BY <1>0, <3>1 DEF Events
    <3>3. loop[c] # l /\ loop[c] \in Loop
      BY <1>0, <1>3, <3>2, LoopFacts DEF Types
    <3> QED
      BY <1>4, <3>1, <3>2, <3>3
  <2> QED
    BY <2>2, <2>3
<1>7. Events'
  BY <1>6 DEF Events, Poll
<1>8. Calling' /\ Queues' /\ kept' = kept /\ spent' = spent
      /\ UNCHANGED <<m_status, mc_connections, loop, events, registered>>
  BY <1>0 DEF Poll, Calling, Queues
<1> QED
  BY <1>1, <1>2, <1>5, <1>7, <1>8, CoreQuiet

LEMMA CoreSwap ==
    ASSUME Core, NEW l \in Loop, Swap(l)
    PROVE  Core'
<1> USE DEF channels
<1>0. Types /\ Rounds /\ Queues /\ Events /\ Calling
  BY DEF Core
<1>1. Types'
  BY <1>0, TypesLoop
<1>2. calls[l] = << >> /\ phase[l] = "events" /\ batch[l] = << >>
      /\ \A c \in Conn : loop[c] = l => active[c] = {}
  BY <1>0 DEF Swap, Between, Rounds
<1>3. Sets(batch, batch', l, tasks[l]) /\ Sets(tasks, tasks', l, << >>)
      /\ Sets(phase, phase', l, "tasks") /\ calls' = calls
  BY <1>0 DEF Swap, Types, Sets
<1>4. \A k \in Loop : line'[k] = line[k]
  BY <1>0, <1>2, <1>3, SwapLine
<1>5. Rounds'
  BY <1>0, <1>3 DEF Rounds, Sets
<1>6. UNCHANGED <<m_status, mc_connections, loop, events, registered, active, kept, spent,
                  pending>>
  BY DEF Swap
<1>7. Events'
  <2>1. ASSUME NEW c \in Conn, active[c] # {} PROVE phase'[loop[c]] = "events"
    <3>1. loop[c] \in Loop /\ loop[c] # l /\ phase[loop[c]] = "events"
      BY <1>0, <1>2, <2>1, LoopFacts DEF Types, Events
    <3> QED
      BY <1>3, <3>1 DEF Sets
  <2> QED
    BY <1>0, <1>3, <1>6, <2>1 DEF Events
<1>8. Calling'
  BY <1>0, <1>6 DEF Calling
<1>9. Queues'
  BY <1>0, <1>3 DEF Queues, Sets
<1> QED
  BY <1>1, <1>4, <1>5, <1>6, <1>7, <1>8, <1>9, CoreQuiet

LEMMA CoreRunTask ==
    ASSUME Core, NEW l \in Loop, RunTask(l)
    PROVE  Core'
<1> USE DEF channels, outside
<1>0. Types /\ Rounds /\ Queues /\ Events /\ Calling /\ Placed /\ Agreed
  BY DEF Core
<1>1. Types'
  BY <1>0, TypesLoop
<1>2. calls[l] = << >> /\ batch[l] # << >> /\ phase[l] = "tasks"
  <2>1. calls[l] = << >> /\ batch[l] # << >>
    BY DEF RunTask
  <2>2. phase[l] \in {"poll", "events", "tasks"}
    BY <1>0 DEF Types
  <2> QED
    BY <1>0, <2>1, <2>2 DEF Rounds
<1>3. Sets(calls, calls', l, <<Head(batch[l])>>) /\ Sets(batch, batch', l, Tail(batch[l]))
      /\ tasks' = tasks
  BY <1>0 DEF RunTask, Types, Sets
<1>4. /\ \A k \in Loop : line'[k] = line[k]
      /\ Head(batch[l]) \in Call /\ In(l, Head(batch[l]))
  BY <1>0, <1>2, <1>3, RunTaskLine DEF In
<1>5. UNCHANGED <<m_status, mc_connections, loop, events, registered, active, kept,
                  pending, phase>>
  BY DEF RunTask
<1>6. Rounds'
  BY <1>0, <1>2, <1>3, <1>5 DEF Rounds, Sets
<1>7. Agrees(Head(batch[l]), m_status[Head(batch[l]).conn], mc_connections)
  BY <1>0, <1>4, InHome
<1>8. \A k \in Loop, c \in Conn : c \in spent'[k] => c \in spent[k] \/ m_status[c] # "none"
  <2>1. \A k \in Loop : spent'[k] = spent[k]
              \/ spent'[k] = spent[k] \union {Head(batch[l]).conn}
    BY <1>0 DEF RunTask, Types
  <2> QED
    BY <1>7, <2>1 DEF Agrees
<1>9. Events'
  <2>1. SUFFICES ASSUME NEW c \in Conn, active[c] # {}, NEW k \in Loop,
                        NEW n \in DOMAIN calls'[k]
                 PROVE  calls'[k][n].conn # c
    BY <1>0, <1>5 DEF Events
  <2>2. m_status[c] \in Open /\ phase[loop[c]] = "events"
    BY <1>0, <2>1 DEF Events
  <2>3. CASE k # l
    BY <1>0, <1>3, <2>1, <2>3 DEF Events, Sets
  <2>4. CASE k = l
    <3>1. calls'[k][n] = Head(batch[l])
      BY <1>3, <2>1, <2>4 DEF Sets
    <3>2. Head(batch[l]).conn # c
      BY <1>0, <1>2, <1>4, <2>2, InHome DEF Open
    <3> QED
      BY <3>1, <3>2
  <2> QED
    BY <2>3, <2>4
<1>10. Calling'
  BY <1>0, <1>5 DEF Calling
<1>11. Queues'
  <2>1. batch[l] \in Seq(Call)
    BY <1>0, SeqTypes
  <2>2. \A n \in DOMAIN Tail(batch[l]) :
           n + 1 \in DOMAIN batch[l] /\ Tail(batch[l])[n] = batch[l][n + 1]
    BY <1>2, <2>1
  <2>3. \A n \in DOMAIN Tail(batch[l]) : Tail(batch[l])[n].op \in TaskOp
    BY <1>0, <2>2 DEF Queues
  <2>4. \A k \in Loop : batch'[k] = (IF k = l THEN Tail(batch[l]) ELSE batch[k])
                         /\ tasks'[k] = tasks[k]
    BY <1>3 DEF Sets
  <2>5. SUFFICES ASSUME NEW k \in Loop, NEW q \in {batch'[k], tasks'[k]}, NEW n \in DOMAIN q
                 PROVE  q[n].op \in TaskOp
    BY DEF Queues
  <2>6. CASE q = batch'[k]
    BY <1>0, <2>3, <2>4, <2>5, <2>6 DEF Queues
  <2>7. CASE q = tasks'[k]
    BY <1>0, <2>4, <2>5, <2>7 DEF Queues
  <2> QED
    BY <2>6, <2>7
<1> QED
  BY <1>1, <1>4, <1>5, <1>6, <1>8, <1>9, <1>10, <1>11, CoreQuiet

LEMMA CoreEndBatch ==
    ASSUME Core, NEW l \in Loop, EndBatch(l)
    PROVE  Core'
<1> USE DEF channels, outside
<1>0. Types /\ Rounds /\ Queues /\ Events /\ Calling
  BY DEF Core
<1>1. Types'
  BY <1>0, TypesLoop
<1>2. calls[l] = << >> /\ batch[l] = << >> /\ phase[l] = "tasks"
  BY DEF EndBatch
<1>3. UNCHANGED <<m_status, mc_connections, loop, events, registered, active, kept,
                  pending, tasks, batch, calls>>
  BY DEF EndBatch
<1>4. \A k \in Loop : line'[k] = line[k]
  BY <1>3 DEF line
<1>5. Sets(phase, phase', l, "poll")
  BY <1>0 DEF EndBatch, Types, Sets
<1>6. Rounds'
  BY <1>0, <1>2, <1>3, <1>5 DEF Rounds, Sets
<1>7. \A k \in Loop, c \in Conn : c \in spent'[k] => c \in spent[k]
  BY <1>0 DEF EndBatch, Types
<1>8. Events'
  <2>1. ASSUME NEW c \in Conn, active[c] # {} PROVE phase'[loop[c]] = "events"
    <3>1. loop[c] \in Loop /\ loop[c] # l /\ phase[loop[c]] = "events"
      BY <1>0, <1>2, <2>1, LoopFacts DEF Types, Events
    <3> QED
      BY <1>5, <3>1 DEF Sets
  <2> QED
    BY <1>0, <1>3, <2>1 DEF Events
<1>9. Calling' /\ Queues'
  BY <1>0, <1>3 DEF Calling, Queues
<1> QED
  BY <1>1, <1>3, <1>4, <1>6, <1>7, <1>8, <1>9, CoreQuiet

LEMMA CoreUser ==
    ASSUME SafeUse, Core, Start \/ UserChecks \/ (\E c \in Conn : PeerCloses(c)) \/ UNCHANGED vars
    PROVE  Core'
<1> USE DEF channels, outside
<1>0. Types /\ Rounds /\ Queues /\ Events /\ Calling
  BY DEF Core
<1>1. Types'
  <2>1. CASE UNCHANGED vars
    BY <1>0, <2>1 DEF vars, Types
  <2> QED
    BY <1>0, <2>1, TypesServer, TypesUser
<1>2. UNCHANGED <<m_status, mc_connections, loop, events, registered, active, kept,
                  tasks, batch, calls, phase, spent>>
  BY DEF Start, UserChecks, PeerCloses, vars
<1>3. \A k \in Loop : line'[k] = line[k]
  BY <1>2 DEF line
<1>4. Rounds' /\ Queues' /\ Events'
  BY <1>0, <1>2 DEF Rounds, Queues, Events
<1>5. Calling'
  <2>1. CASE UserChecks
    <3>1. PICK c \in kept, op \in Foreign : pending' = C(op, c)
      BY <2>1 DEF UserChecks
    <3>2. op = "force_close"
      BY ConstantsAssumption DEF SafeUse
    <3> QED
      BY <1>2, <3>1, <3>2, CallFields DEF Calling
  <2>2. CASE pending' = pending
    BY <1>0, <1>2, <2>2 DEF Calling
  <2> QED
    BY <2>1, <2>2 DEF Start, PeerCloses, vars
<1> QED
  BY <1>1, <1>2, <1>3, <1>4, <1>5, CoreQuiet

LEMMA CoreDrops ==
    ASSUME SafeUse, Core, NEW c \in Conn, UserDrops(c)
    PROVE  Core'
<1> USE DEF channels, outside
<1>0. Types /\ Rounds /\ Queues /\ Events /\ Calling /\ Guarded /\ Stages
  BY DEF Core
<1>1. Types'
  BY <1>0, TypesUser
<1>2. UNCHANGED <<m_status, mc_connections, loop, events, registered, active, pending,
                  tasks, batch, calls, phase, spent>>
      /\ kept' = kept \ {c} /\ pending.conn # c /\ ~Queued(c)
  BY DEF UserDrops, SafeUse
<1>3. \A k \in Loop : line'[k] = line[k]
  BY <1>2 DEF line
<1>4. Rounds' /\ Queues' /\ Events' /\ Calling'
  BY <1>0, <1>2 DEF Rounds, Queues, Events, Calling
<1>5. Guarded'
  <2>1. ASSUME NEW k \in Loop, NEW n \in DOMAIN line[k], line[k][n].op = "force_close",
               line[k][n].conn = c
        PROVE  NextIsGuard(k, n)
    BY <1>0, <1>2, <2>1, QueuedForceClose DEF Guarded
  <2> QED
    BY <1>0, <1>2, <1>3, <2>1, GuardedStays
<1>6. Stages'
  <2>1. kept' \subseteq kept
    BY <1>2
  <2> QED
    BY <1>0, <1>2, <1>3, <2>1, StagesStay
<1> QED
  BY <1>1, <1>2, <1>3, <1>4, <1>5, <1>6, LineStays DEF Core

-----------------------------------------------------------------------------
(* A new connection, and a force_close from outside: a task at the end.    *)

LEMMA AddsIn ==
    ASSUME Types, NEW k \in Loop, NEW x \in Call, Adds(k, x)
    PROVE  /\ In(k, x)'
           /\ \A j \in Loop : \A y : In(j, y) => In(j, y)'
<1>1. In(k, x)'
  BY AddsEntries DEF In
<1>2. ASSUME NEW j \in Loop, NEW y, In(j, y) PROVE In(j, y)'
  BY <1>2, AddsEntries DEF In
<1> QED
  BY <1>1, <1>2

\* What a new task of an owner does not disturb.
LEMMA AddsStays ==
    ASSUME Core, NEW k \in Loop, NEW x \in Call, Adds(k, x), k = loop[x.conn],
           UNCHANGED <<loop, kept>>, mc_connections \subseteq mc_connections',
           \/ x.op = "force_close" /\ x.op \in Foreign /\ x.conn \in kept
           \/ /\ x.op = "connect_establised"
              /\ \A j \in Loop : \A n \in DOMAIN line[j] : line[j][n].conn # x.conn
    PROVE  Placed' /\ OneHandOver' /\ ClosesFirst' /\ Guarded' /\ HandledFirst'
<1>0. Types /\ Placed /\ OneHandOver /\ ClosesFirst /\ Guarded /\ HandledFirst
  BY DEF Core
<1>1. ASSUME NEW j \in Loop, NEW m \in DOMAIN line'[j]
      PROVE  \/ j = k /\ m = Len(line[k]) + 1 /\ line'[j][m] = x
             \/ m \in DOMAIN line[j] /\ line'[j][m] = line[j][m]
  BY <1>0, <1>1, AddsEntries
<1>2. \A j \in Loop : \A n \in DOMAIN line[j] :
         n \in DOMAIN line'[j] /\ line'[j][n] = line[j][n]
  BY <1>0, AddsEntries
<1>3. Placed'
  BY <1>0, <1>1 DEF Placed, Home
<1>4. OneHandOver'
  <2>1. SUFFICES ASSUME NEW i \in Loop, NEW n \in DOMAIN line'[i],
                        NEW j \in Loop, NEW m \in DOMAIN line'[j],
                        line'[i][n].op \in MyOp, line'[j][m].op \in MyOp,
                        line'[i][n].conn = line'[j][m].conn
                 PROVE  i = j /\ n = m
    BY DEF OneHandOver
  <2>2. x.op \in MyOp => \A h \in Loop : \A p \in DOMAIN line[h] : line[h][p].conn # x.conn
    BY DEF MyOp
  <2>3. CASE line'[i][n] = x /\ i = k /\ n = Len(line[k]) + 1
    BY <1>1, <2>1, <2>2, <2>3
  <2>4. CASE line'[j][m] = x /\ j = k /\ m = Len(line[k]) + 1
    BY <1>1, <2>1, <2>2, <2>4
  <2> QED
    BY <1>0, <1>1, <2>1, <2>3, <2>4 DEF OneHandOver
<1>5. ClosesFirst'
  <2>1. SUFFICES ASSUME NEW j \in Loop, NEW m \in DOMAIN line'[j]
                 PROVE  /\ line'[j][m].op \in {"handle_close", "handle_error"} => m = 1
                        /\ line'[j][m].op = "handle_read" =>
                              m = 1 \/ (m = 2 /\ line'[j][1].op = "handle_error")
    BY DEF ClosesFirst
  <2>2. CASE line'[j][m] = x
    BY <2>2
  <2>3. CASE m \in DOMAIN line[j] /\ line'[j][m] = line[j][m]
    <3>1. /\ line[j][m].op \in {"handle_close", "handle_error"} => m = 1
          /\ line[j][m].op = "handle_read" =>
                m = 1 \/ (m = 2 /\ line[j][1].op = "handle_error")
      BY <1>0, <2>3 DEF ClosesFirst
    <3>2. m = 2 => 1 \in DOMAIN line[j]
      BY <1>0, <2>3, AddsEntries
    <3> QED
      BY <1>2, <2>3, <3>1, <3>2
  <2> QED
    BY <1>1, <2>2, <2>3
<1>6. Guarded'
  <2>1. ASSUME NEW j \in Loop, NEW n \in DOMAIN line[j], NextIsGuard(j, n)
        PROVE  n + 1 \in DOMAIN line'[j] /\ line'[j][n + 1] = C("guard", line'[j][n].conn)
    BY <1>2, <2>1 DEF NextIsGuard
  <2> QED
    BY <1>0, <1>1, <2>1 DEF Guarded, NextIsGuard
<1>7. HandledFirst'
  <2>1. SUFFICES ASSUME NEW j \in Loop, NEW m \in DOMAIN line'[j], line'[j][m].op \in Handler
                 PROVE  \/ line'[j][m].conn \in mc_connections'
                        \/ \E p \in DOMAIN line'[j] :
                              p > m /\ line'[j][p] = C("connect_destroy", line'[j][m].conn)
    BY DEF HandledFirst
  <2>2. m \in DOMAIN line[j] /\ line'[j][m] = line[j][m]
    BY <1>1, <2>1 DEF Handler
  <2> QED
    BY <1>0, <1>2, <2>1, <2>2 DEF HandledFirst
<1> QED
  BY <1>3, <1>4, <1>5, <1>6, <1>7

LEMMA QueuesAdd ==
    ASSUME Types, Queues, NEW k \in Loop, NEW x \in Call, x.op \in TaskOp,
           Sets(tasks, tasks', k, Append(tasks[k], x)), UNCHANGED batch
    PROVE  Queues'
<1>1. \A j \in Loop : tasks[j] \in Seq(Call)
  BY SeqTypes
<1>2. \A j \in Loop : /\ batch'[j] = batch[j]
                      /\ tasks'[j] = IF j = k THEN Append(tasks[k], x) ELSE tasks[j]
  BY DEF Sets
<1>3. \A n \in DOMAIN Append(tasks[k], x) :
         \/ n \in DOMAIN tasks[k] /\ Append(tasks[k], x)[n] = tasks[k][n]
         \/ Append(tasks[k], x)[n] = x
  BY <1>1
<1>4. \A n \in DOMAIN Append(tasks[k], x) : Append(tasks[k], x)[n].op \in TaskOp
  BY <1>3 DEF Queues
<1>5. SUFFICES ASSUME NEW j \in Loop, NEW q \in {batch'[j], tasks'[j]}, NEW n \in DOMAIN q
               PROVE  q[n].op \in TaskOp
  BY DEF Queues
<1>6. CASE q = batch'[j]
  BY <1>2, <1>5, <1>6 DEF Queues
<1>7. CASE q = tasks'[j]
  BY <1>2, <1>4, <1>5, <1>7 DEF Queues
<1> QED
  BY <1>6, <1>7

LEMMA CoreUserActs ==
    ASSUME SafeUse, Core, UserActs
    PROVE  Core'
<1> USE DEF channels
<1>0. Types /\ Rounds /\ Queues /\ Events /\ Calling /\ Agreed /\ Stages
  BY DEF Core
<1>1. Types'
  BY <1>0, TypesUser
<1> DEFINE x == pending
           k == loop[pending.conn]
<1>2. x.op = "force_close" /\ x.op \in Foreign /\ x.conn \in kept /\ x \in Call
  BY <1>0 DEF UserActs, Calling, Types
<1>3. x.conn \in Conn /\ k \in Loop
  BY <1>0, <1>2, LoopFacts DEF Types
<1>4. UNCHANGED <<m_status, mc_connections, loop, events, registered, active, kept,
                  batch, calls, phase, spent>> /\ pending' = NoCall
      /\ tasks' = [tasks EXCEPT ![k] = Append(tasks[k], x)]
  BY <1>2 DEF UserActs
<1>5. Adds(k, x)
  BY <1>0, <1>2, <1>3, <1>4, AddsLine
<1>6. Placed' /\ OneHandOver' /\ ClosesFirst' /\ Guarded' /\ HandledFirst'
  BY <1>2, <1>3, <1>4, <1>5, AddsStays
<1>7. Stage(x.conn)
  BY <1>0, <1>3 DEF Stages
<1>8. Agreed'
  <2>1. m_status[x.conn] \notin {"none", "connecting"}
    BY <1>2, <1>7 DEF Stage
  <2>2. Agrees(x, m_status[x.conn], mc_connections)
    BY <1>2, <2>1 DEF Agrees
  <2>3. \A j \in Loop : \A m \in DOMAIN line'[j] :
           line'[j][m] = x \/ (m \in DOMAIN line[j] /\ line'[j][m] = line[j][m])
    BY <1>0, <1>2, <1>3, <1>5, AddsEntries
  <2> QED
    BY <1>0, <1>4, <2>2, <2>3 DEF Agreed
<1>9. Stages'
  <2>1. SUFFICES ASSUME NEW c \in Conn PROVE Stage(c)'
    BY DEF Stages
  <2>2. \A j \in Loop : \A y : In(j, y) => In(j, y)'
    BY <1>0, <1>2, <1>3, <1>5, AddsIn
  <2>3. (Removing(c) => Removing(c)') /\ (Closing(c) => Closing(c)')
    BY <2>2, HandOversKept
  <2> QED
    BY <1>0, <1>4, <2>3, StageStays DEF Stages
<1>10. Rounds' /\ Events' /\ Calling'
  BY <1>0, <1>4 DEF Rounds, Events, Calling
<1>11. Queues'
  <2>1. Sets(tasks, tasks', k, Append(tasks[k], x))
    BY <1>0, <1>3, <1>4 DEF Sets, Types
  <2> QED
    BY <1>0, <1>2, <1>3, <1>4, <2>1, QueuesAdd DEF TaskOp
<1> QED
  BY <1>1, <1>6, <1>8, <1>9, <1>10, <1>11 DEF Core

LEMMA CoreNewConn ==
    ASSUME SafeUse, Core, NEW c \in Conn, NewConn(c)
    PROVE  Core'
<1> USE DEF channels, outside
<1>0. Types /\ Rounds /\ Queues /\ Events /\ Calling /\ Agreed /\ Stages
  BY DEF Core
<1>1. Types'
  BY <1>0, TypesServer
<1> DEFINE x == C("connect_establised", c)
           k == loop[c]
<1>2. x \in Call /\ x.op = "connect_establised" /\ x.conn = c
  BY CallTypes DEF SharedOp
<1>3. k \in Loop /\ Main \in Loop /\ k # Main
  <2>1. k \in ConnLoop /\ ConnLoop = IoLoop
    BY <1>0 DEF Types, SafeUse, ConnLoop
  <2> QED
    BY <2>1, ConstantsAssumption DEF Loop
<1>4. /\ m_status[c] = "none" /\ m_status' = [m_status EXCEPT ![c] = "connecting"]
      /\ mc_connections' = mc_connections \union {c}
      /\ calls' = [calls EXCEPT ![Main] = calls[Main]]
      /\ tasks' = [tasks EXCEPT ![k] = Append(tasks[k], x)]
      /\ UNCHANGED <<loop, events, registered, active, kept, batch, phase, spent, pending>>
  BY <1>3 DEF NewConn, Accepts, AddTask
<1>5. calls' = calls
  BY <1>0, <1>3, <1>4 DEF Types
<1>6. Adds(k, x)
  BY <1>0, <1>2, <1>3, <1>4, <1>5, AddsLine
<1>7. \A j \in Loop : \A n \in DOMAIN line[j] : line[j][n].conn # c
  BY <1>0, <1>4 DEF Agreed, Agrees
<1>8. Placed' /\ OneHandOver' /\ ClosesFirst' /\ Guarded' /\ HandledFirst'
  BY <1>2, <1>3, <1>4, <1>6, <1>7, AddsStays
<1>9. m_status'[c] = "connecting" /\ \A d \in Conn : d # c => m_status'[d] = m_status[d]
  BY <1>0, <1>4 DEF Types
<1>10. Stage(c)
  BY <1>0 DEF Stages
<1>11. Agreed'
  <2>1. SUFFICES ASSUME NEW j \in Loop, NEW m \in DOMAIN line'[j]
                 PROVE  Agrees(line'[j][m], m_status'[line'[j][m].conn], mc_connections')
    BY DEF Agreed
  <2>2. CASE line'[j][m] = x
    BY <1>2, <1>9, <2>2 DEF Agrees
  <2>3. CASE m \in DOMAIN line[j] /\ line'[j][m] = line[j][m]
    <3>1. line[j][m].conn # c /\ line[j][m].conn \in Conn
      BY <1>0, <1>7, <2>3, LineCalls
    <3>2. Agrees(line[j][m], m_status[line[j][m].conn], mc_connections)
      BY <1>0, <2>3 DEF Agreed
    <3> QED
      BY <1>4, <1>9, <2>3, <3>1, <3>2 DEF Agrees
  <2> QED
    BY <1>0, <1>2, <1>3, <1>6, <2>2, <2>3, AddsEntries
<1>12. Stages'
  <2>1. \A j \in Loop : \A y : In(j, y) => In(j, y)'
    BY <1>0, <1>2, <1>3, <1>6, AddsIn
  <2>2. ASSUME NEW d \in Conn, d # c PROVE Stage(d)'
    <3>1. (Removing(d) => Removing(d)') /\ (Closing(d) => Closing(d)')
      BY <2>1, HandOversKept
    <3>2. d \in mc_connections' <=> d \in mc_connections
      BY <1>4, <2>2
    <3> QED
      BY <1>0, <1>4, <1>9, <2>2, <3>1, <3>2, StageStays DEF Stages
  <2>3. Stage(c)'
    <3>1. c \in registered => Removing(c)
      BY <1>4, <1>10 DEF Stage, Open
    <3>2. Removing(c) => Removing(c)'
      BY <2>1, HandOversKept
    <3> QED
      BY <1>4, <1>9, <1>10, <3>1, <3>2 DEF Stage, Open
  <2> QED
    BY <2>2, <2>3 DEF Stages
<1>13. Events'
  <2>1. ASSUME NEW d \in Conn, active[d] # {} PROVE m_status'[d] \in Open
    BY <1>0, <1>4, <1>9, <2>1 DEF Events, Open
  <2> QED
    BY <1>0, <1>4, <1>5, <2>1 DEF Events
<1>14. Rounds' /\ Calling'
  BY <1>0, <1>4, <1>5 DEF Rounds, Calling
<1>15. Queues'
  <2>1. Sets(tasks, tasks', k, Append(tasks[k], x))
    BY <1>0, <1>3, <1>4 DEF Sets, Types
  <2> QED
    BY <1>0, <1>2, <1>3, <1>4, <2>1, QueuesAdd DEF TaskOp
<1> QED
  BY <1>1, <1>8, <1>11, <1>12, <1>13, <1>14, <1>15 DEF Core

-----------------------------------------------------------------------------
(* The two hand-overs of a close: the first call of a line becomes the     *)
(* last of another.                                                        *)

LEMMA HandsIn ==
    ASSUME Types, NEW l \in Loop, NEW k \in Loop, NEW x \in Call, HandsOver(l, k, x),
           1 \in DOMAIN line[l]
    PROVE  /\ In(k, x)'
           /\ \A j \in Loop : \A y : In(j, y) /\ (j # l \/ y # line[l][1]) => In(j, y)'
<1>1. In(k, x)'
  <2>1. Len(line[k]) + 1 \in DOMAIN line'[k] /\ line'[k][Len(line[k]) + 1] = x
    BY HandsEntries
  <2> QED
    BY <2>1 DEF In
<1>2. ASSUME NEW j \in Loop, NEW y, In(j, y), j # l \/ y # line[l][1] PROVE In(j, y)'
  BY <1>2, HandsEntries DEF In
<1> QED
  BY <1>1, <1>2

\* Entries that are not x stood where they stand, or one further back.
LEMMA HandsOld ==
    ASSUME Types, NEW l \in Loop, NEW k \in Loop, NEW x \in Call, HandsOver(l, k, x),
           1 \in DOMAIN line[l], NEW j \in Loop, NEW m \in DOMAIN line'[j]
    PROVE  \/ j = k /\ m = Len(line[k]) + 1 /\ line'[j][m] = x
           \/ \E n \in DOMAIN line[j] : /\ line'[j][m] = line[j][n]
                                        /\ ~(j = l /\ n = 1)
                                        /\ n = IF j = l THEN m + 1 ELSE m
<1>1. m \in Nat \ {0}
  BY HandsEntries
<1>2. \/ j = k /\ m = Len(line[k]) + 1 /\ line'[j][m] = x
      \/ j # l /\ m \in DOMAIN line[j] /\ line'[j][m] = line[j][m]
      \/ j = l /\ m + 1 \in DOMAIN line[l] /\ line'[j][m] = line[l][m + 1]
  BY HandsEntries
<1>3. m + 1 # 1
  BY <1>1
<1> QED
  BY <1>2, <1>3

LEMMA HandsStays ==
    ASSUME Core, NEW l \in Loop, NEW k \in Loop, NEW x \in Call, HandsOver(l, k, x),
           1 \in DOMAIN line[l], line[l][1].op \in {"close_cb", "remove_conn"},
           line[l][1].conn = x.conn, x.op \in {"remove_conn", "connect_destroy"},
           k = Home(x), UNCHANGED <<loop, kept>>
    PROVE  Placed' /\ OneHandOver' /\ ClosesFirst' /\ Guarded'
<1>0. Types /\ Placed /\ OneHandOver /\ ClosesFirst /\ Guarded
  BY DEF Core
<1>1. ASSUME NEW j \in Loop, NEW m \in DOMAIN line'[j]
      PROVE  \/ j = k /\ m = Len(line[k]) + 1 /\ line'[j][m] = x
             \/ \E n \in DOMAIN line[j] : /\ line'[j][m] = line[j][n]
                                          /\ ~(j = l /\ n = 1)
                                          /\ n = IF j = l THEN m + 1 ELSE m
  BY <1>0, <1>1, HandsOld
<1>2. Placed'
  BY <1>0, <1>1 DEF Placed, Home
<1>3. ASSUME NEW j \in Loop, NEW n \in DOMAIN line[j], ~(j = l /\ n = 1),
             line[j][n].op \in MyOp
      PROVE  line[j][n].conn # x.conn
  BY <1>0, <1>3 DEF OneHandOver, MyOp
<1>4. OneHandOver'
  <2>1. SUFFICES ASSUME NEW i \in Loop, NEW n \in DOMAIN line'[i],
                        NEW j \in Loop, NEW m \in DOMAIN line'[j],
                        line'[i][n].op \in MyOp, line'[j][m].op \in MyOp,
                        line'[i][n].conn = line'[j][m].conn
                 PROVE  i = j /\ n = m
    BY DEF OneHandOver
  <2>2. CASE i = k /\ n = Len(line[k]) + 1 /\ line'[i][n] = x
    BY <1>1, <1>3, <2>1, <2>2
  <2>3. CASE j = k /\ m = Len(line[k]) + 1 /\ line'[j][m] = x
    BY <1>1, <1>3, <2>1, <2>3
  <2>4. ASSUME NEW p \in DOMAIN line[i], line'[i][n] = line[i][p],
               p = IF i = l THEN n + 1 ELSE n,
               NEW q \in DOMAIN line[j], line'[j][m] = line[j][q],
               q = IF j = l THEN m + 1 ELSE m
        PROVE  i = j /\ n = m
    <3>1. i = j /\ p = q
      BY <1>0, <2>1, <2>4 DEF OneHandOver
    <3>2. n \in Nat /\ m \in Nat
      BY <1>0, <2>1, HandsEntries
    <3> QED
      BY <2>4, <3>1, <3>2
  <2> QED
    BY <1>1, <2>1, <2>2, <2>3, <2>4
<1>5. ASSUME NEW j \in Loop, NEW m \in DOMAIN line'[j]
      PROVE  /\ line'[j][m].op \in {"handle_close", "handle_error"} => m = 1
             /\ line'[j][m].op = "handle_read" =>
                   m = 1 \/ (m = 2 /\ line'[j][1].op = "handle_error")
  <2>1. CASE line'[j][m] = x
    BY <2>1
  <2>2. ASSUME NEW n \in DOMAIN line[j], line'[j][m] = line[j][n], ~(j = l /\ n = 1),
               n = IF j = l THEN m + 1 ELSE m
        PROVE  /\ line'[j][m].op \in {"handle_close", "handle_error"} => m = 1
               /\ line'[j][m].op = "handle_read" =>
                     m = 1 \/ (m = 2 /\ line'[j][1].op = "handle_error")
    <3>1. /\ line[j][n].op \in {"handle_close", "handle_error"} => n = 1
          /\ line[j][n].op = "handle_read" =>
                n = 1 \/ (n = 2 /\ line[j][1].op = "handle_error")
      BY <1>0 DEF ClosesFirst
    <3>2. CASE j = l
      BY <2>2, <3>1, <3>2
    <3>3. CASE j # l
      <4>1. n = m
        BY <2>2, <3>3
      <4>2. m = 2 => 1 \in DOMAIN line[j]
        BY <1>0, <4>1, HandsEntries
      <4>3. m = 2 => line'[j][1] = line[j][1]
        BY <1>0, <3>3, <4>2, HandsEntries
      <4> QED
        BY <2>2, <3>1, <4>1, <4>3
    <3> QED
      BY <3>2, <3>3
  <2> QED
    BY <1>1, <1>5, <2>1, <2>2
<1>6. ClosesFirst'
  BY <1>5 DEF ClosesFirst
<1>7. ASSUME NEW j \in Loop, NEW m \in DOMAIN line'[j]
      PROVE  /\ line'[j][m].op = "channel_remove" => NextIsGuard(j, m)'
             /\ line'[j][m].op = "force_close" =>
                   \/ NextIsGuard(j, m)'
                   \/ "force_close" \in Foreign /\ line'[j][m].conn \in kept
  <2>1. CASE line'[j][m] = x
    BY <2>1
  <2>2. ASSUME NEW n \in DOMAIN line[j], line'[j][m] = line[j][n], ~(j = l /\ n = 1),
               n = IF j = l THEN m + 1 ELSE m, NextIsGuard(j, n)
        PROVE  NextIsGuard(j, m)'
    <3>0. m \in Nat \ {0}
      BY <1>0, <1>7, HandsEntries
    <3>1. n + 1 \in DOMAIN line[j] /\ line[j][n + 1] = C("guard", line[j][n].conn)
      BY <2>2 DEF NextIsGuard
    <3>2. CASE j = l
      <4>1. n + 1 # 1 /\ (n + 1) - 1 = m + 1
        BY <2>2, <3>0, <3>2
      <4>2. m + 1 \in DOMAIN line'[j] /\ line'[j][m + 1] = line[j][n + 1]
        BY <1>0, <3>1, <3>2, <4>1, HandsEntries
      <4> QED
        BY <2>2, <3>1, <4>2 DEF NextIsGuard
    <3>3. CASE j # l
      <4>1. n = m /\ m + 1 \in DOMAIN line'[j] /\ line'[j][m + 1] = line[j][m + 1]
        BY <1>0, <2>2, <3>1, <3>3, HandsEntries
      <4> QED
        BY <2>2, <3>1, <4>1 DEF NextIsGuard
    <3> QED
      BY <3>2, <3>3
  <2>3. ASSUME NEW n \in DOMAIN line[j], line'[j][m] = line[j][n], ~(j = l /\ n = 1),
               n = IF j = l THEN m + 1 ELSE m
        PROVE  /\ line'[j][m].op = "channel_remove" => NextIsGuard(j, m)'
               /\ line'[j][m].op = "force_close" =>
                     \/ NextIsGuard(j, m)'
                     \/ "force_close" \in Foreign /\ line'[j][m].conn \in kept
    BY <1>0, <2>2, <2>3 DEF Guarded
  <2> QED
    BY <1>1, <1>7, <2>1, <2>3
<1>8. Guarded'
  BY <1>7 DEF Guarded
<1> QED
  BY <1>2, <1>4, <1>6, <1>8

\* The handlers of the connection that leaves the map stand before the
\* connect_destroy that comes to their line.
LEMMA HandsHandled ==
    ASSUME Core, NEW l \in Loop, NEW k \in Loop, NEW x \in Call, HandsOver(l, k, x),
           1 \in DOMAIN line[l], x.op \notin Handler, k = Home(x),
           \A d \in mc_connections : d \in mc_connections' \/ x = C("connect_destroy", d)
    PROVE  HandledFirst'
<1>0. Types /\ Placed /\ HandledFirst /\ l # k
  BY DEF Core, HandsOver
<1>1. SUFFICES ASSUME NEW j \in Loop, NEW m \in DOMAIN line'[j], line'[j][m].op \in Handler
               PROVE  \/ line'[j][m].conn \in mc_connections'
                      \/ \E p \in DOMAIN line'[j] :
                            p > m /\ line'[j][p] = C("connect_destroy", line'[j][m].conn)
  BY DEF HandledFirst
<1>2. PICK n \in DOMAIN line[j] : /\ line'[j][m] = line[j][n]
                                  /\ ~(j = l /\ n = 1)
                                  /\ n = IF j = l THEN m + 1 ELSE m
  BY <1>0, <1>1, HandsOld
<1> DEFINE c == line[j][n].conn
<1>3. m \in Nat \ {0} /\ n \in Nat /\ n \in 1 .. Len(line[j]) /\ Len(line[j]) \in Nat
  BY <1>0, HandsEntries
<1>4. CASE c \in mc_connections /\ c \notin mc_connections'
  <2>1. x = C("connect_destroy", c)
    BY <1>4
  <2>2. k = loop[c]
    BY <2>1, CallFields DEF Home
  <2>3. j = loop[c]
    BY <1>0, <1>1, <1>2 DEF Placed, Home, Handler
  <2>4. j = k /\ j # l
    BY <1>0, <2>2, <2>3
  <2>5. m = n /\ Len(line[k]) + 1 > m
    BY <1>2, <1>3, <2>4
  <2>6. Len(line[k]) + 1 \in DOMAIN line'[k] /\ line'[k][Len(line[k]) + 1] = x
    BY <1>0, HandsEntries
  <2> QED
    BY <1>2, <2>1, <2>4, <2>5, <2>6
<1>5. ASSUME NEW q \in DOMAIN line[j], q > n, line[j][q] = C("connect_destroy", c)
      PROVE  \E p \in DOMAIN line'[j] : p > m /\ line'[j][p] = C("connect_destroy", c)
  <2>0. q \in Nat
    BY <1>0, <1>3, HandsEntries
  <2>1. CASE j = l
    <3>1. q # 1 /\ q - 1 > m
      BY <1>2, <1>3, <1>5, <2>0, <2>1
    <3>2. q - 1 \in DOMAIN line'[j] /\ line'[j][q - 1] = line[j][q]
      BY <1>0, <1>5, <2>1, <3>1, HandsEntries
    <3> QED
      BY <1>5, <3>1, <3>2
  <2>2. CASE j # l
    <3>1. q \in DOMAIN line'[j] /\ line'[j][q] = line[j][q] /\ q > m
      BY <1>0, <1>2, <1>5, <2>2, HandsEntries
    <3> QED
      BY <1>5, <3>1
  <2> QED
    BY <2>1, <2>2
<1>6. c \in mc_connections \/ \E q \in DOMAIN line[j] :
                                 q > n /\ line[j][q] = C("connect_destroy", c)
  BY <1>0, <1>1, <1>2 DEF HandledFirst
<1> QED
  BY <1>2, <1>4, <1>5, <1>6

\* The calls of the loop that hands over, and what stays as it is.
LEMMA HandsQuiet ==
    ASSUME Core, NEW l \in Loop, calls[l] # << >>,
           Sets(calls, calls', l, Tail(calls[l])),
           UNCHANGED <<m_status, batch, active, phase, loop, kept, pending>>
    PROVE  Events' /\ Rounds' /\ Calling'
<1>0. Types /\ Rounds /\ Events /\ Calling
  BY DEF Core
<1>1. calls[l] \in Seq(Call)
  BY <1>0, SeqTypes
<1>2. \A n \in DOMAIN Tail(calls[l]) :
         n + 1 \in DOMAIN calls[l] /\ Tail(calls[l])[n] = calls[l][n + 1]
  BY <1>1
<1>3. Events'
  <2>1. SUFFICES ASSUME NEW c \in Conn, active[c] # {}, NEW k \in Loop,
                        NEW n \in DOMAIN calls'[k]
                 PROVE  calls'[k][n].conn # c
    BY <1>0 DEF Events
  <2>2. \A m \in DOMAIN calls[k] : calls[k][m].conn # c
    BY <1>0, <2>1 DEF Events
  <2>3. CASE k = l
    <3>1. calls'[k] = Tail(calls[l])
      BY <2>3 DEF Sets
    <3>2. n \in DOMAIN Tail(calls[l]) /\ calls'[k][n] = Tail(calls[l])[n]
      BY <2>1, <3>1
    <3>3. n + 1 \in DOMAIN calls[k] /\ calls'[k][n] = calls[k][n + 1]
      BY <1>2, <2>3, <3>2
    <3> QED
      BY <2>2, <3>3
  <2>4. CASE k # l
    BY <2>1, <2>2, <2>4 DEF Sets
  <2> QED
    BY <2>3, <2>4
<1>4. Rounds'
  BY <1>0 DEF Rounds, Sets
<1>5. Calling'
  BY <1>0 DEF Calling
<1> QED
  BY <1>3, <1>4, <1>5

\* add_task from one loop to another.
LEMMA AddTaskOver ==
    ASSUME Types, NEW l \in Loop, NEW k \in Loop, l # k, NEW x \in Call, calls[l] # << >>,
           AddTask(l, k, x, Tail(calls[l])), UNCHANGED batch
    PROVE  /\ Sets(calls, calls', l, Tail(calls[l]))
           /\ Sets(tasks, tasks', k, Append(tasks[k], x))
           /\ HandsOver(l, k, x)
<1>1. calls' = [calls EXCEPT ![l] = Tail(calls[l])]
      /\ tasks' = [tasks EXCEPT ![k] = Append(tasks[k], x)]
  BY DEF AddTask
<1>2. Sets(calls, calls', l, Tail(calls[l])) /\ Sets(tasks, tasks', k, Append(tasks[k], x))
  BY <1>1 DEF Types, Sets
<1> QED
  BY <1>2, HandsOverLine

LEMMA CoreCloseCb ==
    ASSUME SafeUse, Core, NEW l \in Loop, CloseCb(l)
    PROVE  Core'
<1> USE DEF channels, outside
<1>0. Types /\ Placed /\ Queues /\ Agreed /\ Stages
  BY DEF Core
<1>1. Types'
  BY <1>0, TypesServer
<1>a. PICK c : c = TopConn(l)
  OBVIOUS
<1> DEFINE x == C("remove_conn", c)
<1>2. Top(l, "close_cb") /\ AddTask(l, Main, x, Tail(calls[l]))
  BY <1>a DEF CloseCb, ServerLoop
<1>3. /\ c \in Conn /\ 1 \in DOMAIN line[l] /\ line[l][1] = C("close_cb", c)
      /\ calls[l] # << >>
  BY <1>0, <1>a, <1>2, TopFacts
<1>4. x \in Call /\ x.op = "remove_conn" /\ x.conn = c
  BY <1>3, CallTypes DEF SharedOp
<1>5. l = loop[c] /\ Main \in Loop /\ l # Main
  <2>1. l = loop[c]
    BY <1>0, <1>3, CallFields DEF Placed, Home
  <2>2. l \in ConnLoop /\ ConnLoop = IoLoop
    BY <1>0, <1>3, <2>1 DEF Types, SafeUse, ConnLoop
  <2> QED
    BY <2>1, <2>2, ConstantsAssumption DEF Loop
<1>6. UNCHANGED <<m_status, events, registered, mc_connections, batch, spent, active, kept,
                  loop, phase, pending>>
  BY DEF CloseCb
<1>7. /\ Sets(calls, calls', l, Tail(calls[l])) /\ Sets(tasks, tasks', Main, Append(tasks[Main], x))
      /\ HandsOver(l, Main, x)
  BY <1>0, <1>2, <1>3, <1>4, <1>5, <1>6, AddTaskOver
<1>8. Events' /\ Rounds' /\ Calling'
  BY <1>3, <1>6, <1>7, HandsQuiet
<1>9. Queues'
  BY <1>0, <1>4, <1>5, <1>6, <1>7, QueuesAdd DEF TaskOp
<1>10. Main = Home(x)
  BY <1>4 DEF Home
<1>11. Placed' /\ OneHandOver' /\ ClosesFirst' /\ Guarded'
  BY <1>3, <1>4, <1>5, <1>6, <1>7, <1>10, CallFields, HandsStays
<1>12. HandledFirst'
  BY <1>3, <1>4, <1>5, <1>6, <1>7, <1>10, HandsHandled DEF Handler
<1>13. Agrees(C("close_cb", c), m_status[c], mc_connections)
  BY <1>0, <1>3, CallFields DEF Agreed
<1>14. Agreed'
  <2>1. Agrees(x, m_status[c], mc_connections)
    BY <1>4, <1>13, CallFields DEF Agrees
  <2> QED
    BY <1>0, <1>3, <1>4, <1>5, <1>6, <1>7, <2>1, HandsOld DEF Agreed
<1>15. Stages'
  <2>1. SUFFICES ASSUME NEW d \in Conn PROVE Stage(d)'
    BY DEF Stages
  <2>2. In(Main, x)' /\ \A j \in Loop : \A y : In(j, y) /\ y # C("close_cb", c) => In(j, y)'
    BY <1>0, <1>3, <1>4, <1>5, <1>7, HandsIn
  <2>3. Removing(d) => Removing(d)'
    BY <2>2, CallFields DEF Removing
  <2>4. Closing(d) => Closing(d)'
    <3>1. CASE d = c
      BY <1>5, <2>2, <3>1 DEF Closing
    <3>2. CASE d # c
      BY <2>2, <3>2, CallFields DEF Closing
    <3> QED
      BY <3>1, <3>2
  <2> QED
    BY <1>0, <1>6, <2>3, <2>4, StageStays DEF Stages
<1> QED
  BY <1>1, <1>8, <1>9, <1>11, <1>12, <1>14, <1>15 DEF Core

LEMMA CoreRemoveConn ==
    ASSUME SafeUse, Core, NEW l \in Loop, RemoveConn(l)
    PROVE  Core'
<1> USE DEF channels, outside
<1>0. Types /\ Placed /\ Queues /\ Agreed /\ Stages /\ OneHandOver
  BY DEF Core
<1>1. Types'
  BY <1>0, TypesServer
<1>a. PICK c, k : c = TopConn(l) /\ k = loop[c]
  OBVIOUS
<1> DEFINE x == C("connect_destroy", c)
<1>2. Top(l, "remove_conn") /\ AddTask(l, k, x, Tail(calls[l]))
  BY <1>a DEF RemoveConn, DestroyLater
<1>3. /\ c \in Conn /\ 1 \in DOMAIN line[l] /\ line[l][1] = C("remove_conn", c)
      /\ calls[l] # << >>
  BY <1>0, <1>a, <1>2, TopFacts
<1>4. x \in Call /\ x.op = "connect_destroy" /\ x.conn = c
  BY <1>3, CallTypes DEF SharedOp
<1>5. l = Main /\ k \in Loop /\ l # k
  <2>1. l = Main
    BY <1>0, <1>3, CallFields DEF Placed, Home
  <2>2. k \in ConnLoop /\ ConnLoop = IoLoop
    BY <1>0, <1>a, <1>3 DEF Types, SafeUse, ConnLoop
  <2> QED
    BY <2>1, <2>2, ConstantsAssumption DEF Loop
<1>6. UNCHANGED <<m_status, events, registered, batch, spent, active, kept,
                  loop, phase, pending>>
      /\ mc_connections' = mc_connections \ {c}
  BY <1>a DEF RemoveConn
<1>7. /\ Sets(calls, calls', l, Tail(calls[l])) /\ Sets(tasks, tasks', k, Append(tasks[k], x))
      /\ HandsOver(l, k, x)
  BY <1>0, <1>2, <1>3, <1>4, <1>5, <1>6, AddTaskOver
<1>8. Events' /\ Rounds' /\ Calling'
  BY <1>3, <1>6, <1>7, HandsQuiet
<1>9. Queues'
  BY <1>0, <1>4, <1>5, <1>6, <1>7, QueuesAdd DEF TaskOp
<1>10. k = Home(x)
  BY <1>a, <1>4 DEF Home
<1>11. Placed' /\ OneHandOver' /\ ClosesFirst' /\ Guarded'
  BY <1>3, <1>4, <1>5, <1>6, <1>7, <1>10, CallFields, HandsStays
<1>12. HandledFirst'
  <2>1. \A d \in mc_connections : d \in mc_connections' \/ x = C("connect_destroy", d)
    BY <1>6
  <2>2. x.op \notin Handler
    BY <1>4 DEF Handler
  <2> QED
    BY <1>3, <1>4, <1>5, <1>7, <1>10, <2>1, <2>2, HandsHandled
<1>13. m_status[c] = "disconnected" /\ c \in mc_connections
  BY <1>0, <1>3, CallFields DEF Agreed, Agrees
<1>14. Agreed'
  <2>1. Agrees(x, m_status[c], mc_connections')
    BY <1>4, <1>6, <1>13 DEF Agrees
  <2>2. ASSUME NEW j \in Loop, NEW n \in DOMAIN line[j], ~(j = l /\ n = 1)
        PROVE  Agrees(line[j][n], m_status[line[j][n].conn], mc_connections')
    <3>1. Agrees(line[j][n], m_status[line[j][n].conn], mc_connections)
      BY <1>0 DEF Agreed
    <3>2. line[j][n].op \in MyOp => line[j][n].conn # c
      BY <1>0, <1>3, <2>2, CallFields DEF OneHandOver, MyOp
    <3> QED
      BY <1>6, <3>1, <3>2 DEF Agrees, MyOp
  <2>3. SUFFICES ASSUME NEW j \in Loop, NEW m \in DOMAIN line'[j]
                 PROVE  Agrees(line'[j][m], m_status[line'[j][m].conn], mc_connections')
    BY <1>6 DEF Agreed
  <2>4. \/ line'[j][m] = x
        \/ \E n \in DOMAIN line[j] : line'[j][m] = line[j][n] /\ ~(j = l /\ n = 1)
    BY <1>0, <1>3, <1>4, <1>5, <1>7, HandsOld
  <2> QED
    BY <1>4, <2>1, <2>2, <2>4
<1>15. Stages'
  <2>1. In(k, x)' /\ \A j \in Loop : \A y : In(j, y) /\ y # C("remove_conn", c) => In(j, y)'
    BY <1>0, <1>3, <1>4, <1>5, <1>7, HandsIn
  <2>2. ASSUME NEW d \in Conn, d # c PROVE Stage(d)'
    <3>1. Removing(d) => Removing(d)'
      BY <2>1, CallFields DEF Removing
    <3>2. Closing(d) => Closing(d)'
      BY <2>1, <2>2, CallFields DEF Closing
    <3>3. d \in mc_connections' <=> d \in mc_connections
      BY <1>6, <2>2
    <3> QED
      BY <1>0, <1>6, <3>1, <3>2, <3>3, StageStays DEF Stages
  <2>3. Stage(c)'
    <3>1. Removing(c)'
      BY <1>5, <2>1 DEF Removing
    <3>2. Stage(c) /\ c \notin mc_connections'
      BY <1>0, <1>3, <1>6 DEF Stages
    <3> QED
      BY <1>6, <1>13, <3>1, <3>2 DEF Stage, Open
  <2> QED
    BY <2>2, <2>3 DEF Stages
<1> QED
  BY <1>1, <1>8, <1>9, <1>11, <1>12, <1>14, <1>15 DEF Core

-----------------------------------------------------------------------------
(* An event: the handlers of one connection come in front.                 *)

\* Error first, then read, then the rest; all for c.
Ordered(c, s) ==
    \A n \in DOMAIN s :
        /\ s[n].conn = c /\ s[n].op \in Handler
        /\ s[n].op = "handle_error" => n = 1
        /\ s[n].op = "handle_read" => n = 1 \/ (n = 2 /\ s[1].op = "handle_error")

\* One more handler at the end of those of an event.
LEMMA OrderedAppend ==
    ASSUME NEW c \in Conn, NEW s \in Seq(Call), Ordered(c, s),
           NEW op \in Handler \ {"handle_error"},
           op = "handle_read" => s = << >> \/ (Len(s) = 1 /\ s[1].op = "handle_error")
    PROVE  s \o <<C(op, c)>> \in Seq(Call) /\ Ordered(c, s \o <<C(op, c)>>)
<1>1. C(op, c) \in Call /\ C(op, c).op = op /\ C(op, c).conn = c
  BY CallTypes DEF Handler, RawOp
<1>2. <<C(op, c)>> \in Seq(Call) /\ Len(<<C(op, c)>>) = 1 /\ <<C(op, c)>>[1] = C(op, c)
  BY <1>1
<1>3. /\ s \o <<C(op, c)>> \in Seq(Call) /\ Len(s) \in Nat /\ DOMAIN s = 1 .. Len(s)
      /\ DOMAIN (s \o <<C(op, c)>>) = 1 .. Len(s) + 1
      /\ \A n \in 1 .. Len(s) : (s \o <<C(op, c)>>)[n] = s[n]
      /\ (s \o <<C(op, c)>>)[Len(s) + 1] = C(op, c)
  BY <1>2, Concat
<1>4. s = << >> => Len(s) = 0
  OBVIOUS
<1> DEFINE t == s \o <<C(op, c)>>
<1>5. ASSUME NEW n \in DOMAIN t
      PROVE  /\ t[n].conn = c /\ t[n].op \in Handler
             /\ t[n].op = "handle_error" => n = 1
             /\ t[n].op = "handle_read" => n = 1 \/ (n = 2 /\ t[1].op = "handle_error")
  <2>1. CASE n \in 1 .. Len(s)
    <3>1. t[n] = s[n] /\ t[1] = s[1]
      BY <1>3, <2>1
    <3> QED
      BY <1>3, <2>1, <3>1 DEF Ordered
  <2>2. CASE n = Len(s) + 1
    <3>1. t[n] = C(op, c) /\ (Len(s) = 1 => t[1] = s[1])
      BY <1>3, <2>2
    <3> QED
      BY <1>1, <1>3, <1>4, <2>2, <3>1
  <2> QED
    BY <1>3, <1>5, <2>1, <2>2
<1> QED
  BY <1>3, <1>5 DEF Ordered

\* What handle_event calls for an event that has "IN" when it has "HUP".
LEMMA EventCallsOf ==
    ASSUME NEW c \in Conn, NEW R, "HUP" \in R => "IN" \in R
    PROVE  LET new == EventCalls(c, R) \o <<C("handle_event", c)>>
           IN  new \in Seq(Call) /\ new # << >> /\ Ordered(c, new)
<1> DEFINE a == IF "ERR" \in R THEN <<C("handle_error", c)>> ELSE << >>
           b == IF R \intersect {"IN", "HUP"} # {} THEN <<C("handle_read", c)>> ELSE << >>
           d == IF "OUT" \in R THEN <<C("handle_write", c)>> ELSE << >>
           h == <<C("handle_event", c)>>
<1>1. EventCalls(c, R) = << >> \o a \o b \o d
  BY DEF EventCalls
<1>2. \A op \in Handler : C(op, c) \in Call /\ C(op, c).op = op /\ C(op, c).conn = c
  BY CallTypes DEF Handler, RawOp
<1>3. a \in Seq(Call) /\ Ordered(c, a)
      /\ (a = << >> \/ (Len(a) = 1 /\ a[1].op = "handle_error"))
  <2>1. CASE a = << >>
    BY <2>1 DEF Ordered
  <2>2. CASE a = <<C("handle_error", c)>>
    BY <1>2, <2>2 DEF Ordered, Handler
  <2> QED
    BY <2>1, <2>2
<1>4. b \in {<<C("handle_read", c)>>, << >>} /\ d \in {<<C("handle_write", c)>>, << >>}
  OBVIOUS
<1> HIDE DEF a, b, d
<1>5. \A s \in Seq(Call) : s \o << >> = s /\ << >> \o s = s
  OBVIOUS
<1>6. << >> \o a = a
  BY <1>3, <1>5
<1>7. a \o b \in Seq(Call) /\ Ordered(c, a \o b)
  <2>1. CASE b = << >>
    BY <1>3, <1>5, <2>1
  <2>2. CASE b = <<C("handle_read", c)>>
    BY <1>3, <2>2, OrderedAppend DEF Handler
  <2> QED
    BY <1>4, <2>1, <2>2
<1>8. a \o b \o d \in Seq(Call) /\ Ordered(c, a \o b \o d)
  <2>1. CASE d = << >>
    BY <1>5, <1>7, <2>1
  <2>2. CASE d = <<C("handle_write", c)>>
    BY <1>7, <2>2, OrderedAppend DEF Handler
  <2> QED
    BY <1>4, <2>1, <2>2
<1>9. a \o b \o d \o h \in Seq(Call) /\ Ordered(c, a \o b \o d \o h)
  BY <1>8, OrderedAppend DEF Handler
<1>10. a \o b \o d \o h # << >>
  <2>1. h \in Seq(Call) /\ Len(h) = 1
    BY <1>2 DEF Handler
  <2>2. Len(a \o b \o d \o h) = Len(a \o b \o d) + 1 /\ Len(a \o b \o d) \in Nat
    BY <1>8, <2>1, Concat
  <2> QED
    BY <1>9, <2>2
<1> QED
  BY <1>1, <1>6, <1>9, <1>10

LEMMA PushesIn ==
    ASSUME Types, NEW l \in Loop, NEW new \in Seq(Call), Pushes(l, new)
    PROVE  \A j \in Loop : \A y : In(j, y) => In(j, y)'
<1>1. ASSUME NEW j \in Loop, NEW y, In(j, y) PROVE In(j, y)'
  <2>1. CASE j = l
    BY <1>1, <2>1, PushesEntries DEF In
  <2>2. CASE j # l
    BY <1>1, <2>2, PushesEntries DEF In
  <2> QED
    BY <2>1, <2>2
<1> QED
  BY <1>1

\* The line of a loop thread between two callbacks is its queue.
LEMMA BetweenLine ==
    ASSUME Types, Rounds, Queues, NEW l \in Loop, Between(l), NEW n \in DOMAIN line[l]
    PROVE  line[l][n].op \in TaskOp
<1>1. calls[l] = << >>
  BY DEF Between
<1>2. In(l, line[l][n])
  BY DEF In
<1>3. Within(batch[l], line[l][n]) \/ Within(tasks[l], line[l][n])
  <2>1. ~Within(calls[l], line[l][n])
    BY <1>1 DEF Within
  <2> QED
    BY <1>2, <2>1, InParts
<1> QED
  BY <1>3 DEF Within, Queues

LEMMA CoreHandleEvent ==
    ASSUME Core, NEW l \in Loop, HandleEvent(l)
    PROVE  Core'
<1> USE DEF channels, outside
<1>0. Types /\ Placed /\ Agreed /\ OneHandOver /\ ClosesFirst /\ Guarded /\ HandledFirst
      /\ Stages /\ Events /\ Rounds /\ Queues /\ Calling
  BY DEF Core
<1>1. Types'
  BY <1>0, TypesLoop
<1>a. PICK c \in Conn :
        /\ c \in live /\ loop[c] = l /\ active[c] # {}
        /\ active' = [active EXCEPT ![c] = {}]
        /\ calls' = [calls EXCEPT ![l] =
             EventCalls(c, active[c]) \o <<C("handle_event", c)>>]
  BY <1>0 DEF HandleEvent, Types
<1>b. PICK new : new = EventCalls(c, active[c]) \o <<C("handle_event", c)>>
  OBVIOUS
<1>2. m_status[c] \in Open /\ ("HUP" \in active[c] => "IN" \in active[c])
  BY <1>0, <1>a DEF Events
<1>3. /\ new \in Seq(Call) /\ new # << >>
      /\ \A n \in DOMAIN new :
            /\ new[n].conn = c /\ new[n].op \in Handler
            /\ new[n].op = "handle_error" => n = 1
            /\ new[n].op = "handle_read" =>
                  n = 1 \/ (n = 2 /\ new[1].op = "handle_error")
  BY <1>b, <1>2, EventCallsOf DEF Ordered
<1>4. calls[l] = << >> /\ phase[l] = "events" /\ Between(l)
  BY DEF HandleEvent, Between
<1>5. UNCHANGED <<m_status, events, registered, mc_connections, tasks, batch, spent, kept,
                  loop, phase, pending>>
  BY DEF HandleEvent
<1>6. Pushes(l, new)
  BY <1>0, <1>3, <1>4, <1>5, <1>a, <1>b, PushesLine
<1>7. Sets(calls, calls', l, new)
  BY <1>0, <1>a, <1>b DEF Sets, Types
<1>8. ASSUME NEW j \in Loop, NEW m \in DOMAIN line'[j]
      PROVE  \/ j = l /\ m \in DOMAIN new /\ line'[j][m] = new[m]
             \/ j = l /\ \E n \in DOMAIN line[j] :
                            m = Len(new) + n /\ line'[j][m] = line[j][n]
             \/ j # l /\ m \in DOMAIN line[j] /\ line'[j][m] = line[j][m]
  BY <1>0, <1>3, <1>6, <1>8, PushesEntries
<1>9. Placed'
  BY <1>0, <1>3, <1>5, <1>8, <1>a DEF Placed, Home, Handler
<1>10. Agreed'
  <2>1. \A n \in DOMAIN new : Agrees(new[n], m_status[c], mc_connections)
    BY <1>2, <1>3 DEF Agrees, Handler, Open
  <2> QED
    BY <1>0, <1>3, <1>5, <1>8, <2>1 DEF Agreed
<1>11. \A n \in DOMAIN new : new[n].op \notin MyOp
  BY <1>3 DEF Handler, MyOp
<1>12. OneHandOver'
  <2>1. SUFFICES ASSUME NEW i \in Loop, NEW n \in DOMAIN line'[i],
                        NEW j \in Loop, NEW m \in DOMAIN line'[j],
                        line'[i][n].op \in MyOp, line'[j][m].op \in MyOp,
                        line'[i][n].conn = line'[j][m].conn
                 PROVE  i = j /\ n = m
    BY DEF OneHandOver
  <2>2. \E p \in DOMAIN line[i] : line'[i][n] = line[i][p]
                                  /\ n = IF i = l THEN Len(new) + p ELSE p
    BY <1>8, <1>11, <2>1
  <2>3. \E q \in DOMAIN line[j] : line'[j][m] = line[j][q]
                                  /\ m = IF j = l THEN Len(new) + q ELSE q
    BY <1>8, <1>11, <2>1
  <2> QED
    BY <1>0, <2>1, <2>2, <2>3 DEF OneHandOver
<1>13. ClosesFirst'
  <2>1. SUFFICES ASSUME NEW j \in Loop, NEW m \in DOMAIN line'[j]
                 PROVE  /\ line'[j][m].op \in {"handle_close", "handle_error"} => m = 1
                        /\ line'[j][m].op = "handle_read" =>
                              m = 1 \/ (m = 2 /\ line'[j][1].op = "handle_error")
    BY DEF ClosesFirst
  <2>2. CASE j = l /\ m \in DOMAIN new /\ line'[j][m] = new[m]
    <3>1. 1 \in DOMAIN new
      BY <1>3
    <3>2. line'[j][1] = new[1]
      BY <1>0, <1>3, <1>6, <2>2, <3>1, PushesEntries
    <3> QED
      BY <1>3, <2>2, <3>2 DEF Handler
  <2>3. CASE j = l /\ \E n \in DOMAIN line[j] : line'[j][m] = line[j][n]
    BY <1>0, <1>4, <2>3, BetweenLine DEF TaskOp
  <2>4. CASE j # l /\ m \in DOMAIN line[j] /\ line'[j][m] = line[j][m]
    BY <1>0, <1>6, <2>4 DEF ClosesFirst, Pushes
  <2> QED
    BY <1>8, <2>2, <2>3, <2>4
<1>14. Guarded'
  <2>1. SUFFICES ASSUME NEW j \in Loop, NEW m \in DOMAIN line'[j]
                 PROVE  /\ line'[j][m].op = "channel_remove" => NextIsGuard(j, m)'
                        /\ line'[j][m].op = "force_close" =>
                              \/ NextIsGuard(j, m)'
                              \/ "force_close" \in Foreign /\ line'[j][m].conn \in kept
    BY <1>5 DEF Guarded
  <2>2. CASE j = l /\ m \in DOMAIN new /\ line'[j][m] = new[m]
    BY <1>3, <2>2 DEF Handler
  <2>3. ASSUME NEW n \in DOMAIN line[j], line'[j][m] = line[j][n],
               m = IF j = l THEN Len(new) + n ELSE n, NextIsGuard(j, n)
        PROVE  NextIsGuard(j, m)'
    <3>1. n + 1 \in DOMAIN line[j] /\ line[j][n + 1] = C("guard", line[j][n].conn)
      BY <2>3 DEF NextIsGuard
    <3>2. Len(new) \in Nat /\ n \in Nat
      BY <1>0, <1>3, <1>6, PushesEntries
    <3>3. CASE j = l
      <4>1. Len(new) + (n + 1) = m + 1
        BY <2>3, <3>2, <3>3
      <4>2. Len(new) + (n + 1) \in DOMAIN line'[j]
            /\ line'[j][Len(new) + (n + 1)] = line[j][n + 1]
        BY <1>0, <1>3, <1>6, <3>1, <3>3, PushesEntries
      <4> QED
        BY <2>3, <3>1, <4>1, <4>2 DEF NextIsGuard
    <3>4. CASE j # l
      BY <1>6, <2>3, <3>1, <3>4 DEF NextIsGuard, Pushes
    <3> QED
      BY <3>3, <3>4
  <2>4. ASSUME NEW n \in DOMAIN line[j], line'[j][m] = line[j][n],
               m = IF j = l THEN Len(new) + n ELSE n
        PROVE  /\ line'[j][m].op = "channel_remove" => NextIsGuard(j, m)'
               /\ line'[j][m].op = "force_close" =>
                     \/ NextIsGuard(j, m)'
                     \/ "force_close" \in Foreign /\ line'[j][m].conn \in kept
    BY <1>0, <2>3, <2>4 DEF Guarded
  <2> QED
    BY <1>8, <2>2, <2>4
<1>15. HandledFirst'
  <2>1. SUFFICES ASSUME NEW j \in Loop, NEW m \in DOMAIN line'[j], line'[j][m].op \in Handler
                 PROVE  \/ line'[j][m].conn \in mc_connections
                        \/ \E p \in DOMAIN line'[j] :
                              p > m /\ line'[j][p] = C("connect_destroy", line'[j][m].conn)
    BY <1>5 DEF HandledFirst
  <2>2. CASE j = l /\ m \in DOMAIN new /\ line'[j][m] = new[m]
    BY <1>0, <1>2, <1>3, <2>2 DEF Stages, Stage
  <2>3. CASE j = l /\ \E n \in DOMAIN line[j] : line'[j][m] = line[j][n]
    BY <1>0, <1>4, <2>1, <2>3, BetweenLine DEF TaskOp, Handler
  <2>4. CASE j # l /\ m \in DOMAIN line[j] /\ line'[j][m] = line[j][m]
    BY <1>0, <1>6, <2>1, <2>4 DEF HandledFirst, Pushes
  <2> QED
    BY <1>8, <2>2, <2>3, <2>4
<1>16. Stages'
  <2>1. SUFFICES ASSUME NEW d \in Conn PROVE Stage(d)'
    BY DEF Stages
  <2>2. \A j \in Loop : \A y : In(j, y) => In(j, y)'
    BY <1>0, <1>3, <1>6, PushesIn
  <2>3. (Removing(d) => Removing(d)') /\ (Closing(d) => Closing(d)')
    BY <2>2, HandOversKept
  <2> QED
    BY <1>0, <1>5, <2>3, StageStays DEF Stages
<1>17. Events'
  <2>1. SUFFICES ASSUME NEW d \in Conn, active'[d] # {}
                 PROVE  /\ m_status[d] \in Open
                        /\ phase[loop[d]] = "events"
                        /\ "HUP" \in active'[d] => "IN" \in active'[d]
                        /\ \A k \in Loop : \A m \in DOMAIN calls'[k] : calls'[k][m].conn # d
    BY <1>5 DEF Events
  <2>2. d # c /\ active'[d] = active[d]
    BY <1>0, <1>a, <2>1 DEF Types
  <2>3. /\ m_status[d] \in Open
        /\ phase[loop[d]] = "events"
        /\ "HUP" \in active[d] => "IN" \in active[d]
        /\ \A k \in Loop : \A m \in DOMAIN calls[k] : calls[k][m].conn # d
    BY <1>0, <2>1, <2>2 DEF Events
  <2>4. ASSUME NEW k \in Loop, NEW m \in DOMAIN calls'[k] PROVE calls'[k][m].conn # d
    <3>1. CASE k = l
      <4>1. calls'[k] = new
        BY <1>7, <3>1 DEF Sets
      <4> QED
        BY <1>3, <2>2, <2>4, <4>1
    <3>2. CASE k # l
      BY <1>7, <2>3, <2>4, <3>2 DEF Sets
    <3> QED
      BY <3>1, <3>2
  <2> QED
    BY <2>2, <2>3, <2>4
<1>18. Rounds'
  BY <1>0, <1>4, <1>5, <1>7 DEF Rounds, Sets
<1>19. Queues' /\ Calling'
  BY <1>0, <1>5 DEF Queues, Calling
<1> QED
  BY <1>1, <1>9, <1>10, <1>12, <1>13, <1>14, <1>15, <1>16, <1>17, <1>18, <1>19 DEF Core

-----------------------------------------------------------------------------
(* Core is inductive.                                                      *)

LEMMA CoreInit == Init => Core
<1> SUFFICES ASSUME Init PROVE Core
  OBVIOUS
<1>1. Types
  BY TypesInit
<1>2. \A l \in Loop : line[l] = << >>
  <2>1. \A l \in Loop : line[l] = << >> \o (<< >> \o << >>)
    BY DEF Init, line
  <2>2. << >> \o (<< >> \o << >>) = << >>
    OBVIOUS
  <2> QED
    BY <2>1, <2>2
<1>3. Placed /\ Agreed /\ OneHandOver /\ ClosesFirst /\ Guarded /\ HandledFirst
  BY <1>2 DEF Placed, Agreed, OneHandOver, ClosesFirst, Guarded, HandledFirst
<1>4. Stages
  BY DEF Init, Stages, Stage, Open
<1>5. Events /\ Rounds /\ Queues /\ Calling
  BY DEF Init, Events, Rounds, Queues, Calling
<1> QED
  BY <1>1, <1>3, <1>4, <1>5 DEF Core

LEMMA CoreNext ==
    ASSUME SafeUse, Core, [Next]_vars
    PROVE  Core'
<1>1. ASSUME NEW l \in Loop, LoopStep(l) PROVE Core'
  BY <1>1, CorePoll, CoreHandleEvent, CoreSwap, CoreRunTask, CoreEndBatch, CoreCloseCb,
     CoreRemoveConn, CoreConn DEF LoopStep, ConnStep
<1>2. ASSUME NEW c \in Conn, NewConn(c) \/ UserDrops(c) \/ PeerCloses(c) PROVE Core'
  BY <1>2, CoreNewConn, CoreDrops, CoreUser
<1>3. CASE Start \/ UserChecks \/ UNCHANGED vars
  BY <1>3, CoreUser
<1>4. CASE UserActs
  BY <1>4, CoreUserActs
<1> QED
  BY <1>1, <1>2, <1>3, <1>4 DEF Next

-----------------------------------------------------------------------------
(* Who is held.                                                            *)

\* A connection is referenced when it is in a set, or a line holds it.
RefersBy ==
    Types => \A c \in Conn :
        Referenced(c) <=>
            \/ c \in mc_connections \union kept
            \/ \E l \in Loop : c \in spent[l] \/ \E op \in SharedOp : In(l, C(op, c))

LEMMA RefersByLine == RefersBy
<1> SUFFICES ASSUME Types, NEW c \in Conn
             PROVE  Referenced(c) <=>
                       \/ c \in mc_connections \union kept
                       \/ \E l \in Loop : c \in spent[l]
                                          \/ \E op \in SharedOp : In(l, C(op, c))
  BY DEF RefersBy
<1>1. ASSUME NEW l \in Loop
      PROVE  Holds(tasks[l] \o batch[l] \o calls[l], c)
             <=> \E op \in SharedOp : In(l, C(op, c))
  <2> DEFINE s == tasks[l] \o batch[l] \o calls[l]
  <2>1. s \in Seq(Call)
    <3>1. calls[l] \in Seq(Call) /\ batch[l] \in Seq(Call) /\ tasks[l] \in Seq(Call)
      BY SeqTypes
    <3>2. tasks[l] \o batch[l] \in Seq(Call)
      BY <3>1
    <3> QED
      BY <3>1, <3>2
  <2>2. \A n \in DOMAIN s : s[n] \in Call
    <3>1. \A q \in Seq(Call) : \A n \in DOMAIN q : q[n] \in Call
      OBVIOUS
    <3> QED
      BY <2>1, <3>1
  <2>3. \A n \in DOMAIN s : s[n] = C(s[n].op, s[n].conn)
    BY <2>2, CallTypes
  <2>4. \A x : In(l, x) <=> Within(s, x)
    BY InParts
  <2> HIDE DEF s
  <2>5. Holds(s, c) => \E op \in SharedOp : Within(s, C(op, c))
    BY <2>3 DEF Holds, Within
  <2>6. (\E op \in SharedOp : Within(s, C(op, c))) => Holds(s, c)
    BY CallFields DEF Holds, Within
  <2> QED
    BY <2>4, <2>5, <2>6 DEF s
<1> QED
  BY <1>1 DEF Referenced

LEMMA RefersByLineNext == RefersBy'
BY RefersByLine, PTL

\* What a step may do to the references: L is what it takes on.
LEMMA RefersBack ==
    ASSUME Types, Types', Alive, NEW L,
           mc_connections' \union kept' \subseteq mc_connections \union kept \union L,
           \A l \in Loop : spent'[l] \subseteq spent[l] \union L,
           \A l \in Loop, c \in Conn, op \in SharedOp :
              In(l, C(op, c))' => In(l, C(op, c)) \/ c \in L
    PROVE  \A c \in Conn : Referenced(c)' => c \in live \union L
<1>1. SUFFICES ASSUME NEW c \in Conn, Referenced(c)', c \notin L PROVE c \in live
  OBVIOUS
<1>2. \/ c \in mc_connections' \union kept'
      \/ \E l \in Loop : c \in spent'[l] \/ \E op \in SharedOp : In(l, C(op, c))'
  BY <1>1, RefersByLineNext DEF RefersBy
<1>3. \/ c \in mc_connections \union kept
      \/ \E l \in Loop : c \in spent[l] \/ \E op \in SharedOp : In(l, C(op, c))
  BY <1>1, <1>2
<1>4. Referenced(c)
  BY <1>3, RefersByLine DEF RefersBy
<1> QED
  BY <1>4 DEF Alive

\* The destructors find a closed connection that the poller does not know.
LEMMA AliveFinish ==
    ASSUME Core', Alive, Finish,
           \A c \in Conn : Referenced(c)' => c \in live,
           \A c \in live : m_status[c] # "none" => m_status'[c] # "none", Types
    PROVE  Alive'
<1> DEFINE gone == {c \in live : ~Referenced(c)'}
<1>1. /\ live' = live \ gone
      /\ failed' = failed
             \union (IF \A c \in gone : MayBeDestroyed(c) THEN {}
                     ELSE {"TcpConnection.cc:62"})
             \union (IF gone \intersect registered' = {} THEN {}
                     ELSE {"Channel.cc:26"})
  BY DEF Finish, FinishAsserting
<1>2. Types' /\ Stages' /\ Guarded'
  BY DEF Core
<1>3. ASSUME NEW c \in gone PROVE m_status'[c] = "disconnected" /\ c \notin registered'
  <2>1. c \in Conn /\ c \in live /\ ~Referenced(c)' /\ m_status'[c] # "none"
    BY <1>3 DEF Types, Alive
  <2>2. /\ c \notin mc_connections'
        /\ \A l \in Loop, op \in SharedOp : ~In(l, C(op, c))'
    BY <1>2, <2>1, RefersByLineNext DEF RefersBy
  <2>3. Stage(c)'
    BY <1>2, <2>1 DEF Stages
  <2>4. m_status'[c] = "disconnected"
    <3>1. m_status'[c] \in {"none", "connecting", "connected", "disconnecting",
                            "disconnected"}
      BY <1>2, <2>1 DEF Types
    <3> QED
      BY <2>1, <2>2, <2>3, <3>1 DEF Stage, Open
  <2>5. ~Removing(c)'
    <3>1. ASSUME NEW l \in Loop, In(l, C("connect_destroy", c))' PROVE FALSE
      BY <2>2, <3>1 DEF SharedOp
    <3>2. ASSUME NEW l \in Loop, In(l, C("channel_remove", c))' PROVE FALSE
      <4>1. PICK n \in DOMAIN line'[l] : line'[l][n] = C("channel_remove", c)
        BY <3>2 DEF In
      <4>2. n + 1 \in DOMAIN line'[l] /\ line'[l][n + 1] = C("guard", c)
        BY <1>2, <4>1, CallFields DEF Guarded, NextIsGuard
      <4>3. In(l, C("guard", c))'
        BY <4>2 DEF In
      <4> QED
        BY <2>2, <4>3 DEF SharedOp
    <3> QED
      BY <3>1, <3>2 DEF Removing
  <2> QED
    BY <2>2, <2>3, <2>4, <2>5 DEF Stage, Open
<1>4. failed' = {}
  BY <1>1, <1>3 DEF MayBeDestroyed, Alive
<1>5. \A c \in Conn : Referenced(c)' => c \in live'
  BY <1>1
<1>6. \A c \in live' : m_status'[c] # "none"
  BY <1>1 DEF Alive
<1> QED
  BY <1>4, <1>5, <1>6 DEF Alive

\* A step that destroys nothing.
LEMMA AliveStays ==
    ASSUME Alive, UNCHANGED <<live, failed>>,
           \A c \in Conn : Referenced(c)' => c \in live,
           \A c \in live : m_status[c] # "none" => m_status'[c] # "none"
    PROVE  Alive'
BY DEF Alive

\* A step of a connection works on one that exists, and its assert holds.
LEMMA ConnFinish ==
    ASSUME Core, NEW l \in Loop, ConnStep(l)
    PROVE  Finish /\ Head(calls[l]).conn \in live
<1>1. Types /\ Agreed /\ Stages
  BY DEF Core
<1>2. PICK op : Top(l, op)
  BY DEF ConnStep, ConnectEstablised, HandleClose, HandleRead, HandleError, HandleWrite,
         CallbackAsks, Return, ConnectDestroy, ChannelRemove, ForceClose,
         CallbackReturns, CallbackShutsDown, CallbackCloses
<1>3. Head(calls[l]).conn \in live
  BY <1>2 DEF Top
<1>4. CASE HandleClose(l)
  <2>1. line[l][1] = C("handle_close", TopConn(l)) /\ 1 \in DOMAIN line[l]
    BY <1>1, <1>4, TopFacts DEF HandleClose
  <2>2. m_status[TopConn(l)] \in Open
    BY <1>1, <2>1, CallFields DEF Agreed, Agrees
  <2>3. FinishAsserting("TcpConnection.cc:290",
                        m_status[TopConn(l)] \in {"connected", "disconnecting"})
    BY <1>4 DEF HandleClose
  <2> QED
    BY <1>3, <2>2, <2>3 DEF Open, Finish, FinishAsserting
<1>5. CASE ChannelRemove(l)
  <2>1. line[l][1] = C("channel_remove", TopConn(l)) /\ 1 \in DOMAIN line[l]
        /\ TopConn(l) \in Conn
    BY <1>1, <1>5, TopFacts DEF ChannelRemove
  <2>2. m_status[TopConn(l)] = "disconnected"
    BY <1>1, <2>1, CallFields DEF Agreed, Agrees
  <2>3. events[TopConn(l)] = {}
    BY <1>1, <2>1, <2>2 DEF Stages, Stage, Open
  <2>4. FinishAsserting("Channel.cc:43", events[TopConn(l)] = {})
    BY <1>5 DEF ChannelRemove
  <2> QED
    BY <1>3, <2>3, <2>4 DEF Finish, FinishAsserting
<1> QED
  BY <1>3, <1>4, <1>5
     DEF ConnStep, ConnectEstablised, HandleRead, HandleError, HandleWrite,
         CallbackAsks, Return, ConnectDestroy, ForceClose,
         CallbackReturns, CallbackShutsDown, CallbackCloses

LEMMA AliveConn ==
    ASSUME SafeUse, Core, Core', Alive, NEW l \in Loop, ConnStep(l)
    PROVE  Alive'
<1>1. Types /\ Types' /\ Agreed
  BY DEF Core
<1>2. PICK c \in Conn : ConnEffects(l, c)
  BY <1>1, ConnEffect DEF ConnEffects
<1>3. PICK op, new :
         /\ Does(l, op, c, new)
         /\ \A n \in DOMAIN new :
               /\ new[n].conn = c
               /\ new[n].op \in {"callback", "close_cb", "guard", "handle_close",
                                 "channel_remove", "force_close"}
  BY <1>2, NewCalls
<1>4. c \in live
  BY <1>3, ConnFinish, CallFields DEF Does
<1>5. mc_connections' = mc_connections /\ spent' = spent
  BY <1>3 DEF Does
<1>6. kept' \subseteq kept \union {c}
  BY <1>2 DEF ConnEffects, Establishes, Closes, ShutsDown, Removes, Returns, Expands
<1>7. ASSUME NEW k \in Loop, NEW d \in Conn, NEW o \in SharedOp, In(k, C(o, d))'
      PROVE  In(k, C(o, d)) \/ d \in {c}
  <2>1. PICK m \in DOMAIN line'[k] : line'[k][m] = C(o, d)
    BY <1>7 DEF In
  <2>2. CASE m \in DOMAIN new /\ line'[k][m] = new[m]
    <3>1. new[m].conn = c /\ new[m] = C(o, d)
      BY <1>3, <2>1, <2>2
    <3>2. d = c
      BY <3>1, CallFields
    <3> QED
      BY <3>2
  <2>3. CASE \E n \in DOMAIN line[k] : line'[k][m] = line[k][n]
    BY <2>1, <2>3 DEF In
  <2> QED
    BY <1>1, <1>3, <2>2, <2>3, DoesOld
<1>8. \A d \in Conn : Referenced(d)' => d \in live \union {c}
  BY <1>1, <1>5, <1>6, <1>7, RefersBack
<1>9. \A d \in live : m_status[d] # "none" => m_status'[d] # "none"
  <2>1. live \subseteq Conn
    BY <1>1 DEF Types
  <2> QED
    BY <1>1, <1>2, <2>1, NewStatus DEF ConnEffects
<1> QED
  BY <1>1, <1>4, <1>8, <1>9, ConnFinish, AliveFinish

LEMMA AliveHands ==
    ASSUME SafeUse, Core, Core', Alive, NEW l \in Loop, CloseCb(l) \/ RemoveConn(l)
    PROVE  Alive'
<1> USE DEF channels, outside
<1>1. Types /\ Types' /\ Agreed /\ Placed
  BY DEF Core
<1>a. PICK c, k : c = TopConn(l) /\ k = IF CloseCb(l) THEN Main ELSE loop[c]
  OBVIOUS
<1>2. PICK op \in {"close_cb", "remove_conn"}, x \in {C("remove_conn", c), C("connect_destroy", c)} :
         /\ Top(l, op)
         /\ AddTask(l, k, x, Tail(calls[l]))
         /\ op = IF CloseCb(l) THEN "close_cb" ELSE "remove_conn"
  BY <1>a DEF CloseCb, RemoveConn, DestroyLater, ServerLoop
<1>3. c \in Conn /\ c \in live /\ 1 \in DOMAIN line[l] /\ line[l][1] = C(op, c)
      /\ calls[l] # << >>
  BY <1>1, <1>a, <1>2, TopFacts
<1>4. x \in Call /\ x.conn = c
  <2>1. \A o \in {"remove_conn", "connect_destroy"} : C(o, c) \in Call /\ C(o, c).conn = c
    <3>1. {"remove_conn", "connect_destroy"} \subseteq SharedOp
      BY DEF SharedOp
    <3> QED
      BY <1>3, <3>1, CallTypes
  <2> QED
    BY <1>2, <2>1
<1>5. k \in Loop /\ l # k
  <2>1. loop[c] \in ConnLoop /\ ConnLoop = IoLoop
    BY <1>1, <1>3 DEF Types, SafeUse, ConnLoop
  <2>2. op = "close_cb" => l = loop[c]
    BY <1>1, <1>3, CallFields DEF Placed, Home
  <2>3. op = "remove_conn" => l = Main
    BY <1>1, <1>3, CallFields DEF Placed, Home
  <2> QED
    BY <1>a, <1>2, <2>1, <2>2, <2>3, ConstantsAssumption DEF Loop
<1>6. UNCHANGED <<m_status, batch, spent, kept>> /\ mc_connections' \subseteq mc_connections
  BY DEF CloseCb, RemoveConn
<1>7. HandsOver(l, k, x)
  BY <1>1, <1>2, <1>3, <1>4, <1>5, <1>6, AddTaskOver
<1>8. ASSUME NEW j \in Loop, NEW d \in Conn, NEW o \in SharedOp, In(j, C(o, d))'
      PROVE  In(j, C(o, d)) \/ d \in {c}
  <2>1. PICK m \in DOMAIN line'[j] : line'[j][m] = C(o, d)
    BY <1>8 DEF In
  <2>2. CASE line'[j][m] = x
    <3>1. x.conn = c /\ x = C(o, d)
      BY <1>4, <2>1, <2>2
    <3>2. d = c
      BY <3>1, CallFields
    <3> QED
      BY <3>2
  <2>3. CASE \E n \in DOMAIN line[j] : line'[j][m] = line[j][n]
    BY <2>1, <2>3 DEF In
  <2> QED
    BY <1>1, <1>3, <1>4, <1>5, <1>7, <2>2, <2>3, HandsOld
<1>9. \A d \in Conn : Referenced(d)' => d \in live \union {c}
  BY <1>1, <1>6, <1>8, RefersBack
<1>10. Finish
  <2>1. CASE CloseCb(l)
    BY <2>1 DEF CloseCb
  <2>2. CASE ~CloseCb(l)
    <3>1. c \in mc_connections
      BY <1>1, <1>2, <1>3, <2>2, CallFields DEF Agreed, Agrees
    <3>2. FinishAsserting("TcpServer.cc:109", c \in mc_connections)
      BY <1>a, <2>2 DEF RemoveConn
    <3> QED
      BY <3>1, <3>2 DEF Finish, FinishAsserting
  <2> QED
    BY <2>1, <2>2
<1> QED
  BY <1>1, <1>3, <1>6, <1>9, <1>10, AliveFinish

\* A task at the end of a line.
LEMMA AddsRefers ==
    ASSUME Types, Types', Alive, NEW k \in Loop, NEW x \in Call, Adds(k, x), NEW L,
           x.op \in SharedOp => x.conn \in L,
           mc_connections' \union kept' \subseteq mc_connections \union kept \union L,
           spent' = spent
    PROVE  \A c \in Conn : Referenced(c)' => c \in live \union L
<1>1. ASSUME NEW j \in Loop, NEW d \in Conn, NEW o \in SharedOp, In(j, C(o, d))'
      PROVE  In(j, C(o, d)) \/ d \in L
  <2>1. PICK m \in DOMAIN line'[j] : line'[j][m] = C(o, d)
    BY <1>1 DEF In
  <2>2. CASE line'[j][m] = x
    BY <2>1, <2>2, CallFields
  <2>3. CASE m \in DOMAIN line[j] /\ line'[j][m] = line[j][m]
    BY <2>1, <2>3 DEF In
  <2> QED
    BY <2>2, <2>3, AddsEntries
<1> QED
  BY <1>1, RefersBack

LEMMA AliveUserActs ==
    ASSUME SafeUse, Core, Core', Alive, UserActs
    PROVE  Alive'
<1> USE DEF channels
<1>1. Types /\ Types' /\ Calling
  BY DEF Core
<1>2. PICK x, k : x = pending /\ k = loop[pending.conn]
  OBVIOUS
<1>3. x \in Call /\ x.op = "force_close"
  BY <1>1, <1>2 DEF UserActs, Calling, Types
<1>4. k \in Loop
  BY <1>1, <1>2, <1>3, CallTypes, LoopFacts DEF Types
<1>5. UNCHANGED <<live, failed, m_status, mc_connections, kept, batch, calls, spent>>
      /\ tasks' = [tasks EXCEPT ![k] = Append(tasks[k], x)]
  BY <1>2, <1>3 DEF UserActs
<1>6. Adds(k, x)
  BY <1>1, <1>3, <1>4, <1>5, AddsLine
<1>7. x.op \notin SharedOp
  BY <1>3 DEF SharedOp
<1>8. \A c \in Conn : Referenced(c)' => c \in live \union {}
  BY <1>1, <1>3, <1>4, <1>5, <1>6, <1>7, AddsRefers
<1> QED
  BY <1>5, <1>8, AliveStays

LEMMA AliveNewConn ==
    ASSUME SafeUse, Core, Core', Alive, NEW c \in Conn, NewConn(c)
    PROVE  Alive'
<1> USE DEF channels, outside
<1>1. Types /\ Types'
  BY DEF Core
<1>2. PICK x, k : x = C("connect_establised", c) /\ k = loop[c]
  OBVIOUS
<1>3. x \in Call /\ x.conn = c
  BY <1>2, CallTypes DEF SharedOp
<1>4. k \in Loop /\ Main \in Loop /\ k # Main
  <2>1. k \in ConnLoop /\ ConnLoop = IoLoop
    BY <1>1, <1>2 DEF Types, SafeUse, ConnLoop
  <2> QED
    BY <2>1, ConstantsAssumption DEF Loop
<1>5. /\ m_status' = [m_status EXCEPT ![c] = "connecting"]
      /\ mc_connections' = mc_connections \union {c} /\ live' = live \union {c}
      /\ calls' = [calls EXCEPT ![Main] = calls[Main]]
      /\ tasks' = [tasks EXCEPT ![k] = Append(tasks[k], x)]
      /\ UNCHANGED <<kept, batch, spent, failed>>
  BY <1>2, <1>4 DEF NewConn, AddTask
<1>6. calls' = calls
  BY <1>1, <1>4, <1>5 DEF Types
<1>7. Adds(k, x)
  BY <1>1, <1>3, <1>4, <1>5, <1>6, AddsLine
<1>8. \A d \in Conn : Referenced(d)' => d \in live \union {c}
  BY <1>1, <1>3, <1>4, <1>5, <1>7, AddsRefers
<1>9. \A d \in live \union {c} : m_status'[d] # "none"
  BY <1>1, <1>5 DEF Types, Alive
<1> QED
  BY <1>5, <1>8, <1>9 DEF Alive

LEMMA AliveHandleEvent ==
    ASSUME Core, Core', Alive, NEW l \in Loop, HandleEvent(l)
    PROVE  Alive'
<1> USE DEF channels, outside
<1>1. Types /\ Types' /\ Events /\ Rounds
  BY DEF Core
<1>2. PICK c \in live : active[c] # {} /\
         calls' = [calls EXCEPT ![l] =
             EventCalls(c, active[c]) \o <<C("handle_event", c)>>]
  BY DEF HandleEvent
<1>3. PICK new : new = EventCalls(c, active[c]) \o <<C("handle_event", c)>>
  OBVIOUS
<1>4. c \in Conn
  BY <1>1 DEF Types
<1>5. new \in Seq(Call) /\ \A n \in DOMAIN new : new[n].op \in Handler
  <2>1. "HUP" \in active[c] => "IN" \in active[c]
    BY <1>1, <1>2, <1>4 DEF Events
  <2> QED
    BY <1>3, <1>4, <2>1, EventCallsOf DEF Ordered
<1>6. UNCHANGED <<live, failed, m_status, mc_connections, kept, tasks, batch, spent>>
      /\ calls[l] = << >>
  BY DEF HandleEvent, Between
<1>7. Pushes(l, new)
  BY <1>1, <1>2, <1>3, <1>5, <1>6, PushesLine
<1>8. ASSUME NEW j \in Loop, NEW d \in Conn, NEW o \in SharedOp, In(j, C(o, d))'
      PROVE  In(j, C(o, d)) \/ d \in {}
  <2>1. PICK m \in DOMAIN line'[j] : line'[j][m] = C(o, d)
    BY <1>8 DEF In
  <2>2. ~(m \in DOMAIN new /\ line'[j][m] = new[m])
    BY <1>5, <2>1, CallFields DEF Handler, SharedOp
  <2>3. \E n \in DOMAIN line[j] : line'[j][m] = line[j][n]
    BY <1>1, <1>5, <1>7, <2>2, PushesEntries
  <2> QED
    BY <2>1, <2>3 DEF In
<1>9. \A d \in Conn : Referenced(d)' => d \in live \union {}
  BY <1>1, <1>6, <1>8, RefersBack
<1> QED
  BY <1>6, <1>9, AliveStays

\* The steps that leave the lines alone.
LEMMA AliveQuiet ==
    ASSUME Core, Core', Alive, \A k \in Loop : line'[k] = line[k],
           UNCHANGED <<m_status, mc_connections>>, kept' \subseteq kept,
           \A k \in Loop : spent'[k] \subseteq spent[k]
               \/ \E x \in Call : In(k, x) /\ x.op \in SharedOp
                                  /\ spent'[k] \subseteq spent[k] \union {x.conn},
           UNCHANGED <<live, failed>> \/ Finish
    PROVE  Alive'
<1>1. Types /\ Types'
  BY DEF Core
<1> DEFINE L == {c \in Conn : \E k \in Loop, op \in SharedOp : In(k, C(op, c))}
<1>2. \A k \in Loop : spent'[k] \subseteq spent[k] \union L
  <2>1. ASSUME NEW k \in Loop, NEW x \in Call, In(k, x), x.op \in SharedOp
        PROVE  x.conn \in L
    BY <2>1, CallTypes
  <2> QED
    BY <2>1
<1>3. L \subseteq live
  BY <1>1, RefersByLine DEF RefersBy, Alive
<1>4. \A k \in Loop, c \in Conn, op \in SharedOp : In(k, C(op, c))' => In(k, C(op, c))
  BY DEF In
<1> HIDE DEF L
<1>5. \A c \in Conn : Referenced(c)' => c \in live \union L
  BY <1>1, <1>2, <1>4, RefersBack
<1> QED
  BY <1>1, <1>3, <1>5, AliveStays, AliveFinish

LEMMA AliveNext ==
    ASSUME SafeUse, Core, Core', Alive, [Next]_vars
    PROVE  Alive'
<1> USE DEF channels, outside
<1>1. Types /\ Rounds
  BY DEF Core
<1>2. ASSUME NEW l \in Loop, Poll(l) PROVE Alive'
  <2>1. \A k \in Loop : line'[k] = line[k]
    BY <1>2 DEF Poll, line
  <2> QED
    BY <1>2, <2>1, AliveQuiet DEF Poll
<1>3. ASSUME NEW l \in Loop, Swap(l) PROVE Alive'
  <2>1. batch[l] = << >>
    BY <1>1, <1>3 DEF Swap, Between, Rounds
  <2>2. Sets(batch, batch', l, tasks[l]) /\ Sets(tasks, tasks', l, << >>) /\ calls' = calls
    BY <1>1, <1>3 DEF Swap, Types, Sets
  <2>3. \A k \in Loop : line'[k] = line[k]
    BY <1>1, <2>1, <2>2, SwapLine
  <2> QED
    BY <1>3, <2>3, AliveQuiet DEF Swap
<1>4. ASSUME NEW l \in Loop, RunTask(l) PROVE Alive'
  <2>1. calls[l] = << >> /\ batch[l] # << >>
    BY <1>4 DEF RunTask
  <2>2. Sets(calls, calls', l, <<Head(batch[l])>>) /\ Sets(batch, batch', l, Tail(batch[l]))
        /\ tasks' = tasks
    BY <1>1, <1>4 DEF RunTask, Types, Sets
  <2>3. /\ \A k \in Loop : line'[k] = line[k]
        /\ Head(batch[l]) \in Call /\ In(l, Head(batch[l]))
    BY <1>1, <2>1, <2>2, RunTaskLine DEF In
  <2>4. \A k \in Loop : spent'[k] \subseteq spent[k]
               \/ \E x \in Call : In(k, x) /\ x.op \in SharedOp
                                  /\ spent'[k] \subseteq spent[k] \union {x.conn}
    <3>1. \A k \in Loop : k # l => spent'[k] = spent[k]
      BY <1>1, <1>4 DEF RunTask, Types
    <3>2. CASE Head(batch[l]).op \in SharedOp
      <4>1. spent'[l] \subseteq spent[l] \union {Head(batch[l]).conn}
        BY <1>1, <1>4, <3>2 DEF RunTask, Types
      <4> QED
        BY <2>3, <3>1, <3>2, <4>1
    <3>3. CASE Head(batch[l]).op \notin SharedOp
      <4>1. spent'[l] = spent[l]
        BY <1>1, <1>4, <3>3 DEF RunTask, Types
      <4> QED
        BY <3>1, <4>1
    <3> QED
      BY <3>2, <3>3
  <2>5. UNCHANGED <<m_status, mc_connections, kept, live, failed>>
    BY <1>4 DEF RunTask
  <2> QED
    BY <2>3, <2>4, <2>5, AliveQuiet
<1>5. ASSUME NEW l \in Loop, EndBatch(l) PROVE Alive'
  <2>1. \A k \in Loop : line'[k] = line[k]
    BY <1>5 DEF EndBatch, line
  <2>2. \A k \in Loop : spent'[k] \subseteq spent[k]
    BY <1>1, <1>5 DEF EndBatch, Types
  <2> QED
    BY <1>5, <2>1, <2>2, AliveQuiet DEF EndBatch
<1>6. ASSUME NEW c \in Conn, UserDrops(c) PROVE Alive'
  <2>1. \A k \in Loop : line'[k] = line[k]
    BY <1>6 DEF UserDrops, line
  <2>2. kept' \subseteq kept /\ Finish /\ UNCHANGED <<m_status, mc_connections, spent>>
    BY <1>6 DEF UserDrops
  <2> QED
    BY <2>1, <2>2, AliveQuiet
<1>7. CASE Start \/ UserChecks \/ UNCHANGED vars \/ \E c \in Conn : PeerCloses(c)
  <2>1. UNCHANGED <<m_status, mc_connections, kept, spent, live, failed, calls, batch, tasks>>
    BY <1>7 DEF Start, UserChecks, PeerCloses, vars
  <2>2. \A k \in Loop : line'[k] = line[k]
    BY <2>1 DEF line
  <2> QED
    BY <2>1, <2>2, AliveQuiet
<1>8. ASSUME NEW l \in Loop, LoopStep(l) PROVE Alive'
  BY <1>2, <1>3, <1>4, <1>5, <1>8, AliveHandleEvent, AliveHands, AliveConn
     DEF LoopStep, ConnStep
<1> QED
  BY <1>6, <1>7, <1>8, AliveNewConn, AliveUserActs DEF Next

LEMMA AliveInit == Init => Alive
<1> SUFFICES ASSUME Init PROVE Alive
  OBVIOUS
<1>1. Types
  BY TypesInit
<1>2. \A l \in Loop : calls[l] = << >> /\ batch[l] = << >> /\ tasks[l] = << >> /\ spent[l] = {}
  BY DEF Init
<1>3. \A l \in Loop : \A x : ~In(l, x)
  <2>1. \A x : ~Within(<< >>, x)
    BY DEF Within
  <2> QED
    BY <1>1, <1>2, <2>1, InParts
<1>4. \A c \in Conn : ~Referenced(c)
  BY <1>1, <1>2, <1>3, RefersByLine DEF RefersBy, Init
<1> QED
  BY <1>4 DEF Init, Alive

-----------------------------------------------------------------------------
(* The theorems.                                                           *)

LEMMA Safety ==
    ASSUME SafeUse
    PROVE  Spec => []IInv
<1>1. Init => IInv
  BY CoreInit, AliveInit DEF IInv
<1>2. IInv /\ [Next]_vars => IInv'
  BY CoreNext, AliveNext DEF IInv
<1> QED
  BY <1>1, <1>2, PTL DEF Spec

\* No assert of TcpServer, TcpConnection and Channel fails, for any number of
\* connections and io loops (NoAssertFails), when there is a pool and the user
\* does what SafeUse names.
THEOREM NoAssertEverFails ==
    ASSUME SafeUse
    PROVE  Spec => []NoAssertFails
<1>1. IInv => NoAssertFails
  BY DEF IInv, Alive, NoAssertFails
<1> QED
  BY <1>1, Safety, PTL

\* Every entry of a line has a connection that exists: what holds no shared_ptr
\* has one behind it in its line, in the map, or in the user's hands.
LEMMA LineIsAlive ==
    ASSUME IInv, NEW l \in Loop, NEW n \in DOMAIN line[l]
    PROVE  line[l][n].conn \in live
<1> DEFINE x == line[l][n]
<1>0. Types /\ Placed /\ Agreed /\ Guarded /\ HandledFirst /\ Stages
  BY DEF IInv, Core
<1>1. x \in Call /\ x.conn \in Conn /\ In(l, x) /\ x = C(x.op, x.conn)
      /\ x.op \in SharedOp \union RawOp
  BY <1>0, LineCalls, CallTypes DEF In
<1>2. \A c \in mc_connections \union kept : c \in live
  BY <1>0, RefersByLine DEF RefersBy, IInv, Alive, Types
<1>3. \A op \in SharedOp : In(l, C(op, x.conn)) => x.conn \in live
  BY <1>0, <1>1, RefersByLine DEF RefersBy, IInv, Alive
<1>4. CASE x.op \in SharedOp
  BY <1>1, <1>3, <1>4
<1>5. CASE x.op \in Handler
  <2>1. x.conn \in mc_connections \/ In(l, C("connect_destroy", x.conn))
    BY <1>0, <1>5 DEF HandledFirst, In
  <2> QED
    BY <1>2, <1>3, <2>1 DEF SharedOp
<1>6. CASE x.op \in {"channel_remove", "force_close"}
  <2>1. NextIsGuard(l, n) \/ x.conn \in kept
    BY <1>0, <1>6 DEF Guarded
  <2>2. NextIsGuard(l, n) => In(l, C("guard", x.conn))
    BY DEF NextIsGuard, In
  <2> QED
    BY <1>2, <1>3, <2>1, <2>2 DEF SharedOp
<1>7. CASE x.op = "handle_close"
  <2>1. m_status[x.conn] \in Open
    BY <1>0, <1>7 DEF Agreed, Agrees
  <2> QED
    BY <1>0, <1>1, <1>2, <2>1 DEF Stages, Stage
<1>8. x.op # "shutdown"
  BY <1>0 DEF Placed
<1> QED
  BY <1>1, <1>4, <1>5, <1>6, <1>7, <1>8 DEF RawOp, Handler

\* Whatever a loop thread is inside of, or is about to handle, exists
\* (InUseIsAlive): handle_event, handle_close and Channel::remove run on a raw
\* this.
THEOREM InUseIsAlwaysAlive ==
    ASSUME SafeUse
    PROVE  Spec => []InUseIsAlive
<1>1. ASSUME IInv PROVE InUseIsAlive
  <2>0. Types /\ Events /\ Stages
    BY <1>1 DEF IInv, Core
  <2>1. ASSUME NEW c \in Conn, active[c] # {} PROVE c \in live
    <3>1. c \in mc_connections
      BY <2>0, <2>1 DEF Events, Stages, Stage
    <3>2. Referenced(c)
      BY <3>1 DEF Referenced
    <3> QED
      BY <1>1, <3>2 DEF IInv, Alive
  <2>2. ASSUME NEW l \in Loop, NEW n \in DOMAIN calls[l] PROVE calls[l][n].conn \in live
    <3>1. PICK m \in DOMAIN line[l] : line[l][m] = calls[l][n]
      BY <2>0, CallsInLine DEF In
    <3> QED
      BY <1>1, <3>1, LineIsAlive
  <2> QED
    BY <2>1, <2>2 DEF InUseIsAlive
<1> QED
  BY <1>1, Safety, PTL

\* A task that was queued with a raw this finds its connection
\* (TasksFindTheirConnection): whoever queues a force_close keeps his pointer.
THEOREM TasksAlwaysFind ==
    ASSUME SafeUse
    PROVE  Spec => []TasksFindTheirConnection
<1>1. ASSUME IInv PROVE TasksFindTheirConnection
  <2>0. Types
    BY <1>1 DEF IInv, Core
  <2>1. ASSUME NEW l \in Loop, NEW n \in DOMAIN (tasks[l] \o batch[l])
        PROVE  (tasks[l] \o batch[l])[n].conn \in live
    <3>1. PICK x : x = (tasks[l] \o batch[l])[n]
      OBVIOUS
    <3>2. tasks[l] \in Seq(Call) /\ batch[l] \in Seq(Call)
      BY <2>0, SeqTypes
    <3>3. Within(tasks[l] \o batch[l], x)
      BY <2>1, <3>1 DEF Within
    <3>4. In(l, x)
      BY <2>0, <3>2, <3>3, WithinConcat, InParts
    <3> QED
      BY <1>1, <3>1, <3>4, LineIsAlive DEF In
  <2> QED
    BY <2>1 DEF TasksFindTheirConnection
<1> QED
  BY <1>1, Safety, PTL

\* A close is never lost on its way: while the map or the poller still knows a
\* connection that is closed, the next of the calls that take it out
\* (close_cb, remove_conn, connect_destroy, channel_remove) is in the line of a
\* loop, once.
CloseGoesOn ==
    \A c \in Conn : m_status[c] = "disconnected" =>
        /\ c \in mc_connections => Closing(c)
        /\ c \in registered => Closing(c) \/ Removing(c)
        /\ \A l, k \in Loop : \A n \in DOMAIN line[l], m \in DOMAIN line[k] :
              /\ line[l][n].op \in MyOp /\ line[k][m].op \in MyOp
              /\ line[l][n].conn = c /\ line[k][m].conn = c
              => l = k /\ n = m

\* handle_close, remove_conn and connect_destroy hand a close on (CloseGoesOn):
\* the safe half of ClosedIsReleased.
THEOREM CloseAlwaysGoesOn ==
    ASSUME SafeUse
    PROVE  Spec => []CloseGoesOn
<1>1. ASSUME IInv PROVE CloseGoesOn
  <2>0. Stages /\ OneHandOver
    BY <1>1 DEF IInv, Core
  <2>1. ASSUME NEW c \in Conn, m_status[c] = "disconnected"
        PROVE  /\ c \in mc_connections => Closing(c)
               /\ c \in registered => Closing(c) \/ Removing(c)
    BY <2>0, <2>1 DEF Stages, Stage, Open
  <2> QED
    BY <2>0, <2>1 DEF CloseGoesOn, OneHandOver
<1> QED
  BY <1>1, Safety, PTL
=============================================================================
