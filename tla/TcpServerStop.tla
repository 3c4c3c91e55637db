--------------------------- MODULE TcpServerStop ---------------------------
(***************************************************************************)
(* TcpServer and its connections up to the end: ~TcpServer runs in Main,   *)
(* and the pool of loops, its member, is destroyed after it: one loop      *)
(* thread after the other is told to quit and joined                       *)
(* (net/EventLoopThread.cc:16-24), and its EventLoop dies with the tasks   *)
(* that are still queued.                                                  *)
(***************************************************************************)
EXTENDS TcpServer

VARIABLES
    server, \* "alive", "destroying" or "dead"
    quit,   \* the io loops whose mb_quited is set
    inside  \* those of them that were inside epoll_wait when it was set

stopVars == <<vars, server, quit, inside>>

StopInit == Init /\ server = "alive" /\ quit = {} /\ inside = {}

\* A step of the other module.  Main is inside ~TcpServer until that is done
\* and only makes its calls; nothing is accepted any more; a loop that sees
\* mb_quited does not poll again.
GoesOn ==
    /\ Next
    /\ server = "destroying" =>
          /\ phase'[Main] = phase[Main]
          /\ \A c \in Conn : loop[c] = Main => active'[c] = active[c]
    /\ server # "alive" => live' \subseteq live
    /\ \A l \in quit \ inside : phase[l] = "poll" => phase'[l] = "poll"
    /\ inside' = {l \in inside : phase'[l] = "poll"}
    /\ UNCHANGED <<server, quit>>

\* ~TcpServer takes each connection out of the map and adds connect_destroy
\* to its loop.
DestroyServer ==
    /\ server = "alive"
    /\ Between(Main)
    /\ server' = "destroying"
    /\ mc_connections' = {}
    /\ \E order \in SetToSeqs(mc_connections) :
          LET Destroys(l) ==
                LET s == SelectSeq(order, LAMBDA c : loop[c] = l)
                IN  [n \in DOMAIN s |-> C("connect_destroy", s[n])]
          IN  /\ calls' = [calls EXCEPT ![Main] = Destroys(Main)]
              /\ tasks' = [l \in Loop |->
                             IF l = Main THEN tasks[l] ELSE tasks[l] \o Destroys(l)]
    /\ UNCHANGED <<m_status, channels, batch, spent, active, kept,
                   quit, inside, outside>>
    /\ Finish

\* ~EventLoopThread of the next loop of the pool, after the one before was
\* joined: quit() ...
QuitLoop(l) ==
    /\ failed = {}
    /\ server = "destroying"
    /\ calls[Main] = << >>
    /\ l \notin quit
    /\ \A k \in quit : phase[k] = "left"
    /\ quit' = quit \union {l}
    /\ inside' \in SUBSET {k \in {l} : phase[k] = "poll"}
    /\ UNCHANGED <<vars, server>>

\* ... and join(), here of the last one.
Joined ==
    /\ failed = {}
    /\ server = "destroying"
    /\ quit = IoLoop
    /\ \A l \in quit : phase[l] = "left"
    /\ server' = "dead"
    /\ UNCHANGED <<vars, quit, inside>>

\* loop() returns and ~EventLoop drops the tasks nobody has taken.
LoopLeaves(l) ==
    /\ failed = {}
    /\ l \in quit \ inside
    /\ phase[l] = "poll"
    /\ phase' = [phase EXCEPT ![l] = "left"]
    /\ tasks' = [tasks EXCEPT ![l] = << >>]
    /\ UNCHANGED <<m_status, listening, channels, loop, mc_connections, batch,
                   spent, calls, active, kept, pending, peer, server, quit,
                   inside>>
    /\ Finish

StopNext ==
    \/ GoesOn
    \/ DestroyServer \/ Joined
    \/ \E l \in IoLoop : QuitLoop(l) \/ LoopLeaves(l)

StopSpec == StopInit /\ [][StopNext]_stopVars

-----------------------------------------------------------------------------

\* Destroying the server destroys its connections by connect_destroy, in their
\* loops (TcpServer.cc:33-34): none is destroyed while its channel is still
\* registered, the assert of ~Channel.
DestroyedByTheirLoop == "Channel.cc:26" \notin failed
=============================================================================
