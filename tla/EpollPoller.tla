---------------------------- MODULE EpollPoller ----------------------------
(***************************************************************************)
(* net/EpollPoller and net/Channel: the registration of channels with one  *)
(* epoll instance, and the raw Channel pointers that the kernel and the    *)
(* list of active channels hold.  Everything here runs in the loop thread. *)
(*                                                                         *)
(* The owners of channels (TcpConnection, Connector, Acceptor, TimerQueue, *)
(* EventLoop) are represented by what they do with a channel: create it on *)
(* a descriptor no registered channel has, enable and disable events,      *)
(* remove it once no event is left, and destroy it from a queued task.     *)
(* A descriptor may pass to a new channel while the removed one still      *)
(* exists: Connector hands its fd to a TcpConnection that way.             *)
(***************************************************************************)
EXTENDS FiniteSets

CONSTANTS
    Channel,
    Fd

NoChannel == "no channel"
Event == {"read", "write"}

ASSUME NoChannelAssumption == NoChannel \notin Channel

VARIABLES
    life,           \* "free", "alive", "removed" (after remove()) per channel
    m_fd,
    m_events,
    m_status,       \* "new", "old", "del"
    mc_channels,    \* fd -> the channel the poller knows, or NoChannel
    interest,       \* kernel: fd -> the registered pointer and events
    phase,          \* "poll", "events" (channels are walked), "tasks"
    active          \* mc_active_channels still to be handled

vars == <<life, m_fd, m_events, m_status, mc_channels, interest, phase, active>>

Unwatched == [chan |-> NoChannel, events |-> {}]

Interest == [chan : Channel \union {NoChannel}, events : SUBSET Event]

Init ==
    /\ life = [c \in Channel |-> "free"]
    /\ m_fd \in [Channel -> Fd]
    /\ m_events = [c \in Channel |-> {}]
    /\ m_status = [c \in Channel |-> "new"]
    /\ mc_channels = [f \in Fd |-> NoChannel]
    /\ interest = [f \in Fd |-> Unwatched]
    /\ phase = "tasks"
    /\ active = {}

-----------------------------------------------------------------------------
(* epoll_ctl: ADD fails on a known fd and MOD on an unknown one, which     *)
(* update_epoll only logs.                                                 *)

CtlAdd(I, f, c, E) ==
    IF I[f] = Unwatched THEN [I EXCEPT ![f] = [chan |-> c, events |-> E]] ELSE I

CtlMod(I, f, c, E) ==
    IF I[f] # Unwatched THEN [I EXCEPT ![f] = [chan |-> c, events |-> E]] ELSE I

CtlDel(I, f) == [I EXCEPT ![f] = Unwatched]

\* Faulty variant: no DEL once nothing is watched.
InterestKept(c, E) ==
    IF m_status[c] = "new"
    THEN CtlAdd(interest, m_fd[c], c, E)
    ELSE CtlMod(interest, m_fd[c], c, E)

\* The calls update() makes: ADD for a new channel and MOD for any other
\* (also for one in s_del, which the kernel no longer knows), then DEL if
\* the channel watches nothing.
InterestAfterUpdate(c, E) ==
    LET I == IF m_status[c] = "new"
             THEN CtlAdd(interest, m_fd[c], c, E)
             ELSE CtlMod(interest, m_fd[c], c, E)
    IN  IF E = {} THEN CtlDel(I, m_fd[c]) ELSE I

StatusAfterUpdate(E) == IF E = {} THEN "del" ELSE "old"

-----------------------------------------------------------------------------
(* The channel owners.                                                     *)

\* Owners run in callbacks and in tasks; epoll_wait blocks the thread.
Running == phase \in {"events", "tasks"}

\* Faulty variant: an owner hands its descriptor on without remove().
RegisteredIgnored(f) == FALSE

Registered(f) == \E c \in Channel : life[c] = "alive" /\ m_fd[c] = f

Create(c, f) ==
    /\ Running
    /\ life[c] = "free"
    /\ ~Registered(f)
    /\ life' = [life EXCEPT ![c] = "alive"]
    /\ m_fd' = [m_fd EXCEPT ![c] = f]
    /\ m_events' = [m_events EXCEPT ![c] = {}]
    /\ m_status' = [m_status EXCEPT ![c] = "new"]
    /\ UNCHANGED <<mc_channels, interest, phase, active>>

\* enable_read, enable_write, disable_read, disable_write, disable_all: E is
\* the new m_events.  Each of them calls EpollPoller::update.
Update(c, E) ==
    /\ Running
    /\ life[c] = "alive"
    /\ m_events' = [m_events EXCEPT ![c] = E]
    /\ mc_channels' = IF m_status[c] = "new"
                      THEN [mc_channels EXCEPT ![m_fd[c]] = c] ELSE mc_channels
    /\ interest' = InterestAfterUpdate(c, E)
    /\ m_status' = [m_status EXCEPT ![c] = StatusAfterUpdate(E)]
    /\ UNCHANGED <<life, m_fd, phase, active>>

\* The owner has disabled all events and registered the channel before.
Remove(c) ==
    /\ Running
    /\ life[c] = "alive"
    /\ m_events[c] = {}
    /\ m_status[c] # "new"
    /\ life' = [life EXCEPT ![c] = "removed"]
    /\ mc_channels' = [mc_channels EXCEPT ![m_fd[c]] = NoChannel]
    /\ interest' = IF m_status[c] = "old" THEN CtlDel(interest, m_fd[c])
                   ELSE interest
    /\ m_status' = [m_status EXCEPT ![c] = "new"]
    /\ UNCHANGED <<m_fd, m_events, phase, active>>

\* Faulty variant: the destructor runs inside a callback of the same poll.
DestroyAnywhere(c) ==
    /\ Running
    /\ life[c] = "removed" \/ (life[c] = "alive" /\ m_status[c] = "new")
    /\ life' = [life EXCEPT ![c] = "free"]
    /\ UNCHANGED <<m_fd, m_events, m_status, mc_channels, interest, phase,
                   active>>

\* Owners defer the destruction to a task (Connector::remove, connect_destroy).
Destroy(c) ==
    /\ phase = "tasks"
    /\ life[c] = "removed" \/ (life[c] = "alive" /\ m_status[c] = "new")
    /\ life' = [life EXCEPT ![c] = "free"]
    /\ UNCHANGED <<m_fd, m_events, m_status, mc_channels, interest, phase,
                   active>>

-----------------------------------------------------------------------------
(* The loop.                                                               *)

StartPoll ==
    /\ phase = "tasks"
    /\ phase' = "poll"
    /\ UNCHANGED <<life, m_fd, m_events, m_status, mc_channels, interest, active>>

Watched == {interest[f].chan : f \in Fd} \ {NoChannel}

\* epoll_wait fills in the pointers that were registered.
Poll(A) ==
    /\ phase = "poll"
    /\ A \subseteq Watched
    /\ active' = A
    /\ phase' = "events"
    /\ UNCHANGED <<life, m_fd, m_events, m_status, mc_channels, interest>>

\* handle_event of the next active channel; what its callback does to
\* channels are the actions above.
HandleEvent(c) ==
    /\ phase = "events"
    /\ c \in active
    /\ active' = active \ {c}
    /\ UNCHANGED <<life, m_fd, m_events, m_status, mc_channels, interest, phase>>

EventsHandled ==
    /\ phase = "events"
    /\ active = {}
    /\ phase' = "tasks"
    /\ UNCHANGED <<life, m_fd, m_events, m_status, mc_channels, interest, active>>

Next ==
    \/ \E c \in Channel :
          \/ \E f \in Fd : Create(c, f)
          \/ \E E \in SUBSET Event : Update(c, E)
          \/ Remove(c)
          \/ Destroy(c)
          \/ HandleEvent(c)
    \/ StartPoll
    \/ \E A \in SUBSET Channel : Poll(A)
    \/ EventsHandled

Spec == Init /\ [][Next]_vars

-----------------------------------------------------------------------------
(* Properties.                                                             *)

\* Each variable has its type, and a channel watches something exactly when
\* its status is s_old: update() and is_no_event() stay in step.
TypeOK ==
    /\ life \in [Channel -> {"free", "alive", "removed"}]
    /\ m_fd \in [Channel -> Fd]
    /\ m_events \in [Channel -> SUBSET Event]
    /\ m_status \in [Channel -> {"new", "old", "del"}]
    /\ mc_channels \in [Fd -> Channel \union {NoChannel}]
    /\ interest \in [Fd -> Interest]
    /\ phase \in {"poll", "events", "tasks"}
    /\ active \subseteq Channel
    /\ \A c \in Channel : m_events[c] # {} <=> m_status[c] = "old"

\* The map holds exactly the channels that were registered and not removed:
\* what the asserts of update() and remove() rely on (lines 117, 124, 134,
\* 148-149), although descriptors are reused.
MapHoldsRegistered ==
    \A f \in Fd, c \in Channel :
        mc_channels[f] = c <=>
            life[c] = "alive" /\ m_fd[c] = f /\ m_status[c] # "new"

\* The kernel never keeps a pointer the poller has forgotten, and never
\* watches other events than the channel asks for: a registration that
\* exists is the current one.
InterestNeverStale ==
    \A f \in Fd : interest[f] # Unwatched =>
        /\ interest[f].chan = mc_channels[f]
        /\ interest[f].chan \in Channel
        /\ interest[f].events = m_events[interest[f].chan]
        /\ m_status[interest[f].chan] = "old"

\* No channel is destroyed while the loop, or the kernel, can still reach it
\* by its raw pointer, whatever the callbacks of one round do to each other.
PointersAreAlive == \A c \in active \union Watched : life[c] # "free"

\* start_read and a send that cannot finish make the kernel watch the socket
\* (TcpConnection.cc:137, 190): a channel that asks for events gets them.
AskedIsWatched ==
    \A c \in Channel :
        life[c] = "alive" /\ m_events[c] # {} =>
            interest[m_fd[c]] = [chan |-> c, events |-> m_events[c]]
=============================================================================
