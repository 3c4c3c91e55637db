------------------------- MODULE EpollPoller_proofs -------------------------
(***************************************************************************)
(* Proofs about EpollPoller for any channels and descriptors: the poller's *)
(* map and the kernel's registrations agree, and no raw pointer outlives   *)
(* its channel.                                                            *)
(***************************************************************************)
EXTENDS EpollPoller, TLAPS

\* At most one channel that is not removed owns a descriptor.
OneOwner ==
    \A c, d \in Channel :
        life[c] = "alive" /\ life[d] = "alive" /\ m_fd[c] = m_fd[d] => c = d

\* Channels are walked only in the events phase.
WalkedInEvents == phase # "events" => active = {}

\* The inductive invariant.
IInv ==
    /\ TypeOK
    /\ OneOwner
    /\ WalkedInEvents
    /\ MapHoldsRegistered
    /\ InterestNeverStale
    /\ PointersAreAlive

LEMMA InitInv == Init => IInv
<1> SUFFICES ASSUME Init PROVE IInv
  OBVIOUS
<1>1. TypeOK
  BY DEF Init, TypeOK, Interest, Unwatched
<1>2. OneOwner /\ WalkedInEvents
  BY DEF Init, OneOwner, WalkedInEvents
<1>3. MapHoldsRegistered
  BY NoChannelAssumption DEF Init, MapHoldsRegistered
<1>4. InterestNeverStale
  BY DEF Init, InterestNeverStale
<1>5. PointersAreAlive
  BY DEF Init, PointersAreAlive, Watched, Unwatched
<1> QED
  BY <1>1, <1>2, <1>3, <1>4, <1>5 DEF IInv

LEMMA CreateInv ==
    ASSUME IInv, NEW c \in Channel, NEW f \in Fd, Create(c, f)
    PROVE  IInv'
<1> USE DEF IInv
<1>1. TypeOK'
  BY DEF TypeOK, Create
<1>2. OneOwner' /\ WalkedInEvents'
  BY DEF Create, Registered, OneOwner, WalkedInEvents, TypeOK
<1>3. MapHoldsRegistered'
  BY DEF Create, MapHoldsRegistered, TypeOK
<1>4. InterestNeverStale'
  BY DEF Create, InterestNeverStale, MapHoldsRegistered, TypeOK
<1>5. PointersAreAlive'
  BY DEF Create, PointersAreAlive, TypeOK, Watched
<1> QED
  BY <1>1, <1>2, <1>3, <1>4, <1>5

LEMMA RegistrationAfterUpdate ==
    ASSUME IInv, NEW c \in Channel, NEW E \in SUBSET Event, Update(c, E)
    PROVE  /\ interest' \in [Fd -> Interest]
           /\ \A f \in Fd \ {m_fd[c]} : interest'[f] = interest[f]
           /\ interest'[m_fd[c]] # Unwatched =>
                interest'[m_fd[c]] = [chan |-> c, events |-> E] /\ E # {}
<1> DEFINE f == m_fd[c]
<1>1. f \in Fd /\ interest \in [Fd -> Interest] /\ c \in Channel
  BY DEF IInv, TypeOK
<1>2. [chan |-> c, events |-> E] \in Interest /\ Unwatched \in Interest
  BY DEF Interest, Unwatched
<1>3. m_status[c] = "new" => interest[f] = Unwatched
  <2> SUFFICES ASSUME m_status[c] = "new", interest[f] # Unwatched PROVE FALSE
    OBVIOUS
  <2> DEFINE d == interest[f].chan
  <2>1. d \in Channel /\ mc_channels[f] = d
    BY <1>1 DEF IInv, InterestNeverStale
  <2>2. life[d] = "alive" /\ m_fd[d] = f /\ m_status[d] # "new"
    BY <1>1, <2>1 DEF IInv, MapHoldsRegistered
  <2> QED
    BY <2>1, <2>2 DEF IInv, OneOwner, Update
<1>4. interest' = InterestAfterUpdate(c, E)
  BY DEF Update
<1> QED
  BY <1>1, <1>2, <1>3, <1>4
     DEF InterestAfterUpdate, CtlAdd, CtlMod, CtlDel

LEMMA UpdateInv ==
    ASSUME IInv, NEW c \in Channel, NEW E \in SUBSET Event, Update(c, E)
    PROVE  IInv'
<1> DEFINE f == m_fd[c]
<1>0. f \in Fd /\ life[c] = "alive" /\ UNCHANGED <<life, m_fd, phase, active>>
  BY DEF IInv, TypeOK, Update
<1>r. /\ interest' \in [Fd -> Interest]
      /\ \A g \in Fd \ {f} : interest'[g] = interest[g]
      /\ interest'[f] # Unwatched =>
           interest'[f] = [chan |-> c, events |-> E] /\ E # {}
  BY RegistrationAfterUpdate
<1>m. /\ mc_channels' = [mc_channels EXCEPT ![f] = c]
      /\ m_events' = [m_events EXCEPT ![c] = E]
      /\ m_status' = [m_status EXCEPT ![c] = IF E = {} THEN "del" ELSE "old"]
  <2>1. m_status[c] # "new" => mc_channels[f] = c
    BY <1>0 DEF IInv, MapHoldsRegistered
  <2>2. mc_channels[f] = c => [mc_channels EXCEPT ![f] = c] = mc_channels
    BY DEF IInv, TypeOK
  <2> QED
    BY <2>1, <2>2 DEF Update, StatusAfterUpdate
<1>1. TypeOK'
  BY <1>0, <1>r, <1>m DEF IInv, TypeOK
<1>2. OneOwner' /\ WalkedInEvents'
  BY <1>0 DEF IInv, OneOwner, WalkedInEvents
<1>3. MapHoldsRegistered'
  BY <1>0, <1>m DEF IInv, MapHoldsRegistered, OneOwner, TypeOK
<1>4. InterestNeverStale'
  <2> SUFFICES ASSUME NEW g \in Fd, interest'[g] # Unwatched
               PROVE  /\ interest'[g].chan = mc_channels'[g]
                      /\ interest'[g].chan \in Channel
                      /\ interest'[g].events = m_events'[interest'[g].chan]
                      /\ m_status'[interest'[g].chan] = "old"
    BY DEF InterestNeverStale
  <2>1. CASE g = f
    BY <1>0, <1>r, <1>m, <2>1 DEF IInv, TypeOK
  <2>2. CASE g # f
    <3>1. interest'[g] = interest[g] /\ mc_channels'[g] = mc_channels[g]
      BY <1>r, <1>m, <2>2 DEF IInv, TypeOK
    <3>2. interest[g].chan = mc_channels[g] /\ interest[g].chan \in Channel
      BY <3>1 DEF IInv, InterestNeverStale
    <3>3. m_fd[interest[g].chan] = g
      BY <3>2 DEF IInv, MapHoldsRegistered
    <3>4. interest[g].chan # c
      BY <3>3, <2>2
    <3> QED
      BY <1>m, <3>1, <3>2, <3>4 DEF IInv, InterestNeverStale, TypeOK
  <2> QED
    BY <2>1, <2>2
<1>5. PointersAreAlive'
  <2>1. Watched' \subseteq Watched \union {c}
    BY <1>r DEF Watched, IInv, TypeOK, Unwatched
  <2> QED
    BY <1>0, <2>1 DEF IInv, PointersAreAlive
<1> QED
  BY <1>1, <1>2, <1>3, <1>4, <1>5 DEF IInv

LEMMA RemoveInv ==
    ASSUME IInv, NEW c \in Channel, Remove(c)
    PROVE  IInv'
<1> DEFINE f == m_fd[c]
<1>0. /\ f \in Fd /\ life[c] = "alive" /\ m_status[c] = "del"
      /\ m_events[c] = {}
      /\ UNCHANGED <<m_fd, m_events, phase, active, interest>>
  BY DEF IInv, TypeOK, Remove
<1>m. /\ mc_channels' = [mc_channels EXCEPT ![f] = NoChannel]
      /\ life' = [life EXCEPT ![c] = "removed"]
      /\ m_status' = [m_status EXCEPT ![c] = "new"]
  BY DEF Remove
<1>n. mc_channels[f] = c
  BY <1>0 DEF IInv, MapHoldsRegistered
<1>w. interest[f] = Unwatched
  BY <1>0, <1>n DEF IInv, InterestNeverStale
<1>1. TypeOK'
  BY <1>0, <1>m DEF IInv, TypeOK
<1>2. OneOwner' /\ WalkedInEvents'
  BY <1>0, <1>m DEF IInv, OneOwner, WalkedInEvents, TypeOK
<1>3. MapHoldsRegistered'
  BY <1>0, <1>m, <1>n, NoChannelAssumption
     DEF IInv, MapHoldsRegistered, TypeOK
<1>4. InterestNeverStale'
  <2> SUFFICES ASSUME NEW g \in Fd, interest[g] # Unwatched
               PROVE  /\ interest[g].chan = mc_channels'[g]
                      /\ interest[g].chan \in Channel
                      /\ interest[g].events = m_events[interest[g].chan]
                      /\ m_status'[interest[g].chan] = "old"
    BY <1>0 DEF InterestNeverStale
  <2>1. g # f /\ interest[g].chan = mc_channels[g] /\ interest[g].chan # c
        /\ m_status[interest[g].chan] = "old"
    BY <1>w, <1>0 DEF IInv, InterestNeverStale
  <2> QED
    BY <1>m, <2>1 DEF IInv, InterestNeverStale, TypeOK
<1>5. PointersAreAlive'
  BY <1>0, <1>m DEF IInv, PointersAreAlive, Watched, TypeOK
<1> QED
  BY <1>1, <1>2, <1>3, <1>4, <1>5 DEF IInv

LEMMA DestroyInv ==
    ASSUME IInv, NEW c \in Channel, Destroy(c)
    PROVE  IInv'
<1>0. /\ phase = "tasks" /\ active = {}
      /\ life[c] = "removed" \/ (life[c] = "alive" /\ m_status[c] = "new")
      /\ life' = [life EXCEPT ![c] = "free"]
      /\ UNCHANGED <<m_fd, m_events, m_status, mc_channels, interest, phase,
                     active>>
  BY DEF IInv, WalkedInEvents, Destroy
<1>1. TypeOK'
  BY <1>0 DEF IInv, TypeOK
<1>2. OneOwner' /\ WalkedInEvents'
  BY <1>0 DEF IInv, OneOwner, WalkedInEvents, TypeOK
<1>3. MapHoldsRegistered'
  BY <1>0 DEF IInv, MapHoldsRegistered, TypeOK
<1>4. InterestNeverStale'
  BY <1>0 DEF IInv, InterestNeverStale
<1>5. PointersAreAlive'
  <2>1. c \notin Watched
    <3> SUFFICES ASSUME NEW f \in Fd, interest[f].chan = c PROVE FALSE
      BY DEF Watched
    <3>1. interest[f] # Unwatched
      BY NoChannelAssumption DEF Unwatched
    <3>2. mc_channels[f] = c
      BY <3>1 DEF IInv, InterestNeverStale
    <3> QED
      BY <1>0, <3>2 DEF IInv, MapHoldsRegistered
  <2>2. Watched' = Watched /\ active' = {}
    BY <1>0 DEF Watched
  <2> QED
    BY <1>0, <2>1, <2>2 DEF IInv, PointersAreAlive, TypeOK
<1> QED
  BY <1>1, <1>2, <1>3, <1>4, <1>5 DEF IInv

LEMMA LoopInv ==
    ASSUME IInv,
           UNCHANGED <<life, m_fd, m_events, m_status, mc_channels, interest>>,
           phase' \in {"poll", "events", "tasks"},
           active' \subseteq active \union (Watched \ {NoChannel}),
           phase' # "events" => active' = {}
    PROVE  IInv'
<1>1. Watched \ {NoChannel} \subseteq Channel
  BY DEF IInv, TypeOK, Watched, Interest
<1>2. TypeOK'
  BY <1>1 DEF IInv, TypeOK
<1>3. OneOwner' /\ WalkedInEvents' /\ MapHoldsRegistered' /\ InterestNeverStale'
  BY DEF IInv, OneOwner, WalkedInEvents, MapHoldsRegistered, InterestNeverStale
<1>4. PointersAreAlive'
  BY DEF IInv, PointersAreAlive, Watched
<1> QED
  BY <1>2, <1>3, <1>4 DEF IInv

LEMMA NextInv == IInv /\ [Next]_vars => IInv'
<1> SUFFICES ASSUME IInv, [Next]_vars PROVE IInv'
  OBVIOUS
<1>1. CASE \E c \in Channel, f \in Fd : Create(c, f)
  BY <1>1, CreateInv
<1>2. CASE \E c \in Channel, E \in SUBSET Event : Update(c, E)
  BY <1>2, UpdateInv
<1>3. CASE \E c \in Channel : Remove(c)
  BY <1>3, RemoveInv
<1>4. CASE \E c \in Channel : Destroy(c)
  BY <1>4, DestroyInv
<1>5. CASE \E c \in Channel : HandleEvent(c)
  BY <1>5, LoopInv DEF HandleEvent
<1>6. CASE StartPoll
  BY <1>6, LoopInv DEF StartPoll, IInv, WalkedInEvents
<1>7. CASE \E A \in SUBSET Channel : Poll(A)
  BY <1>7, LoopInv DEF Poll, Watched
<1>8. CASE EventsHandled
  BY <1>8, LoopInv DEF EventsHandled
<1>9. CASE UNCHANGED vars
  BY <1>9, LoopInv DEF vars, IInv, TypeOK, WalkedInEvents
<1> QED
  BY <1>1, <1>2, <1>3, <1>4, <1>5, <1>6, <1>7, <1>8, <1>9 DEF Next

\* For any channels and descriptors, the poller's map holds exactly the
\* registered channels (the asserts of update and remove cannot fail).
THEOREM MapCorrect == Spec => [](TypeOK /\ MapHoldsRegistered)
<1>1. IInv => TypeOK /\ MapHoldsRegistered
  BY DEF IInv
<1> QED
  BY InitInv, NextInv, <1>1, PTL DEF Spec

\* What the kernel watches is never out of date (update, remove).
THEOREM RegistrationsCurrent == Spec => []InterestNeverStale
<1>1. IInv => InterestNeverStale
  BY DEF IInv
<1> QED
  BY InitInv, NextInv, <1>1, PTL DEF Spec

\* No raw Channel pointer, in the kernel or in the list of active channels,
\* outlives its channel as long as owners destroy from tasks.
THEOREM NoDanglingPointer == Spec => []PointersAreAlive
<1>1. IInv => PointersAreAlive
  BY DEF IInv
<1> QED
  BY InitInv, NextInv, <1>1, PTL DEF Spec
=============================================================================
