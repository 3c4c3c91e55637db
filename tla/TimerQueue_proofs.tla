-------------------------- MODULE TimerQueue_proofs --------------------------
(***************************************************************************)
(* Proofs about TimerQueue for any number of timers, delays and intervals, *)
(* given that no two timers are due in the same microsecond.               *)
(***************************************************************************)
EXTENDS TimerQueue, FiniteSetTheorems, TLAPS

\* The variables the maps depend on; the timerfd is not among them.
Typed ==
    /\ timer_index \in 0 .. MaxTimers
    /\ m_expiration \in [Index -> Int]
    /\ m_interval \in [Index -> Nat]
    /\ heap \subseteq 1 .. timer_index
    /\ mc_timers_will_del \subseteq Index
    /\ phase \in {"idle", "run", "interval"}
    /\ expired_timers \in Seq(Index)
    /\ done \in 0 .. Len(expired_timers)
    /\ cancelled \subseteq 1 .. timer_index

\* The expired timers are in the vector once, and only in handle_expiration.
BatchOnce ==
    /\ phase = "idle" => expired_timers = << >>
    /\ phase = "run" => mb_handling
    /\ \A m, n \in 1 .. Len(expired_timers) :
         m # n => expired_timers[m] # expired_timers[n]

WholeSeconds == \A i \in Index : \E c \in Nat : m_interval[i] = c * K

\* Two timers never meet: they are not whole seconds apart.
NeverMeet ==
    \A i, j \in heap : i # j =>
        \A q \in Int : m_expiration[i] - m_expiration[j] # q * K

\* A cancelled timer of the batch is marked, so handle_interval deletes it.
CancelledAreMarked == cancelled \intersect Held \subseteq mc_timers_will_del

\* The inductive invariant.
IInv ==
    /\ Typed
    /\ BatchOnce
    /\ WholeSeconds
    /\ NeverMeet
    /\ CancelledAreMarked
    /\ MapsAgree
    /\ OwnedOnce
    /\ CancelledStaysOut

-----------------------------------------------------------------------------
(* Keys of the map by expiration.                                          *)

LEMMA WholeHasNoRest ==
    ASSUME NEW q \in Int
    PROVE  (q * K) % K = 0
<1>1. K \in Nat \ {0}
  BY ConstantsAssumption
<1> QED
  BY <1>1

LEMMA ApartFromRest ==
    ASSUME NEW a \in Int, a % K # 0, NEW q \in Int
    PROVE  a # q * K /\ -a # q * K
<1>1. K \in Nat \ {0}
  BY ConstantsAssumption
<1>2. a # q * K
  BY WholeHasNoRest
<1>3. -a # q * K
  <2>1. (-q) \in Int /\ ((-q) * K) % K = 0
    BY WholeHasNoRest
  <2>2. -a = q * K => a = (-q) * K
    BY <1>1
  <2> QED
    BY <2>1, <2>2
<1> QED
  BY <1>2, <1>3

\* A key that is new: readd enters the timer into both maps.
LEMMA ReaddNew ==
    ASSUME NEW i, NEW x, MapsAgree, readd(i, x), i \notin mc_timers,
           \A j \in mc_timers : m_expiration[j] # x
    PROVE  /\ m_expiration' = [m_expiration EXCEPT ![i] = x]
           /\ mc_timers' = mc_timers \union {i}
           /\ MapsAgree'
<1>1. SameKey(x) = {}
  BY DEF SameKey
<1>2. mc_timers' = mc_timers \union {i}
  BY <1>1 DEF readd
<1>3. mc_timers_for_del' =
        [j \in mc_timers \union {i} |->
            IF j \in mc_timers THEN mc_timers_for_del[j] ELSE i]
  BY <1>1 DEF readd, Iterator, MapsAgree
<1>4. MapsAgree'
  BY <1>2, <1>3 DEF MapsAgree
<1> QED
  BY <1>2, <1>4 DEF readd

LEMMA HeapInIndex ==
    ASSUME Typed, OwnedOnce
    PROVE  heap \subseteq Index /\ mc_timers \subseteq heap /\ Held \subseteq heap
BY ConstantsAssumption DEF Typed, OwnedOnce, Index

-----------------------------------------------------------------------------

LEMMA InitInv == Init => IInv
<1> SUFFICES ASSUME Init PROVE IInv
  OBVIOUS
<1>1. Held = {}
  BY DEF Init, Held
<1>2. Typed /\ BatchOnce
  BY ConstantsAssumption DEF Init, Typed, BatchOnce
<1>3. WholeSeconds
  <2>1. 0 \in Nat /\ 0 = 0 * K
    BY ConstantsAssumption
  <2> QED
    BY <2>1 DEF Init, WholeSeconds
<1>4. NeverMeet
  BY DEF Init, NeverMeet
<1>5. MapsAgree /\ OwnedOnce /\ CancelledStaysOut /\ CancelledAreMarked
  BY <1>1 DEF Init, MapsAgree, OwnedOnce, CancelledStaysOut, CancelledAreMarked
<1> QED
  BY <1>2, <1>3, <1>4, <1>5 DEF IInv

LEMMA AddTimerInv ==
    ASSUME IInv, ~EqualTimes, NEW when \in When, NEW repeat \in BOOLEAN,
           AddTimer(when, repeat)
    PROVE  IInv'
<1> DEFINE i == timer_index + 1
           x == when * K
<1>1. /\ i \in Index /\ timer_index' = i /\ timer_index \in Nat
      /\ m_interval' = [m_interval EXCEPT ![i] = IF repeat THEN x ELSE 0]
      /\ heap' = heap \union {i}
      /\ readd(i, x) /\ DistinctTime(x)
      /\ UNCHANGED <<mc_timers_will_del, mb_handling, phase, expired_timers,
                     done, add, cancelled>>
  BY DEF AddTimer, IInv, Typed
<1>2. when \in Nat /\ K \in Nat \ {0} /\ x \in Nat /\ MaxTimers \in Nat
  BY ConstantsAssumption
<1>3. /\ heap \subseteq Index /\ mc_timers \subseteq heap /\ Held \subseteq heap
      /\ i \notin heap /\ i \notin cancelled
  BY <1>1, HeapInIndex DEF IInv, Typed
<1> HIDE DEF x, i
<1>4. \A j \in heap : \A q \in Int :
        m_expiration[j] - x # q * K /\ x - m_expiration[j] # q * K
  <2> SUFFICES ASSUME NEW j \in heap, NEW q \in Int
               PROVE  m_expiration[j] - x # q * K /\ x - m_expiration[j] # q * K
    OBVIOUS
  <2>1. m_expiration[j] \in Int
    BY <1>3 DEF IInv, Typed
  <2>2. (m_expiration[j] - x) % K # 0
    BY <1>1 DEF DistinctTime
  <2>3. m_expiration[j] - x \in Int /\ -(m_expiration[j] - x) = x - m_expiration[j]
    BY <2>1, <1>2
  <2> QED
    BY <2>2, <2>3, ApartFromRest
<1>5. \A j \in mc_timers : m_expiration[j] # x
  <2> SUFFICES ASSUME NEW j \in mc_timers PROVE m_expiration[j] # x
    OBVIOUS
  <2>1. m_expiration[j] - x # 0 * K
    BY <1>3, <1>4
  <2> QED
    BY <2>1, <1>2
<1>6. /\ m_expiration' = [m_expiration EXCEPT ![i] = x]
      /\ mc_timers' = mc_timers \union {i}
      /\ MapsAgree'
  BY <1>1, <1>3, <1>5, ReaddNew DEF IInv
<1>7. Held' = Held
  BY <1>1 DEF Held
<1>8. Typed'
  BY <1>1, <1>2, <1>6 DEF IInv, Typed, Index, i
<1>9. BatchOnce' /\ CancelledAreMarked'
  BY <1>1, <1>7 DEF IInv, BatchOnce, CancelledAreMarked
<1>10. WholeSeconds'
  <2>1. \E c \in Nat : (IF repeat THEN x ELSE 0) = c * K
    <3>1. 0 \in Nat /\ 0 = 0 * K
      BY <1>2
    <3> QED
      BY <1>2, <3>1 DEF x
  <2> QED
    BY <1>1, <2>1 DEF IInv, Typed, WholeSeconds
<1>11. NeverMeet'
  BY <1>1, <1>3, <1>4, <1>6 DEF IInv, Typed, NeverMeet
<1>12. OwnedOnce' /\ CancelledStaysOut'
  BY <1>1, <1>3, <1>6, <1>7 DEF IInv, OwnedOnce, CancelledStaysOut
<1> QED
  BY <1>6, <1>8, <1>9, <1>10, <1>11, <1>12 DEF IInv

LEMMA CancelTimerInv ==
    ASSUME IInv, NEW i \in Index, CancelTimer(i)
    PROVE  IInv'
<1> USE DEF IInv
<1>1. /\ i \in 1 .. timer_index
      /\ cancelled' = cancelled \union {i}
      /\ UNCHANGED <<timer_index, m_expiration, m_interval, mb_handling, phase,
                     expired_timers, done>>
  BY DEF CancelTimer, Typed, Index
<1>2. Held' = Held
  BY <1>1 DEF Held
<1>3. heap \subseteq Index /\ mc_timers \subseteq heap /\ Held \subseteq heap
  BY HeapInIndex
<1>4. BatchOnce' /\ WholeSeconds'
  BY <1>1 DEF BatchOnce, WholeSeconds
<1>5. CASE i \in mc_timers
  <2>1. /\ heap' = heap \ {i}
        /\ mc_timers' = mc_timers \ {i}
        /\ mc_timers_for_del' = [j \in mc_timers \ {i} |-> mc_timers_for_del[j]]
        /\ UNCHANGED mc_timers_will_del
    BY <1>5 DEF CancelTimer, MapsAgree
  <2>2. Typed'
    BY <1>1, <2>1 DEF Typed
  <2>3. MapsAgree' /\ NeverMeet'
    BY <1>1, <2>1 DEF MapsAgree, NeverMeet
  <2>4. i \notin Held
    BY <1>5 DEF OwnedOnce
  <2>5. OwnedOnce' /\ CancelledStaysOut' /\ CancelledAreMarked'
    BY <1>1, <1>2, <2>1, <2>4 DEF OwnedOnce, CancelledStaysOut, CancelledAreMarked
  <2> QED
    BY <1>4, <2>2, <2>3, <2>5
<1>6. CASE i \notin mc_timers
  <2>1. /\ UNCHANGED <<heap, mc_timers, mc_timers_for_del>>
        /\ mc_timers_will_del' = IF mb_handling THEN mc_timers_will_del \union {i}
                                 ELSE mc_timers_will_del
    BY <1>6 DEF CancelTimer, MapsAgree
  <2>2. Typed'
    BY <1>1, <2>1 DEF Typed
  <2>3. MapsAgree' /\ NeverMeet' /\ OwnedOnce' /\ CancelledStaysOut'
    BY <1>1, <1>2, <1>6, <2>1
       DEF MapsAgree, NeverMeet, OwnedOnce, CancelledStaysOut
  <2>4. CancelledAreMarked'
    <3>1. CASE phase = "run"
      BY <1>1, <1>2, <2>1, <3>1 DEF BatchOnce, CancelledAreMarked
    <3>2. CASE phase = "idle"
      <4>1. Held = {}
        BY <3>2 DEF BatchOnce, Held
      <4> QED
        BY <1>2, <4>1 DEF CancelledAreMarked
    <3> QED
      BY <3>1, <3>2 DEF CancelTimer, MayCall
  <2> QED
    BY <1>4, <2>2, <2>3, <2>4
<1> QED
  BY <1>5, <1>6

-----------------------------------------------------------------------------
(* handle_expiration.                                                      *)

\* get_expired moves the overdue timers from both maps to the vector.
LEMMA GetExpiredInv ==
    ASSUME IInv, GetExpired
    PROVE  IInv'
<1> USE DEF IInv
<1> DEFINE n == Cardinality(Overdue)
<1>1. /\ expired_timers' \in EarliestFirst(Overdue)
      /\ mc_timers' = mc_timers \ Overdue
      /\ mc_timers_for_del' = [j \in mc_timers \ Overdue |-> mc_timers_for_del[j]]
      /\ phase = "idle" /\ phase' = "run" /\ mb_handling' = TRUE /\ done' = 0
      /\ UNCHANGED <<timer_index, m_expiration, m_interval, heap,
                     mc_timers_will_del, cancelled>>
  BY DEF GetExpired, timers_without, for_del_without, MapsAgree
<1>2. /\ heap \subseteq Index /\ mc_timers \subseteq heap
      /\ Overdue \subseteq mc_timers /\ Held = {}
  BY <1>1, HeapInIndex DEF Overdue, BatchOnce, Held
<1>3. n \in Nat
  <2>1. IsFiniteSet(Index)
    BY ConstantsAssumption, FS_Interval DEF Index
  <2>2. Overdue \in SUBSET Index
    BY <1>2
  <2> QED
    BY <2>1, <2>2, FS_Subset, FS_CardinalityType
<1> HIDE DEF n
<1>4. /\ expired_timers' \in [1 .. n -> Overdue]
      /\ \A j \in Overdue : \E k \in 1 .. n : expired_timers'[k] = j
      /\ \A k, m \in 1 .. n : k # m => expired_timers'[k] # expired_timers'[m]
  <2>1. expired_timers' \in Bijection(1 .. n, Overdue)
    BY <1>1 DEF EarliestFirst, n
  <2> QED
    BY <2>1 DEF Bijection, Injection, Surjection, IsInjective
<1>5. expired_timers' \in Seq(Index) /\ Len(expired_timers') = n
  BY <1>2, <1>3, <1>4
<1>6. Held' = Overdue
  BY <1>1, <1>3, <1>4, <1>5 DEF Held
<1>7. Typed'
  BY <1>1, <1>3, <1>5 DEF Typed
<1>8. BatchOnce' /\ WholeSeconds' /\ NeverMeet'
  BY <1>1, <1>4, <1>5 DEF BatchOnce, WholeSeconds, NeverMeet
<1>9. MapsAgree' /\ CancelledStaysOut' /\ OwnedOnce' /\ CancelledAreMarked'
  BY <1>1, <1>2, <1>6 DEF MapsAgree, CancelledStaysOut, OwnedOnce, CancelledAreMarked
<1> QED
  BY <1>7, <1>8, <1>9

LEMMA RunTimersInv ==
    ASSUME IInv, RunTimer \/ AllRun
    PROVE  IInv'
<1> USE DEF IInv
<1>1. /\ UNCHANGED <<timer_index, m_expiration, m_interval, heap, mc_timers,
                     mc_timers_for_del, mc_timers_will_del, expired_timers,
                     cancelled>>
      /\ done \in 0 .. Len(expired_timers) /\ Len(expired_timers) \in Nat
      /\ done' \in 0 .. Len(expired_timers)
      /\ phase = "run"
      /\ \/ phase' = "run" /\ mb_handling' = mb_handling
         \/ phase' = "interval" /\ done' = 0
  BY DEF Typed, RunTimer, AllRun, MoreExpired, queues
<1>2. Held' = Held
  <2>1. CASE phase' = "run"
    BY <1>1, <2>1 DEF Held
  <2>2. CASE phase' = "interval" /\ done' = 0
    BY <1>1, <2>2 DEF Held
  <2> QED
    BY <1>1, <2>1, <2>2
<1>3. Typed'
  BY <1>1 DEF Typed
<1>4. WholeSeconds' /\ NeverMeet'
  BY <1>1 DEF WholeSeconds, NeverMeet
<1>5. BatchOnce'
  <2>1. CASE phase' = "run" /\ mb_handling' = mb_handling
    BY <1>1, <2>1 DEF BatchOnce
  <2>2. CASE phase' = "interval"
    BY <1>1, <2>2 DEF BatchOnce
  <2> QED
    BY <1>1, <2>1, <2>2
<1>6. MapsAgree' /\ CancelledStaysOut' /\ OwnedOnce' /\ CancelledAreMarked'
  BY <1>1, <1>2 DEF MapsAgree, CancelledStaysOut, OwnedOnce, CancelledAreMarked
<1> QED
  BY <1>3, <1>4, <1>5, <1>6

\* A repeating timer moves on by whole seconds and so meets no other; it was
\* not cancelled, or it would be marked.
LEMMA HandleIntervalInv ==
    ASSUME IInv, HandleInterval
    PROVE  IInv'
<1> USE DEF IInv
<1> DEFINE i == expired_timers[done + 1]
           x == m_expiration[i] + m_interval[i]
<1>1. /\ phase = "interval" /\ phase' = "interval"
      /\ done \in Nat /\ done < Len(expired_timers) /\ Len(expired_timers) \in Nat
      /\ done' = done + 1
      /\ UNCHANGED <<timer_index, m_interval, mc_timers_will_del, mb_handling,
                     expired_timers, cancelled>>
  BY DEF HandleInterval, MoreExpired, Typed
<1>2. i \in Held /\ Held' = Held \ {i}
  BY <1>1 DEF Held, BatchOnce
<1>3. /\ heap \subseteq Index /\ mc_timers \subseteq heap /\ Held \subseteq heap
      /\ i \in heap /\ i \in Index /\ i \notin mc_timers
  BY <1>2, HeapInIndex DEF OwnedOnce
<1>4. BatchOnce' /\ WholeSeconds'
  BY <1>1 DEF BatchOnce, WholeSeconds
<1>5. CASE PutBack(i)
  <2>1. readd(i, x) /\ heap' = heap /\ i \notin mc_timers_will_del
    BY <1>5 DEF HandleInterval, PutBack
  <2>2. /\ x \in Int /\ K \in Nat
        /\ \A j \in heap : m_expiration[j] \in Int
    <3>1. /\ \A j \in Index : m_expiration[j] \in Int
          /\ m_interval[i] \in Nat
      BY <1>3 DEF Typed
    <3> HIDE DEF i
    <3> QED
      BY <1>3, <3>1, ConstantsAssumption
  <2>3. \A j \in heap : j # i =>
          \A q \in Int :
            m_expiration[j] - x # q * K /\ x - m_expiration[j] # q * K
    <3> SUFFICES ASSUME NEW j \in heap, j # i, NEW q \in Int
                 PROVE  m_expiration[j] - x # q * K /\ x - m_expiration[j] # q * K
      OBVIOUS
    <3>1. PICK c \in Nat : m_interval[i] = c * K
      BY <1>3 DEF WholeSeconds
    <3>2. q + c \in Int /\ q - c \in Int
      OBVIOUS
    <3>3. /\ m_expiration[j] - m_expiration[i] # (q + c) * K
          /\ m_expiration[i] - m_expiration[j] # (q - c) * K
      BY <1>3, <3>2 DEF NeverMeet
    <3>4. (q + c) * K = q * K + c * K /\ (q - c) * K = q * K - c * K
      BY <2>2
    <3>5. /\ m_expiration[j] \in Int /\ m_expiration[i] \in Int
          /\ q * K \in Int /\ c * K \in Int
      BY <1>3, <2>2
    <3> QED
      BY <3>1, <3>3, <3>4, <3>5
  <2> HIDE DEF i, x
  <2>4. \A j \in mc_timers : m_expiration[j] # x
    <3> SUFFICES ASSUME NEW j \in mc_timers PROVE m_expiration[j] # x
      OBVIOUS
    <3>1. m_expiration[j] - x # 0 * K
      BY <1>3, <2>3
    <3> QED
      BY <3>1, <2>2
  <2>5. /\ m_expiration' = [m_expiration EXCEPT ![i] = x]
        /\ mc_timers' = mc_timers \union {i}
        /\ MapsAgree'
    BY <1>3, <2>1, <2>4, ReaddNew
  <2>6. Typed'
    BY <1>1, <1>3, <2>1, <2>2, <2>5 DEF Typed
  <2>7. NeverMeet'
    BY SMTT(30), <1>3, <2>1, <2>3, <2>5 DEF Typed, NeverMeet
  <2>8. OwnedOnce' /\ CancelledStaysOut' /\ CancelledAreMarked'
    BY <1>1, <1>2, <1>3, <2>1, <2>5
       DEF OwnedOnce, CancelledStaysOut, CancelledAreMarked
  <2> QED
    BY <1>4, <2>5, <2>6, <2>7, <2>8
<1>6. CASE ~PutBack(i)
  <2>1. heap' = heap \ {i} /\ UNCHANGED <<m_expiration, mc_timers, mc_timers_for_del>>
    BY <1>6 DEF HandleInterval
  <2> HIDE DEF i, x
  <2>2. Typed'
    <3>1. done' \in 0 .. Len(expired_timers) /\ heap' \subseteq heap
      BY <1>1, <2>1
    <3> QED
      BY <1>1, <2>1, <3>1 DEF Typed
  <2>3. NeverMeet' /\ MapsAgree'
    BY <2>1 DEF NeverMeet, MapsAgree
  <2>4. OwnedOnce' /\ CancelledStaysOut' /\ CancelledAreMarked'
    BY <1>1, <1>2, <1>3, <2>1 DEF OwnedOnce, CancelledStaysOut, CancelledAreMarked
  <2> QED
    BY <1>4, <2>2, <2>3, <2>4
<1> QED
  BY <1>5, <1>6

LEMMA IntervalsHandledInv ==
    ASSUME IInv, IntervalsHandled
    PROVE  IInv'
<1> USE DEF IInv, IntervalsHandled
<1>1. Held = {} /\ Held' = {}
  BY DEF Held, Typed
<1>2. Typed'
  BY DEF Typed
<1>3. BatchOnce' /\ WholeSeconds' /\ NeverMeet'
  BY DEF BatchOnce, WholeSeconds, NeverMeet
<1>4. MapsAgree' /\ CancelledStaysOut' /\ OwnedOnce' /\ CancelledAreMarked'
  BY <1>1 DEF MapsAgree, CancelledStaysOut, OwnedOnce, CancelledAreMarked
<1> QED
  BY <1>2, <1>3, <1>4

\* Time passes for all timers alike.
LEMMA TickInv ==
    ASSUME IInv, Tick
    PROVE  IInv'
<1> USE DEF IInv, Tick
<1>1. heap \subseteq Index
  BY HeapInIndex
<1>2. Held' = Held
  BY DEF Held
<1>3. Typed'
  BY DEF Typed
<1>4. BatchOnce' /\ WholeSeconds'
  BY DEF BatchOnce, WholeSeconds
<1>5. NeverMeet'
  BY <1>1 DEF Typed, NeverMeet
<1>6. MapsAgree' /\ CancelledStaysOut' /\ OwnedOnce' /\ CancelledAreMarked'
  BY <1>2 DEF MapsAgree, CancelledStaysOut, OwnedOnce, CancelledAreMarked
<1> QED
  BY <1>3, <1>4, <1>5, <1>6

-----------------------------------------------------------------------------

LEMMA NextInv ==
    ASSUME ~EqualTimes
    PROVE  IInv /\ [Next]_vars => IInv'
<1> SUFFICES ASSUME IInv, [Next]_vars PROVE IInv'
  OBVIOUS
<1>1. CASE \E when \in When, repeat \in BOOLEAN : AddTimer(when, repeat)
  BY <1>1, AddTimerInv
<1>2. CASE \E i \in Index : CancelTimer(i)
  BY <1>2, CancelTimerInv
<1>3. CASE GetExpired \/ RunTimer \/ AllRun \/ HandleInterval \/ IntervalsHandled
  BY <1>3, GetExpiredInv, RunTimersInv, HandleIntervalInv, IntervalsHandledInv
<1>4. CASE Tick
  BY <1>4, TickInv
<1>5. CASE Poll \/ UNCHANGED vars
  <2>1. UNCHANGED <<queues, mc_timers_will_del, mb_handling, phase,
                    expired_timers, done, add, cancelled>>
    BY <1>5 DEF Poll, vars
  <2>2. Held' = Held
    BY <2>1 DEF queues, Held
  <2>3. Typed' /\ BatchOnce' /\ WholeSeconds' /\ NeverMeet'
    BY <2>1 DEF IInv, queues, Typed, BatchOnce, WholeSeconds, NeverMeet
  <2>4. MapsAgree' /\ CancelledStaysOut' /\ OwnedOnce' /\ CancelledAreMarked'
    BY <2>1, <2>2 DEF IInv, queues, MapsAgree, CancelledStaysOut, OwnedOnce,
       CancelledAreMarked
  <2> QED
    BY <2>3, <2>4 DEF IInv
<1> QED
  BY <1>1, <1>2, <1>3, <1>4, <1>5 DEF Next, LoopStep

\* TimerQueue.cc:111, 153, 170: the map by expiration and the map by index name
\* the same timers, given that no two are due in the same microsecond.
THEOREM MapsInStep ==
    ASSUME ~EqualTimes
    PROVE  Spec => []MapsAgree
<1>1. IInv => MapsAgree
  BY DEF IInv
<1> QED
  BY <1>1, InitInv, NextInv, PTL DEF Spec

\* TimerQueue.cc:118-122, 184-189: a timer is in the map or held by the expiration
\* under way, so it is deleted once and not used afterwards.
THEOREM TimersHaveOneOwner ==
    ASSUME ~EqualTimes
    PROVE  Spec => []OwnedOnce
<1>1. IInv => OwnedOnce
  BY DEF IInv
<1> QED
  BY <1>1, InitInv, NextInv, PTL DEF Spec

\* TimerQueue.cc:124-127, 180: a cancelled timer never waits again, also one
\* that was cancelled while its own or another callback ran.
THEOREM CancelIsFinal ==
    ASSUME ~EqualTimes
    PROVE  Spec => []CancelledStaysOut
<1>1. IInv => CancelledStaysOut
  BY DEF IInv
<1> QED
  BY <1>1, InitInv, NextInv, PTL DEF Spec

-----------------------------------------------------------------------------
(* The timerfd.                                                            *)

\* The timerfd wakes the loop by the time timer i is due.
InTime(i) ==
    \/ fired
    \/ armed > 0 /\ armed <= cal_new_expiration(m_expiration[i])

\* The inductive invariant behind ArmedInTime, which needs nothing of the maps
\* to agree.  It holds timer by timer, so that a step need not know which is
\* the earliest, and from the moment handle_interval put a timer back.
IInvArmed ==
    /\ m_expiration \in [Index -> Int]
    /\ m_interval \in [Index -> Nat]
    /\ mc_timers \subseteq Index
    /\ expired_timers \in Seq(Index)
    /\ done \in Nat
    /\ armed \in Nat /\ fired \in BOOLEAN /\ add \in BOOLEAN
    /\ add => phase = "interval"
    /\ phase = "idle" \/ add => \A i \in mc_timers : InTime(i)

\* Of finitely many timers one is due first: the one with the fewest before it.
LEMMA SomeTimerIsFirst ==
    ASSUME NEW S \in SUBSET Index, S # {}, m_expiration \in [Index -> Int]
    PROVE  \E i \in S : \A j \in S : m_expiration[i] <= m_expiration[j]
<1> DEFINE Before(i) == {j \in S : m_expiration[j] < m_expiration[i]}
           Befores == {Before(i) : i \in S}
<1>1. IsFiniteSet(S)
  <2>1. IsFiniteSet(Index)
    BY ConstantsAssumption, FS_Interval DEF Index
  <2> QED
    BY <2>1, FS_Subset
<1>2. IsWellFoundedOn(StrictSubsetOrdering(S), FiniteSubsetsOf(S))
  BY FS_StrictSubsetOrderingWellFounded
<1>3. Befores \subseteq FiniteSubsetsOf(S) /\ Befores # {}
  <2>1. FiniteSubsetsOf(S) = SUBSET S
    BY <1>1, FS_FiniteSubsetsOfFinite
  <2>2. \A i \in S : Before(i) \in SUBSET S
    OBVIOUS
  <2>3. Befores \subseteq SUBSET S
    <3> HIDE DEF Before
    <3> QED
      BY <2>2
  <2>4. \E i \in S : Before(i) \in Befores
    <3> HIDE DEF Before
    <3> QED
      OBVIOUS
  <2> QED
    BY <2>1, <2>3, <2>4
<1>4. PICK B \in Befores : \A C \in Befores : <<C, B>> \notin StrictSubsetOrdering(S)
  <2> HIDE DEF Befores
  <2> QED
    BY <1>2, <1>3, WFMin
<1>5. PICK i \in S : B = Before(i)
  OBVIOUS
<1>6. ASSUME NEW j \in S, ~(m_expiration[i] <= m_expiration[j]) PROVE FALSE
  <2>0. \A k \in S : m_expiration[k] \in Int
    OBVIOUS
  <2>1. j \in Before(i) /\ j \notin Before(j)
    BY <1>6, <2>0
  <2>2. Before(j) \subseteq Before(i)
    BY <1>6, <2>0
  <2>3. <<Before(j), Before(i)>> \in StrictSubsetOrdering(S)
    BY <2>1, <2>2 DEF StrictSubsetOrdering
  <2> QED
    BY <1>4, <1>5, <2>3
<1> QED
  BY <1>6

\* The minimum the code passes to reset_timerfd is one of the expirations and
\* no later than any of them.
LEMMA MinIsFirst ==
    ASSUME NEW S, NEW m \in S, S \subseteq Int, \A y \in S : m <= y
    PROVE  Min(S) = m
<1>1. ASSUME NEW y \in S, \A z \in S : y <= z PROVE y = m
  BY <1>1
<1> QED
  BY <1>1 DEF Min

LEMMA CalIsMonotone ==
    ASSUME NEW x \in Int, NEW y \in Int, x <= y
    PROVE  /\ cal_new_expiration(x) \in Nat /\ cal_new_expiration(x) > 0
           /\ cal_new_expiration(x) <= cal_new_expiration(y)
BY DEF cal_new_expiration

LEMMA MinExpirations ==
    ASSUME NEW S \in SUBSET Index, S # {}, m_expiration \in [Index -> Int]
    PROVE  /\ Min(Expirations(S)) \in Expirations(S)
           /\ \A i \in S : Min(Expirations(S)) <= m_expiration[i]
<1>1. PICK i \in S : \A j \in S : m_expiration[i] <= m_expiration[j]
  BY SomeTimerIsFirst
<1>2. Expirations(S) \subseteq Int /\ m_expiration[i] \in Expirations(S)
      /\ \A y \in Expirations(S) : m_expiration[i] <= y
  BY <1>1 DEF Expirations
<1>3. Min(Expirations(S)) = m_expiration[i]
  BY <1>2, MinIsFirst
<1> QED
  BY <1>1, <1>2, <1>3

LEMMA MinWithNew ==
    ASSUME NEW S \in SUBSET Index, NEW x \in Int, m_expiration \in [Index -> Int]
    PROVE  /\ Min(Expirations(S) \union {x}) \in Int
           /\ Min(Expirations(S) \union {x}) <= x
           /\ \A i \in S : Min(Expirations(S) \union {x}) <= m_expiration[i]
<1> DEFINE E == Expirations(S) \union {x}
<1>1. E \subseteq Int /\ x \in E /\ \A i \in S : m_expiration[i] \in E
  BY DEF Expirations
<1>2. \E m \in E : \A y \in E : m <= y
  <2>1. CASE S = {}
    BY <2>1 DEF Expirations
  <2>2. CASE S # {}
    <3>1. PICK i \in S : \A j \in S : m_expiration[i] <= m_expiration[j]
      BY <2>2, SomeTimerIsFirst
    <3>2. CASE m_expiration[i] <= x
      BY <1>1, <3>1, <3>2 DEF Expirations
    <3>3. CASE ~(m_expiration[i] <= x)
      BY <1>1, <3>1, <3>3 DEF Expirations
    <3> QED
      BY <3>2, <3>3
  <2> QED
    BY <2>1, <2>2
<1> HIDE DEF E
<1>3. PICK m \in E : \A y \in E : m <= y
  BY <1>2
<1>4. Min(E) = m
  BY <1>1, <1>3, MinIsFirst
<1> QED
  BY <1>1, <1>3, <1>4 DEF E

\* readd: what waits afterwards is seen to in time, also when the key existed.
LEMMA ReaddInTime ==
    ASSUME IInvArmed, NEW i \in Index, NEW x \in Int, readd(i, x)
    PROVE  /\ m_expiration' \in [Index -> Int]
           /\ mc_timers' \subseteq Index
           /\ armed' \in Nat /\ fired' \in BOOLEAN
           /\ \A j \in mc_timers' : InTime(j)'
<1> DEFINE m == Min(Expirations(mc_timers) \union {x})
<1>1. /\ m_expiration' = [m_expiration EXCEPT ![i] = x]
      /\ mc_timers' \subseteq mc_timers \union {i}
      /\ armed' = cal_new_expiration(m) /\ fired' = FALSE
  BY DEF readd, ResetTimerfd
<1>2. m \in Int /\ m <= x /\ \A j \in mc_timers : m <= m_expiration[j]
  BY MinWithNew DEF IInvArmed
<1> HIDE DEF m
<1>3. m_expiration' \in [Index -> Int] /\ mc_timers' \subseteq Index
  BY <1>1 DEF IInvArmed
<1>4. \A j \in mc_timers' : m_expiration'[j] \in Int /\ m <= m_expiration'[j]
  BY <1>1, <1>2, <1>3 DEF IInvArmed
<1>5. armed' \in Nat /\ armed' > 0
      /\ \A j \in mc_timers' : armed' <= cal_new_expiration(m_expiration'[j])
  BY <1>1, <1>2, <1>4, CalIsMonotone
<1> QED
  BY <1>1, <1>3, <1>5 DEF InTime

LEMMA InitArmed == Init => IInvArmed
<1> SUFFICES ASSUME Init PROVE IInvArmed
  OBVIOUS
<1>1. << >> \in Seq(Index) /\ 0 \in Int /\ 0 \in Nat
  OBVIOUS
<1> QED
  BY <1>1 DEF Init, IInvArmed

LEMMA NextArmed == IInvArmed /\ [Next]_vars => IInvArmed'
<1> SUFFICES ASSUME IInvArmed, [Next]_vars PROVE IInvArmed'
  OBVIOUS
<1>1. ASSUME NEW when \in When, NEW repeat \in BOOLEAN, AddTimer(when, repeat)
      PROVE  IInvArmed'
  <2>1. when * K \in Nat
    BY ConstantsAssumption
  <2>2. PICK i \in Index : /\ readd(i, when * K)
                           /\ m_interval' = [m_interval EXCEPT ![i] =
                                               IF repeat THEN when * K ELSE 0]
    BY <1>1 DEF AddTimer
  <2>3. UNCHANGED <<phase, expired_timers, done, add>>
    BY <1>1 DEF AddTimer
  <2>4. m_interval' \in [Index -> Nat]
    BY <2>1, <2>2 DEF IInvArmed
  <2>5. /\ m_expiration' \in [Index -> Int]
        /\ mc_timers' \subseteq Index
        /\ armed' \in Nat /\ fired' \in BOOLEAN
        /\ \A j \in mc_timers' : InTime(j)'
    BY <2>1, <2>2, ReaddInTime
  <2> QED
    BY <2>3, <2>4, <2>5 DEF IInvArmed
<1>2. ASSUME NEW i \in Index, CancelTimer(i) PROVE IInvArmed'
  <2>1. mc_timers' \subseteq mc_timers
        /\ UNCHANGED <<m_expiration, m_interval, armed, fired, phase,
                       expired_timers, done, add>>
    BY <1>2 DEF CancelTimer
  <2> QED
    BY <2>1 DEF IInvArmed, InTime
<1>3. CASE GetExpired
  <2> DEFINE n == Cardinality(Overdue)
  <2>1. /\ expired_timers' \in EarliestFirst(Overdue)
        /\ mc_timers' \subseteq mc_timers /\ fired' = FALSE
        /\ phase = "idle" /\ phase' = "run" /\ done' = 0
        /\ UNCHANGED <<m_expiration, m_interval, armed, add>>
    BY <1>3 DEF GetExpired, timers_without
  <2>2. Overdue \in SUBSET Index
    BY DEF Overdue, IInvArmed
  <2>3. n \in Nat
    <3>1. IsFiniteSet(Index)
      BY ConstantsAssumption, FS_Interval DEF Index
    <3> QED
      BY <2>2, <3>1, FS_Subset, FS_CardinalityType
  <2> HIDE DEF n
  <2>4. expired_timers' \in [1 .. n -> Overdue]
    <3>1. expired_timers' \in Bijection(1 .. n, Overdue)
      BY <2>1 DEF EarliestFirst, n
    <3> QED
      BY <3>1 DEF Bijection, Injection
  <2>5. expired_timers' \in Seq(Index)
    BY <2>2, <2>3, <2>4
  <2> QED
    BY <2>1, <2>5 DEF IInvArmed
<1>4. CASE RunTimer \/ AllRun
  <2>1. /\ UNCHANGED <<m_expiration, m_interval, mc_timers, expired_timers, armed, fired>>
        /\ phase = "run" /\ phase' # "idle" /\ (add' = add \/ add' = FALSE)
        /\ done' \in {0, done + 1}
    BY <1>4 DEF RunTimer, AllRun, queues
  <2>2. add = FALSE /\ add' = FALSE
    BY <2>1 DEF IInvArmed
  <2>3. done' \in Nat
    BY <2>1 DEF IInvArmed
  <2> QED
    BY <2>1, <2>2, <2>3 DEF IInvArmed
<1>5. CASE HandleInterval
  <2> DEFINE i == expired_timers[done + 1]
  <2>1. /\ i \in Index /\ phase = "interval" /\ done' = done + 1
        /\ UNCHANGED <<phase, m_interval, expired_timers>>
    BY <1>5 DEF HandleInterval, MoreExpired, IInvArmed
  <2>2. CASE PutBack(i)
    <3>1. m_expiration[i] + m_interval[i] \in Int
      <4>1. m_expiration[i] \in Int /\ m_interval[i] \in Int
        <5> HIDE DEF i
        <5> QED
          BY <2>1 DEF IInvArmed
      <4> QED
        BY <4>1
    <3>2. readd(i, m_expiration[i] + m_interval[i]) /\ add' = TRUE
      BY <1>5, <2>2 DEF HandleInterval
    <3> HIDE DEF i
    <3>3. /\ m_expiration' \in [Index -> Int]
          /\ mc_timers' \subseteq Index
          /\ armed' \in Nat /\ fired' \in BOOLEAN
          /\ \A j \in mc_timers' : InTime(j)'
      BY <2>1, <3>1, <3>2, ReaddInTime
    <3> QED
      BY <2>1, <3>2, <3>3 DEF IInvArmed
  <2>3. CASE ~PutBack(i)
    <3>1. UNCHANGED <<m_expiration, mc_timers, armed, fired, add>>
      BY <1>5, <2>3 DEF HandleInterval
    <3> QED
      BY <2>1, <3>1 DEF IInvArmed, InTime
  <2> QED
    BY <2>2, <2>3
<1>6. CASE IntervalsHandled
  <2>1. /\ phase' = "idle" /\ expired_timers' = << >> /\ done' = 0 /\ add' = FALSE
        /\ UNCHANGED <<m_expiration, m_interval, mc_timers>>
        /\ Rearm
    BY <1>6 DEF IntervalsHandled
  <2>2. << >> \in Seq(Index) /\ 0 \in Nat
    OBVIOUS
  <2>3. /\ armed' \in Nat /\ fired' \in BOOLEAN
        /\ \A j \in mc_timers : InTime(j)'
    <3>1. CASE add \/ mc_timers = {}
      BY <2>1, <3>1 DEF Rearm, IInvArmed, InTime
    <3>2. CASE ~add /\ mc_timers # {}
      <4> DEFINE m == Min(Expirations(mc_timers))
      <4>1. armed' = cal_new_expiration(m) /\ fired' = FALSE
        BY <2>1, <3>2 DEF Rearm, ResetTimerfd
      <4>2. m \in Int /\ \A j \in mc_timers : m <= m_expiration[j]
        BY <3>2, MinExpirations DEF IInvArmed, Expirations
      <4>3. \A j \in mc_timers : m_expiration'[j] \in Int /\ m <= m_expiration'[j]
        BY <2>1, <4>2 DEF IInvArmed
      <4> HIDE DEF m
      <4>4. armed' \in Nat /\ armed' > 0
            /\ \A j \in mc_timers : armed' <= cal_new_expiration(m_expiration'[j])
        BY <4>1, <4>2, <4>3, CalIsMonotone
      <4> QED
        BY <4>1, <4>4 DEF InTime
    <3> QED
      BY <3>1, <3>2
  <2> QED
    BY <2>1, <2>2, <2>3 DEF IInvArmed
<1>7. CASE Tick
  <2>1. /\ m_expiration' = [i \in Index |->
             IF i \in heap THEN m_expiration[i] - 1 ELSE m_expiration[i]]
        /\ armed' = (IF armed = 0 THEN 0 ELSE armed - 1)
        /\ fired' = (fired \/ armed = 1)
        /\ UNCHANGED <<m_interval, mc_timers, phase, expired_timers, done, add>>
    BY <1>7 DEF Tick
  <2>2. m_expiration' \in [Index -> Int] /\ armed' \in Nat /\ fired' \in BOOLEAN
    BY <2>1 DEF IInvArmed
  <2>3. ASSUME NEW j \in mc_timers, InTime(j) PROVE InTime(j)'
    <3>1. m_expiration[j] \in Int /\ m_expiration'[j] >= m_expiration[j] - 1
          /\ m_expiration'[j] \in Int /\ armed \in Nat
      BY <2>1 DEF IInvArmed
    <3>2. CASE fired \/ armed = 1
      BY <2>1, <3>2 DEF InTime
    <3>3. CASE ~fired /\ armed # 1
      <4>1. armed > 0 /\ armed <= cal_new_expiration(m_expiration[j])
        BY <2>3, <3>3 DEF InTime
      <4>2. armed' > 0 /\ armed' <= cal_new_expiration(m_expiration'[j])
        BY <2>1, <3>1, <3>3, <4>1 DEF cal_new_expiration
      <4> QED
        BY <4>2 DEF InTime
    <3> QED
      BY <3>2, <3>3
  <2> QED
    BY <2>1, <2>2, <2>3 DEF IInvArmed
<1>8. CASE Poll
  BY <1>8 DEF Poll, IInvArmed, InTime, queues
<1>9. CASE UNCHANGED vars
  BY <1>9 DEF IInvArmed, InTime, vars, queues
<1> QED
  BY <1>1, <1>2, <1>3, <1>4, <1>5, <1>6, <1>7, <1>8, <1>9 DEF Next, LoopStep

\* TimerQueue.cc:97-107, 184-199: while timers wait, the timerfd is readable or
\* set to the earliest expiration or sooner (ArmedInTime), also when timers are
\* due in the same microsecond.
THEOREM TimersAreArmedInTime == Spec => []ArmedInTime
<1>1. IInvArmed => ArmedInTime
  <2> SUFFICES ASSUME IInvArmed, phase = "idle", mc_timers # {}, ~fired
               PROVE  armed > 0 /\ armed <= cal_new_expiration(Min(Expirations(mc_timers)))
    BY DEF ArmedInTime
  <2>1. PICK i \in mc_timers : m_expiration[i] = Min(Expirations(mc_timers))
    BY MinExpirations DEF IInvArmed, Expirations
  <2> QED
    BY <2>1 DEF IInvArmed, InTime
<1> QED
  BY <1>1, InitArmed, NextArmed, PTL DEF Spec
=============================================================================
