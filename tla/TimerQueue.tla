----------------------------- MODULE TimerQueue -----------------------------
(***************************************************************************)
(* net/TimerQueue (with Timer and Timestamp): timers ordered by expiration *)
(* over one timerfd, run and changed only by the loop thread.  Time is     *)
(* relative: m_expiration of a timer is what remains of it, in ticks,      *)
(* negative once it is overdue; the timerfd likewise.  A tick is the 100us *)
(* below which the timerfd is never set; add_timer takes seconds, of K     *)
(* ticks each.                                                             *)
(***************************************************************************)
EXTENDS Integers, Sequences, FiniteSetsExt

CONSTANTS
    MaxTimers,  \* bound: how many timers are ever added
    K,          \* ticks in a second
    When,       \* the delays and intervals in use, in seconds
    MaxLag,     \* bound: how late the loop sees to a timer, in ticks
    EqualTimes  \* whether timers may be due in the same microsecond

ASSUME ConstantsAssumption ==
    /\ MaxTimers \in Nat
    /\ K \in Nat \ {0}
    /\ When \subseteq Nat
    /\ MaxLag \in Nat
    /\ EqualTimes \in BOOLEAN

VARIABLES
    timer_index,        \* Timer::timer_index: the last index given out
    m_expiration,       \* index -> ticks that remain
    m_interval,         \* index -> ticks, 0 for a timer that does not repeat
    heap,               \* indices whose Timer object is allocated
    mc_timers,          \* the map by expiration: indices of its timers
    mc_timers_for_del,  \* index -> the timer its iterator points at
    mc_timers_will_del,
    mb_handling,        \* uninitialised until the first expiration
    phase,              \* "idle", "run" and "interval" in handle_expiration
    expired_timers,     \* the vector of the expired timers
    done,               \* how many of them the current loop went through
    add,                \* the local flag of handle_interval
    armed,              \* timerfd: ticks until it expires, 0 if disarmed
    fired,              \* timerfd is readable
    active,             \* its channel is one of the active ones of this round
    cancelled           \* history: indices cancel_timer was called with

queues == <<timer_index, m_expiration, m_interval, heap, mc_timers,
            mc_timers_for_del, armed, fired>>
vars == <<queues, mc_timers_will_del, mb_handling, phase, expired_timers, done,
          add, active, cancelled>>

Index == 1 .. MaxTimers

Init ==
    /\ timer_index = 0
    /\ m_expiration = [i \in Index |-> 0]
    /\ m_interval = [i \in Index |-> 0]
    /\ heap = {}
    /\ mc_timers = {}
    /\ mc_timers_for_del = << >>
    /\ mc_timers_will_del = {}
    /\ mb_handling \in BOOLEAN
    /\ phase = "idle"
    /\ expired_timers = << >>
    /\ done = 0
    /\ add = FALSE
    /\ armed = 0
    /\ fired = FALSE
    /\ active = FALSE
    /\ cancelled = {}

-----------------------------------------------------------------------------

\* Faulty variant: sets what remains, also when that is nothing.
UnclampedExpiration(x) == IF x < 0 THEN 0 ELSE x

cal_new_expiration(x) == IF x < 1 THEN 1 ELSE x

Expirations(S) == {m_expiration[i] : i \in S}

\* timerfd_settime also forgets an expiration that was not read yet.
ResetTimerfd(x) ==
    /\ armed' = cal_new_expiration(x)
    /\ fired' = FALSE

\* std::map::insert leaves the map alone when the key exists and returns an
\* iterator to the timer that has it.
SameKey(x) == {j \in mc_timers : m_expiration[j] = x}
Iterator(i, x) == IF SameKey(x) = {} THEN i ELSE CHOOSE j \in SameKey(x) : TRUE

readd(i, x) ==
    /\ m_expiration' = [m_expiration EXCEPT ![i] = x]
    /\ mc_timers' = IF SameKey(x) = {} THEN mc_timers \union {i} ELSE mc_timers
    /\ mc_timers_for_del' =
         [j \in DOMAIN mc_timers_for_del \union {i} |->
            IF j \in DOMAIN mc_timers_for_del
            THEN mc_timers_for_del[j] ELSE Iterator(i, x)]
    /\ ResetTimerfd(Min(Expirations(mc_timers) \union {x}))

\* User code of the loop thread: other callbacks, tasks, and the timer
\* callbacks.
MayCall == phase = "idle" \/ (phase = "run" /\ done > 0)

\* Two timers whose expirations differ by whole seconds meet sooner or later.
DistinctTime(x) == \A j \in heap : (m_expiration[j] - x) % K # 0

AddTimer(when, repeat) ==
    LET i == timer_index + 1
    IN  /\ MayCall
        /\ i \in Index
        /\ EqualTimes \/ DistinctTime(when * K)
        /\ timer_index' = i
        /\ m_interval' = [m_interval EXCEPT ![i] = IF repeat THEN when * K ELSE 0]
        /\ heap' = heap \union {i}
        /\ readd(i, when * K)
        /\ UNCHANGED <<mc_timers_will_del, mb_handling, phase, expired_timers,
                       done, add, active, cancelled>>

\* The timerfd keeps its setting, also when the earliest timer goes.
CancelTimer(i) ==
    /\ MayCall
    /\ i <= timer_index
    /\ cancelled' = cancelled \union {i}
    /\ IF i \in DOMAIN mc_timers_for_del
       THEN /\ heap' = heap \ {mc_timers_for_del[i]}
            /\ mc_timers' = mc_timers \ {mc_timers_for_del[i]}
            /\ mc_timers_for_del' =
                 [j \in DOMAIN mc_timers_for_del \ {i} |-> mc_timers_for_del[j]]
            /\ UNCHANGED mc_timers_will_del
       ELSE /\ mc_timers_will_del' =
                 IF mb_handling THEN mc_timers_will_del \union {i}
                 ELSE mc_timers_will_del
            /\ UNCHANGED <<heap, mc_timers, mc_timers_for_del>>
    /\ UNCHANGED <<timer_index, m_expiration, m_interval, armed, fired,
                   mb_handling, phase, expired_timers, done, add, active>>

\* Faulty variant: erases the expired timers from one of the two maps only.
for_del_kept(E) == mc_timers_for_del

for_del_without(E) ==
    [j \in DOMAIN mc_timers_for_del \ E |-> mc_timers_for_del[j]]

\* lower_bound(now): only timers that are strictly overdue, earliest first.
Overdue == {i \in mc_timers : m_expiration[i] < 0}

\* Faulty variant: erases up to and including now, copies what is before.
timers_without_due(E) ==
    mc_timers \ (E \union {i \in mc_timers : m_expiration[i] = 0})

timers_without(E) == mc_timers \ E

\* The timers of S in the order of their expirations, which differ.
EarliestFirst(S) ==
    {s \in Bijection(1 .. Cardinality(S), S) :
        \A m, n \in DOMAIN s : m < n => m_expiration[s[m]] < m_expiration[s[n]]}

\* poll() finds the timerfd readable.  Until its handler runs, callbacks of
\* other channels may set it anew.
Poll ==
    /\ phase = "idle"
    /\ fired /\ ~active
    /\ active' = TRUE
    /\ UNCHANGED <<queues, mc_timers_will_del, mb_handling, phase,
                   expired_timers, done, add, cancelled>>

\* The read fails with EAGAIN if the timerfd was set anew; handle_expiration
\* goes on all the same.
GetExpired ==
    /\ phase = "idle"
    /\ active
    /\ active' = FALSE
    /\ fired' = FALSE
    /\ mb_handling' = TRUE
    /\ expired_timers' \in EarliestFirst(Overdue)
    /\ mc_timers' = timers_without(Overdue)
    /\ mc_timers_for_del' = for_del_without(Overdue)
    /\ phase' = "run"
    /\ done' = 0
    /\ UNCHANGED <<timer_index, m_expiration, m_interval, heap, armed,
                   mc_timers_will_del, add, cancelled>>

MoreExpired == done < Len(expired_timers)

\* The callback of the next expired timer; what it does to the queue are
\* AddTimer and CancelTimer.
RunTimer ==
    /\ phase = "run"
    /\ MoreExpired
    /\ done' = done + 1
    /\ UNCHANGED <<queues, mc_timers_will_del, mb_handling, phase,
                   expired_timers, add, active, cancelled>>

AllRun ==
    /\ phase = "run"
    /\ done = Len(expired_timers)
    /\ mb_handling' = FALSE
    /\ phase' = "interval"
    /\ done' = 0
    /\ add' = FALSE
    /\ UNCHANGED <<queues, mc_timers_will_del, expired_timers, active, cancelled>>

\* Faulty variant: the indices to be deleted are not consulted.
PutBackRepeating(i) == m_interval[i] # 0

PutBack(i) == m_interval[i] # 0 /\ i \notin mc_timers_will_del

\* handle_interval for the next expired timer: put back or deleted.
HandleInterval ==
    /\ phase = "interval"
    /\ MoreExpired
    /\ done' = done + 1
    /\ LET i == expired_timers[done + 1]
       IN  IF PutBack(i)
           THEN /\ readd(i, m_expiration[i] + m_interval[i])
                /\ add' = TRUE
                /\ UNCHANGED heap
           ELSE /\ heap' = heap \ {i}
                /\ UNCHANGED <<m_expiration, mc_timers, mc_timers_for_del, armed,
                               fired, add>>
    /\ UNCHANGED <<timer_index, m_interval, mc_timers_will_del, mb_handling,
                   phase, expired_timers, active, cancelled>>

\* Faulty variant: only a timer that is put back sets the timerfd.
NoRearm == UNCHANGED <<armed, fired>>

Rearm ==
    IF ~add /\ mc_timers # {}
    THEN ResetTimerfd(Min(Expirations(mc_timers)))
    ELSE UNCHANGED <<armed, fired>>

IntervalsHandled ==
    /\ phase = "interval"
    /\ done = Len(expired_timers)
    /\ Rearm
    /\ phase' = "idle"
    /\ expired_timers' = << >>
    /\ done' = 0
    /\ add' = FALSE
    /\ UNCHANGED <<timer_index, m_expiration, m_interval, heap, mc_timers,
                   mc_timers_for_del, mc_timers_will_del, mb_handling, active,
                   cancelled>>

\* While the loop has expired timers to see to, time passes up to MaxLag;
\* while it waits for the timerfd, further, up to twice that.
Tick ==
    /\ LET lag == IF phase = "idle" /\ ~fired /\ ~active THEN 2 * MaxLag ELSE MaxLag
       IN  \A i \in heap : m_expiration[i] > -lag
    /\ m_expiration' = [i \in Index |->
         IF i \in heap THEN m_expiration[i] - 1 ELSE m_expiration[i]]
    /\ armed' = IF armed = 0 THEN 0 ELSE armed - 1
    /\ fired' = (fired \/ armed = 1)
    /\ UNCHANGED <<timer_index, m_interval, heap, mc_timers, mc_timers_for_del,
                   mc_timers_will_del, mb_handling, phase, expired_timers, done,
                   add, active, cancelled>>

LoopStep ==
    Poll \/ GetExpired \/ RunTimer \/ AllRun \/ HandleInterval \/ IntervalsHandled

Next ==
    \/ \E when \in When, repeat \in BOOLEAN : AddTimer(when, repeat)
    \/ \E i \in Index : CancelTimer(i)
    \/ LoopStep
    \/ Tick

Spec == Init /\ [][Next]_vars

\* Time passes, callbacks return and the loop polls a readable timerfd.
FairSpec == Spec /\ WF_vars(LoopStep) /\ WF_vars(Tick)

-----------------------------------------------------------------------------
(* Properties.                                                             *)

\* Each variable has its type.
TypeOK ==
    /\ timer_index \in 0 .. MaxTimers
    /\ m_expiration \in [Index -> Int]
    /\ m_interval \in [Index -> Nat]
    /\ heap \subseteq 1 .. timer_index
    /\ mc_timers \subseteq Index
    /\ DOMAIN mc_timers_for_del \subseteq Index
    /\ mc_timers_will_del \subseteq Index
    /\ mb_handling \in BOOLEAN
    /\ phase \in {"idle", "run", "interval"}
    /\ expired_timers \in Seq(Index)
    /\ done \in 0 .. Len(expired_timers)
    /\ add \in BOOLEAN
    /\ armed \in Nat
    /\ fired \in BOOLEAN
    /\ active \in BOOLEAN
    /\ cancelled \subseteq 1 .. timer_index

\* The asserts at lines 111, 153 and 170: the two maps have the same size.
SameSize == Cardinality(DOMAIN mc_timers_for_del) = Cardinality(mc_timers)

\* The two maps name the same timers, each iterator points at the node of
\* its own timer, through every mix of adding, cancelling and expiring.
MapsAgree ==
    /\ DOMAIN mc_timers_for_del = mc_timers
    /\ \A i \in mc_timers : mc_timers_for_del[i] = i

\* The expired timers that handle_expiration still holds.
Held == {expired_timers[n] : n \in (IF phase = "interval" THEN done + 1 ELSE 1)
                                     .. Len(expired_timers)}

\* Every allocated timer is in the map or held by handle_expiration, never in
\* both, and neither holds a deleted one: no leak, no double delete, no use
\* after a callback cancelled itself or a timer of the same batch.
OwnedOnce ==
    /\ heap = mc_timers \union Held
    /\ mc_timers \intersect Held = {}

\* While timers wait, the timerfd is readable or set to the earliest
\* expiration or sooner (one tick if that is past): a spurious wakeup, a
\* cancelled timer or a timer that is due exactly now do not lose it.
ArmedInTime ==
    phase = "idle" /\ mc_timers # {} =>
        \/ fired
        \/ armed > 0 /\ armed <= cal_new_expiration(Min(Expirations(mc_timers)))

\* A cancelled timer is not waiting and never waits again, also when it
\* repeats and was cancelled from its own callback or from another callback
\* of the same batch.
CancelledStaysOut == cancelled \intersect mc_timers = {}

\* Once callers stop adding timers (MaxTimers), every waiting timer expires
\* or is cancelled.
TimersExpire == \A i \in Index : i \in mc_timers ~> i \notin mc_timers
=============================================================================
