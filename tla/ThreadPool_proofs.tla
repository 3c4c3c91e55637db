-------------------------- MODULE ThreadPool_proofs --------------------------
(***************************************************************************)
(* Proofs about ThreadPool for any workers, producers, tasks and queue:    *)
(* one notify per task is enough, for those who take and those who add.    *)
(***************************************************************************)
EXTENDS ThreadPool, FiniteSetTheorems, TLAPS

Takers == At("check") \union At("take")

\* Workers leave only when nobody sleeps on m_can_take: stop() has woken them.
NobodyLeftAsleep == ~mb_started => At("wait_take") = {}

UnstartedAreOff == \A w \in Worker \ m_started : pc[w] = "off"

AddersHoldTasks == \A t \in At("add") \union At("wait_add") : holding[t] \in Task

StartsCounted == owner # "new" => starts >= 1

\* The inductive invariant.
IInv ==
    /\ TypeOK
    /\ NobodyLeftAsleep
    /\ UnstartedAreOff
    /\ AddersHoldTasks
    /\ StartsCounted
    /\ TakersCoverQueue
    /\ AddersCoverSpace

-----------------------------------------------------------------------------
(* Threads and sets of threads.                                            *)

LEMMA ThreadsFinite == \A S \in SUBSET Thread : IsFiniteSet(S) /\ Cardinality(S) \in Nat
<1>1. IsFiniteSet(Worker)
  BY FS_Interval, ConstantsAssumption DEF Worker
<1>2. IsFiniteSet(Thread)
  BY <1>1, FS_Union, ConstantsAssumption DEF Thread
<1> QED
  BY <1>2, FS_Subset, FS_CardinalityType

LEMMA ThreadsAreApart == Worker \intersect Producer = {}
BY ConstantsAssumption DEF Worker

LEMMA WorkerRange ==
    ASSUME NEW n \in Nat, n < Threads, Starts >= 1
    PROVE  n + 1 \in Worker
<1>1. Threads \in Nat /\ Starts \in Nat
  BY ConstantsAssumption
<1>2. Threads <= Threads * Starts
  BY <1>1
<1> QED
  BY <1>1, <1>2 DEF Worker

LEMMA AtInThread == \A s : At(s) \in SUBSET Thread
BY DEF At

LEMMA OneMore ==
    ASSUME NEW S \in SUBSET Thread, NEW T \in SUBSET Thread, S \subseteq T,
           NEW x \in T, x \notin S
    PROVE  Cardinality(S) + 1 <= Cardinality(T)
<1>1. IsFiniteSet(S) /\ IsFiniteSet(T) /\ S \union {x} \subseteq T
  BY ThreadsFinite
<1>2. Cardinality(S \union {x}) = Cardinality(S) + 1
  BY <1>1, FS_AddElement
<1> QED
  BY <1>1, <1>2, FS_Subset

LEMMA OneLess ==
    ASSUME NEW S \in SUBSET Thread, NEW T \in SUBSET Thread, NEW x \in Thread,
           S \subseteq T \union {x}
    PROVE  Cardinality(S) <= Cardinality(T) + 1
<1>1. IsFiniteSet(S) /\ IsFiniteSet(T) /\ Cardinality(T) \in Nat
  BY ThreadsFinite
<1>2. /\ IsFiniteSet(T \union {x})
      /\ Cardinality(T \union {x}) \in {Cardinality(T), Cardinality(T) + 1}
  BY <1>1, FS_AddElement
<1>3. Cardinality(S) <= Cardinality(T \union {x})
  BY <1>2, FS_Subset
<1> QED
  BY <1>1, <1>2, <1>3, ThreadsFinite

\* A notify wakes one thread if there is one to wake.
LEMMA NotifyWakesOne ==
    ASSUME NEW q \in [Thread -> PC], NEW from \in PC, NEW to \in PC,
           NEW r \in NotifyOne(q, from, to)
    PROVE  /\ r \in [Thread -> PC]
           /\ \/ r = q /\ \A t \in Thread : q[t] # from
              \/ \E t \in Thread : q[t] = from /\ r = [q EXCEPT ![t] = to]
BY DEF NotifyOne

-----------------------------------------------------------------------------
(* Steps that leave the queue alone.                                       *)

LEMMA TakersKept ==
    ASSUME IInv, mc_tasks' = mc_tasks, Takers \subseteq Takers',
           At("wait_take")' \subseteq At("wait_take")
    PROVE  TakersCoverQueue'
<1>1. Takers \in SUBSET Thread /\ Takers' \in SUBSET Thread
  BY DEF Takers, At
<1>2. Cardinality(Takers) <= Cardinality(Takers')
  BY <1>1, ThreadsFinite, FS_Subset
<1>3. Len(mc_tasks) \in Nat
  BY DEF IInv, TypeOK
<1>4. Cardinality(Takers) \in Nat /\ Cardinality(Takers') \in Nat
  BY <1>1, ThreadsFinite
<1> QED
  BY <1>2, <1>3, <1>4 DEF IInv, TakersCoverQueue, Takers

LEMMA AddersKept ==
    ASSUME IInv, mc_tasks' = mc_tasks, At("add") \subseteq At("add")',
           At("wait_add")' \subseteq At("wait_add")
    PROVE  AddersCoverSpace'
<1>1. At("add") \in SUBSET Thread /\ At("add")' \in SUBSET Thread
  BY DEF At
<1>2. Cardinality(At("add")) <= Cardinality(At("add")')
  BY <1>1, ThreadsFinite, FS_Subset
<1>3. Len(mc_tasks) \in Nat /\ MaxQueue \in Nat
  BY ConstantsAssumption DEF IInv, TypeOK
<1>4. Cardinality(At("add")) \in Nat /\ Cardinality(At("add")') \in Nat
  BY <1>1, ThreadsFinite
<1> QED
  BY <1>2, <1>3, <1>4 DEF IInv, AddersCoverSpace

-----------------------------------------------------------------------------
(* The owner.                                                              *)

LEMMA InitInv == Init => IInv
<1> SUFFICES ASSUME Init PROVE IInv
  OBVIOUS
<1>1. At("wait_take") = {} /\ At("wait_add") = {} /\ At("add") = {}
  BY DEF Init, At
<1>2. TypeOK
  <2>1. pc \in [Thread -> PC] /\ holding \in [Thread -> Task \union {NoTask}]
    BY DEF Init, PC
  <2>2. mc_tasks \in Seq(Task) /\ Len(mc_tasks) = 0
    BY DEF Init
  <2>3. /\ starts \in 0 .. Starts /\ spawning \in 0 .. Threads
        /\ mc_threads \in Nat /\ 0 <= MaxQueue
    BY ConstantsAssumption DEF Init
  <2>4. /\ owner = "new" /\ mb_started \in BOOLEAN
        /\ m_started = {} /\ submitted = {}
    BY DEF Init
  <2> QED
    BY <2>1, <2>2, <2>3, <2>4 DEF TypeOK
<1>3. UnstartedAreOff
  BY DEF Init, UnstartedAreOff, Thread
<1> QED
  BY <1>1, <1>2, <1>3 DEF Init, IInv, NobodyLeftAsleep, AddersHoldTasks,
     StartsCounted, TakersCoverQueue, AddersCoverSpace

\* Steps that move no thread.
LEMMA PcAndQueueKept ==
    ASSUME IInv, pc' = pc, mc_tasks' = mc_tasks
    PROVE  TakersCoverQueue' /\ AddersCoverSpace'
BY DEF IInv, TakersCoverQueue, AddersCoverSpace, At

LEMMA StartInv == IInv /\ Start => IInv'
<1> SUFFICES ASSUME IInv, Start PROVE IInv'
  OBVIOUS
<1>1. TypeOK'
  BY ConstantsAssumption DEF IInv, Start, TypeOK
<1>2. UnstartedAreOff' /\ AddersHoldTasks' /\ StartsCounted' /\ NobodyLeftAsleep'
  BY DEF IInv, Start, TypeOK, UnstartedAreOff, AddersHoldTasks, StartsCounted,
     NobodyLeftAsleep, At
<1> QED
  BY <1>1, <1>2, PcAndQueueKept DEF IInv, Start

LEMMA SpawnThreadInv == IInv /\ SpawnThread => IInv'
<1> SUFFICES ASSUME IInv, SpawnThread PROVE IInv'
  OBVIOUS
<1> USE DEF IInv, SpawnThread
<1>1. /\ spawning + 1 \in Worker
      /\ spawning + 1 \in Thread
      /\ pc[spawning + 1] = "off"
  BY WorkerRange, ConstantsAssumption
     DEF TypeOK, StartsCounted, UnstartedAreOff, Thread
<1>2. TypeOK'
  BY <1>1, ConstantsAssumption DEF TypeOK, PC
<1>3. /\ At("check") \subseteq At("check")'
      /\ \A s \in {"take", "wait_take", "add", "wait_add"} : At(s)' = At(s)
  BY <1>1 DEF TypeOK, At
<1>4. Takers \subseteq Takers'
  BY <1>3 DEF Takers
<1>5. UnstartedAreOff' /\ AddersHoldTasks' /\ StartsCounted' /\ NobodyLeftAsleep'
  BY <1>3 DEF TypeOK, UnstartedAreOff, AddersHoldTasks, StartsCounted,
     NobodyLeftAsleep, Thread
<1> QED
  BY <1>2, <1>3, <1>4, <1>5, TakersKept, AddersKept

LEMMA StopInv == IInv /\ Stop => IInv'
<1> SUFFICES ASSUME IInv, Stop PROVE IInv'
  OBVIOUS
<1> USE DEF IInv, Stop
<1>1. pc' = [t \in Thread |-> IF pc[t] = "wait_take" THEN "take" ELSE pc[t]]
  BY DEF NotifiedByStop, NotifyAll
<1>2. TypeOK'
  BY <1>1, ConstantsAssumption DEF TypeOK, PC
<1>3. /\ At("wait_take")' = {}
      /\ At("add")' = At("add")
      /\ At("wait_add")' = At("wait_add")
  BY <1>1 DEF At
<1>4. TakersCoverQueue' /\ NobodyLeftAsleep'
  BY <1>3 DEF TakersCoverQueue, NobodyLeftAsleep
<1>5. AddersCoverSpace'
  BY <1>3, AddersKept
<1>6. UnstartedAreOff' /\ AddersHoldTasks' /\ StartsCounted'
  BY <1>1, <1>3 DEF TypeOK, UnstartedAreOff, AddersHoldTasks, StartsCounted, Thread
<1> QED
  BY <1>2, <1>4, <1>5, <1>6

LEMMA StartedInv == IInv /\ (Started \/ Joined) => IInv'
<1> SUFFICES ASSUME IInv, Started \/ Joined PROVE IInv'
  OBVIOUS
<1>1. TypeOK'
  BY DEF IInv, Started, Joined, TypeOK
<1>2. UnstartedAreOff' /\ AddersHoldTasks' /\ StartsCounted' /\ NobodyLeftAsleep'
  BY DEF IInv, Started, Joined, TypeOK, UnstartedAreOff, AddersHoldTasks,
     StartsCounted, NobodyLeftAsleep, At
<1> QED
  BY <1>1, <1>2, PcAndQueueKept DEF IInv, Started, Joined

-----------------------------------------------------------------------------
(* Steps of one thread that leave the queue alone.                         *)

LEMMA CallAddTaskInv ==
    ASSUME IInv, NEW p \in Producer, NEW x \in Task, CallAddTask(p, x)
    PROVE  IInv'
<1> USE DEF IInv, CallAddTask, ownerVars
<1>1. p \in Thread /\ p \notin Worker
  BY ThreadsAreApart DEF Thread
<1>2. TypeOK'
  BY <1>1 DEF TypeOK, PC
<1>3. /\ At("add") \subseteq At("add")'
      /\ \A s \in {"check", "take", "wait_take", "wait_add"} : At(s)' = At(s)
  BY <1>1 DEF TypeOK, At
<1>4. AddersHoldTasks'
  BY <1>1 DEF TypeOK, AddersHoldTasks, At
<1>5. UnstartedAreOff' /\ StartsCounted' /\ NobodyLeftAsleep'
  BY <1>1, <1>3 DEF TypeOK, UnstartedAreOff, StartsCounted, NobodyLeftAsleep, Thread
<1>6. Takers \subseteq Takers'
  BY <1>3 DEF Takers
<1> QED
  BY <1>2, <1>3, <1>4, <1>5, <1>6, TakersKept, AddersKept

LEMMA NestedAddTaskInv ==
    ASSUME IInv, NEW w \in Worker, NEW x \in Task, NestedAddTask(w, x)
    PROVE  IInv'
<1> USE DEF IInv, NestedAddTask, ownerVars
<1>1. w \in Thread
  BY DEF Thread
<1>2. TypeOK'
  BY <1>1 DEF TypeOK, PC
<1>3. /\ At("add") \subseteq At("add")'
      /\ \A s \in {"check", "take", "wait_take", "wait_add"} : At(s)' = At(s)
  BY <1>1 DEF TypeOK, At
<1>4. AddersHoldTasks'
  BY <1>1 DEF TypeOK, AddersHoldTasks, At
<1>5. UnstartedAreOff' /\ StartsCounted' /\ NobodyLeftAsleep'
  BY <1>1, <1>3 DEF TypeOK, UnstartedAreOff, StartsCounted, NobodyLeftAsleep, Thread
<1>6. Takers \subseteq Takers'
  BY <1>3 DEF Takers
<1> QED
  BY <1>2, <1>3, <1>4, <1>5, <1>6, TakersKept, AddersKept

\* The queue is full, so there is no place to be covered.
LEMMA WaitToAddInv ==
    ASSUME IInv, NEW t \in Thread, WaitToAdd(t)
    PROVE  IInv'
<1> USE DEF IInv, WaitToAdd, ownerVars
<1>1. TypeOK'
  BY DEF TypeOK, PC
<1>2. /\ \A s \in {"check", "take", "wait_take"} : At(s)' = At(s)
      /\ At("add")' \union At("wait_add")' = At("add") \union At("wait_add")
  BY DEF TypeOK, At
<1>3. AddersHoldTasks' /\ UnstartedAreOff' /\ StartsCounted' /\ NobodyLeftAsleep'
  BY <1>2 DEF TypeOK, AddersHoldTasks, UnstartedAreOff, StartsCounted,
     NobodyLeftAsleep, Thread
<1>4. TakersCoverQueue'
  BY <1>2, TakersKept DEF Takers
<1>5. AddersCoverSpace'
  <2>1. At("add")' \in SUBSET Thread
    BY DEF At
  <2>2. Cardinality(At("add")') \in Nat
    BY <2>1, ThreadsFinite
  <2>3. Len(mc_tasks) \in Nat /\ Len(mc_tasks) >= MaxQueue /\ MaxQueue \in Nat
    BY ConstantsAssumption DEF is_full, TypeOK
  <2> QED
    BY <2>2, <2>3 DEF AddersCoverSpace
<1> QED
  BY <1>1, <1>3, <1>4, <1>5

\* A worker that leaves is missed by nobody: stop() woke those who slept.
LEMMA CheckStartedInv ==
    ASSUME IInv, NEW w \in Worker, CheckStarted(w)
    PROVE  IInv'
<1> USE DEF IInv, CheckStarted, ownerVars
<1>1. w \in Thread
  BY DEF Thread
<1>2. TypeOK'
  BY <1>1 DEF TypeOK, PC
<1>3. \A s \in {"add", "wait_take", "wait_add"} : At(s)' = At(s)
  BY <1>1 DEF TypeOK, At
<1>4. AddersHoldTasks' /\ UnstartedAreOff' /\ StartsCounted' /\ NobodyLeftAsleep'
  BY <1>3 DEF TypeOK, AddersHoldTasks, UnstartedAreOff, StartsCounted,
     NobodyLeftAsleep, Thread
<1>5. AddersCoverSpace'
  BY <1>3, AddersKept
<1>6. TakersCoverQueue'
  <2>1. CASE mb_started
    <3>1. Takers \subseteq Takers'
      BY <2>1, <1>1 DEF TypeOK, Takers, At
    <3> QED
      BY <3>1, <1>3, TakersKept
  <2>2. CASE ~mb_started
    BY <2>2, <1>3 DEF NobodyLeftAsleep, TakersCoverQueue
  <2> QED
    BY <2>1, <2>2
<1> QED
  BY <1>2, <1>4, <1>5, <1>6

\* The queue is empty, so there is no task to be covered.
LEMMA WaitToTakeInv ==
    ASSUME IInv, NEW w \in Worker, WaitToTake(w)
    PROVE  IInv'
<1> USE DEF IInv, WaitToTake, ownerVars
<1>1. w \in Thread
  BY DEF Thread
<1>2. TypeOK'
  BY <1>1 DEF TypeOK, PC
<1>3. \A s \in {"add", "wait_add"} : At(s)' = At(s)
  BY <1>1 DEF TypeOK, At
<1>4. AddersHoldTasks' /\ UnstartedAreOff' /\ StartsCounted' /\ NobodyLeftAsleep'
  BY <1>3 DEF TypeOK, AddersHoldTasks, UnstartedAreOff, StartsCounted,
     NobodyLeftAsleep, Thread
<1>5. AddersCoverSpace'
  BY <1>3, AddersKept
<1>6. TakersCoverQueue'
  <2>1. Takers' \in SUBSET Thread
    BY DEF Takers, At
  <2>2. Cardinality(Takers') \in Nat
    BY <2>1, ThreadsFinite
  <2>3. Len(mc_tasks') = 0
    OBVIOUS
  <2> QED
    BY <2>2, <2>3 DEF TakersCoverQueue, Takers
<1> QED
  BY <1>2, <1>4, <1>5, <1>6

LEMMA BackToCheckInv ==
    ASSUME IInv, NEW w \in Worker, TakeNothing(w) \/ TaskReturns(w)
    PROVE  IInv'
<1> USE DEF IInv, TakeNothing, TaskReturns, ownerVars
<1>1. w \in Thread
  BY DEF Thread
<1>2. TypeOK'
  BY <1>1 DEF TypeOK, PC
<1>3. /\ \A s \in {"add", "wait_take", "wait_add"} : At(s)' = At(s)
      /\ Takers \subseteq Takers'
  BY <1>1 DEF TypeOK, At, Takers
<1>4. AddersHoldTasks'
  BY <1>1 DEF TypeOK, AddersHoldTasks, At
<1>5. UnstartedAreOff' /\ StartsCounted' /\ NobodyLeftAsleep'
  BY <1>3 DEF TypeOK, UnstartedAreOff, StartsCounted, NobodyLeftAsleep, Thread
<1> QED
  BY <1>2, <1>3, <1>4, <1>5, TakersKept, AddersKept

LEMMA SpuriousWakeupInv ==
    ASSUME IInv, NEW t \in Thread, SpuriousWakeup(t)
    PROVE  IInv'
<1> USE DEF IInv, SpuriousWakeup, ownerVars
<1>1. TypeOK'
  BY DEF TypeOK, PC
<1>2. /\ \A s \in {"wait_take", "wait_add"} : At(s)' \subseteq At(s)
      /\ At("add") \subseteq At("add")'
      /\ Takers \subseteq Takers'
  BY DEF TypeOK, At, Takers
<1>3. AddersHoldTasks'
  BY DEF TypeOK, AddersHoldTasks, At
<1>4. UnstartedAreOff' /\ StartsCounted' /\ NobodyLeftAsleep'
  BY <1>2 DEF TypeOK, UnstartedAreOff, StartsCounted, NobodyLeftAsleep, Thread
<1> QED
  BY <1>1, <1>2, <1>3, <1>4, TakersKept, AddersKept

-----------------------------------------------------------------------------
(* Steps that change the queue.                                            *)

\* The task that is added makes the queue longer by one; the notify makes one
\* more thread awake for it, or finds nobody asleep.
LEMMA AddTaskInv ==
    ASSUME IInv, NEW t \in Thread, AddTask(t)
    PROVE  IInv'
<1> USE DEF IInv, AddTask, ownerVars
<1> DEFINE q == [pc EXCEPT ![t] = IF t \in Worker THEN "check" ELSE "idle"]
<1>1. q \in [Thread -> PC]
  BY DEF TypeOK, PC
<1>2. /\ pc' \in [Thread -> PC]
      /\ \/ pc' = q /\ \A u \in Thread : q[u] # "wait_take"
         \/ \E u \in Thread : q[u] = "wait_take" /\ pc' = [q EXCEPT ![u] = "take"]
  <2>1. pc' \in NotifyOne(q, "wait_take", "take")
    BY DEF NotifiedByAdd
  <2>2. "wait_take" \in PC /\ "take" \in PC
    BY DEF PC
  <2> HIDE DEF q
  <2> QED
    BY <1>1, <2>1, <2>2, NotifyWakesOne
<1>3. holding[t] \in Task
  BY DEF AddersHoldTasks, At
<1>4. /\ mc_tasks \in Seq(Task) /\ Len(mc_tasks) \in Nat
      /\ Len(mc_tasks) < MaxQueue /\ MaxQueue \in Nat
      /\ mc_tasks' \in Seq(Task)
      /\ Len(mc_tasks') = Len(mc_tasks) + 1
  BY <1>3, ConstantsAssumption DEF TypeOK, is_full
<1>5. TypeOK'
  BY <1>2, <1>4 DEF TypeOK
<1>6. /\ At("add") \subseteq At("add")' \union {t}
      /\ At("add")' \subseteq At("add") \ {t}
      /\ At("wait_add")' = At("wait_add")
  BY <1>2 DEF TypeOK, At
<1>7. AddersHoldTasks'
  BY <1>6 DEF TypeOK, AddersHoldTasks, At
<1>8. UnstartedAreOff'
  BY <1>2 DEF TypeOK, UnstartedAreOff, Thread
<1>9. StartsCounted' /\ NobodyLeftAsleep'
  BY <1>2 DEF TypeOK, StartsCounted, NobodyLeftAsleep, At
<1>10. AddersCoverSpace'
  <2>1. At("add") \in SUBSET Thread /\ At("add")' \in SUBSET Thread
    BY DEF At
  <2>2. Cardinality(At("add")) <= Cardinality(At("add")') + 1
    BY <2>1, <1>6, OneLess
  <2>3. Cardinality(At("add")) \in Nat /\ Cardinality(At("add")') \in Nat
    BY <2>1, ThreadsFinite
  <2> QED
    BY <1>4, <1>6, <2>2, <2>3 DEF AddersCoverSpace
<1>11. TakersCoverQueue'
  <2>1. CASE \A u \in Thread : pc'[u] # "wait_take"
    BY <2>1 DEF TakersCoverQueue, At
  <2>2. CASE \E u \in Thread : q[u] = "wait_take" /\ pc' = [q EXCEPT ![u] = "take"]
    <3>1. PICK u \in Thread : q[u] = "wait_take" /\ pc' = [q EXCEPT ![u] = "take"]
      BY <2>2
    <3>2. pc[u] = "wait_take"
      BY <3>1 DEF TypeOK
    <3>3. /\ Takers \subseteq Takers'
          /\ u \in Takers' /\ u \notin Takers
      BY <3>1, <3>2 DEF TypeOK, Takers, At
    <3>4. Takers \in SUBSET Thread /\ Takers' \in SUBSET Thread
      BY DEF Takers, At
    <3>5. Cardinality(Takers) + 1 <= Cardinality(Takers')
      BY <3>3, <3>4, OneMore
    <3>6. Cardinality(Takers) \in Nat /\ Cardinality(Takers') \in Nat
      BY <3>4, ThreadsFinite
    <3>7. Len(mc_tasks) <= Cardinality(Takers)
      BY <3>2 DEF TakersCoverQueue, Takers, At
    <3> QED
      BY <1>4, <3>5, <3>6, <3>7 DEF TakersCoverQueue, Takers
  <2> QED
    BY <1>2, <2>1, <2>2
<1> QED
  BY <1>5, <1>7, <1>8, <1>9, <1>10, <1>11

\* The task that is taken makes one more free place; the taker is one worker
\* less on its way to the queue, which is shorter by one.
LEMMA TakeInv ==
    ASSUME IInv, NEW w \in Worker, Take(w)
    PROVE  IInv'
<1> USE DEF IInv, Take, ownerVars
<1> DEFINE q == [pc EXCEPT ![w] = "run"]
<1>1. w \in Thread /\ q \in [Thread -> PC]
  BY DEF TypeOK, PC, Thread
<1>2. /\ mc_tasks \in Seq(Task) /\ Len(mc_tasks) \in Nat /\ Len(mc_tasks) # 0
      /\ Len(mc_tasks) <= MaxQueue /\ MaxQueue \in Nat
      /\ mc_tasks' \in Seq(Task) /\ Head(mc_tasks) \in Task
      /\ Len(mc_tasks') = Len(mc_tasks) - 1
  BY ConstantsAssumption DEF TypeOK
<1>3. /\ pc' \in [Thread -> PC]
      /\ \/ pc' = q /\ \A u \in Thread : q[u] # "wait_add"
         \/ \E u \in Thread : q[u] = "wait_add" /\ pc' = [q EXCEPT ![u] = "add"]
  <2>1. pc' \in NotifyOne(q, "wait_add", "add")
    BY <1>2 DEF NotifiedByTake
  <2>2. "wait_add" \in PC /\ "add" \in PC
    BY DEF PC
  <2> HIDE DEF q
  <2> QED
    BY <1>1, <2>1, <2>2, NotifyWakesOne
<1>4. TypeOK'
  BY <1>1, <1>2, <1>3 DEF TypeOK
<1>5. /\ Takers \subseteq Takers' \union {w}
      /\ At("wait_take")' = At("wait_take")
      /\ At("add")' \union At("wait_add")' = At("add") \union At("wait_add")
  BY <1>1, <1>3 DEF TypeOK, At, Takers
<1>6. AddersHoldTasks'
  BY <1>1, <1>2, <1>5 DEF TypeOK, AddersHoldTasks
<1>7. UnstartedAreOff'
  BY <1>1, <1>3 DEF TypeOK, UnstartedAreOff, Thread
<1>8. StartsCounted' /\ NobodyLeftAsleep'
  BY <1>5 DEF StartsCounted, NobodyLeftAsleep
<1>9. TakersCoverQueue'
  <2>1. Takers \in SUBSET Thread /\ Takers' \in SUBSET Thread
    BY DEF Takers, At
  <2>2. Cardinality(Takers) <= Cardinality(Takers') + 1
    BY <2>1, <1>1, <1>5, OneLess
  <2>3. Cardinality(Takers) \in Nat /\ Cardinality(Takers') \in Nat
    BY <2>1, ThreadsFinite
  <2> QED
    BY <1>2, <1>5, <2>2, <2>3 DEF TakersCoverQueue, Takers
<1>10. AddersCoverSpace'
  <2>1. CASE \A u \in Thread : pc'[u] # "wait_add"
    BY <2>1 DEF AddersCoverSpace, At
  <2>2. CASE \E u \in Thread : q[u] = "wait_add" /\ pc' = [q EXCEPT ![u] = "add"]
    <3>1. PICK u \in Thread : q[u] = "wait_add" /\ pc' = [q EXCEPT ![u] = "add"]
      BY <2>2
    <3>2. pc[u] = "wait_add"
      BY <1>1, <3>1 DEF TypeOK
    <3>3. /\ At("add") \subseteq At("add")'
          /\ u \in At("add")' /\ u \notin At("add")
      BY <1>1, <3>1, <3>2 DEF TypeOK, At
    <3>4. At("add") \in SUBSET Thread /\ At("add")' \in SUBSET Thread
      BY DEF At
    <3>5. Cardinality(At("add")) + 1 <= Cardinality(At("add")')
      BY <3>3, <3>4, OneMore
    <3>6. Cardinality(At("add")) \in Nat /\ Cardinality(At("add")') \in Nat
      BY <3>4, ThreadsFinite
    <3>7. MaxQueue - Len(mc_tasks) <= Cardinality(At("add"))
      BY <3>2 DEF AddersCoverSpace, At
    <3> QED
      BY <1>2, <3>5, <3>6, <3>7 DEF AddersCoverSpace
  <2> QED
    BY <1>3, <2>1, <2>2
<1> QED
  BY <1>4, <1>6, <1>7, <1>8, <1>9, <1>10

-----------------------------------------------------------------------------

LEMMA NextInv == IInv /\ [Next]_vars => IInv'
<1> SUFFICES ASSUME IInv, [Next]_vars PROVE IInv'
  OBVIOUS
<1>1. CASE Start \/ SpawnThread \/ Started \/ Stop \/ Joined
  BY <1>1, StartInv, SpawnThreadInv, StartedInv, StopInv
<1>2. CASE \E p \in Producer, x \in Task : CallAddTask(p, x)
  BY <1>2, CallAddTaskInv
<1>3. CASE \E w \in Worker, x \in Task : NestedAddTask(w, x)
  BY <1>3, NestedAddTaskInv
<1>4. CASE \E t \in Thread : AddStep(t) \/ SpuriousWakeup(t)
  BY <1>4, AddTaskInv, WaitToAddInv, SpuriousWakeupInv DEF AddStep
<1>5. CASE \E w \in Worker : WorkerStep(w)
  BY <1>5, CheckStartedInv, TakeInv, WaitToTakeInv, BackToCheckInv DEF WorkerStep
<1>6. CASE UNCHANGED vars
  <2>1. TypeOK'
    BY <1>6 DEF IInv, TypeOK, vars
  <2>2. UnstartedAreOff' /\ AddersHoldTasks' /\ StartsCounted' /\ NobodyLeftAsleep'
    BY <1>6 DEF IInv, vars, UnstartedAreOff, AddersHoldTasks, StartsCounted,
       NobodyLeftAsleep, At
  <2> QED
    BY <1>6, <2>1, <2>2, PcAndQueueKept DEF IInv, vars
<1> QED
  BY <1>1, <1>2, <1>3, <1>4, <1>5, <1>6 DEF Next

\* ThreadPool.cc:82, 104: while a worker sleeps on m_can_take, the workers that
\* are awake are at least as many as the queued tasks, whoever steals a task.
THEOREM TakersCovered == Spec => []TakersCoverQueue
<1>1. IInv => TakersCoverQueue
  BY DEF IInv
<1> QED
  BY <1>1, InitInv, NextInv, PTL DEF Spec

\* ThreadPool.cc:101: while a thread sleeps on m_can_add, the threads that are
\* about to add are at least as many as the free places.
THEOREM AddersCovered == Spec => []AddersCoverSpace
<1>1. IInv => AddersCoverSpace
  BY DEF IInv
<1> QED
  BY <1>1, InitInv, NextInv, PTL DEF Spec

-----------------------------------------------------------------------------
(* Workers that have blocked each other.                                   *)

\* ThreadPool.cc:78: once every worker runs a task that waits for room in the
\* full queue, no notify, spurious wakeup or other thread ends it: only stop()
\* changes anything, and it wakes none of them.
THEOREM BlockedForGood ==
    Spec => [][WorkersBlocked => WorkersBlocked' \/ ~mb_started']_vars
<1>1. ASSUME IInv, Next, WorkersBlocked
      PROVE  WorkersBlocked' \/ ~mb_started'
  <2> USE DEF WorkersBlocked
  <2>1. \A w \in Worker : pc[w] \in {"add", "wait_add", "off"}
    BY <1>1 DEF IInv, UnstartedAreOff
  <2>2. pc \in [Thread -> PC] /\ m_started \subseteq Worker /\ Worker \subseteq Thread
    BY <1>1 DEF IInv, TypeOK, Thread
  <2>3. CASE Stop
    BY <2>3 DEF Stop
  <2>4. CASE Start \/ SpawnThread \/ Started \/ Joined
    BY <1>1, <2>4 DEF Start, SpawnThread, Started, Joined
  <2>5. CASE \E p \in Producer, x \in Task : CallAddTask(p, x)
    BY <1>1, <2>2, <2>5, ThreadsAreApart DEF CallAddTask, ownerVars, is_full
  <2>6. CASE \E w \in Worker, x \in Task : NestedAddTask(w, x)
    BY <2>1, <2>6 DEF NestedAddTask
  <2>7. CASE \E t \in Thread : AddStep(t) \/ SpuriousWakeup(t)
    <3>1. ASSUME NEW t \in Thread, AddTask(t) PROVE FALSE
      BY <1>1, <3>1 DEF AddTask
    <3>2. ASSUME NEW t \in Thread, WaitToAdd(t) \/ SpuriousWakeup(t)
          PROVE  WorkersBlocked'
      BY <1>1, <2>2, <3>2 DEF WaitToAdd, SpuriousWakeup, ownerVars, is_full
    <3> QED
      BY <2>7, <3>1, <3>2 DEF AddStep
  <2>8. CASE \E w \in Worker : WorkerStep(w)
    BY <2>1, <2>8 DEF WorkerStep, CheckStarted, Take, WaitToTake, TakeNothing,
       TaskReturns
  <2> QED
    BY <1>1, <2>3, <2>4, <2>5, <2>6, <2>7, <2>8 DEF Next
<1>2. IInv /\ [Next]_vars => [WorkersBlocked => WorkersBlocked' \/ ~mb_started']_vars
  BY <1>1
<1> QED
  BY <1>2, InitInv, NextInv, PTL DEF Spec
=============================================================================
