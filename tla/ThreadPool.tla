----------------------------- MODULE ThreadPool -----------------------------
(***************************************************************************)
(* base/ThreadPool: a bounded task queue under one mutex and the two       *)
(* conditions m_can_take and m_can_add.  A section that holds the mutex is *)
(* one action; a thread in pthread_cond_wait has its waiting state and is  *)
(* moved out of it by a notify or spuriously.  One thread (the owner)      *)
(* starts and stops the pool.  Every task is submitted once.               *)
(***************************************************************************)
EXTENDS Integers, Sequences, FiniteSets

CONSTANTS
    Threads,    \* thread_counts of start()
    MaxQueue,   \* m_max_queue, which start() sets to thread_counts*100
    Producer,   \* threads outside the pool that call add_task
    Task,
    Nested,     \* the tasks that are submitted by a running task
    Starts      \* bound: how often start() is called

NoTask == "no task"

ASSUME ConstantsAssumption ==
    /\ NoTask \notin Task
    /\ Threads \in Nat /\ MaxQueue \in Nat /\ Starts \in Nat
    /\ Nested \subseteq Task
    /\ Producer \intersect Nat = {} /\ IsFiniteSet(Producer)

VARIABLES
    owner,          \* "new", "starting", "started", "joining", "stopped"
    starts,         \* calls of start() so far
    mb_started,
    mc_threads,     \* how many Thread objects the vector holds
    m_started,      \* the threads whose m_started is set
    spawning,       \* i of the loop in start()
    mc_tasks,
    pc,
    holding,        \* the task a thread submits or runs
    submitted       \* the tasks submitted so far

vars == <<owner, starts, mb_started, mc_threads, m_started, spawning, mc_tasks,
          pc, holding, submitted>>
ownerVars == <<owner, starts, mb_started, mc_threads, m_started, spawning>>

Worker == 1 .. Threads * Starts
Thread == Worker \union Producer

PC == {"off", "idle", "check", "take", "wait_take", "run", "add", "wait_add",
       "exit"}

At(s) == {t \in Thread : pc[t] = s}

Init ==
    /\ owner = "new"
    /\ starts = 0
    /\ mb_started = FALSE
    /\ mc_threads = 0
    /\ m_started = {}
    /\ spawning = 0
    /\ mc_tasks = << >>
    /\ pc = [t \in Thread |-> IF t \in Worker THEN "off" ELSE "idle"]
    /\ holding = [t \in Thread |-> NoTask]
    /\ submitted = {}

-----------------------------------------------------------------------------
(* start() and stop(), by the owner.                                       *)

Start ==
    /\ owner \in {"new", "stopped"}         \* assert(!mb_started)
    /\ starts < Starts
    /\ owner' = "starting"
    /\ starts' = starts + 1
    /\ mb_started' = TRUE
    /\ spawning' = 0
    /\ UNCHANGED <<mc_threads, m_started, mc_tasks, pc, holding, submitted>>

\* push_back of a new Thread, then mc_threads[i]->start().
SpawnThread ==
    /\ owner = "starting"
    /\ spawning < Threads
    /\ spawning + 1 \notin m_started        \* the assert in Thread::start
    /\ mc_threads' = mc_threads + 1
    /\ m_started' = m_started \union {spawning + 1}
    /\ spawning' = spawning + 1
    /\ pc' = [pc EXCEPT ![spawning + 1] = "check"]
    /\ UNCHANGED <<owner, starts, mb_started, mc_tasks, holding, submitted>>

Started ==
    /\ owner = "starting"
    /\ spawning = Threads
    /\ owner' = "started"
    /\ UNCHANGED <<starts, mb_started, mc_threads, m_started, spawning, mc_tasks,
                   pc, holding, submitted>>

\* The threads a notify can wake, each as the pc that results.
NotifyOne(q, from, to) ==
    LET waiting == {t \in Thread : q[t] = from}
    IN  IF waiting = {} THEN {q} ELSE {[q EXCEPT ![t] = to] : t \in waiting}

NotifyAll(q, from, to) ==
    [t \in Thread |-> IF q[t] = from THEN to ELSE q[t]]

\* Faulty variant: notify instead of notify_all.
NotifiedByStopOne == NotifyOne(pc, "wait_take", "take")

\* Only the workers are woken; producers that wait for space are not.
NotifiedByStop == {NotifyAll(pc, "wait_take", "take")}

Stop ==
    /\ owner = "started"
    /\ owner' = "joining"
    /\ mb_started' = FALSE
    /\ pc' \in NotifiedByStop
    /\ UNCHANGED <<starts, mc_threads, m_started, spawning, mc_tasks, holding,
                   submitted>>

Joined ==
    /\ owner = "joining"
    /\ \A t \in m_started : pc[t] = "exit"
    /\ owner' = "stopped"
    /\ UNCHANGED <<starts, mb_started, mc_threads, m_started, spawning, mc_tasks,
                   pc, holding, submitted>>

-----------------------------------------------------------------------------
(* add_task(), by producers and by running tasks.                          *)

\* Without threads the task runs in the caller, at once.
CallAddTask(p, x) ==
    /\ p \in Producer
    /\ pc[p] = "idle"
    /\ x \in Task \ (submitted \union Nested)
    /\ submitted' = submitted \union {x}
    /\ IF mc_threads = 0
       THEN UNCHANGED <<pc, holding>>
       ELSE /\ pc' = [pc EXCEPT ![p] = "add"]
            /\ holding' = [holding EXCEPT ![p] = x]
    /\ UNCHANGED <<ownerVars, mc_tasks>>

\* A running task submits another one as the last thing it does.
NestedAddTask(w, x) ==
    /\ w \in Worker
    /\ pc[w] = "run"
    /\ holding[w] \notin Nested
    /\ x \in Nested \ submitted
    /\ submitted' = submitted \union {x}
    /\ pc' = [pc EXCEPT ![w] = "add"]
    /\ holding' = [holding EXCEPT ![w] = x]
    /\ UNCHANGED <<ownerVars, mc_tasks>>

is_full == Len(mc_tasks) >= MaxQueue

\* Faulty variants: a notify only for the first task of a queue, or one that
\* reaches the other condition.
NotifiedByFirstAdd(q) ==
    IF mc_tasks = << >> THEN NotifyOne(q, "wait_take", "take") ELSE {q}
NotifiedWrongCondition(q) == NotifyOne(q, "wait_add", "add")

NotifiedByAdd(q) == NotifyOne(q, "wait_take", "take")

AddTask(t) ==
    /\ pc[t] = "add"
    /\ ~is_full
    /\ mc_tasks' = Append(mc_tasks, holding[t])
    /\ holding' = [holding EXCEPT ![t] = NoTask]
    /\ pc' \in NotifiedByAdd(
                  [pc EXCEPT ![t] = IF t \in Worker THEN "check" ELSE "idle"])
    /\ UNCHANGED <<ownerVars, submitted>>

WaitToAdd(t) ==
    /\ pc[t] = "add"
    /\ is_full
    /\ pc' = [pc EXCEPT ![t] = "wait_add"]
    /\ UNCHANGED <<ownerVars, mc_tasks, holding, submitted>>

-----------------------------------------------------------------------------
(* seed_into_thread() and take(), by the workers.                          *)

\* mb_started is read here without the mutex.
CheckStarted(w) ==
    /\ pc[w] = "check"
    /\ pc' = [pc EXCEPT ![w] = IF mb_started THEN "take" ELSE "exit"]
    /\ UNCHANGED <<ownerVars, mc_tasks, holding, submitted>>

\* Faulty variants: a notify only when the queue was full, or none.
NotifiedByFullTake(q) == IF is_full THEN NotifyOne(q, "wait_add", "add") ELSE {q}
NotifiedByNoTake(q) == {q}

NotifiedByTake(q) ==
    IF Len(mc_tasks) - 1 < MaxQueue THEN NotifyOne(q, "wait_add", "add") ELSE {q}

Take(w) ==
    /\ pc[w] = "take"
    /\ mc_tasks # << >>
    /\ mc_tasks' = Tail(mc_tasks)
    /\ holding' = [holding EXCEPT ![w] = Head(mc_tasks)]
    /\ pc' \in NotifiedByTake([pc EXCEPT ![w] = "run"])
    /\ UNCHANGED <<ownerVars, submitted>>

WaitToTake(w) ==
    /\ pc[w] = "take"
    /\ mc_tasks = << >>
    /\ mb_started
    /\ pc' = [pc EXCEPT ![w] = "wait_take"]
    /\ UNCHANGED <<ownerVars, mc_tasks, holding, submitted>>

\* Stopped and nothing left: take() returns an empty task.
TakeNothing(w) ==
    /\ pc[w] = "take"
    /\ mc_tasks = << >>
    /\ ~mb_started
    /\ pc' = [pc EXCEPT ![w] = "check"]
    /\ UNCHANGED <<ownerVars, mc_tasks, holding, submitted>>

TaskReturns(w) ==
    /\ pc[w] = "run"
    /\ pc' = [pc EXCEPT ![w] = "check"]
    /\ holding' = [holding EXCEPT ![w] = NoTask]
    /\ UNCHANGED <<ownerVars, mc_tasks, submitted>>

SpuriousWakeup(t) ==
    /\ pc[t] \in {"wait_take", "wait_add"}
    /\ pc' = [pc EXCEPT ![t] = IF pc[t] = "wait_take" THEN "take" ELSE "add"]
    /\ UNCHANGED <<ownerVars, mc_tasks, holding, submitted>>

-----------------------------------------------------------------------------

AddStep(t) == AddTask(t) \/ WaitToAdd(t)

WorkerStep(w) ==
    \/ CheckStarted(w)
    \/ Take(w)
    \/ WaitToTake(w)
    \/ TakeNothing(w)
    \/ TaskReturns(w)

Next ==
    \/ Start \/ SpawnThread \/ Started \/ Stop \/ Joined
    \/ \E p \in Producer, x \in Task : CallAddTask(p, x)
    \/ \E w \in Worker, x \in Task : NestedAddTask(w, x)
    \/ \E t \in Thread : AddStep(t) \/ SpuriousWakeup(t)
    \/ \E w \in Worker : WorkerStep(w)

Spec == Init /\ [][Next]_vars

\* Threads are scheduled and tasks return; nobody has to call anything.
FairSpec ==
    /\ Spec
    /\ WF_vars(SpawnThread) /\ WF_vars(Started) /\ WF_vars(Joined)
    /\ \A t \in Thread : WF_vars(AddStep(t))
    /\ \A w \in Worker : WF_vars(WorkerStep(w))

-----------------------------------------------------------------------------
(* Properties.                                                             *)

\* Each variable has its type, and the queue respects its limit.
TypeOK ==
    /\ owner \in {"new", "starting", "started", "joining", "stopped"}
    /\ starts \in 0 .. Starts
    /\ mb_started \in BOOLEAN
    /\ mc_threads \in Nat
    /\ m_started \subseteq Worker
    /\ spawning \in 0 .. Threads
    /\ mc_tasks \in Seq(Task) /\ Len(mc_tasks) <= MaxQueue
    /\ pc \in [Thread -> PC]
    /\ holding \in [Thread -> Task \union {NoTask}]
    /\ submitted \subseteq Task

\* While a worker sleeps, every queued task has a worker that is awake and on
\* its way to take it: one notify per task is enough although other workers
\* steal tasks and producers wait on the same mutex.
TakersCoverQueue ==
    At("wait_take") # {} =>
        Len(mc_tasks) <= Cardinality(At("check") \union At("take"))

\* While a thread sleeps in add_task, every free place in the queue has a
\* thread that is awake and about to use it.
AddersCoverSpace ==
    At("wait_add") # {} =>
        MaxQueue - Len(mc_tasks) <= Cardinality(At("add"))

\* Thread.cc:76 asserts that a thread is started once; start() may be called
\* again after stop(), its own assert asks only for !mb_started.
StartsFreshThread ==
    owner = "starting" /\ spawning < Threads => spawning + 1 \notin m_started

\* Every worker runs a task that waits in add_task for room in the full queue:
\* nobody is left to make room.
WorkersBlocked ==
    /\ owner = "started"
    /\ is_full
    /\ \A w \in m_started : pc[w] \in {"add", "wait_add"}

\* A queued task is taken, unless the pool is stopped first or its workers have
\* blocked each other.
TasksRun ==
    \A x \in Task :
        (\E n \in 1 .. Len(mc_tasks) : mc_tasks[n] = x) ~>
            \/ \A n \in 1 .. Len(mc_tasks) : mc_tasks[n] # x
            \/ ~mb_started
            \/ WorkersBlocked

\* A thread blocked in add_task by a full queue returns, be it a producer or a
\* worker that submits from a task, with the same exceptions.
AddTaskReturns ==
    \A t \in Thread :
        pc[t] = "wait_add" ~>
            pc[t] \notin {"add", "wait_add"} \/ ~mb_started \/ WorkersBlocked

\* stop() joins all workers, those asleep and those in a task included, except
\* that nothing wakes a worker whose task waits for room in a full queue.
StopReturns ==
    owner = "joining" ~>
        owner = "stopped" \/ At("wait_add") \intersect Worker # {}
=============================================================================
