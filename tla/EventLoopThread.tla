-------------------------- MODULE EventLoopThread --------------------------
(***************************************************************************)
(* net/EventLoopThread over base/Thread, base/CountDown, base/Mutex and    *)
(* base/Condition: Creator makes the object, start()s the loop thread      *)
(* Owner of EventLoop, waits for the latch of Thread::start and then for   *)
(* mp_loop, uses the loop together with other threads, and destroys the    *)
(* object.  Every step of the loop is one of EventLoop.                    *)
(*                                                                         *)
(* Two mutexes, each with its condition: "sem" is the CountDown of Thread, *)
(* "loop" the one that guards mp_loop.  A thread in the stage of that name *)
(* is on its way through the section under that mutex, as step tells.      *)
(* Holding or recording a thread is a set of at most one thread.           *)
(***************************************************************************)
EXTENDS EventLoop, Integers

CONSTANT Creator    \* the thread that starts and destroys the object

ASSUME CreatorAssumption == Creator \in Others

VARIABLES
    stage,      \* of Creator and of Owner, see below
    step,       \* of each inside a section under a mutex
    lock,       \* who holds the pthread mutex
    m_holder,   \* who Mutex::m_holder says holds it
    m_counts,   \* of the CountDown
    m_tid,      \* Thread::m_tid has been set
    mp_loop,    \* is not null
    users_quit  \* history: quit() was called by other than the destructor

threadVars == <<stage, step, lock, m_holder, m_counts, m_tid, mp_loop,
                users_quit>>

Mutex == {"sem", "loop"}

CreatorStages == {"new", "sem", "loop", "using", "quit", "join", "gone"}

OwnerStages == {"unborn", "born", "sem", "init", "loop", "ready", "looping",
                "left", "gone"}

Steps == {"lock", "held", "asleep", "leave"}

ThreadInit ==
    /\ Init
    /\ stage = [t \in {Creator, Owner} |->
                    IF t = Creator THEN "new" ELSE "unborn"]
    /\ step = [t \in {Creator, Owner} |-> "lock"]
    /\ lock = [m \in Mutex |-> {}]
    /\ m_holder = [m \in Mutex |-> {}]
    /\ m_counts = 1
    /\ m_tid = FALSE
    /\ mp_loop = FALSE
    /\ users_quit = FALSE

Enters(t, s) == stage' = [stage EXCEPT ![t] = s]

Does(t, s) == step' = [step EXCEPT ![t] = s]

-----------------------------------------------------------------------------
(* Mutex and Condition.                                                    *)

Lock(t, m) ==
    /\ stage[t] = m
    /\ step[t] = "lock"
    /\ lock[m] = {}
    /\ lock' = [lock EXCEPT ![m] = {t}]
    /\ m_holder' = [m_holder EXCEPT ![m] = {t}]
    /\ Does(t, "held")
    /\ UNCHANGED <<vars, stage, m_counts, m_tid, mp_loop, users_quit>>

Release(m) ==
    /\ lock' = [lock EXCEPT ![m] = {}]
    /\ m_holder' = [m_holder EXCEPT ![m] = {}]

\* Faulty variant: no CondHolder around pthread_cond_wait.
ReleaseToWaitUnrecorded(m) ==
    /\ lock' = [lock EXCEPT ![m] = {}]
    /\ UNCHANGED m_holder

\* CondHolder clears m_holder before pthread_cond_wait gives up the mutex.
ReleaseToWait(m) == Release(m)

\* The waiter takes the mutex again, and CondHolder records it, in Lock.
NotifyWaiter(m) ==
    IF stage[Creator] = m /\ step[Creator] = "asleep"
    THEN [step EXCEPT ![Creator] = "lock", ![Owner] = "leave"]
    ELSE [step EXCEPT ![Owner] = "leave"]

SpuriousWakeup ==
    /\ step[Creator] = "asleep"
    /\ Does(Creator, "lock")
    /\ UNCHANGED <<vars, stage, lock, m_holder, m_counts, m_tid, mp_loop,
                   users_quit>>

-----------------------------------------------------------------------------
(* Creator.                                                                *)

\* EventLoopThread::start up to pthread_create; one that fails is logged and
\* leaves start() waiting for mp_loop, which is left out.
Start ==
    /\ stage[Creator] = "new"
    /\ stage' = [stage EXCEPT ![Creator] = "sem", ![Owner] = "born"]
    /\ UNCHANGED <<vars, step, lock, m_holder, m_counts, m_tid, mp_loop,
                   users_quit>>

\* Faulty variant: start() does not wait for mp_loop.
OpenWithoutLoop(m) == m = "sem" => m_counts <= 0

\* The conditions of the two while loops around Condition::wait.
Open(m) == IF m = "sem" THEN m_counts <= 0 ELSE mp_loop

Sleep(m) ==
    /\ stage[Creator] = m
    /\ step[Creator] = "held"
    /\ ~Open(m)
    /\ ReleaseToWait(m)
    /\ Does(Creator, "asleep")
    /\ UNCHANGED <<vars, stage, m_counts, m_tid, mp_loop, users_quit>>

Pass(m) ==
    /\ stage[Creator] = m
    /\ step[Creator] = "held"
    /\ Open(m)
    /\ Release(m)
    /\ Does(Creator, "lock")
    /\ Enters(Creator, IF m = "sem" THEN "loop" ELSE "using")
    /\ UNCHANGED <<vars, m_counts, m_tid, mp_loop, users_quit>>

\* ~EventLoopThread reads mp_loop without the mutex.  If it is null the thread
\* is not joined but detached, or was never started.
Destructor ==
    /\ stage[Creator] \in {"new", "using"}
    /\ Creator \notin pushing
    /\ Enters(Creator, IF mp_loop THEN "quit" ELSE "gone")
    /\ UNCHANGED <<vars, step, lock, m_holder, m_counts, m_tid, mp_loop,
                   users_quit>>

\* mp_loop->quit() is undefined on a null or dead loop, see HandsOverLiveLoop.
QuitLoop ==
    /\ stage[Creator] = "quit"
    /\ mp_loop
    /\ Quit(Creator)
    /\ Enters(Creator, "join")
    /\ UNCHANGED <<step, lock, m_holder, m_counts, m_tid, mp_loop, users_quit>>

Join ==
    /\ stage[Creator] = "join"
    /\ stage[Owner] = "gone"
    /\ Enters(Creator, "gone")
    /\ UNCHANGED <<vars, step, lock, m_holder, m_counts, m_tid, mp_loop,
                   users_quit>>

-----------------------------------------------------------------------------
(* Owner: ThreadData::run_in_thread and EventLoopThread::send_into_thread. *)

SetTid ==
    /\ stage[Owner] = "born"
    /\ m_tid' = TRUE
    /\ Enters(Owner, "sem")
    /\ UNCHANGED <<vars, step, lock, m_holder, m_counts, mp_loop, users_quit>>

CountDown ==
    /\ stage[Owner] = "sem"
    /\ step[Owner] = "held"
    /\ m_counts' = m_counts - 1
    /\ step' = IF m_counts = 1 THEN NotifyWaiter("sem")
               ELSE [step EXCEPT ![Owner] = "leave"]
    /\ UNCHANGED <<vars, stage, lock, m_holder, m_tid, mp_loop, users_quit>>

\* Faulty variant: mp_loop is set and nobody told.
PublishSilently ==
    /\ stage[Owner] = "loop"
    /\ step[Owner] = "held"
    /\ mp_loop' = TRUE
    /\ Does(Owner, "leave")
    /\ UNCHANGED <<vars, stage, lock, m_holder, m_counts, m_tid, users_quit>>

Publish ==
    /\ stage[Owner] = "loop"
    /\ step[Owner] = "held"
    /\ mp_loop' = TRUE
    /\ step' = NotifyWaiter("loop")
    /\ UNCHANGED <<vars, stage, lock, m_holder, m_counts, m_tid, users_quit>>

\* Out of count_down into the function, which constructs the loop, or out of
\* the section of send_into_thread to the call of loop().
Unlock(m) ==
    /\ stage[Owner] = m
    /\ step[Owner] = "leave"
    /\ Release(m)
    /\ Does(Owner, "lock")
    /\ Enters(Owner, IF m = "sem" THEN "init" ELSE "ready")
    /\ UNCHANGED <<vars, m_counts, m_tid, mp_loop, users_quit>>

InitCallbackReturns ==
    /\ stage[Owner] = "init"
    /\ Owner \notin pushing
    /\ Enters(Owner, "loop")
    /\ UNCHANGED <<vars, step, lock, m_holder, m_counts, m_tid, mp_loop,
                   users_quit>>

CallLoop ==
    /\ stage[Owner] = "ready"
    /\ StartLoop
    /\ Enters(Owner, "looping")
    /\ UNCHANGED <<step, lock, m_holder, m_counts, m_tid, mp_loop, users_quit>>

LoopReturns ==
    /\ stage[Owner] = "looping"
    /\ pc = "idle"
    /\ mp_loop' = FALSE
    /\ Enters(Owner, "left")
    /\ UNCHANGED <<vars, step, lock, m_holder, m_counts, m_tid, users_quit>>

\* ~EventLoop at the end of send_into_thread, and the end of the thread.
ThreadEnds ==
    /\ stage[Owner] = "left"
    /\ Destroy
    /\ Enters(Owner, "gone")
    /\ UNCHANGED <<step, lock, m_holder, m_counts, m_tid, mp_loop, users_quit>>

-----------------------------------------------------------------------------
(* Use of the loop.                                                        *)

\* Owner has the loop from init_cb on, the others once start() returned it;
\* Creator does not use it any more once it destroys the object.
HasLoop(t) ==
    CASE t = Owner   -> stage[Owner] \in {"init", "looping"}
      [] t = Creator -> stage[Creator] = "using"
      [] OTHER       -> stage[Creator] \notin {"new", "sem", "loop"}

UserQueues(t, x) ==
    /\ HasLoop(t)
    /\ AddInQueue(t, x)
    /\ UNCHANGED threadVars

UserWakes(t) == Wakeup(t) /\ UNCHANGED threadVars

UserQuits(t) ==
    /\ HasLoop(t)
    /\ Quit(t)
    /\ users_quit' = TRUE
    /\ UNCHANGED <<stage, step, lock, m_holder, m_counts, m_tid, mp_loop>>

LoopRuns ==
    /\ LoopStep \/ \E A \in SUBSET Channel : Poll(A)
    /\ UNCHANGED threadVars

-----------------------------------------------------------------------------

CreatorWaits ==
    \E m \in Mutex : Lock(Creator, m) \/ Sleep(m) \/ Pass(m)

OwnerRuns ==
    \/ SetTid
    \/ \E m \in Mutex : Lock(Owner, m) \/ Unlock(m)
    \/ CountDown
    \/ Publish
    \/ InitCallbackReturns
    \/ CallLoop
    \/ LoopReturns
    \/ ThreadEnds

ThreadNext ==
    \/ Start
    \/ CreatorWaits
    \/ SpuriousWakeup
    \/ Destructor
    \/ QuitLoop
    \/ Join
    \/ OwnerRuns
    \/ LoopRuns
    \/ \E t \in Thread :
          \/ \E x \in Task : UserQueues(t, x)
          \/ UserWakes(t)
          \/ UserQuits(t)

allVars == <<vars, threadVars>>

ThreadSpec == ThreadInit /\ [][ThreadNext]_allVars

\* Both threads are scheduled and get a mutex that is free again and again;
\* nothing obliges Creator to start or to destroy the object.
ThreadFairness ==
    /\ Fairness
    /\ WF_allVars(OwnerRuns)
    /\ \A m \in Mutex, t \in {Creator, Owner} : SF_allVars(Lock(t, m))
    /\ WF_allVars(CreatorWaits)
    /\ WF_allVars(QuitLoop)
    /\ WF_allVars(Join)

FairThreadSpec == ThreadSpec /\ ThreadFairness

-----------------------------------------------------------------------------
(* Properties.                                                             *)

\* Each variable has its type, those of EventLoop included; the latch is
\* closed until the thread has counted down; the loop is dead or at rest unless
\* its thread is inside loop().
ThreadTypeOK ==
    /\ TypeOK
    /\ stage \in [{Creator, Owner} -> CreatorStages \union OwnerStages]
    /\ stage[Creator] \in CreatorStages
    /\ stage[Owner] \in OwnerStages
    /\ step \in [{Creator, Owner} -> Steps]
    /\ lock \in [Mutex -> SUBSET {Creator, Owner}]
    /\ m_holder \in [Mutex -> SUBSET {Creator, Owner}]
    /\ m_counts = IF \/ stage[Owner] \in {"unborn", "born"}
                     \/ stage[Owner] = "sem" /\ step[Owner] # "leave"
                  THEN 1 ELSE 0
    /\ m_tid \in BOOLEAN
    /\ mp_loop \in BOOLEAN
    /\ users_quit \in BOOLEAN
    /\ pc = "dead" <=> stage[Owner] = "gone"
    /\ stage[Owner] # "looping" => ~Looping
    /\ stage[Creator] = "new" => stage[Owner] = "unborn"
    /\ \A t \in {Creator, Owner} : stage[t] \notin Mutex => step[t] = "lock"

\* Mutex.h:10-14: m_holder names the thread that has the lock, or nobody,
\* also while a thread waits on a condition of the mutex.  ~Mutex asserts on
\* it, and the mutex of a latch is destroyed soon after a wait.
HolderIsOwner ==
    \A m \in Mutex :
        /\ m_holder[m] \subseteq lock[m]
        /\ \A t \in {Creator, Owner} :
              step[t] \in {"held", "leave"} /\ stage[t] = m => lock[m] = {t}
        /\ stage[Creator] = "gone" => m_holder[m] = {}

\* What start() passes on is there: the tid that Thread::start asserts after
\* the latch, and the loop, from the return of start() until the destructor
\* has called its quit(), although mp_loop is read outside the mutex; unless
\* somebody else made the loop quit.
HandsOverLiveLoop ==
    /\ stage[Creator] \notin {"new", "sem", "gone"} => m_tid
    /\ stage[Creator] \in {"using", "quit"} /\ ~users_quit =>
           /\ mp_loop
           /\ pc # "dead"
           /\ stage[Owner] \in {"loop", "ready", "looping"}

\* start() returns: neither the latch nor the wait for mp_loop misses its
\* notify; unless the loop is made to quit before Creator looks at mp_loop.
StartReturns ==
    (stage[Creator] = "sem") ~> (stage[Creator] = "using" \/ users_quit)

\* The destructor's join returns, provided its quit() came after loop() had
\* reset mb_quited.
JoinReturns ==
    TimeoutsHappen =>
        (stage[Creator] = "join" /\ stage[Owner] # "ready"
            /\ (Looping => mb_quited))
        ~> stage[Creator] = "gone"

\* Without that condition it may wait for ever.
JoinAlwaysReturns ==
    TimeoutsHappen => (stage[Creator] = "join" ~> stage[Creator] = "gone")
=============================================================================
