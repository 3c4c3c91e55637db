----------------------------- MODULE EventLoop -----------------------------
(***************************************************************************)
(* net/EventLoop: one loop thread (Owner) that polls, runs the callbacks   *)
(* of the active channels and then the queued tasks, and other threads     *)
(* that queue tasks and ask it to quit.  The eventfd behind m_wakeup_fd is *)
(* abstracted to whether it is readable; a task is a label that is free    *)
(* again once the task was taken, so any number of calls is covered.       *)
(* add_task in the loop thread runs its argument in place and changes no   *)
(* state of the loop; from another thread it is add_in_queue (AddInQueue). *)
(***************************************************************************)
EXTENDS Sequences, SequencesExt

CONSTANTS
    Owner,      \* the thread that constructed the loop and runs loop()
    Others,     \* the other threads
    Task,       \* labels of the queued tasks
    EarlyTask   \* those that Owner queues while it is outside loop()

ASSUME ConstantsAssumption ==
    /\ Owner \notin Others
    /\ EarlyTask \subseteq Task

VARIABLES
    pc,             \* where the loop thread is
    mb_quited,
    m_handle_tasks, \* uninitialised until the first handle_tasks()
    mc_tasks,       \* guarded by m_mutex
    tmp_vector,     \* the local batch of handle_tasks(), less what was run
    readable,       \* the counter of m_wakeup_fd is not zero
    active,         \* mc_active_channels still to be handled
    pushing         \* threads between push_back and the wakeup decision

vars == <<pc, mb_quited, m_handle_tasks, mc_tasks, tmp_vector, readable,
          active, pushing>>

Thread == {Owner} \union Others

\* "io" stands for every channel but the wakeup channel.
Channel == {"wakeup", "io"}

PC == {"idle", "check", "poll", "events", "callback",
       "begin", "swap", "run", "task", "dead"}

Pending == Range(mc_tasks) \union Range(tmp_vector)

Looping == pc \notin {"idle", "dead"}       \* mb_looping

Init ==
    /\ pc = "idle"
    /\ mb_quited = FALSE
    /\ m_handle_tasks \in BOOLEAN
    /\ mc_tasks = << >>
    /\ tmp_vector = << >>
    /\ readable = FALSE
    /\ active = {}
    /\ pushing = {}

-----------------------------------------------------------------------------
(* The loop thread.                                                        *)

Goto(p) == pc' = p

StartLoop ==
    /\ pc = "idle"
    /\ Owner \notin pushing
    /\ Goto("check")
    /\ mb_quited' = FALSE
    /\ UNCHANGED <<m_handle_tasks, mc_tasks, tmp_vector, readable, active,
                   pushing>>

CheckQuit ==
    /\ pc = "check"
    /\ IF mb_quited THEN Goto("idle") ELSE Goto("poll")
    /\ UNCHANGED <<mb_quited, m_handle_tasks, mc_tasks, tmp_vector, readable,
                   active, pushing>>

\* Faulty variant: mb_quited is reset in every round, not once before.
PollResetsQuit(A) ==
    /\ pc = "poll"
    /\ "wakeup" \in A => readable
    /\ active' = A
    /\ Goto("events")
    /\ mb_quited' = FALSE
    /\ UNCHANGED <<m_handle_tasks, mc_tasks, tmp_vector, readable, pushing>>

\* epoll_wait returns a set of ready channels, none on a timeout or EINTR.
Poll(A) ==
    /\ pc = "poll"
    /\ "wakeup" \in A => readable
    /\ active' = A
    /\ Goto("events")
    /\ UNCHANGED <<mb_quited, m_handle_tasks, mc_tasks, tmp_vector, readable,
                   pushing>>

\* Reads the eventfd, which resets its counter.
WakeupChannelHandleRead ==
    /\ pc = "events"
    /\ "wakeup" \in active
    /\ active' = active \ {"wakeup"}
    /\ readable' = FALSE
    /\ UNCHANGED <<pc, mb_quited, m_handle_tasks, mc_tasks, tmp_vector,
                   pushing>>

HandleEvent ==
    /\ pc = "events"
    /\ "io" \in active
    /\ active' = active \ {"io"}
    /\ Goto("callback")
    /\ UNCHANGED <<mb_quited, m_handle_tasks, mc_tasks, tmp_vector, readable,
                   pushing>>

CallbackReturn ==
    /\ pc = "callback"
    /\ Owner \notin pushing
    /\ Goto("events")
    /\ UNCHANGED <<mb_quited, m_handle_tasks, mc_tasks, tmp_vector, readable,
                   active, pushing>>

EventsHandled ==
    /\ pc = "events"
    /\ active = {}
    /\ Goto("begin")
    /\ UNCHANGED <<mb_quited, m_handle_tasks, mc_tasks, tmp_vector, readable,
                   active, pushing>>

\* Faulty variant: the flag is never raised.
HandleTasksBeginNoFlag ==
    /\ pc = "begin"
    /\ Goto("swap")
    /\ UNCHANGED <<mb_quited, m_handle_tasks, mc_tasks, tmp_vector, readable,
                   active, pushing>>

HandleTasksBegin ==
    /\ pc = "begin"
    /\ Goto("swap")
    /\ m_handle_tasks' = TRUE
    /\ UNCHANGED <<mb_quited, mc_tasks, tmp_vector, readable, active, pushing>>

\* Faulty variant: copied and then cleared, without the mutex in between.
SwapUnlocked ==
    /\ pc = "swap"
    /\ \/ /\ tmp_vector = << >>
          /\ mc_tasks # << >>
          /\ tmp_vector' = mc_tasks
          /\ UNCHANGED <<pc, mc_tasks>>
       \/ /\ tmp_vector # << >> \/ mc_tasks = << >>
          /\ mc_tasks' = << >>
          /\ Goto("run")
          /\ UNCHANGED tmp_vector
    /\ UNCHANGED <<mb_quited, m_handle_tasks, readable, active, pushing>>

Swap ==
    /\ pc = "swap"
    /\ tmp_vector' = mc_tasks
    /\ mc_tasks' = << >>
    /\ Goto("run")
    /\ UNCHANGED <<mb_quited, m_handle_tasks, readable, active, pushing>>

RunTask ==
    /\ pc = "run"
    /\ tmp_vector # << >>
    /\ tmp_vector' = Tail(tmp_vector)
    /\ Goto("task")
    /\ UNCHANGED <<mb_quited, m_handle_tasks, mc_tasks, readable, active,
                   pushing>>

TaskDone ==
    /\ pc = "task"
    /\ Owner \notin pushing
    /\ Goto("run")
    /\ UNCHANGED <<mb_quited, m_handle_tasks, mc_tasks, tmp_vector, readable,
                   active, pushing>>

\* Faulty variant: swaps again until no task is left.
HandleTasksEndDrained ==
    /\ pc = "run"
    /\ tmp_vector = << >>
    /\ IF mc_tasks # << >>
       THEN Goto("swap") /\ UNCHANGED m_handle_tasks
       ELSE Goto("check") /\ m_handle_tasks' = FALSE
    /\ UNCHANGED <<mb_quited, mc_tasks, tmp_vector, readable, active, pushing>>

HandleTasksEnd ==
    /\ pc = "run"
    /\ tmp_vector = << >>
    /\ m_handle_tasks' = FALSE
    /\ Goto("check")
    /\ UNCHANGED <<mb_quited, mc_tasks, tmp_vector, readable, active, pushing>>

\* ~EventLoop, once no call of another thread is under way.
Destroy ==
    /\ pc = "idle"
    /\ pushing = {}
    /\ Goto("dead")
    /\ mc_tasks' = << >>
    /\ UNCHANGED <<mb_quited, m_handle_tasks, tmp_vector, readable, active,
                   pushing>>

-----------------------------------------------------------------------------
(* Calls: from a callback, a task or outside loop() by Owner, at any time  *)
(* by the others.                                                          *)

MayCall(t) ==
    /\ t \notin pushing
    /\ IF t = Owner THEN pc \in {"idle", "callback", "task"} ELSE pc # "dead"

MayQueue(t, x) ==
    /\ x \notin Pending
    /\ x \in EarlyTask <=> t = Owner /\ pc = "idle"

AddInQueue(t, x) ==
    /\ MayCall(t)
    /\ MayQueue(t, x)
    /\ mc_tasks' = Append(mc_tasks, x)
    /\ pushing' = pushing \union {t}
    /\ UNCHANGED <<pc, mb_quited, m_handle_tasks, tmp_vector, readable, active>>

\* Faulty variants: a task that queues a task, or another thread, forgotten.
NeedsWakeupOthersOnly(t) == t # Owner
NeedsWakeupHandlingOnly(t) == m_handle_tasks

NeedsWakeup(t) == t # Owner \/ m_handle_tasks

Wakeup(t) ==
    /\ t \in pushing
    /\ pushing' = pushing \ {t}
    /\ readable' = (readable \/ NeedsWakeup(t))
    /\ UNCHANGED <<pc, mb_quited, m_handle_tasks, mc_tasks, tmp_vector, active>>

\* Only the loop thread's own quit() writes the eventfd.
Quit(t) ==
    /\ MayCall(t)
    /\ mb_quited' = TRUE
    /\ readable' = (readable \/ t = Owner)
    /\ UNCHANGED <<pc, m_handle_tasks, mc_tasks, tmp_vector, active, pushing>>

-----------------------------------------------------------------------------

\* Every step of the loop thread that needs nobody else.
LoopStep ==
    \/ CheckQuit
    \/ WakeupChannelHandleRead
    \/ HandleEvent
    \/ CallbackReturn
    \/ EventsHandled
    \/ HandleTasksBegin
    \/ Swap
    \/ RunTask
    \/ TaskDone
    \/ HandleTasksEnd

Next ==
    \/ StartLoop
    \/ LoopStep
    \/ \E A \in SUBSET Channel : Poll(A)
    \/ Destroy
    \/ \E t \in Thread :
          \/ \E x \in Task : AddInQueue(t, x)
          \/ Wakeup(t)
          \/ Quit(t)

Spec == Init /\ [][Next]_vars

\* Callbacks and tasks return, a call that pushed reaches its wakeup, and
\* epoll_wait returns a readable eventfd.
Fairness ==
    /\ WF_vars(LoopStep)
    /\ WF_vars(\E A \in SUBSET Channel : "wakeup" \in A /\ Poll(A))
    /\ \A t \in Thread : WF_vars(Wakeup(t))

FairSpec == Spec /\ Fairness

\* epoll_wait gives up after its 100 s.
TimeoutsHappen == WF_vars(Poll({}))

-----------------------------------------------------------------------------
(* Properties.                                                             *)

\* Each variable has its type, and the flags and local variables agree with
\* the place where the loop thread is: the batch exists only while tasks
\* run, and m_handle_tasks is up exactly then, whatever it started as.
TypeOK ==
    /\ pc \in PC
    /\ mb_quited \in BOOLEAN
    /\ m_handle_tasks \in BOOLEAN
    /\ mc_tasks \in Seq(Task)
    /\ tmp_vector \in Seq(Task)
    /\ readable \in BOOLEAN
    /\ active \subseteq Channel
    /\ pushing \subseteq Thread
    /\ tmp_vector # << >> => pc \in {"run", "task"}
    /\ pc \in {"swap", "run", "task"} => m_handle_tasks
    /\ Owner \in pushing => pc \in {"idle", "callback", "task"}

\* The loop thread reaches Swap before it can block in epoll_wait again.
SwapIsAhead == pc \in {"events", "callback", "begin", "swap"}

\* A call that will write the eventfd is under way.
WakeupIsAhead == \E t \in pushing : NeedsWakeup(t)

\* A task that waits in mc_tasks is never stranded: the loop is on its way
\* to swap it out, the eventfd is readable, or the thread that pushed it is
\* about to make it readable.  add_in_queue decides whether to write the
\* eventfd after it released m_mutex; this is what makes that decision right.
NoLostWakeup ==
    Range(mc_tasks) \ EarlyTask # {} =>
        SwapIsAhead \/ readable \/ WakeupIsAhead

\* EventLoop.h:10-13 says of every task added that the eventfd wakes the
\* poller for it.  A loop blocked in epoll_wait would have no task waiting.
EventfdWakesForEveryTask ==
    pc = "poll" /\ mc_tasks # << >> => readable \/ pushing # {}

\* The queue and the batch together behave as the one queue of TaskQueue:
\* tasks run in the order of the push_backs, across batches.
Queue == INSTANCE TaskQueue WITH queue <- tmp_vector \o mc_tasks,
                                 open <- pc # "dead"
ImplementsTaskQueue == Queue!Spec

\* A queued task is taken without the help of a timeout or of another
\* event, unless the loop stops first.
TasksServedPromptly ==
    \A x \in Task \ EarlyTask :
        (x \in Pending /\ Looping) ~> (x \notin Pending \/ ~Looping)

\* Tasks that keep queueing tasks do not keep the loop from polling: a batch
\* ends and what was queued meanwhile waits for the next round.
TasksDoNotStarveIo == pc = "run" ~> pc \in {"poll", "idle"}
=============================================================================
