----------------------- MODULE EventLoopThread_proofs -----------------------
(***************************************************************************)
(* Proofs about EventLoop and EventLoopThread, for any threads and tasks.  *)
(* Of the loop: its types, the absence of lost wakeups, and that it        *)
(* implements TaskQueue.  Of its thread: that its loop is an EventLoop, so *)
(* that what is proved of EventLoop holds in it; that its mutexes know     *)
(* their holder; and that start() hands over a live loop.                  *)
(***************************************************************************)
EXTENDS EventLoopThread, SequenceTheorems, TLAPS

-----------------------------------------------------------------------------
(* The loop.                                                               *)

\* A range only loses elements when the head is dropped, and gains x when x
\* is appended.
LEMMA RangeAppend ==
    ASSUME NEW S, NEW s \in Seq(S), NEW x \in S
    PROVE  /\ Range(Append(s, x)) = Range(s) \union {x}
           /\ Range(<< >>) = {}
<1>1. Append(s, x) \in Seq(S) /\ Len(Append(s, x)) = Len(s) + 1
  OBVIOUS
<1>2. DOMAIN Append(s, x) = 1..(Len(s) + 1) /\ DOMAIN s = 1..Len(s)
  BY <1>1
<1>3. \A i \in 1..Len(s) : Append(s, x)[i] = s[i]
  OBVIOUS
<1>4. Append(s, x)[Len(s) + 1] = x
  OBVIOUS
<1>5. Len(s) \in Nat
  OBVIOUS
<1>6. 1..(Len(s) + 1) = (1..Len(s)) \union {Len(s) + 1}
  BY <1>5
<1>7. Range(Append(s, x)) = Range(s) \union {x}
  BY <1>2, <1>3, <1>4, <1>6 DEF Range
<1>8. Range(<< >>) = {}
  BY DEF Range
<1> QED
  BY <1>7, <1>8

LEMMA TypeInit == Init => TypeOK
<1> SUFFICES ASSUME Init PROVE TypeOK
  OBVIOUS
<1>1. << >> \in Seq(Task)
  OBVIOUS
<1> QED
  BY <1>1 DEF Init, TypeOK, PC

\* Type correctness is inductive on its own.
LEMMA TypeNext == TypeOK /\ [Next]_vars => TypeOK'
<1> SUFFICES ASSUME TypeOK, [Next]_vars PROVE TypeOK'
  OBVIOUS
<1> USE DEF TypeOK, PC, Channel, Thread, Goto
<1>1. CASE StartLoop
  BY <1>1 DEF StartLoop
<1>2. CASE LoopStep
  <2>1. CASE CheckQuit
    BY <2>1 DEF CheckQuit
  <2>2. CASE WakeupChannelHandleRead
    BY <2>2 DEF WakeupChannelHandleRead
  <2>3. CASE HandleEvent
    BY <2>3 DEF HandleEvent
  <2>4. CASE CallbackReturn
    BY <2>4 DEF CallbackReturn
  <2>5. CASE EventsHandled
    BY <2>5 DEF EventsHandled
  <2>6. CASE HandleTasksBegin
    BY <2>6 DEF HandleTasksBegin
  <2>7. CASE Swap
    BY <2>7 DEF Swap
  <2>8. CASE RunTask
    BY <2>8 DEF RunTask
  <2>9. CASE TaskDone
    BY <2>9 DEF TaskDone
  <2>10. CASE HandleTasksEnd
    BY <2>10 DEF HandleTasksEnd
  <2> QED
    BY <1>2, <2>1, <2>2, <2>3, <2>4, <2>5, <2>6, <2>7, <2>8, <2>9, <2>10
       DEF LoopStep
<1>3. CASE \E A \in SUBSET Channel : Poll(A)
  BY <1>3 DEF Poll
<1>4. CASE Destroy
  BY <1>4 DEF Destroy
<1>5. CASE \E t \in Thread : \E x \in Task : AddInQueue(t, x)
  BY <1>5 DEF AddInQueue, MayCall
<1>6. CASE \E t \in Thread : Wakeup(t)
  BY <1>6 DEF Wakeup
<1>7. CASE \E t \in Thread : Quit(t)
  BY <1>7 DEF Quit, MayCall
<1>8. CASE UNCHANGED vars
  BY <1>8 DEF vars
<1> QED
  BY <1>1, <1>2, <1>3, <1>4, <1>5, <1>6, <1>7, <1>8 DEF Next

\* Every variable keeps its type, and the batch and the flag agree with the
\* place of the loop thread, for any threads and tasks (handle_tasks).
THEOREM TypeCorrect == Spec => []TypeOK
BY TypeInit, TypeNext, PTL DEF Spec
-----------------------------------------------------------------------------
(* No lost wakeup.  With TypeOK the invariant is inductive: the eventfd is *)
(* only reset, and m_handle_tasks only lowered, where Swap is ahead or the *)
(* loop thread is in no call.                                              *)

LEMMA WakeupNext ==
    ASSUME TypeOK, TypeOK', NoLostWakeup, [Next]_vars
    PROVE  NoLostWakeup'
<1> USE DEF SwapIsAhead, WakeupIsAhead, NeedsWakeup, Goto
<1>1. CASE StartLoop
  BY <1>1 DEF StartLoop, NoLostWakeup
<1>2. CASE LoopStep
  <2>1. CASE CheckQuit
    BY <2>1 DEF CheckQuit, NoLostWakeup
  <2>2. CASE WakeupChannelHandleRead
    BY <2>2 DEF WakeupChannelHandleRead, NoLostWakeup
  <2>3. CASE HandleEvent
    BY <2>3 DEF HandleEvent, NoLostWakeup
  <2>4. CASE CallbackReturn
    BY <2>4 DEF CallbackReturn, NoLostWakeup
  <2>5. CASE EventsHandled
    BY <2>5 DEF EventsHandled, NoLostWakeup
  <2>6. CASE HandleTasksBegin
    BY <2>6 DEF HandleTasksBegin, NoLostWakeup
  <2>7. CASE Swap
    <3>1. Range(mc_tasks') = {}
      BY <2>7 DEF Swap, Range
    <3> QED
      BY <3>1 DEF NoLostWakeup
  <2>8. CASE RunTask
    BY <2>8 DEF RunTask, NoLostWakeup
  <2>9. CASE TaskDone
    BY <2>9 DEF TaskDone, NoLostWakeup
  <2>10. CASE HandleTasksEnd
    <3>1. Owner \notin pushing
      BY <2>10 DEF HandleTasksEnd, TypeOK
    <3> QED
      BY <2>10, <3>1 DEF HandleTasksEnd, NoLostWakeup
  <2> QED
    BY <1>2, <2>1, <2>2, <2>3, <2>4, <2>5, <2>6, <2>7, <2>8, <2>9, <2>10
       DEF LoopStep
<1>3. CASE \E A \in SUBSET Channel : Poll(A)
  BY <1>3 DEF Poll, NoLostWakeup
<1>4. CASE Destroy
  <2>1. Range(mc_tasks') = {}
    BY <1>4 DEF Destroy, Range
  <2> QED
    BY <2>1 DEF NoLostWakeup
<1>5. CASE \E t \in Thread : \E x \in Task : AddInQueue(t, x)
  <2>1. PICK t \in Thread, x \in Task : AddInQueue(t, x)
    BY <1>5
  <2>2. Range(mc_tasks') = Range(mc_tasks) \union {x}
    BY <2>1, RangeAppend DEF AddInQueue, TypeOK
  <2>3. CASE t # Owner
    BY <2>1, <2>3 DEF AddInQueue, NoLostWakeup
  <2>4. CASE t = Owner /\ pc = "callback"
    BY <2>1, <2>4 DEF AddInQueue, NoLostWakeup
  <2>5. CASE t = Owner /\ pc = "task"
    BY <2>1, <2>5 DEF AddInQueue, TypeOK, NoLostWakeup
  <2>6. CASE t = Owner /\ pc = "idle"
    <3>1. x \in EarlyTask
      BY <2>1, <2>6 DEF AddInQueue, MayQueue
    <3> QED
      BY <2>1, <2>2, <3>1 DEF AddInQueue, NoLostWakeup
  <2> QED
    BY <2>1, <2>3, <2>4, <2>5, <2>6 DEF AddInQueue, MayCall
<1>6. CASE \E t \in Thread : Wakeup(t)
  <2>1. PICK t \in Thread : Wakeup(t)
    BY <1>6
  <2>2. CASE NeedsWakeup(t)
    BY <2>1, <2>2 DEF Wakeup, NoLostWakeup
  <2>3. CASE ~NeedsWakeup(t)
    BY <2>1, <2>3 DEF Wakeup, NoLostWakeup
  <2> QED
    BY <2>2, <2>3
<1>7. CASE \E t \in Thread : Quit(t)
  <2>1. /\ UNCHANGED <<pc, m_handle_tasks, mc_tasks, pushing>>
        /\ readable => readable'
    BY <1>7 DEF Quit
  <2> QED
    BY <2>1 DEF NoLostWakeup
<1>8. CASE UNCHANGED vars
  BY <1>8 DEF vars, NoLostWakeup
<1> QED
  BY <1>1, <1>2, <1>3, <1>4, <1>5, <1>6, <1>7, <1>8 DEF Next

\* For any threads and tasks, a task queued by another thread, from a
\* callback or from a task never waits behind a loop that may block with
\* nobody about to wake it (add_in_queue, handle_tasks).
THEOREM WakeupNotLost == Spec => []NoLostWakeup
<1>1. Init => NoLostWakeup
  BY DEF Init, NoLostWakeup, Range
<1>2. TypeOK /\ TypeOK' /\ NoLostWakeup /\ [Next]_vars => NoLostWakeup'
  BY WakeupNext
<1> QED
  BY <1>1, <1>2, TypeCorrect, PTL DEF Spec

-----------------------------------------------------------------------------
(* Refinement: Swap leaves the concatenation alone, every other step acts  *)
(* on one end of it.                                                       *)

LEMMA QueueInit == Init => Queue!Init
BY DEF Init, Queue!Init

LEMMA QueueNext ==
    ASSUME TypeOK, [Next]_vars
    PROVE  [Queue!Next]_(Queue!vars)
<1> USE DEF Goto
<1> DEFINE queue == tmp_vector \o mc_tasks
<1>t. tmp_vector \in Seq(Task) /\ mc_tasks \in Seq(Task)
  BY DEF TypeOK
<1>s. ASSUME UNCHANGED <<mc_tasks, tmp_vector>>, pc # "dead", pc' # "dead"
      PROVE  UNCHANGED Queue!vars
  BY <1>s DEF Queue!vars
<1>1. CASE StartLoop
  BY <1>1, <1>s DEF StartLoop
<1>2. CASE LoopStep
  <2>1. CASE Swap
    <3>1. tmp_vector = << >>
      BY <2>1 DEF Swap, TypeOK
    <3>2. queue' = mc_tasks \o << >> /\ queue = << >> \o mc_tasks
      BY <2>1, <3>1 DEF Swap
    <3>3. mc_tasks \o << >> = mc_tasks /\ << >> \o mc_tasks = mc_tasks
      BY <1>t, ConcatEmptySeq
    <3> QED
      BY <2>1, <3>2, <3>3 DEF Swap, Queue!vars
  <2>2. CASE RunTask
    <3>1. tmp_vector # << >> /\ tmp_vector' = Tail(tmp_vector)
          /\ mc_tasks' = mc_tasks /\ pc = "run" /\ pc' = "task"
      BY <2>2 DEF RunTask
    <3>2. queue # << >> /\ Tail(queue) = Tail(tmp_vector) \o mc_tasks
      BY <1>t, <3>1
    <3> QED
      BY <3>1, <3>2 DEF Queue!Next, Queue!Execute
  <2>3. CASE LoopStep /\ ~Swap /\ ~RunTask
    <3>1. UNCHANGED <<mc_tasks, tmp_vector>> /\ pc # "dead" /\ pc' # "dead"
      BY <2>3 DEF LoopStep, CheckQuit, WakeupChannelHandleRead, HandleEvent,
         CallbackReturn, EventsHandled, HandleTasksBegin, TaskDone,
         HandleTasksEnd
    <3> QED
      BY <3>1, <1>s
  <2> QED
    BY <1>2, <2>1, <2>2, <2>3
<1>3. CASE \E A \in SUBSET Channel : Poll(A)
  BY <1>3, <1>s DEF Poll
<1>4. CASE Destroy
  <2>1. tmp_vector = << >> /\ tmp_vector' = << >> /\ mc_tasks' = << >>
        /\ pc = "idle" /\ pc' = "dead"
    BY <1>4 DEF Destroy, TypeOK
  <2>2. queue' = << >>
    BY <2>1
  <2> QED
    BY <2>1, <2>2 DEF Queue!Next, Queue!Close
<1>5. CASE \E t \in Thread : \E x \in Task : AddInQueue(t, x)
  <2>1. PICK t \in Thread, x \in Task : AddInQueue(t, x)
    BY <1>5
  <2>2. mc_tasks' = Append(mc_tasks, x) /\ tmp_vector' = tmp_vector
        /\ pc # "dead" /\ pc' = pc
    BY <2>1 DEF AddInQueue, MayCall
  <2>3. tmp_vector \o Append(mc_tasks, x) = Append(queue, x)
    BY <1>t
  <2> QED
    BY <2>2, <2>3 DEF Queue!Next, Queue!Submit
<1>6. CASE \E t \in Thread : Wakeup(t)
  <2>1. UNCHANGED <<pc, mc_tasks, tmp_vector>>
    BY <1>6 DEF Wakeup
  <2> QED
    BY <2>1 DEF Queue!vars
<1>7. CASE \E t \in Thread : Quit(t)
  <2>1. UNCHANGED <<pc, mc_tasks, tmp_vector>>
    BY <1>7 DEF Quit
  <2> QED
    BY <2>1 DEF Queue!vars
<1>8. CASE UNCHANGED vars
  BY <1>8 DEF vars, Queue!vars
<1> QED
  BY <1>1, <1>2, <1>3, <1>4, <1>5, <1>6, <1>7, <1>8 DEF Next

\* EventLoop implements one first-in first-out queue of tasks, for any
\* threads and tasks: swapping the vector out and running it unlocked loses,
\* repeats and reorders nothing.
THEOREM LoopImplementsTaskQueue == Spec => ImplementsTaskQueue
<1>1. TypeOK /\ [Next]_vars => [Queue!Next]_(Queue!vars)
  BY QueueNext
<1> QED
  BY QueueInit, <1>1, TypeCorrect, PTL DEF Spec, ImplementsTaskQueue, Queue!Spec

-----------------------------------------------------------------------------
(* The thread of the loop.                                                 *)

LEMMA TwoThreads == Creator # Owner
BY CreatorAssumption, ConstantsAssumption

LEMMA StepIsLoopStep == [ThreadNext]_allVars => [Next]_vars
<1> SUFFICES ASSUME [ThreadNext]_allVars PROVE [Next]_vars
  OBVIOUS
<1>1. CASE UNCHANGED allVars
  BY <1>1 DEF allVars
<1>2. CASE Start \/ CreatorWaits \/ SpuriousWakeup \/ Destructor \/ Join
  BY <1>2 DEF Start, CreatorWaits, Lock, Sleep, Pass, SpuriousWakeup,
              Destructor, Join
<1>3. CASE QuitLoop
  <2>1. Quit(Creator) /\ Creator \in Thread
    BY <1>3, CreatorAssumption DEF QuitLoop, Thread
  <2> QED
    BY <2>1 DEF Next
<1>4. CASE OwnerRuns
  <2>1. UNCHANGED vars \/ StartLoop \/ Destroy
    BY <1>4 DEF OwnerRuns, SetTid, Lock, Unlock, CountDown, Publish,
                InitCallbackReturns, CallLoop, LoopReturns, ThreadEnds
  <2> QED
    BY <2>1 DEF Next
<1>5. CASE LoopRuns
  BY <1>5 DEF LoopRuns, Next
<1>6. CASE \E t \in Thread :
              (\E x \in Task : UserQueues(t, x)) \/ UserWakes(t) \/ UserQuits(t)
  BY <1>6 DEF UserQueues, UserWakes, UserQuits, Next
<1> QED
  BY <1>1, <1>2, <1>3, <1>4, <1>5, <1>6 DEF ThreadNext

\* Every behaviour of the loop thread is one of EventLoop; so whatever is
\* proved of EventLoop!Spec holds here too.
THEOREM LoopIsEventLoop == ThreadSpec => Spec
<1>1. ThreadInit => Init
  BY DEF ThreadInit
<1> QED
  BY <1>1, StepIsLoopStep, PTL DEF ThreadSpec, Spec

-----------------------------------------------------------------------------
(* Types.                                                                  *)

LEMMA ThreadTypeInit == ThreadInit => ThreadTypeOK
<1> SUFFICES ASSUME ThreadInit PROVE ThreadTypeOK
  OBVIOUS
<1>1. TypeOK
  BY TypeInit DEF ThreadInit
<1> QED
  BY <1>1, TwoThreads DEF ThreadInit, Init, ThreadTypeOK, CreatorStages,
                      OwnerStages, Steps, Mutex, Looping

LEMMA ThreadTypeNext == ThreadTypeOK /\ [ThreadNext]_allVars => ThreadTypeOK'
<1> SUFFICES ASSUME ThreadTypeOK, [ThreadNext]_allVars
             PROVE  ThreadTypeOK'
  OBVIOUS
<1> USE TwoThreads DEF Mutex
<1>t. TypeOK'
  BY StepIsLoopStep, TypeNext DEF ThreadTypeOK
<1>1. CASE UNCHANGED allVars
  BY <1>t, <1>1 DEF allVars, vars, threadVars, ThreadTypeOK, Looping
<1>2. CASE Start
  BY <1>t, <1>2 DEF Start, vars, ThreadTypeOK, Looping, CreatorStages,
                    OwnerStages
<1>3. ASSUME NEW m \in Mutex, NEW t \in {Creator, Owner}, Lock(t, m)
      PROVE  ThreadTypeOK'
  BY <1>t, <1>3 DEF Lock, Does, vars, ThreadTypeOK, Looping, Steps
<1>4. ASSUME NEW m \in Mutex, Sleep(m)
      PROVE  ThreadTypeOK'
  BY <1>t, <1>4 DEF Sleep, ReleaseToWait, Release, Does, vars, ThreadTypeOK,
                    Looping, Steps
<1>5. ASSUME NEW m \in Mutex, Pass(m)
      PROVE  ThreadTypeOK'
  BY <1>t, <1>5 DEF Pass, Release, Does, Enters, vars, ThreadTypeOK, Looping,
                    Steps, CreatorStages, OwnerStages
<1>6. CASE SpuriousWakeup
  BY <1>t, <1>6 DEF SpuriousWakeup, Does, vars, ThreadTypeOK, Looping, Steps
<1>7. CASE Destructor
  BY <1>t, <1>7 DEF Destructor, Enters, vars, ThreadTypeOK, Looping,
                    CreatorStages, OwnerStages
<1>8. CASE QuitLoop
  BY <1>t, <1>8 DEF QuitLoop, Quit, Enters, vars, ThreadTypeOK, Looping,
                    CreatorStages, OwnerStages
<1>9. CASE Join
  BY <1>t, <1>9 DEF Join, Enters, vars, ThreadTypeOK, Looping,
                    CreatorStages, OwnerStages
<1>10. CASE SetTid
  BY <1>t, <1>10 DEF SetTid, Enters, vars, ThreadTypeOK, Looping,
                     CreatorStages, OwnerStages
<1>12. CASE Publish
  BY <1>t, <1>12 DEF Publish, NotifyWaiter, vars, ThreadTypeOK, Looping, Steps
<1>13. ASSUME NEW m \in Mutex, Unlock(m)
       PROVE  ThreadTypeOK'
  BY <1>t, <1>13 DEF Unlock, Release, Does, Enters, vars, ThreadTypeOK,
                     Looping, Steps, CreatorStages, OwnerStages
<1>14. CASE InitCallbackReturns
  BY <1>t, <1>14 DEF InitCallbackReturns, Enters, vars, ThreadTypeOK, Looping,
                     CreatorStages, OwnerStages
<1>15. CASE CallLoop
  BY <1>t, <1>15 DEF CallLoop, StartLoop, Goto, Enters, ThreadTypeOK, Looping,
                     CreatorStages, OwnerStages
<1>16. CASE LoopReturns
  BY <1>t, <1>16 DEF LoopReturns, Enters, vars, ThreadTypeOK, Looping,
                     CreatorStages, OwnerStages
<1>17. CASE ThreadEnds
  BY <1>t, <1>17 DEF ThreadEnds, Destroy, Goto, Enters, ThreadTypeOK, Looping,
                     CreatorStages, OwnerStages
<1>18. CASE LoopRuns
  <2>1. pc' # "dead" /\ pc # "dead" /\ pc # "idle"
    BY <1>18 DEF LoopRuns, LoopStep, CheckQuit, WakeupChannelHandleRead,
                 HandleEvent, CallbackReturn, EventsHandled, HandleTasksBegin,
                 Swap, RunTask, TaskDone, HandleTasksEnd, Poll, Goto
  <2> QED
    BY <1>t, <1>18, <2>1 DEF LoopRuns, threadVars, ThreadTypeOK, Looping
<1>19. ASSUME NEW t \in Thread, NEW x \in Task, UserQueues(t, x)
       PROVE  ThreadTypeOK'
  BY <1>t, <1>19 DEF UserQueues, AddInQueue, threadVars, ThreadTypeOK, Looping
<1>20. ASSUME NEW t \in Thread, UserWakes(t) \/ UserQuits(t)
       PROVE  ThreadTypeOK'
  BY <1>t, <1>20 DEF UserWakes, Wakeup, UserQuits, Quit, threadVars,
                     ThreadTypeOK, Looping
<1>11. CASE CountDown
  BY <1>t, <1>11 DEF CountDown, NotifyWaiter, vars, ThreadTypeOK, Looping,
                     Steps
<1>21. CASE CreatorWaits
  BY <1>21, <1>3, <1>4, <1>5 DEF CreatorWaits
<1>22. CASE OwnerRuns
  BY <1>22, <1>3, <1>10, <1>11, <1>12, <1>13, <1>14, <1>15, <1>16, <1>17
     DEF OwnerRuns
<1> QED
  BY <1>1, <1>2, <1>6, <1>7, <1>8, <1>9, <1>18, <1>19, <1>20, <1>21, <1>22
     DEF ThreadNext

THEOREM ThreadTypeCorrect == ThreadSpec => []ThreadTypeOK
BY ThreadTypeInit, ThreadTypeNext, PTL DEF ThreadSpec

-----------------------------------------------------------------------------
(* What start() hands over.                                                *)

\* A loop that nobody has asked to quit stays inside loop() once it is
\* there, mp_loop is set from Publish until loop() returns, and the latch
\* opens after the tid is known.
HandOverInv ==
    /\ stage[Owner] \notin {"unborn", "born"} => m_tid
    /\ stage[Creator] \notin {"new", "sem", "gone"} => m_tid
    /\ mp_loop <=> \/ stage[Owner] \in {"ready", "looping"}
                   \/ stage[Owner] = "loop" /\ step[Owner] = "leave"
    /\ stage[Creator] \in {"using", "quit"} /\ ~users_quit => mp_loop
    /\ stage[Creator] \notin {"join", "gone"} /\ ~users_quit =>
           /\ stage[Owner] \notin {"left", "gone"}
           /\ stage[Owner] = "looping" => ~mb_quited /\ pc # "idle"

LEMMA HandOverInit == ThreadInit => HandOverInv
BY TwoThreads DEF ThreadInit, HandOverInv

LEMMA HandOverNext ==
    ThreadTypeOK /\ HandOverInv /\ [ThreadNext]_allVars => HandOverInv'
<1> SUFFICES ASSUME ThreadTypeOK, HandOverInv, [ThreadNext]_allVars
             PROVE  HandOverInv'
  OBVIOUS
<1> USE TwoThreads DEF Mutex
<1> USE DEF HandOverInv
<1>1. CASE UNCHANGED allVars
  BY <1>1 DEF allVars, threadVars, vars
<1>2. CASE Start
  BY <1>2 DEF Start, ThreadTypeOK, vars
<1>3. ASSUME NEW m \in Mutex, NEW t \in {Creator, Owner}, Lock(t, m)
      PROVE  HandOverInv'
  BY <1>3 DEF Lock, Does, ThreadTypeOK, vars
<1>4. ASSUME NEW m \in Mutex, Sleep(m)
      PROVE  HandOverInv'
  BY <1>4 DEF Sleep, Does, ThreadTypeOK, vars
<1>5. ASSUME NEW m \in Mutex, Pass(m)
      PROVE  HandOverInv'
  BY <1>5 DEF Pass, Open, Does, Enters, ThreadTypeOK, vars
<1>6. CASE SpuriousWakeup
  BY <1>6 DEF SpuriousWakeup, Does, ThreadTypeOK, vars
<1>7. CASE Destructor \/ Join
  BY <1>7 DEF Destructor, Join, Enters, ThreadTypeOK, vars
<1>8. CASE QuitLoop
  BY <1>8 DEF QuitLoop, Enters, ThreadTypeOK
<1>9. CASE SetTid \/ InitCallbackReturns
  BY <1>9 DEF SetTid, InitCallbackReturns, Enters, ThreadTypeOK, vars
<1>10. CASE CountDown \/ Publish
  BY <1>10 DEF CountDown, Publish, NotifyWaiter, ThreadTypeOK, vars
<1>11. ASSUME NEW m \in Mutex, Unlock(m)
       PROVE  HandOverInv'
  BY <1>11 DEF Unlock, Does, Enters, ThreadTypeOK, vars
<1>12. CASE CallLoop
  BY <1>12 DEF CallLoop, StartLoop, Goto, Enters, ThreadTypeOK
<1>13. CASE LoopReturns \/ ThreadEnds
  BY <1>13 DEF LoopReturns, ThreadEnds, Destroy, Goto, Enters, ThreadTypeOK,
               vars
<1>14. CASE LoopRuns
  <2>1. /\ pc' = "idle" => pc = "idle" \/ mb_quited
        /\ mb_quited' = mb_quited
    BY <1>14 DEF LoopRuns, LoopStep, CheckQuit, WakeupChannelHandleRead,
                 HandleEvent, CallbackReturn, EventsHandled, HandleTasksBegin,
                 Swap, RunTask, TaskDone, HandleTasksEnd, Poll, Goto
  <2> QED
    BY <1>14, <2>1 DEF LoopRuns, threadVars
<1>15. ASSUME NEW t \in Thread, NEW x \in Task, UserQueues(t, x)
       PROVE  HandOverInv'
  BY <1>15 DEF UserQueues, AddInQueue, threadVars
<1>16. ASSUME NEW t \in Thread, UserWakes(t) \/ UserQuits(t)
       PROVE  HandOverInv'
  BY <1>16 DEF UserWakes, Wakeup, UserQuits, threadVars
<1> QED
  BY <1>1, <1>2, <1>3, <1>4, <1>5, <1>6, <1>7, <1>8, <1>9, <1>10, <1>11,
     <1>12, <1>13, <1>14, <1>15, <1>16 DEF ThreadNext, CreatorWaits, OwnerRuns

LEMMA HandOverAlways == ThreadSpec => []HandOverInv
BY HandOverInit, HandOverNext, ThreadTypeCorrect, PTL DEF ThreadSpec

\* start() returns a loop that is alive, with its tid known, and it stays so
\* for the quit() of the destructor, unless somebody else makes it quit.
THEOREM LoopIsHandedOver == ThreadSpec => []HandsOverLiveLoop
<1>1. ThreadTypeOK /\ HandOverInv => HandsOverLiveLoop
  BY TwoThreads DEF ThreadTypeOK, HandOverInv, HandsOverLiveLoop
<1> QED
  BY <1>1, ThreadTypeCorrect, HandOverAlways, PTL
-----------------------------------------------------------------------------
(* The holder of a mutex.                                                  *)

\* The lock is held exactly by the thread inside its section, which is at
\* most one, and m_holder says so; when start() has returned or the object is
\* gone, Owner has no section left to go through.
LockInv ==
    /\ stage[Creator] \in {"using", "quit", "join", "gone"} =>
           stage[Owner] \notin {"born", "sem", "init", "loop"}
    /\ \A m \in Mutex :
          /\ m_holder[m] = lock[m]
          /\ \A t \in {Creator, Owner} :
                t \in lock[m] <=> /\ stage[t] = m
                                 /\ step[t] \in {"held", "leave"}
          /\ ~(Creator \in lock[m] /\ Owner \in lock[m])

LEMMA LockInit == ThreadInit => LockInv
BY TwoThreads DEF ThreadInit, LockInv, Mutex

LEMMA LockNext ==
    ThreadTypeOK /\ HandOverInv /\ LockInv /\ [ThreadNext]_allVars => LockInv'
<1> SUFFICES ASSUME ThreadTypeOK, HandOverInv, LockInv,
                    [ThreadNext]_allVars
             PROVE  LockInv'
  OBVIOUS
<1> USE TwoThreads DEF Mutex
<1> USE DEF LockInv
<1>1. CASE UNCHANGED allVars
  BY <1>1 DEF allVars, threadVars
<1>2. CASE Start
  BY <1>2 DEF Start, ThreadTypeOK
<1>3. ASSUME NEW m \in Mutex, NEW t \in {Creator, Owner}, Lock(t, m)
      PROVE  LockInv'
  BY <1>3 DEF Lock, Does, ThreadTypeOK
<1>4. ASSUME NEW m \in Mutex, Sleep(m)
      PROVE  LockInv'
  BY <1>4 DEF Sleep, ReleaseToWait, Release, Does, ThreadTypeOK
<1>5. ASSUME NEW m \in Mutex, Pass(m)
      PROVE  LockInv'
  BY <1>5 DEF Pass, Open, HandOverInv, Release, Does, Enters, ThreadTypeOK
<1>6. CASE SpuriousWakeup
  BY <1>6 DEF SpuriousWakeup, Does, ThreadTypeOK
<1>7. CASE Destructor \/ Join
  BY <1>7 DEF Destructor, Join, Enters, ThreadTypeOK
<1>8. CASE QuitLoop
  BY <1>8 DEF QuitLoop, Enters, ThreadTypeOK
<1>9. CASE SetTid \/ InitCallbackReturns
  BY <1>9 DEF SetTid, InitCallbackReturns, Enters, ThreadTypeOK
<1>10. CASE CountDown \/ Publish
  BY <1>10 DEF CountDown, Publish, NotifyWaiter, ThreadTypeOK
<1>11. ASSUME NEW m \in Mutex, Unlock(m)
       PROVE  LockInv'
  BY <1>11 DEF Unlock, Release, Does, Enters, ThreadTypeOK
<1>12. CASE CallLoop \/ LoopReturns \/ ThreadEnds
  BY <1>12 DEF CallLoop, LoopReturns, ThreadEnds, Enters, ThreadTypeOK
<1>13. CASE LoopRuns
  BY <1>13 DEF LoopRuns, threadVars
<1>14. CASE \E t \in Thread : (\E x \in Task : UserQueues(t, x))
                                  \/ UserWakes(t) \/ UserQuits(t)
  BY <1>14 DEF UserQueues, UserWakes, UserQuits, threadVars
<1> QED
  BY <1>1, <1>2, <1>3, <1>4, <1>5, <1>6, <1>7, <1>8, <1>9, <1>10, <1>11,
     <1>12, <1>13, <1>14 DEF ThreadNext, CreatorWaits, OwnerRuns

\* Mutex::m_holder is the thread that has the mutex, or nobody, waits on its
\* condition included.
THEOREM HolderCorrect == ThreadSpec => []HolderIsOwner
<1>1. ThreadTypeOK /\ LockInv => HolderIsOwner
  <2> SUFFICES ASSUME ThreadTypeOK, LockInv, NEW m \in Mutex
               PROVE  /\ m_holder[m] \subseteq lock[m]
                      /\ \A t \in {Creator, Owner} :
                            step[t] \in {"held", "leave"} /\ stage[t] = m
                                => lock[m] = {t}
                      /\ stage[Creator] = "gone" => m_holder[m] = {}
    BY DEF HolderIsOwner
  <2>1. /\ m_holder[m] = lock[m]
        /\ lock[m] \subseteq {Creator, Owner}
        /\ ~(Creator \in lock[m] /\ Owner \in lock[m])
    BY DEF LockInv, ThreadTypeOK
  <2>2. \A t \in {Creator, Owner} : t \in lock[m] => lock[m] = {t}
    BY <2>1
  <2>3. stage[Creator] = "gone" => Creator \notin lock[m] /\ Owner \notin lock[m]
    BY DEF LockInv, Mutex
  <2> QED
    BY <2>1, <2>2, <2>3 DEF LockInv
<1> QED
  BY LockInit, LockNext, <1>1, ThreadTypeCorrect, HandOverAlways, PTL
     DEF ThreadSpec

=============================================================================
