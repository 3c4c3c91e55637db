----------------------------- MODULE TaskQueue -----------------------------
(***************************************************************************)
(* What EventLoop promises to a thread that hands it a task: tasks wait in *)
(* one queue, a submitted task is appended, and the loop takes tasks from  *)
(* the front, one at a time.  Nothing is lost, repeated or overtaken       *)
(* before the loop object is destroyed.  EventLoop.tla implements it.      *)
(***************************************************************************)
EXTENDS Sequences

CONSTANTS Task      \* labels of the tasks

VARIABLES queue,    \* tasks submitted and not yet taken, oldest first
          open      \* FALSE once the executor is destroyed

vars == <<queue, open>>

Init == queue = << >> /\ open = TRUE

Submit(x) ==
    /\ open
    /\ queue' = Append(queue, x)
    /\ UNCHANGED open

Execute ==
    /\ open
    /\ queue # << >>
    /\ queue' = Tail(queue)
    /\ UNCHANGED open

\* Destruction drops whatever still waits.
Close ==
    /\ open
    /\ open' = FALSE
    /\ queue' = << >>

Next == (\E x \in Task : Submit(x)) \/ Execute \/ Close

Spec == Init /\ [][Next]_vars
=============================================================================
