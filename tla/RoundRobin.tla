----------------------------- MODULE RoundRobin -----------------------------
(***************************************************************************)
(* What the stackful schedulers promise to the programs that use them: the *)
(* submitted tasks take turns, one at a time, in the order of a queue.  A  *)
(* turn moves its task from the front of the queue to the back, and ends   *)
(* when the task yields or finishes; a finished task is never heard of     *)
(* again.  There is no list, no memory and no machine context here.        *)
(***************************************************************************)
EXTENDS Sequences, SequencesExt

CONSTANTS Tasks,    \* names of tasks, used again once their task has finished
          Nobody    \* no task: the value of "running" between two turns

VARIABLES queue,    \* the submitted tasks, the one that is next first
          running   \* the task whose turn it is, or Nobody

vars == <<queue, running>>

TypeInv == /\ queue \in Seq(Tasks)
           /\ running \in Tasks \cup {Nobody}

Init == queue = <<>> /\ running = Nobody

Submit(t) ==
    /\ t \notin Range(queue)
    /\ queue' = Append(queue, t)
    /\ UNCHANGED running

Dispatch ==
    /\ running = Nobody
    /\ queue # <<>>
    /\ running' = Head(queue)
    /\ queue' = Append(Tail(queue), Head(queue))

Yield ==
    /\ running # Nobody
    /\ running' = Nobody
    /\ UNCHANGED queue

Finish ==
    /\ running # Nobody
    /\ running' = Nobody
    /\ \E k \in DOMAIN queue : queue[k] = running /\ queue' = RemoveAt(queue, k)

Next == (\E t \in Tasks : Submit(t)) \/ Dispatch \/ Yield \/ Finish

\* Every turn ends, and the next one begins while there is a task.
Fairness == WF_vars(Dispatch) /\ WF_vars(Yield \/ Finish)

Spec == Init /\ [][Next]_vars /\ Fairness
-----------------------------------------------------------------------------
\* A submitted task gets a turn, and after each turn that does not finish it
\* another one.
EveryTaskRuns == \A t \in Tasks : t \in Range(queue) ~> running = t
=============================================================================
