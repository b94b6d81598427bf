------------------------------ MODULE TaskList ------------------------------
(***************************************************************************)
(* The task list and the scheduler loop of the stackful C coroutines       *)
(* (Stackful/SJLJ; StackManagement has the same code).  Tasks sit in a     *)
(* hand-made doubly linked list whose nodes are malloc'ed and freed.  The  *)
(* scheduler takes the node at the head, links it again at the tail and    *)
(* switches to its task; the task runs until it yields or its function     *)
(* returns, and then the scheduler unlinks and frees it.                   *)
(*                                                                         *)
(* A node and its task are one memory block here, an element of Items: the *)
(* code allocates and frees the two together.  A block that was freed      *)
(* keeps its address, may still be pointed to, and may be allocated again. *)
(* Only one of main, the scheduler and a task runs at any time, so a step  *)
(* is what happens between two switches, cut where the list is consistent. *)
(***************************************************************************)
EXTENDS Naturals, FiniteSets, Sequences, SequencesExt

CONSTANTS Items,        \* the blocks malloc can return: a bound on live tasks
          Null,         \* the null pointer
          Discipline    \* TRUE: a task that created tasks in its turn does not
                        \* finish in that turn, unless it is at the head

ASSUME ItemsAssumption == IsFiniteSet(Items) /\ Null \notin Items
ASSUME DisciplineAssumption == Discipline \in BOOLEAN

VARIABLES build,     \* which of the three scheduler.c files is compiled in
          list,      \* head, tail, and the next and prev fields of the nodes
          current,   \* scheduler_data.current
          status,    \* task->status, or FREED for a block that is not in use
          control,   \* whose code runs, and how far the scheduler has come
          created    \* has the task that runs created a task in this turn?

vars == <<build, list, current, status, control, created>>

Builds == {"context", "asm", "jump"}
Pointers == Items \cup {Null}
Statuses == {"FREED", "CREATED", "RUNNING", "FINISHED"}
Places == {"main", "returned", "choose", "task"}

TypeInv ==
    /\ build \in Builds
    /\ list \in [head : Pointers, tail : Pointers,
                 next : [Items -> Pointers], prev : [Items -> Pointers]]
    /\ current \in Pointers
    /\ status \in [Items -> Statuses]
    /\ control \in Places
    /\ created \in BOOLEAN

Live == {i \in Items : status[i] # "FREED"}
-----------------------------------------------------------------------------
(* The three operations on the list. *)

\* insert_task_list_item_tail: the old tail is reached through its pointer.
InsertTail(l, i) ==
    [head |-> IF l.head = Null THEN i ELSE l.head,
     tail |-> i,
     next |-> [j \in Items |-> CASE j = i -> Null
                                 [] j # i /\ j = l.tail -> i
                                 [] OTHER -> l.next[j]],
     prev |-> [l.prev EXCEPT ![i] = l.tail]]

\* remove_task_list_item_head.  The new head keeps its prev field.
RemoveHead(l) ==
    IF l.head = l.tail
    THEN [l EXCEPT !.head = Null, !.tail = Null]
    ELSE [l EXCEPT !.head = l.next[l.head]]

\* Mutant of Unlink: the tail is left pointing at the removed node.
UnlinkForgetsTail(l, i) ==
    [l EXCEPT !.head = IF l.head = i THEN l.next[i] ELSE l.head]

\* Mutant of Unlink: the head is left pointing at the removed node.
UnlinkForgetsHead(l, i) ==
    [l EXCEPT !.tail = IF l.tail = i THEN l.prev[i] ELSE l.tail]

\* remove_task_tail.  Only the two ends are looked at: a node in the middle
\* stays linked, and the neighbours of the node keep their pointers to it.
Unlink(l, i) ==
    [l EXCEPT !.head = IF l.head = i THEN l.next[i] ELSE l.head,
              !.tail = IF l.tail = i THEN l.prev[i] ELSE l.tail]
-----------------------------------------------------------------------------
Init ==
    /\ build \in Builds
    /\ list = [head |-> Null, tail |-> Null,
               next |-> [i \in Items |-> Null], prev |-> [i \in Items |-> Null]]
    /\ current = Null
    /\ status = [i \in Items |-> "FREED"]
    /\ control = "main"
    /\ created = FALSE

\* main, before run_tasks or after it has returned, or the task that runs
\* creates a task in a block that malloc finds free.
CreateTask(i) ==
    /\ control \in {"main", "task"}
    /\ status[i] = "FREED"
    /\ status' = [status EXCEPT ![i] = "CREATED"]
    /\ list' = InsertTail(list, i)
    /\ created' = (control = "task")
    /\ UNCHANGED <<build, current, control>>

\* main calls run_tasks.  With my_setjmp the loop is entered through the test
\* that follows every return of a task to the scheduler.
RunTasks ==
    /\ control = "main"
    /\ control' = IF build = "jump" THEN "returned" ELSE "choose"
    /\ UNCHANGED <<build, list, current, status, created>>

\* Mutant of RunTasksReturns: run_tasks returns although there is a task.
RunTasksReturnsEarly ==
    /\ control = "choose"
    /\ current' = Null
    /\ control' = "main"
    /\ UNCHANGED <<build, list, status, created>>

\* choose_task finds no task, and run_tasks returns to main.
RunTasksReturns ==
    /\ control = "choose"
    /\ list.head = Null
    /\ current' = Null
    /\ control' = "main"
    /\ UNCHANGED <<build, list, status, created>>

\* Mutant of ChooseTask: the task at the head stays at the head.
ChooseWithoutRotation ==
    /\ control = "choose"
    /\ list.head # Null
    /\ status[list.head] \in {"CREATED", "RUNNING"}
    /\ current' = list.head
    /\ status' = IF build = "jump"
                 THEN [status EXCEPT ![list.head] = "RUNNING"] ELSE status
    /\ control' = "task"
    /\ created' = FALSE
    /\ UNCHANGED <<build, list>>

\* choose_task rotates the list and the loop of run_tasks switches to the
\* task.  Were the status of the head another one, the loop in choose_task
\* would never end: then no step is possible.  Only schedule_task, in the
\* build with my_setjmp, ever records that a task has started.
ChooseTask ==
    /\ control = "choose"
    /\ list.head # Null
    /\ status[list.head] \in {"CREATED", "RUNNING"}
    /\ list' = InsertTail(RemoveHead(list), list.head)
    /\ current' = list.head
    /\ status' = IF build = "jump"
                 THEN [status EXCEPT ![list.head] = "RUNNING"] ELSE status
    /\ control' = "task"
    /\ created' = FALSE
    /\ UNCHANGED build

\* Mutant of Yield: the task is marked as waiting until its next turn.
YieldWaiting ==
    /\ control = "task"
    /\ control' = "returned"
    /\ status' = [status EXCEPT ![current] = "WAITING"]
    /\ UNCHANGED <<build, list, current, created>>

\* task_yield saves the machine context in current->task and switches to the
\* scheduler.
Yield ==
    /\ control = "task"
    /\ control' = "returned"
    /\ UNCHANGED <<build, list, current, status, created>>

\* The function of the task returns to task_call (or to schedule_task), which
\* marks the task and goes back to the scheduler: through uc_link, through the
\* address of task_yield put at the top of the stack, or by my_longjmp.
Finish ==
    /\ control = "task"
    /\ Discipline /\ created => list.head = current
    /\ status' = [status EXCEPT ![current] = "FINISHED"]
    /\ control' = "returned"
    /\ UNCHANGED <<build, list, current, created>>

\* Mutant of Reclaim: the scheduler goes on with the next task at once.
ReclaimNothing ==
    /\ control = "returned"
    /\ control' = "choose"
    /\ UNCHANGED <<build, list, current, status, created>>

\* Back in run_tasks: a finished task is unlinked and freed.  The builds with
\* machine contexts keep the pointer to the freed node in "current".
Reclaim ==
    /\ control = "returned"
    /\ control' = "choose"
    /\ IF current # Null /\ status[current] = "FINISHED"
       THEN /\ list' = Unlink(list, current)
            /\ status' = [status EXCEPT ![current] = "FREED"]
            /\ current' = IF build = "jump" THEN Null ELSE current
       ELSE UNCHANGED <<list, status, current>>
    /\ UNCHANGED <<build, created>>

Scheduler == RunTasksReturns \/ ChooseTask \/ Reclaim

Next == (\E i \in Items : CreateTask(i))
            \/ RunTasks \/ Scheduler \/ Yield \/ Finish

\* One thread runs everything.  main calls run_tasks after it has created its
\* tasks, and a turn ends: the tasks of the two programs yield once in every
\* iteration or call of fibonacci.
Fairness == WF_vars(RunTasks) /\ WF_vars(Scheduler) /\ WF_vars(Yield \/ Finish)

Spec == Init /\ [][Next]_vars /\ Fairness
-----------------------------------------------------------------------------
(* The order in which the list holds the tasks. *)

\* The nodes met on the way from the head to the tail, Null after it.
Node[k \in 1..(Cardinality(Items) + 1)] ==
    IF k = 1 THEN list.head
    ELSE IF Node[k - 1] \in {Null, list.tail} THEN Null
    ELSE list.next[Node[k - 1]]

Order == [k \in {k \in DOMAIN Node : Node[k] # Null} |-> Node[k]]

\* The list holds each live task exactly once and nothing else: no freed node
\* is reachable (choose_task and insert_task_list_item_tail would read or write
\* freed memory) and no task is lost; the walk ends at the tail.
ListHoldsLiveTasks ==
    /\ {Order[k] : k \in DOMAIN Order} = Live
    /\ Len(Order) = Cardinality(Live)
    /\ list.tail = IF Order = <<>> THEN Null ELSE Order[Len(Order)]

\* The task that is freed created others in its turn, and is not at the head:
\* remove_task_tail finds it at neither end of the list.
Strands ==
    \E i \in Items : /\ status[i] = "FINISHED" /\ status'[i] = "FREED"
                     /\ created /\ list.head # i

\* Without the discipline, a list that is sound ceases to be so exactly when
\* such a task is freed: no other order of creating, yielding, finishing and
\* reusing blocks leaves a freed node linked or loses a task, and after this
\* one the freed node is always still linked.  What the program does from then
\* on, reading freed memory, is undefined.
OnlyCreatorsAreStranded ==
    [][ListHoldsLiveTasks => (~ListHoldsLiveTasks' <=> Strands)]_vars

\* The loop of choose_task does not move on from a head that is neither created
\* nor running: whenever it is entered the head can be dispatched.
ChooseNeverSpins ==
    control = "choose" /\ list.head # Null
        => status[list.head] \in {"CREATED", "RUNNING"}

\* A finished task exists only between the end of its function and the return
\* to run_tasks, and it is the current one, so that freeing "current" frees it
\* and no task that may still run.
FinishedIsCurrent ==
    \A i \in Items :
        status[i] = "FINISHED" => control = "returned" /\ current = i

\* The tasks that will have a turn: at most one of the list has finished.
Waiting ==
    IF \E k \in DOMAIN Order : status[Order[k]] = "FINISHED"
    THEN RemoveAt(Order, CHOOSE k \in DOMAIN Order : status[Order[k]] = "FINISHED")
    ELSE Order

\* What the programs see of the scheduler is taking turns in a queue.
RR == INSTANCE RoundRobin
          WITH Tasks <- Items, Nobody <- Null,
               queue <- Waiting,
               running <- IF control = "task" THEN current ELSE Null

\* The linked list, its stale pointers and the reuse of freed blocks implement
\* the queue of RoundRobin, step by step.
TakesTurns == RR!Init /\ [][RR!Next]_(RR!vars)

\* And with its fairness: the turn of the task at the head begins, and ends.
TurnsGoOn == RR!Fairness

\* A created task gets a turn, and another one after each turn that it ends by
\* yielding, however many tasks are created meanwhile.
EveryTaskRuns == RR!EveryTaskRuns
=============================================================================
