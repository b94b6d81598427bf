------------------------------ MODULE Scheduler ------------------------------
(***************************************************************************)
(* The cooperative scheduler of CoroPolls (scheduler.h, scheduler.cpp) and *)
(* its coroutines (coroutine.h).  One thread alternates between a pass     *)
(* over the map of coroutines (ProcessTasks) and one poll (ProcessEvents). *)
(*                                                                         *)
(* The module gives the operations and has no specification of its own:    *)
(* PollLoop closes it with the weakest coroutines and poller it can live   *)
(* with, EchoServer with the coroutines of server.cpp and the real poller. *)
(***************************************************************************)
EXTENDS Integers, FiniteSets

CONSTANTS
    IdMod,            \* number of coroutine ids: 2^32, the width of uint32_t
    InitialCapacity,  \* elements task_map holds before its first rehash
    NoTask            \* no coroutine is on the processor

Ids == 0 .. IdMod - 1

ASSUME SchedulerConstants ==
    /\ IdMod \in Nat /\ IdMod >= 2
    /\ InitialCapacity \in Nat \ {0}
    /\ NoTask \notin Ids

VARIABLES
    phase,       \* where RunTasks is
    status,      \* Task::status, "ABSENT" for an id that is not in task_map
    exception,   \* Task::exception holds an exception
    id,          \* Scheduler::id, the next id CreateTask uses
    visit,       \* the coroutines the iterator of ProcessTasks has still to reach
    current,     \* the coroutine ProcessTasks has switched to
    capacity     \* elements task_map holds before it rehashes again

schedVars == <<phase, status, exception, id, visit, current, capacity>>

Phases   == {"tasks", "events", "done", "killed"}
Statuses == {"ABSENT", "CREATED", "RUNNING", "WAITING", "FINISHED"}

Live        == {t \in Ids : status[t] # "ABSENT"}
MayRun      == {t \in Ids : status[t] \in {"CREATED", "RUNNING"}}
Executes(t) == phase = "tasks" /\ current = t /\ status[t] = "RUNNING"

(* main has created one coroutine, the acceptor, and has called RunTasks. *)
SchedInit ==
    /\ phase = "tasks"
    /\ status = [t \in Ids |-> IF t = 1 THEN "CREATED" ELSE "ABSENT"]
    /\ exception = [t \in Ids |-> FALSE]
    /\ id = 2 % IdMod
    /\ visit = {1}
    /\ current = NoTask
    /\ capacity = InitialCapacity

-----------------------------------------------------------------------------
(* ProcessTasks is iterating over task_map while the coroutine it runs     *)
(* inserts into it.  Within the capacity the new node may fall before or   *)
(* after the iterator; a rehash relinks the list, so that the iterator may *)
(* meet again or miss any coroutine but the one it stands on.              *)
Relink(n) ==
    IF Cardinality(Live) < capacity
    THEN /\ visit' \in {visit, visit \cup {n}}
         /\ UNCHANGED capacity
    ELSE /\ visit' \in SUBSET ((Live \cup {n}) \ {current})
         /\ capacity' = 2 * capacity

(* Mutants of CreateTask: an id that never comes round; insert_or_assign. *)
CreateTaskUnbounded(t) ==
    /\ Executes(t)
    /\ id' = id + 1
    /\ IF status[id] = "ABSENT"
       THEN status' = [status EXCEPT ![id] = "CREATED"] /\ Relink(id)
       ELSE UNCHANGED <<status, visit, capacity>>
    /\ UNCHANGED <<phase, exception, current>>

CreateTaskAssign(t) ==
    /\ Executes(t)
    /\ id' = (id + 1) % IdMod
    /\ status' = [status EXCEPT ![id] = "CREATED"]
    /\ Relink(id)
    /\ UNCHANGED <<phase, exception, current>>

(* emplace leaves an entry that is already there as it is, so that after   *)
(* the id has wrapped around a creation may add nothing.                   *)
CreateTask(t) ==
    /\ Executes(t)
    /\ id' = (id + 1) % IdMod
    /\ IF status[id] = "ABSENT"
       THEN /\ status' = [status EXCEPT ![id] = "CREATED"]
            /\ Relink(id)
       ELSE UNCHANGED <<status, visit, capacity>>
    /\ UNCHANGED <<phase, exception, current>>

(* Mutant of Resume: RethrowException does not forget the exception. *)
ResumeKeepException(t) ==
    /\ phase = "tasks"
    /\ current = NoTask
    /\ t \in visit \cap MayRun
    /\ current' = t
    /\ visit' = visit \ {t}
    /\ status' = [status EXCEPT ![t] = "RUNNING"]
    /\ UNCHANGED <<phase, exception, id, capacity>>

(* The switch to a coroutine.  One that starts enters TaskCall; one that   *)
(* was suspended continues in Yield, which rethrows a pending exception.   *)
Resume(t) ==
    /\ phase = "tasks"
    /\ current = NoTask
    /\ t \in visit \cap MayRun
    /\ current' = t
    /\ visit' = visit \ {t}
    /\ exception' = [exception EXCEPT ![t] = @ /\ status[t] = "CREATED"]
    /\ status' = [status EXCEPT ![t] = "RUNNING"]
    /\ UNCHANGED <<phase, id, capacity>>

Yield(t) ==
    /\ Executes(t)
    /\ status' = [status EXCEPT ![t] = "WAITING"]
    /\ current' = NoTask
    /\ UNCHANGED <<phase, exception, id, visit, capacity>>

(* The function of the coroutine has returned: the last line of TaskCall. *)
Return(t) ==
    /\ Executes(t)
    /\ status' = [status EXCEPT ![t] = "FINISHED"]
    /\ UNCHANGED <<phase, exception, id, visit, current, capacity>>

(* Mutant of Erase: the iterator is left on the node that goes. *)
EraseStay(t) ==
    /\ phase = "tasks"
    /\ current = t
    /\ status[t] = "FINISHED"
    /\ status' = [status EXCEPT ![t] = "ABSENT"]
    /\ exception' = [exception EXCEPT ![t] = FALSE]
    /\ current' = NoTask
    /\ visit' = visit \cup {t}
    /\ UNCHANGED <<phase, id, capacity>>

(* ProcessTasks finds the coroutine it comes back from finished. *)
Erase(t) ==
    /\ phase = "tasks"
    /\ current = t
    /\ status[t] = "FINISHED"
    /\ status' = [status EXCEPT ![t] = "ABSENT"]
    /\ exception' = [exception EXCEPT ![t] = FALSE]
    /\ current' = NoTask
    /\ UNCHANGED <<phase, id, visit, capacity>>

(* The iterator reaches the end: it passes over what may not run. *)
EndPass ==
    /\ phase = "tasks"
    /\ current = NoTask
    /\ visit \cap MayRun = {}
    /\ phase' = "events"
    /\ visit' = {}
    /\ UNCHANGED <<status, exception, id, current, capacity>>

(* Mutant of ProcessEvents: the next pass runs what this batch has woken. *)
ProcessEventsOnly(ready, errors) ==
    /\ phase = "events"
    /\ ready \subseteq Live
    /\ status' = [t \in Ids |-> IF t \in ready THEN "RUNNING" ELSE status[t]]
    /\ exception' = [t \in Ids |-> exception[t] \/ t \in errors]
    /\ phase' = IF Live = {} THEN "done" ELSE "tasks"
    /\ visit' = ready
    /\ UNCHANGED <<id, current, capacity>>

(* One batch of poll results.  An id that is not in task_map throws: the   *)
(* results after it are dropped and RunTasks goes on with its loop.        *)
ProcessEvents(ready, errors) ==
    /\ phase = "events"
    /\ \E done \in SUBSET (ready \cap Live) :
          /\ ready \subseteq Live => done = ready
          /\ status' = [t \in Ids |-> IF t \in done THEN "RUNNING" ELSE status[t]]
          /\ exception' = [t \in Ids |-> exception[t] \/ t \in done \cap errors]
    /\ phase' = IF Live = {} THEN "done" ELSE "tasks"
    /\ visit' = Live
    /\ UNCHANGED <<id, current, capacity>>

(* A signal whose disposition the program never changes ends the process. *)
Kill(t) ==
    /\ Executes(t)
    /\ phase' = "killed"
    /\ UNCHANGED <<status, exception, id, visit, current, capacity>>

=============================================================================
