------------------------------ MODULE PollLoop ------------------------------
(***************************************************************************)
(* The scheduler closed with an abstract poller and with coroutines of     *)
(* which only the discipline it relies on is kept: a coroutine suspends    *)
(* itself only while one of its descriptors is registered with the poller, *)
(* and its descriptors leave the poller no later than it leaves task_map.  *)
(* EchoServer is checked to implement this specification.                  *)
(***************************************************************************)
EXTENDS Scheduler

CONSTANT Creators   \* the coroutines whose code calls CreateTask

ASSUME CreatorsAreIds == Creators \subseteq Ids

VARIABLE watched    \* ids packed into the registrations of the epoll instance

vars == <<schedVars, watched>>

Init == SchedInit /\ watched = {}

Create(t) == t \in Creators /\ CreateTask(t) /\ UNCHANGED watched

(* AddAcceptEvent, AddReadEvent: a coroutine registers its own descriptor. *)
Watch(t) ==
    /\ Executes(t)
    /\ watched' = watched \cup {t}
    /\ UNCHANGED schedVars

Switch(t) == Resume(t) /\ UNCHANGED watched

Suspend(t) == t \in watched /\ Yield(t) /\ UNCHANGED watched

(* Sockets local to its function are closed before it returns. *)
Finish(t) == Return(t) /\ watched' \in {watched, watched \ {t}}

(* Mutant of Destroy: a copy of the socket keeps the registration. *)
DestroyWatched(t) == Erase(t) /\ UNCHANGED watched

(* Erasing a coroutine destroys its function and the socket this captures. *)
Destroy(t) == Erase(t) /\ watched' = watched \ {t}

(* Mutant of Poll: a descriptor in error is deleted and not reported. *)
PollSilent ==
    \E ready \in SUBSET watched : \E errors \in SUBSET ready :
        /\ ProcessEvents(ready \ errors, {})
        /\ watched' = watched \ errors

(* Poll: at most one result per registration; a descriptor in error is     *)
(* deleted from the epoll instance.  An empty batch is what most polls of  *)
(* an idle server return, after the 10 ms that Poll waits by default; it   *)
(* is also what EINTR and a failing epoll_wait amount to.                  *)
Poll ==
    \E ready \in SUBSET watched : \E errors \in SUBSET ready :
        /\ ProcessEvents(ready, errors)
        /\ watched' = watched \ errors

Die(t) == Kill(t) /\ UNCHANGED watched

Next ==
    \/ \E t \in Ids : \/ Create(t) \/ Watch(t) \/ Switch(t) \/ Suspend(t)
                      \/ Finish(t) \/ Destroy(t) \/ Die(t)
    \/ EndPass /\ UNCHANGED watched
    \/ Poll

Spec == Init /\ [][Next]_vars

(* The loop goes on by itself and, scheduling being cooperative, every     *)
(* coroutine gives the processor back: nothing else is assumed.            *)
Fairness ==
    /\ WF_vars(\E t \in Ids : Switch(t))
    /\ WF_vars(\E t \in Ids : Suspend(t) \/ Finish(t))
    /\ WF_vars(\E t \in Ids : Destroy(t))
    /\ WF_vars(EndPass /\ UNCHANGED watched)
    /\ WF_vars(Poll)

FairSpec == Spec /\ Fairness

-----------------------------------------------------------------------------
(* Type correctness of the scheduler's fields and of the epoll instance. *)
TypeOK ==
    /\ phase \in Phases
    /\ status \in [Ids -> Statuses]
    /\ exception \in [Ids -> BOOLEAN]
    /\ id \in Ids
    /\ visit \in SUBSET Ids
    /\ current \in Ids \cup {NoTask}
    /\ capacity \in Nat \ {0}
    /\ watched \in SUBSET Ids

(* Every id the poller can report is in task_map and has been started: the *)
(* "coro is absent" exception of ProcessEvents, which would drop the rest  *)
(* of the batch and with it edge-triggered events nobody reports again, is *)
(* never thrown, and AllowResume never turns a coroutine RUNNING that has  *)
(* not entered TaskCall.                                                   *)
WatchedAreStarted ==
    \A t \in watched : status[t] \notin {"ABSENT", "CREATED"}

(* No coroutine sleeps where no event can reach it: what is WAITING has a  *)
(* registration, the one that was reported in error included.              *)
WaitingIsWatched == \A t \in Ids : status[t] = "WAITING" => t \in watched

(* An exception stored by ProcessEvents belongs to a coroutine that will   *)
(* be resumed and rethrow it: it is RUNNING, off the processor, suspended  *)
(* in Yield, and no later poll can report it a second time.                *)
ErrorIsDelivered ==
    \A t \in Ids : exception[t] => /\ status[t] = "RUNNING"
                                   /\ t # current
                                   /\ t \notin watched

(* The iterator of ProcessTasks only meets nodes that are in the map,      *)
(* whatever the coroutine it runs has inserted, and a FINISHED coroutine   *)
(* is erased before any other is looked at.                                *)
IteratorIsSound ==
    /\ visit \subseteq Live \ {current}
    /\ current # NoTask => /\ phase \in {"tasks", "killed"}
                           /\ status[current] \in {"RUNNING", "FINISHED"}
    /\ \A t \in Ids : status[t] = "FINISHED" => t = current

(* What may happen to an entry of task_map, step by step: a wake-up is     *)
(* kept until the coroutine runs, only a poll that watches it wakes a      *)
(* coroutine, nothing is erased unfinished, and an id that has come round  *)
(* again never replaces the live entry that has it.                        *)
Lifecycle ==
    [][\A t \in Ids : status'[t] # status[t] =>
          \/ status[t] = "ABSENT"   /\ status'[t] = "CREATED" /\ current # NoTask
          \/ status[t] = "CREATED"  /\ status'[t] = "RUNNING" /\ current' = t
          \/ status[t] = "WAITING"  /\ status'[t] = "RUNNING" /\ phase = "events"
                                    /\ t \in watched
          \/ status[t] = "RUNNING"  /\ status'[t] \in {"WAITING", "FINISHED"}
                                    /\ current = t
          \/ status[t] = "FINISHED" /\ status'[t] = "ABSENT"  /\ current = t
      ]_vars

(* Every coroutine that has been created or woken gets the processor, even *)
(* when a rehash makes the pass that should run it miss it: no coroutine   *)
(* can hold the loop in one pass as long as only some coroutines create.   *)
RunnableRuns ==
    \A t \in Ids :
        t \in MayRun /\ current # t ~> current = t \/ phase = "killed"
=============================================================================
