--------------------------- MODULE PollLoopProofs ---------------------------
(***************************************************************************)
(* What PollLoop promises, for any number of coroutine ids, any size of    *)
(* the hash table and any set of coroutines that create others.            *)
(***************************************************************************)
EXTENDS PollLoop, TLAPS

(* The invariants of PollLoop are inductive only together: a wake-up is    *)
(* delivered because what sleeps is watched, what is watched is started    *)
(* because ids leave the poller before task_map, an exception survives     *)
(* because the descriptor in error has left the poller.                    *)
IInv ==
    /\ TypeOK
    /\ WatchedAreStarted
    /\ WaitingIsWatched
    /\ ErrorIsDelivered
    /\ IteratorIsSound

(* The id after the last one is the first: uint32_t arithmetic stays in Ids. *)
LEMMA NextId == ASSUME NEW n \in Ids PROVE (n + 1) % IdMod \in Ids
  BY SchedulerConstants DEF Ids

(* main's initial state, with the acceptor created and nothing registered. *)
LEMMA InitIInv == Init => IInv
<1> SUFFICES ASSUME Init PROVE IInv
  OBVIOUS
<1> USE SchedulerConstants
<1>1. 1 \in Ids /\ 2 % IdMod \in Ids
  BY DEF Ids
<1>2. TypeOK
  BY <1>1 DEF Init, SchedInit, TypeOK, Phases, Statuses
<1>3. WatchedAreStarted /\ WaitingIsWatched /\ ErrorIsDelivered
  BY DEF Init, SchedInit, WatchedAreStarted, WaitingIsWatched, ErrorIsDelivered
<1>4. IteratorIsSound
  BY <1>1 DEF Init, SchedInit, IteratorIsSound, Live
<1>5. QED
  BY <1>2, <1>3, <1>4 DEF IInv

(* CreateTask, with and without a rehash, and on an id still in use. *)
LEMMA CreateIInv == ASSUME NEW t \in Ids, IInv, Create(t) PROVE IInv'
<1> USE DEF IInv, Create, CreateTask, Executes
<1>1. id' \in Ids /\ t = current /\ status[t] = "RUNNING"
  BY NextId DEF TypeOK
<1>2. CASE status[id] # "ABSENT"
  BY <1>1, <1>2 DEF TypeOK, WatchedAreStarted, WaitingIsWatched,
                    ErrorIsDelivered, IteratorIsSound, Live
<1>3. CASE status[id] = "ABSENT"
  <2>1. status' = [status EXCEPT ![id] = "CREATED"] /\ Relink(id)
    BY <1>3
  <2>2. Live' = Live \cup {id}
    BY <2>1 DEF Live, TypeOK
  <2>3. visit' \subseteq Live' \ {current} /\ capacity' \in Nat \ {0}
    <3>1. CASE Cardinality(Live) < capacity
      BY <1>1, <1>3, <2>1, <2>2, <3>1 DEF Relink, IteratorIsSound, TypeOK
    <3>2. CASE ~(Cardinality(Live) < capacity)
      <4>1. visit' \in SUBSET ((Live \cup {id}) \ {current})
            /\ capacity' = 2 * capacity
        BY <2>1, <3>2 DEF Relink
      <4>2. QED
        BY <2>2, <4>1 DEF TypeOK
    <3>3. QED
      BY <3>1, <3>2
  <2>4. TypeOK'
    BY <1>1, <2>1, <2>3 DEF TypeOK, Statuses, Live
  <2>5. WatchedAreStarted' /\ WaitingIsWatched' /\ ErrorIsDelivered'
    BY <1>3, <2>1 DEF TypeOK, WatchedAreStarted, WaitingIsWatched, ErrorIsDelivered
  <2>6. IteratorIsSound'
    BY <1>1, <1>3, <2>1, <2>3 DEF TypeOK, IteratorIsSound
  <2>7. QED
    BY <2>4, <2>5, <2>6
<1>4. QED
  BY <1>2, <1>3

(* The switch to a coroutine, with or without an exception to rethrow. *)
LEMMA SwitchIInv == ASSUME NEW t \in Ids, IInv, Switch(t) PROVE IInv'
<1> USE DEF IInv, Switch, Resume
<1>1. TypeOK'
  BY DEF TypeOK, Statuses, MayRun
<1>2. WatchedAreStarted' /\ WaitingIsWatched'
  BY DEF TypeOK, MayRun, WatchedAreStarted, WaitingIsWatched
<1>3. ErrorIsDelivered'
  BY DEF TypeOK, ErrorIsDelivered
<1>4. IteratorIsSound'
  BY SchedulerConstants DEF TypeOK, IteratorIsSound, Live, MayRun
<1>5. QED
  BY <1>1, <1>2, <1>3, <1>4

(* One batch: since every reported id is in task_map, all of it is applied. *)
LEMMA PollIInv == ASSUME IInv, Poll PROVE IInv'
<1> USE DEF IInv
<1>1. PICK ready \in SUBSET watched, errors \in SUBSET watched :
        /\ errors \subseteq ready
        /\ ProcessEvents(ready, errors)
        /\ watched' = watched \ errors
  BY DEF Poll
<1>2. ready \subseteq Live
  BY <1>1 DEF WatchedAreStarted, Live, TypeOK
<1>3. /\ phase = "events" /\ current = NoTask /\ current' = NoTask
      /\ phase' \in {"tasks", "done"}
      /\ status' = [t \in Ids |-> IF t \in ready THEN "RUNNING" ELSE status[t]]
      /\ exception' = [t \in Ids |-> exception[t] \/ t \in ready \cap errors]
      /\ visit' = Live
      /\ UNCHANGED <<id, capacity>>
  BY <1>1, <1>2 DEF ProcessEvents, IteratorIsSound
<1>4. TypeOK'
  BY <1>1, <1>3 DEF TypeOK, Phases, Statuses, Live
<1>5. WatchedAreStarted' /\ WaitingIsWatched'
  BY <1>1, <1>3 DEF TypeOK, WatchedAreStarted, WaitingIsWatched
<1>6. ErrorIsDelivered'
  BY <1>1, <1>3, SchedulerConstants DEF TypeOK, ErrorIsDelivered
<1>7. IteratorIsSound'
  BY <1>1, <1>2, <1>3, SchedulerConstants DEF TypeOK, IteratorIsSound, Live
<1>8. QED
  BY <1>4, <1>5, <1>6, <1>7

(* Every step keeps the inductive invariant. *)
LEMMA NextIInv == IInv /\ [Next]_vars => IInv'
<1> SUFFICES ASSUME IInv, [Next]_vars PROVE IInv'
  OBVIOUS
<1>1. ASSUME NEW t \in Ids, Create(t) PROVE IInv'
  BY <1>1, CreateIInv
<1>2. ASSUME NEW t \in Ids, Watch(t) PROVE IInv'
  BY <1>2 DEF IInv, Watch, Executes, schedVars, TypeOK, WatchedAreStarted,
              WaitingIsWatched, ErrorIsDelivered, IteratorIsSound, Live
<1>3. ASSUME NEW t \in Ids, Switch(t) PROVE IInv'
  BY <1>3, SwitchIInv
<1>4. ASSUME NEW t \in Ids, Suspend(t) PROVE IInv'
  BY <1>4, SchedulerConstants
     DEF IInv, Suspend, Yield, Executes, TypeOK, Statuses, WatchedAreStarted,
         WaitingIsWatched, ErrorIsDelivered, IteratorIsSound, Live
<1>5. ASSUME NEW t \in Ids, Finish(t) PROVE IInv'
  BY <1>5 DEF IInv, Finish, Return, Executes, TypeOK, Statuses, WatchedAreStarted,
              WaitingIsWatched, ErrorIsDelivered, IteratorIsSound, Live
<1>6. ASSUME NEW t \in Ids, Destroy(t) PROVE IInv'
  BY <1>6, SchedulerConstants
     DEF IInv, Destroy, Erase, TypeOK, Statuses, WatchedAreStarted,
         WaitingIsWatched, ErrorIsDelivered, IteratorIsSound, Live
<1>7. ASSUME NEW t \in Ids, Die(t) PROVE IInv'
  BY <1>7 DEF IInv, Die, Kill, Executes, TypeOK, Phases, WatchedAreStarted,
              WaitingIsWatched, ErrorIsDelivered, IteratorIsSound, Live
<1>8. ASSUME EndPass /\ UNCHANGED watched PROVE IInv'
  BY <1>8 DEF IInv, EndPass, TypeOK, Phases, WatchedAreStarted,
              WaitingIsWatched, ErrorIsDelivered, IteratorIsSound, Live
<1>9. CASE UNCHANGED vars
  BY <1>9 DEF IInv, vars, schedVars, TypeOK, WatchedAreStarted,
               WaitingIsWatched, ErrorIsDelivered, IteratorIsSound, Live
<1>10. QED
  BY <1>1, <1>2, <1>3, <1>4, <1>5, <1>6, <1>7, <1>8, <1>9, PollIInv DEF Next

(* The whole inductive invariant holds in every reachable state. *)
LEMMA Invariance == Spec => []IInv
<1>1. QED
  BY InitIInv, NextIInv, PTL DEF Spec

(* Type correctness of the scheduler and the epoll instance. *)
THEOREM TypeCorrect == Spec => []TypeOK
<1>1. IInv => TypeOK
  BY DEF IInv
<1>2. QED
  BY <1>1, Invariance, PTL

(* ProcessEvents never meets an id that is not in task_map, nor one that   *)
(* has not started, even after ids have been reused.                       *)
THEOREM NoAbsentCoroutine == Spec => []WatchedAreStarted
<1>1. IInv => WatchedAreStarted
  BY DEF IInv
<1>2. QED
  BY <1>1, Invariance, PTL

(* No coroutine is WAITING without a registration that can wake it. *)
THEOREM NoUnreachableSleep == Spec => []WaitingIsWatched
<1>1. IInv => WaitingIsWatched
  BY DEF IInv
<1>2. QED
  BY <1>1, Invariance, PTL

(* A stored poller exception always belongs to a coroutine about to run. *)
THEOREM ExceptionsAreDelivered == Spec => []ErrorIsDelivered
<1>1. IInv => ErrorIsDelivered
  BY DEF IInv
<1>2. QED
  BY <1>1, Invariance, PTL

(* The iterator of ProcessTasks never stands on an erased entry. *)
THEOREM IteratorSoundness == Spec => []IteratorIsSound
<1>1. IInv => IteratorIsSound
  BY DEF IInv
<1>2. QED
  BY <1>1, Invariance, PTL

-----------------------------------------------------------------------------
(* One step of Lifecycle for one coroutine. *)
Lawful(t) ==
    \/ status[t] = "ABSENT"   /\ status'[t] = "CREATED" /\ current # NoTask
    \/ status[t] = "CREATED"  /\ status'[t] = "RUNNING" /\ current' = t
    \/ status[t] = "WAITING"  /\ status'[t] = "RUNNING" /\ phase = "events"
                              /\ t \in watched
    \/ status[t] = "RUNNING"  /\ status'[t] \in {"WAITING", "FINISHED"}
                              /\ current = t
    \/ status[t] = "FINISHED" /\ status'[t] = "ABSENT"  /\ current = t

(* A poll changes the status of watched coroutines only, and those that    *)
(* are watched and off the processor are WAITING or RUNNING already.       *)
LEMMA PollIsLawful ==
  ASSUME IInv, Poll, NEW t \in Ids, status'[t] # status[t]
  PROVE  Lawful(t)
<1>1. PICK ready \in SUBSET watched, errors \in SUBSET watched :
        ProcessEvents(ready, errors)
  BY DEF Poll
<1>2. PICK done \in SUBSET (ready \cap Live) :
        status' = [u \in Ids |-> IF u \in done THEN "RUNNING" ELSE status[u]]
  BY <1>1 DEF ProcessEvents
<1>3. t \in watched /\ status'[t] = "RUNNING" /\ status[t] # "RUNNING"
  BY <1>2
<1>4. phase = "events" /\ current = NoTask
  BY <1>1 DEF IInv, IteratorIsSound, ProcessEvents
<1>5. status[t] \notin {"ABSENT", "CREATED", "FINISHED"}
  BY <1>3, <1>4, SchedulerConstants DEF IInv, WatchedAreStarted, IteratorIsSound
<1>6. status[t] = "WAITING"
  BY <1>3, <1>5 DEF IInv, TypeOK, Statuses
<1>7. QED
  BY <1>3, <1>4, <1>6 DEF Lawful

(* No other step changes a status but the one of the coroutine it is about. *)
LEMMA StepIsLawful ==
  ASSUME IInv, Next, NEW t \in Ids, status'[t] # status[t]
  PROVE  Lawful(t)
<1> USE SchedulerConstants DEF IInv, TypeOK, Lawful
<1>1. ASSUME NEW u \in Ids, Create(u) PROVE Lawful(t)
  BY <1>1 DEF Create, CreateTask, Executes
<1>2. ASSUME NEW u \in Ids, Watch(u) \/ Die(u) PROVE Lawful(t)
  BY <1>2 DEF Watch, Die, Kill, schedVars
<1>3. ASSUME NEW u \in Ids, Switch(u) PROVE Lawful(t)
  BY <1>3 DEF Switch, Resume, MayRun
<1>4. ASSUME NEW u \in Ids, Suspend(u) \/ Finish(u) PROVE Lawful(t)
  BY <1>4 DEF Suspend, Finish, Yield, Return, Executes
<1>5. ASSUME NEW u \in Ids, Destroy(u) PROVE Lawful(t)
  BY <1>5 DEF Destroy, Erase
<1>6. CASE EndPass /\ UNCHANGED watched
  BY <1>6 DEF EndPass
<1>7. CASE Poll
  BY <1>7, PollIsLawful
<1>8. QED
  BY <1>1, <1>2, <1>3, <1>4, <1>5, <1>6, <1>7 DEF Next

(* A wake-up is kept until the coroutine runs, only polls wake, only       *)
(* finished coroutines are erased, a live entry is never replaced.         *)
THEOREM LifecycleHolds == Spec => Lifecycle
<1>1. IInv /\ [Next]_vars =>
        [\A t \in Ids : status'[t] # status[t] => Lawful(t)]_vars
  BY StepIsLawful
<1>2. QED
  BY <1>1, Invariance, PTL DEF Spec, Lifecycle, Lawful
=============================================================================
