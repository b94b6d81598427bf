--------------------------- MODULE SwitchingProofs ---------------------------
(***************************************************************************)
(* What the switches of stacks give to the scheduler and the tasks, from   *)
(* the invariant of SwitchingInvariant.                                    *)
(***************************************************************************)
EXTENDS SwitchingInvariant, NaturalsInduction, WellFoundedInduction

(* Where the stack pointer of the running task is, and that the word there was *)
(* written: no task stands on a painted word.                                  *)
LEMMA StandsOn ==
  ASSUME IInv, rip \in TaskPlaces
  PROVE  \E d \in 0..Words : /\ rsp = <<current, d>>
                             /\ d = 0 \/ Unpainted(machine.mem[current][d])
<1> DEFINE t == current
           Stands(d) == rsp = <<t, d>> /\ (d = 0 \/ Unpainted(machine.mem[t][d]))
<1>1. /\ Active(build, t, machine, status[t], left[t]) /\ machine.rip = rip /\ build \in Builds
      /\ 0 \in 0..Words /\ 1 \in 0..Words /\ 2 \in 0..Words /\ 4 \in 0..Words
  BY RunningIs, WordsAssumption
<1>2. \A w \in OldRbp : Unpainted(w)
  BY PlainWords DEF OldRbp
<1>3. CASE rip = "task_call"
  <2>1. rsp = <<t, 1>> /\ Entry(build, machine.mem[t])
    BY <1>1, <1>3 DEF Active, AtTaskCall, rsp
  <2>2. Unpainted(machine.mem[t][1])
    BY <2>1, PlainWords DEF Entry, Places, TaskPlaces
  <2>3. QED
    BY <1>1, <2>1, <2>2
<1>4. CASE rip = "func"
  <2>1. PICK k \in 1..Words : Frames(build, t, machine.mem[t], k) /\ rsp = <<t, 2 * k>>
    BY <1>1, <1>4 DEF Active, AtFunc, rsp
  <2>2. 2 * k \in 0..Words /\ k \in Nat /\ BaseFrames(build) \in {1, 2} /\ BaseFrames(build) <= k
    BY <2>1, WordsAssumption DEF Frames, BaseFrames
  <2>3. CASE k = BaseFrames(build)
    BY <1>1, <2>1, <2>2, <2>3, PlainWords DEF Frames, Bottom, BaseFrames
  <2>4. CASE k # BaseFrames(build)
    <3>1. k \in (BaseFrames(build) + 1)..k
      BY <2>2, <2>4
    <3>2. machine.mem[t][2 * k] = <<t, 2 * k - 2>>
      BY <2>1, <3>1 DEF Frames
    <3>3. QED
      BY <2>1, <2>2, <3>2, PlainWords
  <2>5. QED
    BY <2>3, <2>4
<1>5. CASE rip = "called"
  BY <1>1, <1>2, <1>5 DEF Active, AtCalled, rsp
<1>6. CASE rip = "scheduled"
  BY <1>1, <1>6 DEF Active, AtScheduled, rsp
<1>7. CASE rip = "link"
  BY <1>1, <1>7 DEF Active, AtLink, rsp
<1>8. CASE rip = "task_yield"
  <2>1. AtTaskYield(build, t, machine, status[t], left[t])
    BY <1>1, <1>8 DEF Active
  <2>2. CASE machine.reg["rsp"] = <<t, 0>>
    BY <1>1, <2>2 DEF rsp
  <2>3. ASSUME NEW k \in 1..Words, Yielding(build, t, machine.mem[t], left[t], k, machine.reg),
               machine.reg["rsp"] = <<t, 2 * k + 1>>
        PROVE  \E d \in 0..Words : Stands(d)
    <3>1. 2 * k + 1 \in 0..Words
      BY <2>3, WordsAssumption DEF Yielding, Frames
    <3>2. Unpainted(machine.mem[t][2 * k + 1])
      BY <2>3, PlainWords DEF Yielding, Places, TaskPlaces
    <3>3. QED
      BY <2>3, <3>1, <3>2 DEF rsp
  <2>4. QED
    BY <2>1, <2>2, <2>3 DEF AtTaskYield
<1>9. CASE rip = "yielded"
  <2>1. PICK k \in 1..Words : /\ Yielding(build, t, machine.mem[t], left[t], k, machine.reg)
                              /\ machine.mem[t][2 * k + 2] = <<t, 2 * k>>
                              /\ machine.reg["rsp"] = <<t, 2 * k + 2>>
    BY <1>1, <1>9 DEF Active, AtYielded
  <2>2. 2 * k + 2 \in 0..Words
    BY <2>1, WordsAssumption DEF Yielding, Frames
  <2>3. QED
    BY <2>1, <2>2, PlainWords DEF rsp
<1>10. QED
  BY <1>3, <1>4, <1>5, <1>6, <1>7, <1>8, <1>9 DEF TaskPlaces

(* Outside of the code of the tasks the stack of main is in use. *)
LEMMA MainStandsOn ==
  ASSUME IInv, rip \notin TaskPlaces
  PROVE  \E d \in 0..Words : rsp = <<Main, d>>
<1>1. rip \in LoopPlaces \cup {"main"} /\ 0 \in 0..Words /\ 2 \in 0..Words
  BY WordsAssumption DEF IInv, TypeInv, Places
<1>2. machine.reg = LoopRegs \/ machine.reg = MainRegs
  BY <1>1 DEF IInv, MainInv
<1>3. QED
  BY <1>1, <1>2 DEF LoopRegs, MainRegs, rsp, Registers

(* The type invariant: the machine stays one of the modelled shape, its stack  *)
(* pointer never leaves the stacks that exist, and my_setjmp returns 0 or 1.   *)
THEOREM TypeCorrect == Spec => []TypeOK
<1>1. IInv => TypeOK
  <2> SUFFICES ASSUME IInv PROVE TypeOK
    OBVIOUS
  <2>1. rsp \in Stacks \X (0..Words)
    <3>1. CASE rip \in TaskPlaces
      BY <3>1, StandsOn, RunningIs
    <3>2. CASE rip \notin TaskPlaces
      BY <3>2, MainStandsOn DEF Stacks
    <3>3. QED
      BY <3>1, <3>2
  <2>2. DOMAIN machine.reg = Registers
    BY DEF IInv, TypeInv, Shape
  <2>3. QED
    BY <2>1, <2>2 DEF TypeOK, IInv, TypeInv
<1>2. QED
  BY <1>1, AlwaysIInv, PTL

(* The code of a task runs on the stack of the current task, which is not      *)
(* freed, and the code of run_tasks and of main on the stack of main; the code *)
(* behind the calls of my_longjmp is never reached.                            *)
THEOREM OwnStack == Spec => []RunsOnOwnStack
<1>1. IInv => RunsOnOwnStack
  <2> SUFFICES ASSUME IInv PROVE RunsOnOwnStack
    OBVIOUS
  <2>1. rip \in TaskPlaces => rsp[1] = current /\ status[current] # "FREED"
    BY StandsOn, RunningIs
  <2>2. rip \in LoopPlaces \cup {"main"} => rsp[1] = Main
    BY MainStandsOn DEF LoopPlaces, TaskPlaces
  <2>3. QED
    BY <2>1, <2>2 DEF RunsOnOwnStack, IInv, TypeInv
<1>2. QED
  BY <1>1, AlwaysIInv, PTL

(* run_tasks finds its registers and its frame again after every turn, and     *)
(* main its registers after run_tasks.                                         *)
THEOREM LoopFrameKept == Spec => []LoopKeepsItsFrame
<1>1. IInv => LoopKeepsItsFrame
  <2> SUFFICES ASSUME IInv PROVE LoopKeepsItsFrame
    OBVIOUS
  <2>1. ASSUME rip \in LoopPlaces
        PROVE  SubSeq(machine.mem[Main], 1, 2) = <<<<"main">>, <<"rbp", Main, 0>>>>
    <3> DEFINE f == machine.mem[Main]
               S == {f[d] : d \in 1..Words}
    <3>1. f = [d \in 1..Words |-> f[d]] /\ LoopFrame(f)
      BY <2>1 DEF IInv, TypeInv, Shape, Stacks, MainInv, LoopPlaces
    <3>2. /\ f \in Seq(S) /\ Len(f) = Words /\ 1 \in 1..(Words + 1) /\ 2 \in (1 - 1)..Words
      BY <3>1, WordsAssumption
    <3> HIDE DEF f, S
    <3>3. /\ SubSeq(f, 1, 2) \in Seq(S) /\ Len(SubSeq(f, 1, 2)) = 2
          /\ SubSeq(f, 1, 2)[1] = f[1] /\ SubSeq(f, 1, 2)[2] = f[2]
      BY <3>2, SubSeqProperties
    <3>4. SubSeq(f, 1, 2) = <<f[1], f[2]>>
      <4> DEFINE u == SubSeq(f, 1, 2)
      <4>1. u \in Seq(S) /\ Len(u) = 2 /\ u[1] = f[1] /\ u[2] = f[2]
        BY <3>3
      <4> HIDE DEF u
      <4>2. u = <<f[1], f[2]>>
        BY <4>1
      <4>3. QED
        BY <4>2 DEF u
    <3>5. f[1] = <<"main">> /\ f[2] = <<"rbp", Main, 0>>
      BY <3>1 DEF LoopFrame
    <3>6. QED
      BY <3>4, <3>5 DEF f
  <2>2. QED
    BY <2>1 DEF IInv, MainInv, LoopRegs, MainRegs, LoopKeepsItsFrame
<1>2. QED
  BY <1>1, AlwaysIInv, PTL

(* A nonempty set of numbers has a least element. *)
LEMMA LeastOf == ASSUME NEW S \in SUBSET Nat, S # {}
                 PROVE \E m \in S : \A k \in S : m <= k
<1>1. PICK m \in S : \A k \in S : ~(<<k, m>> \in OpToRel(<, Nat))
  BY NatLessThanWellFounded, WFMin
<1>2. \A k \in S : ~(k < m)
  BY <1>1 DEF OpToRel
<1>3. ASSUME NEW k \in S
      PROVE  m <= k
  <2>1. k \in Nat /\ m \in Nat /\ ~(k < m)
    BY <1>1, <1>2
  <2>2. QED
    BY <2>1
<1>4. QED
  BY <1>1, <1>3

(* An unpainted word bounds the measure from below: the search from the low    *)
(* end stops at it at the latest.                                              *)
LEMMA UsageAtLeast ==
  ASSUME NEW t \in Tasks, NEW p \in Patterns, NEW d \in 0..Words,
         d = 0 \/ Unpainted(machine.mem[t][d])
  PROVE  get_stack_usage(t, p) >= 8 * d
<1> DEFINE differs == {i \in 0..(2 * Words - 1) : machine.mem[t][Words - i \div 2] # <<p>>}
           least == CHOOSE i \in differs : \A j \in differs : i <= j
<1>1. Words \in Nat /\ Words >= 9 /\ d \in Nat /\ d <= Words
  BY WordsAssumption
<1>2. find_mismatch(t, p) = IF differs = {} THEN Null ELSE least
  BY DEF find_mismatch
<1>3. get_stack_usage(t, p) = IF find_mismatch(t, p) = Null THEN 8 * Words
                              ELSE 8 * Words - find_mismatch(t, p)
  BY DEF get_stack_usage
<1>4. differs \in SUBSET Nat /\ differs \in SUBSET (0..(2 * Words - 1))
  BY <1>1
<1>5. ASSUME d # 0 PROVE 2 * (Words - d) \in differs
  <2> DEFINE i == 2 * (Words - d)
  <2>1. i \in 0..(2 * Words - 1) /\ i \div 2 = Words - d /\ Words - (Words - d) = d
    BY <1>1, <1>5
  <2>2. machine.mem[t][Words - i \div 2] # <<p>>
    BY <1>5, <2>1 DEF Unpainted
  <2> HIDE DEF i
  <2>3. i \in differs
    BY <2>1, <2>2
  <2>4. QED
    BY <2>3 DEF i
<1> HIDE DEF differs
<1>6. CASE differs = {}
  BY <1>1, <1>2, <1>3, <1>6
<1>7. CASE differs # {}
  <2>1. least \in differs /\ \A j \in differs : least <= j
    BY <1>4, <1>7, LeastOf
  <2> HIDE DEF least
  <2>2. least \in Nat /\ least <= 2 * Words - 1
    BY <1>1, <1>4, <2>1
  <2>3. d # 0 => least <= 2 * (Words - d)
    BY <1>5, <2>1
  <2>4. 8 * Words - least >= 8 * d
    BY <1>1, <2>2, <2>3
  <2>5. QED
    BY <1>1, <1>2, <1>3, <1>7, <2>4
<1>8. QED
  BY <1>6, <1>7

(* No task needs more of its painted stack than the measure reports: neither   *)
(* the task that runs nor one that waits for its turn or is being reclaimed.   *)
THEOREM UsageBound == Spec => []UsageNeverTooLow
<1>1. IInv => UsageNeverTooLow
  <2> SUFFICES ASSUME IInv, NEW t \in Painted, NEW p \in Patterns
               PROVE  get_stack_usage(t, p) >= 8 * InUse(t)
    BY DEF UsageNeverTooLow
  <2>1. t \in Tasks /\ build # "jump" /\ status[t] # "FREED" /\ t # Main
    BY TasksAssumption DEF Painted
  <2>2. CASE rsp[1] = t
    <3>1. rip \in TaskPlaces
      BY <2>1, <2>2, MainStandsOn
    <3>2. PICK d \in 0..Words : /\ rsp = <<current, d>>
                                /\ d = 0 \/ Unpainted(machine.mem[current][d])
      BY <3>1, StandsOn
    <3>3. current = t /\ InUse(t) = d
      BY <2>2, <3>2 DEF InUse
    <3>4. QED
      BY <2>1, <3>2, <3>3, UsageAtLeast
  <2>3. CASE rsp[1] # t
    <3>1. Marked(build, machine.mem[t], machine.cont[t])
      BY <2>1 DEF IInv, PaintInv
    <3> DEFINE d == Saved(build, machine.cont[t], "rsp")[2]
    <3>2. d \in 1..Words /\ Unpainted(machine.mem[t][d])
      BY <3>1 DEF Marked
    <3>3. InUse(t) = d
      BY <2>1, <2>3 DEF InUse, Saved, IInv, TypeInv, Builds
    <3> HIDE DEF d
    <3>4. d \in 0..Words
      BY <3>2, WordsAssumption
    <3>5. QED
      BY <2>1, <3>2, <3>3, <3>4, UsageAtLeast
  <2>4. QED
    BY <2>2, <2>3
<1>2. QED
  BY <1>1, AlwaysIInv, PTL

(* Where task_yield returns to the function, in whatever turn, registers, stack *)
(* pointer and words of the stack are those the function called it with.       *)
THEOREM ComesBack == Spec => ResumesAsItLeft
<1>1. IInv /\ [Next]_vars => [rip = "yielded" /\ rip' = "func" => View(machine') = left[current]]_vars
  <2> SUFFICES ASSUME IInv, Next, rip = "yielded", rip' = "func"
               PROVE  View(machine') = left[current]
    OBVIOUS
  <2> DEFINE t == current
  <2>1. Yielded
    BY DEF Next, CreateTask, Dispatch, SwitchToTask, StartTask, ResumeTask, ChooseTask, RunTasks,
           Reclaim, RunTasksReturns, TaskCall, Compute, Recurse, FuncReturns, CallTaskYield,
           TaskYield, TaskCallEnds, LinkEnds, ScheduleTaskEnds, Running
  <2>2. /\ t \in Tasks /\ t \in Stacks /\ Shape(machine)
        /\ AtYielded(build, t, machine, status[t], left[t])
    BY RunningIs DEF Active, TaskPlaces
  <2>3. PICK k \in 1..Words :
            /\ Yielding(build, t, machine.mem[t], left[t], k, machine.reg)
            /\ machine.mem[t][2 * k + 2] = <<t, 2 * k>>
            /\ machine.reg["rsp"] = <<t, 2 * k + 2>> /\ machine.reg["rbp"] = <<t, 2 * k + 2>>
            /\ (build = "jump" /\ machine.rax = 0 =>
                   SuspendedAt(build, t, machine.mem[t], machine.cont[t], left[t], k))
    BY <2>2 DEF AtYielded
  <2>4. /\ 2 * k + 2 \in 2..Words /\ (2 * k + 2) - 2 = 2 * k /\ (2 * k + 2) - 1 = 2 * k + 1
        /\ 2 * k + 2 \in 0..(Words - 1)
    BY <2>3, WordsAssumption DEF Yielding, Frames
  <2>5. ~(build = "jump" /\ machine.rax = 0)
    <3> SUFFICES ASSUME build = "jump", machine.rax = 0 PROVE FALSE
      OBVIOUS
    <3>1. machine' = my_longjmp(Call(machine, "unreached"), Main, 1)
      BY <2>1 DEF Yielded
    <3>2. machine'.rip = "entered"
      BY <2>3, <2>4, <3>1, JumpsToMain DEF TaskPlaces
    <3>3. QED
      BY <3>2 DEF rip
  <2>6. machine' = Epilogue(machine)
    BY <2>1, <2>5 DEF Yielded
  <2>7. machine' = Moved(machine, <<t, 2 * k>>, <<t, 2 * k>>, machine.mem[t][2 * k + 1][1])
    <3> DEFINE d == 2 * k + 2
    <3>1. /\ d \in 2..Words /\ d - 2 = 2 * k /\ d - 1 = 2 * k + 1
          /\ machine.mem[t][d] = <<t, 2 * k>> /\ machine.reg["rbp"] = <<t, d>>
      BY <2>3, <2>4
    <3> HIDE DEF d
    <3>2. machine' = Moved(machine, <<t, d - 2>>, machine.mem[t][d], machine.mem[t][d - 1][1])
      BY <2>2, <2>6, <3>1, EpilogueIs
    <3>3. QED
      BY <3>1, <3>2
  <2>8. /\ machine'.reg = Pointers(machine.reg, <<t, 2 * k>>, <<t, 2 * k>>)
        /\ machine'.mem = machine.mem /\ machine'.reg["rsp"] = <<t, 2 * k>>
    BY <2>2, <2>7, MovedIs, PointersAre
  <2>9. View(machine') = <<machine'.reg, SubSeq(machine.mem[t], 1, 2 * k)>>
    BY <2>8 DEF View
  <2>10. QED
    BY <2>3, <2>8, <2>9 DEF Yielding
<1>2. QED
  BY <1>1, AlwaysIInv, PTL DEF Spec, ResumesAsItLeft

(* The task that task_call or schedule_task marks as finished is the one whose *)
(* function has returned: the parameter schedule_task reads in the frame it    *)
(* left long ago was written by the call that gave this task its turn.         *)
THEOREM MarksItself == Spec => FinishMarksItself
<1>1. IInv /\ [Next]_vars =>
        [\A t \in Tasks : status[t] # "FINISHED" /\ status'[t] = "FINISHED"
                              => rip \in {"called", "scheduled"} /\ rsp[1] = t]_vars
  <2> SUFFICES ASSUME IInv, Next, NEW t \in Tasks, status[t] # "FINISHED", status'[t] = "FINISHED"
               PROVE  rip \in {"called", "scheduled"} /\ rsp[1] = t
    OBVIOUS
  <2>1. status = [u \in Tasks |-> status[u]]
    BY DEF IInv, TypeInv
  <2>2. ASSUME TaskCallEnds \/ ScheduleTaskEnds
        PROVE  rip \in {"called", "scheduled"} /\ rsp[1] = t
    <3>1. rip \in {"called", "scheduled"} /\ rip \in TaskPlaces
      BY <2>2 DEF TaskCallEnds, ScheduleTaskEnds, Running, TaskPlaces
    <3>2. status' = [status EXCEPT ![current] = "FINISHED"]
      BY <2>2, ScheduleTaskEndsKeeps DEF TaskCallEnds
    <3>3. t = current
      BY <2>1, <3>2
    <3>4. QED
      BY <3>1, <3>3, StandsOn
  <2>3. ASSUME ~TaskCallEnds, ~ScheduleTaskEnds
        PROVE  UNCHANGED status \/ \E u \in Tasks, s \in {"CREATED", "RUNNING", "FREED"} :
                                       status' = [status EXCEPT ![u] = s]
    BY <2>3, TasksAssumption DEF Next, CreateTask, Dispatch, SwitchToTask, StartTask, ResumeTask,
       RunTasks, RunTasksReturns, TaskCall, Compute, Recurse, FuncReturns,
       CallTaskYield, TaskYield, Yielded, LinkEnds, IInv, TypeInv, Reclaim
  <2>4. QED
    BY <2>1, <2>2, <2>3
<1>2. QED
  BY <1>1, AlwaysIInv, PTL DEF Spec, FinishMarksItself

-----------------------------------------------------------------------------
(* Whose turn it is, by the place of the code instead of the stack pointer.    *)
Turning == IF rip \in TaskPlaces /\ status[current] # "FINISHED" THEN current ELSE Null

TurnFits ==
    Turning = IF rsp[1] \in Tasks /\ status[rsp[1]] # "FINISHED" THEN rsp[1] ELSE Null

(* In a state of the invariant, and in the next one.                           *)
LEMMA TurnFound == (IInv => TurnFits) /\ (IInv' => TurnFits')
<1>1. IInv => TurnFits
  <2> SUFFICES ASSUME IInv PROVE TurnFits
    OBVIOUS
  <2>1. CASE rip \in TaskPlaces
    BY <2>1, StandsOn, RunningIs DEF TurnFits, Turning
  <2>2. CASE rip \notin TaskPlaces
    BY <2>2, MainStandsOn, TasksAssumption DEF TurnFits, Turning
  <2>3. QED
    BY <2>1, <2>2
<1>2. QED
  BY <1>1, PTL

(* The tasks that will have a turn are those of the list, but for one that has *)
(* finished: it had the last turn and is at the tail.                          *)
WaitingFits ==
    /\ (\A t \in Tasks : status[t] # "FINISHED") => Waiting = queue
    /\ \A t \in Tasks : status[t] = "FINISHED" =>
          /\ t = current /\ Waiting = RemoveAt(queue, Len(queue))
          /\ Len(queue) \in 1..Len(queue) /\ queue[Len(queue)] = t

(* In a state of the invariant, and in the next one.                           *)
LEMMA WaitingFound == (IInv => WaitingFits) /\ (IInv' => WaitingFits')
<1>1. IInv => WaitingFits
  <2> SUFFICES ASSUME IInv PROVE WaitingFits
    OBVIOUS
  <2>1. /\ queue \in Seq(Tasks) /\ DOMAIN queue = 1..Len(queue) /\ Len(queue) \in Nat
        /\ \A k \in 1..Len(queue) : queue[k] \in Tasks
    BY DEF IInv, TypeInv
  <2>2. ASSUME \A t \in Tasks : status[t] # "FINISHED"
        PROVE  Waiting = queue
    BY <2>1, <2>2 DEF Waiting
  <2>3. ASSUME NEW t \in Tasks, status[t] = "FINISHED"
        PROVE  /\ t = current /\ Waiting = RemoveAt(queue, Len(queue))
               /\ Len(queue) \in 1..Len(queue) /\ queue[Len(queue)] = t
    <3>1. \A u \in Tasks : status[u] = "FINISHED" => u = current
      BY DEF IInv, TaskInv, Runs
    <3>2. t = current /\ Turn
      BY <2>3, <3>1, TasksAssumption DEF IInv, TaskInv, Runs, Turn
    <3>3. Len(queue) \in 1..Len(queue) /\ queue[Len(queue)] = t
      BY <2>1, <3>2 DEF IInv, QueueInv
    <3>4. \A k \in 1..Len(queue) : status[queue[k]] = "FINISHED" <=> k = Len(queue)
      BY <2>1, <2>3, <3>1, <3>2, <3>3 DEF IInv, QueueInv
    <3>5. Waiting = RemoveAt(queue, Len(queue))
      <4> DEFINE c == CHOOSE k \in DOMAIN queue : status[queue[k]] = "FINISHED"
      <4>1. c = Len(queue) /\ \E k \in DOMAIN queue : status[queue[k]] = "FINISHED"
        BY <2>1, <3>3, <3>4
      <4>2. Waiting = RemoveAt(queue, c)
        BY <4>1 DEF Waiting
      <4> HIDE DEF c
      <4>3. QED
        BY <4>1, <4>2
    <3>6. QED
      BY <3>2, <3>3, <3>5
  <2>4. QED
    BY <2>2, <2>3 DEF WaitingFits
<1>2. QED
  BY <1>1, PTL

(* Reclaim takes the finished task out of the list. *)
LEMMA RemovedIs ==
  ASSUME NEW q \in Seq(Tasks), NEW t, Len(q) > 0, q[Len(q)] = t,
         \A j, k \in 1..Len(q) : q[j] = q[k] => j = k
  PROVE  remove_task_tail(q, t) = RemoveAt(q, Len(q))
<1> DEFINE r == remove_task_tail(q, t)
           n == Len(q)
<1>1. /\ r \in Seq(Tasks) /\ n \in Nat /\ Len(r) = n - 1
      /\ \A i \in 1..(n - 1) : r[i] = q[i]
  BY RemoveLast
<1>2. RemoveAt(q, n) = [i \in 1..(n - 1) |-> IF i < n THEN q[i] ELSE q[i + 1]]
  BY DEF RemoveAt
<1> HIDE DEF r, n
<1>3. r = [i \in 1..(n - 1) |-> r[i]]
  BY <1>1
<1>4. QED
  BY <1>1, <1>2, <1>3 DEF r, n

(* Each step of the machine is a step of the queue, or leaves the queue alone. *)
LEMMA StepTurns == ASSUME IInv, [Next]_vars PROVE [RR!Next]_(RR!vars)
<1>1. IInv' /\ TurnFits /\ TurnFits' /\ WaitingFits /\ WaitingFits'
  BY NextIInv, TurnFound, WaitingFound
<1>2. /\ RR!vars = <<Waiting, Turning>> /\ RR!vars' = <<Waiting', Turning'>>
  BY <1>1 DEF RR!vars, TurnFits
<1>3. /\ rip \notin TaskPlaces => Turning = Null
      /\ rip' \notin TaskPlaces => Turning' = Null
      /\ current' = Null => Turning' = Null
  BY DEF Turning
(* The code of the tasks. *)
<1>4. ASSUME rip \in TaskPlaces, UNCHANGED <<queue, current, status>>
      PROVE  [RR!Next]_(RR!vars)
  <2>1. Waiting' = Waiting
    BY <1>4 DEF Waiting
  <2>2. current # Null
    BY <1>4, RunningIs, TasksAssumption
  <2>3. Turning' = Turning \/ (Turning # Null /\ Turning' = Null)
    BY <1>4, <2>2 DEF Turning
  <2>4. CASE Turning' = Turning
    BY <1>2, <2>1, <2>4
  <2>5. CASE Turning # Null /\ Turning' = Null
    <3>1. RR!Yield
      BY <1>1, <2>1, <2>5 DEF RR!Yield, TurnFits
    <3>2. QED
      BY <3>1 DEF RR!Next
  <2>6. QED
    BY <2>3, <2>4, <2>5
<1>5. ASSUME TaskCallEnds \/ ScheduleTaskEnds
      PROVE  [RR!Next]_(RR!vars)
  <2>1. /\ rip \in {"called", "scheduled"} /\ rip \in TaskPlaces /\ UNCHANGED <<queue, current>>
        /\ status' = [status EXCEPT ![current] = "FINISHED"]
    BY <1>5, ScheduleTaskEndsKeeps DEF TaskCallEnds, ScheduleTaskEnds, Running, TaskPlaces
  <2>2. /\ current \in Tasks /\ Active(build, current, machine, status[current], left[current])
        /\ machine.rip = rip /\ status = [u \in Tasks |-> status[u]]
    BY <2>1, RunningIs
  <2>3. status[current] # "FINISHED" /\ status'[current] = "FINISHED"
    BY <2>1, <2>2 DEF Active, AtCalled, AtScheduled, Unfinished
  <2>4. \A u \in Tasks : status[u] # "FINISHED"
    BY <1>1, <2>3 DEF WaitingFits
  <2>5. Waiting = queue
    BY <1>1, <2>4 DEF WaitingFits
  <2>6. /\ Waiting' = RemoveAt(queue, Len(queue)) /\ Len(queue) \in 1..Len(queue)
        /\ queue[Len(queue)] = current
    BY <1>1, <2>1, <2>2, <2>3 DEF WaitingFits
  <2>7. Turning = current /\ Turning' = Null /\ current # Null
    BY <2>1, <2>2, <2>3, TasksAssumption DEF Turning
  <2>8. DOMAIN queue = 1..Len(queue)
    BY DEF IInv, TypeInv
  <2>9. RR!Finish
    BY <1>1, <2>5, <2>6, <2>7, <2>8 DEF RR!Finish, RR!RemoveAt, RemoveAt, TurnFits
  <2>10. QED
    BY <2>9 DEF RR!Next
(* run_tasks and main. *)
<1>6. ASSUME NEW t \in Tasks, CreateTask(t)
      PROVE  [RR!Next]_(RR!vars)
  <2>1. /\ rip = "main" /\ rip \notin TaskPlaces /\ rip \notin {"switched", "entered"}
        /\ status[t] = "FREED" /\ status' = [status EXCEPT ![t] = "CREATED"]
        /\ queue' = Append(queue, t)
    BY <1>6 DEF CreateTask, TaskPlaces
  <2>2. rip' \notin TaskPlaces
    BY <1>6, <2>1, CreatedIs DEF rip
  <2>3. /\ \A u \in Tasks : status[u] # "FINISHED"
        /\ status = [u \in Tasks |-> status[u]]
    BY <2>1, IdleIs DEF IInv, TypeInv
  <2>4. \A u \in Tasks : status'[u] # "FINISHED"
    BY <2>1, <2>3
  <2>5. Waiting = queue /\ Waiting' = Append(queue, t)
    BY <1>1, <2>1, <2>3, <2>4 DEF WaitingFits
  <2>6. \A k \in 1..Len(queue) : queue[k] # t
    BY <2>1 DEF IInv, QueueInv
  <2>7. t \notin RR!Range(queue)
    BY <2>6 DEF RR!Range, IInv, TypeInv
  <2>8. RR!Submit(t)
    BY <1>1, <1>3, <2>1, <2>2, <2>5, <2>7 DEF RR!Submit, TurnFits
  <2>9. QED
    BY <2>8 DEF RR!Next
<1>7. ASSUME NEW t \in Tasks, Dispatch(t)
      PROVE  [RR!Next]_(RR!vars)
  <2>1. /\ rip = "loop" /\ rip \notin TaskPlaces /\ rip \notin {"switched", "entered"}
        /\ queue # <<>> /\ t = Head(queue) /\ queue' = Append(Tail(queue), t) /\ current' = t
    BY <1>7 DEF Dispatch, SwitchToTask, StartTask, ResumeTask, ChooseTask, TaskPlaces
  <2>2. rip' \in TaskPlaces
    BY <1>7, SwitchToTaskKeeps, StartTaskKeeps, ResumeTaskKeeps DEF Dispatch
  <2>3. /\ \A u \in Tasks : status[u] # "FINISHED"
        /\ status = [u \in Tasks |-> status[u]]
    BY <2>1, IdleIs DEF IInv, TypeInv
  <2>4. status' = status \/ status' = [status EXCEPT ![t] = "RUNNING"]
    BY <1>7 DEF Dispatch, SwitchToTask, StartTask, ResumeTask
  <2>5. \A u \in Tasks : status'[u] # "FINISHED"
    BY <2>3, <2>4
  <2>6. Waiting = queue /\ Waiting' = Append(Tail(queue), t)
    BY <1>1, <2>1, <2>3, <2>5 DEF WaitingFits
  <2>7. Turning = Null /\ Turning' = t
    BY <2>1, <2>2, <2>5 DEF Turning
  <2>8. RR!Dispatch
    BY <1>1, <2>1, <2>6, <2>7 DEF RR!Dispatch, TurnFits
  <2>9. QED
    BY <2>8 DEF RR!Next
<1>8. CASE Reclaim
  <2>1. rip \in {"switched", "entered"} /\ rip \notin TaskPlaces /\ machine' = Goto(machine, "loop")
    BY <1>8 DEF Reclaim, TaskPlaces
  <2>2. rip' \notin TaskPlaces
    BY <2>1, GotoIs DEF IInv, TypeInv, Moved, rip, TaskPlaces
  <2>3. \A u \in Tasks : status'[u] # "FINISHED"
    BY <1>1, <2>1, <2>2, GotoIs DEF IInv, TypeInv, TaskInv, Runs, Moved, rip
  <2>4. Waiting' = queue'
    BY <1>1, <2>3 DEF WaitingFits
  <2>5. CASE current # Null /\ status[current] = "FINISHED"
    <3>1. current \in Tasks /\ queue' = remove_task_tail(queue, current)
      BY <1>8, <2>5 DEF Reclaim, IInv, TypeInv
    <3>2. /\ Waiting = RemoveAt(queue, Len(queue)) /\ Len(queue) \in 1..Len(queue)
          /\ queue[Len(queue)] = current
      BY <1>1, <2>5, <3>1 DEF WaitingFits
    <3>3. queue' = RemoveAt(queue, Len(queue))
      <4>1. /\ queue \in Seq(Tasks) /\ Len(queue) > 0
            /\ \A j, k \in 1..Len(queue) : queue[j] = queue[k] => j = k
        BY <3>2 DEF IInv, TypeInv, QueueInv
      <4>2. QED
        BY <3>1, <3>2, <4>1, RemovedIs
    <3>4. QED
      BY <1>2, <1>3, <2>1, <2>2, <2>4, <3>2, <3>3
  <2>6. CASE ~(current # Null /\ status[current] = "FINISHED")
    <3>1. queue' = queue /\ status' = status
      BY <1>8, <2>6 DEF Reclaim
    <3>2. QED
      BY <1>1, <1>2, <1>3, <2>1, <2>2, <2>3, <2>4, <3>1 DEF WaitingFits
  <2>7. QED
    BY <2>5, <2>6
<1>9. CASE RunTasks \/ RunTasksReturns
  <2>1. /\ rip \in {"main", "loop"} /\ rip \notin TaskPlaces /\ UNCHANGED <<queue, status>>
    BY <1>9 DEF RunTasks, RunTasksReturns, TaskPlaces
  <2>2. current' = Null
    BY <1>9 DEF RunTasks, RunTasksReturns, IInv, MainInv
  <2>3. Waiting' = Waiting
    BY <2>1 DEF Waiting
  <2>4. QED
    BY <1>2, <1>3, <2>1, <2>2, <2>3
<1>10. CASE UNCHANGED vars
  BY <1>2, <1>10 DEF vars, Waiting, Turning, rip
<1>11. ASSUME \/ TaskCall \/ (\E v \in {0, 1} : Compute(v)) \/ Recurse \/ FuncReturns
              \/ CallTaskYield \/ TaskYield \/ Yielded \/ LinkEnds
       PROVE  rip \in TaskPlaces /\ UNCHANGED <<queue, current, status>>
  BY <1>11 DEF TaskCall, Compute, Recurse, FuncReturns, CallTaskYield, TaskYield, Yielded,
     LinkEnds, Running, TaskPlaces
<1>12. QED
  BY <1>4, <1>5, <1>6, <1>7, <1>8, <1>9, <1>10, <1>11 DEF Next

(* The machine gives turns as the queue of RoundRobin does: no switch of stacks *)
(* goes to a task whose turn it is not, and none loses or repeats a task.       *)
THEOREM ImplementsTurns == Spec => TakesTurns
<1>1. Init => RR!Init
  <2> SUFFICES ASSUME Init PROVE RR!Init
    OBVIOUS
  <2>1. queue = <<>> /\ IInv
    BY InitIInv DEF Init
  <2>2. rip \notin TaskPlaces
    BY DEF Init, rip, TaskPlaces
  <2>3. Waiting = queue
    BY <2>1 DEF Waiting
  <2>4. TurnFits /\ Turning = Null
    BY <2>1, <2>2, TurnFound DEF Turning
  <2>5. QED
    BY <2>1, <2>3, <2>4 DEF RR!Init, TurnFits
<1>2. IInv /\ [Next]_vars => [RR!Next]_(RR!vars)
  BY StepTurns
<1>3. QED
  BY <1>1, <1>2, AlwaysIInv, PTL DEF Spec, TakesTurns
============================================================================
