-------------------------- MODULE SwitchingInvariant -----------------------
(***************************************************************************)
(* The three ways of changing stacks, for any number of tasks and stacks   *)
(* of any size that holds the deepest call: what lies on a stack while its *)
(* task is away is what the task will return through.                      *)
(***************************************************************************)
EXTENDS SwitchingLemmas

(* The registers of run_tasks in its loop, and of main outside of it.          *)
LoopRegs == [r \in Registers |-> IF r \in {"rsp", "rbp"} THEN <<Main, 2>> ELSE <<r, Main, 0>>]
MainRegs == [r \in Registers |-> IF r = "rsp" THEN <<Main, 0>> ELSE <<r, Main, 0>>]

(* The frame pointer a task of the asm and of the context build starts with.   *)
OldRbp == {Junk, <<"rbp", Main, 0>>}

Unfinished(b) == IF b = "jump" THEN "RUNNING" ELSE "CREATED"

(* The first words of the stack of a task, written before its function begins, *)
(* and the frames of the calls below them: k frames take 2 * k words.          *)
BaseFrames(b) == IF b = "jump" THEN 1 ELSE 2

Entry(b, stack) ==
    b # "jump" /\ stack[1] = IF b = "asm" THEN <<"task_yield">> ELSE <<"link">>

Bottom(b, t, stack) ==
    /\ b = "jump" => stack[1] = <<"scheduled">> /\ stack[2] = <<Main, 4>>
    /\ b # "jump" => /\ Entry(b, stack) /\ stack[2] \in OldRbp
                     /\ stack[3] = <<"called">> /\ stack[4] = <<t, 2>>

Frames(b, t, stack, k) ==
    /\ Bottom(b, t, stack)
    /\ BaseFrames(b) <= k /\ 2 * k + 3 <= Words
    /\ \A j \in (BaseFrames(b) + 1)..k : /\ stack[2 * j - 1] = <<"func">>
                                         /\ stack[2 * j] = <<t, 2 * j - 2>>

(* A function k frames deep has called task_yield, with these other registers. *)
Yielding(b, t, stack, l, k, reg) ==
    /\ Frames(b, t, stack, k)
    /\ stack[2 * k + 1] = <<"func">>
    /\ l = <<Pointers(reg, <<t, 2 * k>>, <<t, 2 * k>>), SubSeq(stack, 1, 2 * k)>>

(* A task that has not started. *)
Fresh(b, t, stack, cont, s, l) ==
    /\ l = <<>> /\ s = "CREATED"
    /\ b # "jump" => Entry(b, stack) /\ Saved(b, cont, "rbp") \in OldRbp
    /\ b = "asm" => stack[2] = <<"task_call">> /\ Saved(b, cont, "rsp") = <<t, 2>>
    /\ b = "context" => cont["rip"] = <<"task_call">> /\ Saved(b, cont, "rsp") = <<t, 1>>

(* A continuation that goes on in task_yield.                                  *)
SavedAt(b, t, stack, cont, k) ==
    /\ Saved(b, cont, "rbp") = <<t, 2 * k + 2>>
    /\ Saved(b, cont, "rsp") = <<t, IF b = "asm" THEN 2 * k + 3 ELSE 2 * k + 2>>
    /\ b = "asm" => stack[2 * k + 3] = <<"yielded">>
    /\ b = "context" => cont["rip"] = <<"yielded">>
    /\ b = "jump" => cont[8] = <<"yielded">>

(* A task that waits for its next turn. *)
SuspendedAt(b, t, stack, cont, l, k) ==
    /\ Yielding(b, t, stack, l, k, [r \in Registers |-> Saved(b, cont, r)])
    /\ stack[2 * k + 2] = <<t, 2 * k>>
    /\ SavedAt(b, t, stack, cont, k)

Away(b, t, stack, cont, s, l) ==
    \/ Fresh(b, t, stack, cont, s, l)
    \/ s = Unfinished(b) /\ \E k \in 1..Words : SuspendedAt(b, t, stack, cont, l, k)

(* The task that runs, at each of its places. *)
AtTaskCall(b, t, m, s, l) ==
    /\ s = Unfinished(b) /\ l = <<>> /\ Entry(b, m.mem[t])
    /\ m.reg["rsp"] = <<t, 1>> /\ m.reg["rbp"] \in OldRbp

AtFunc(b, t, m, s, l) ==
    /\ s = Unfinished(b) /\ l = <<>>
    /\ \E k \in 1..Words : /\ Frames(b, t, m.mem[t], k)
                           /\ m.reg["rsp"] = <<t, 2 * k>> /\ m.reg["rbp"] = <<t, 2 * k>>

AtCalled(b, t, m, s, l) ==
    /\ s = Unfinished(b) /\ l = <<>> /\ Entry(b, m.mem[t]) /\ m.mem[t][2] \in OldRbp
    /\ m.reg["rsp"] = <<t, 2>> /\ m.reg["rbp"] = <<t, 2>>

AtScheduled(b, t, m, s, l) ==
    /\ s = Unfinished(b) /\ l = <<>> /\ b = "jump"
    /\ m.reg["rsp"] = <<t, 0>> /\ m.reg["rbp"] = <<Main, 4>>

AtLink(b, t, m, s, l) ==
    s = "FINISHED" /\ l = <<>> /\ b = "context" /\ m.reg["rsp"] = <<t, 0>>

AtTaskYield(b, t, m, s, l) ==
    \/ /\ s = "FINISHED" /\ l = <<>> /\ b = "asm"
       /\ m.reg["rsp"] = <<t, 0>> /\ m.reg["rbp"] \in OldRbp
    \/ /\ s = Unfinished(b)
       /\ \E k \in 1..Words : /\ Yielding(b, t, m.mem[t], l, k, m.reg)
                              /\ m.reg["rsp"] = <<t, 2 * k + 1>>
                              /\ m.reg["rbp"] = <<t, 2 * k>>

AtYielded(b, t, m, s, l) ==
    /\ s = Unfinished(b)
    /\ \E k \in 1..Words :
          /\ Yielding(b, t, m.mem[t], l, k, m.reg)
          /\ m.mem[t][2 * k + 2] = <<t, 2 * k>>
          /\ m.reg["rsp"] = <<t, 2 * k + 2>> /\ m.reg["rbp"] = <<t, 2 * k + 2>>
          /\ b = "jump" /\ m.rax = 0 => SuspendedAt(b, t, m.mem[t], m.cont[t], l, k)

Active(b, t, m, s, l) ==
    /\ m.rip = "task_call" => AtTaskCall(b, t, m, s, l)
    /\ m.rip = "func" => AtFunc(b, t, m, s, l)
    /\ m.rip = "called" => AtCalled(b, t, m, s, l)
    /\ m.rip = "scheduled" => AtScheduled(b, t, m, s, l)
    /\ m.rip = "link" => AtLink(b, t, m, s, l)
    /\ m.rip = "task_yield" => AtTaskYield(b, t, m, s, l)
    /\ m.rip = "yielded" => AtYielded(b, t, m, s, l)

Runs(t) == rip \in TaskPlaces /\ t = current

TaskInv(t) ==
    /\ status[t] = "FREED" => left[t] = <<>>
    /\ status[t] # "FREED" /\ Runs(t) => Active(build, t, machine, status[t], left[t])
    /\ status[t] = "FINISHED" /\ ~Runs(t) =>
          left[t] = <<>> /\ t = current /\ rip \in {"switched", "entered"}
    /\ status[t] \notin {"FREED", "FINISHED"} /\ ~Runs(t) =>
          Away(build, t, machine.mem[t], machine.cont[t], status[t], left[t])

(* What run_tasks and main find on their stack when they go on, and in the     *)
(* continuation they have left for a task.                                     *)
LoopFrame(stack) == stack[1] = <<"main">> /\ stack[2] = <<"rbp", Main, 0>>

Entered(cont) ==
    cont[8] = <<"entered">> /\ \A r \in Registers : Saved("jump", cont, r) = LoopRegs[r]

LeftFor(b, stack, cont, c) ==
    /\ b = "jump" => stack[5] = <<c>>
    /\ b = "asm" => /\ stack[3] = <<"switched">>
                    /\ \A r \in Registers :
                          Saved(b, cont, r) = IF r = "rsp" THEN <<Main, 3>> ELSE LoopRegs[r]
    /\ b = "context" => /\ cont["rip"] = <<"switched">>
                        /\ \A r \in Registers : Saved(b, cont, r) = LoopRegs[r]

MainInv ==
    /\ rip = "main" => machine.reg = MainRegs /\ current = Null
    /\ rip \in LoopPlaces => machine.reg = LoopRegs
    /\ rip # "main" => LoopFrame(machine.mem[Main])
    /\ rip # "main" /\ build = "jump" => Entered(machine.cont[Main])
    /\ rip \in TaskPlaces =>
          /\ current \in Tasks /\ status[current] # "FREED"
          /\ LeftFor(build, machine.mem[Main], machine.cont[Main], current)
    /\ rip = "switched" => build # "jump"
    /\ rip = "entered" => build = "jump"

(* The word a task is suspended at is one of its stack, and not painted.       *)
Marked(b, stack, cont) ==
    LET d == Saved(b, cont, "rsp")[2] IN d \in 1..Words /\ Unpainted(stack[d])

PaintInv ==
    \A t \in Tasks : build # "jump" /\ status[t] # "FREED" =>
                        Marked(build, machine.mem[t], machine.cont[t])

(* The list: the task that has had its turn last is at the tail.               *)
Turn == rip \in TaskPlaces \/ (rip \in {"switched", "entered"} /\ current # Null)

QueueInv ==
    /\ \A j, k \in 1..Len(queue) : queue[j] = queue[k] => j = k
    /\ \A t \in Tasks : status[t] # "FREED" <=> \E k \in 1..Len(queue) : queue[k] = t
    /\ Turn => Len(queue) > 0 /\ queue[Len(queue)] = current

TypeInv ==
    /\ build \in Builds /\ Shape(machine)
    /\ rip \in Places \ {"unreached"} /\ machine.rax \in {0, 1}
    /\ queue \in Seq(Tasks) /\ current \in Tasks \cup {Null}
    /\ status \in [Tasks -> Statuses] /\ left = [t \in Tasks |-> left[t]]

IInv == TypeInv /\ (\A t \in Tasks : TaskInv(t)) /\ MainInv /\ PaintInv /\ QueueInv
-----------------------------------------------------------------------------
(* What a step of the code of task t leaves alone. *)
OnlyTask(t) ==
    /\ UNCHANGED <<build, queue, current>>
    /\ Shape(machine') /\ machine'.rax \in {0, 1}
    /\ \A u \in Stacks \ {t} : machine'.mem[u] = machine.mem[u] /\ machine'.cont[u] = machine.cont[u]
    /\ \A u \in Tasks \ {t} : status'[u] = status[u] /\ left'[u] = left[u]
    /\ status' = [u \in Tasks |-> status'[u]] /\ status'[t] \in Statuses \ {"FREED"}
    /\ left' = [u \in Tasks |-> left'[u]]
    /\ build # "jump" => Marked(build, machine'.mem[t], machine'.cont[t])

(* Such a step keeps the types, the paint, the list and the other tasks.       *)
LEMMA OnlyTaskKeeps ==
  ASSUME IInv, NEW t \in Tasks, Runs(t), OnlyTask(t),
         machine'.rip \in TaskPlaces \cup {"switched", "entered"}
  PROVE  TypeInv' /\ PaintInv' /\ QueueInv' /\ \A u \in Tasks \ {t} : TaskInv(u)'
<1>1. t \in Stacks /\ status[t] # "FREED" /\ Tasks \subseteq Stacks
  BY DEF IInv, MainInv, Runs, Stacks
<1>2. TypeInv'
  <2>1. machine'.rip \in Places \ {"unreached"}
    BY DEF Places, TaskPlaces, LoopPlaces
  <2>2. status' \in [Tasks -> Statuses]
    BY DEF OnlyTask, IInv, TypeInv
  <2>3. QED
    BY <2>1, <2>2 DEF TypeInv, IInv, OnlyTask, rip
<1>3. PaintInv'
  <2>1. ASSUME NEW u \in Tasks, build # "jump", status'[u] # "FREED"
        PROVE  Marked(build, machine'.mem[u], machine'.cont[u])
    BY <1>1, <2>1 DEF IInv, PaintInv, OnlyTask
  <2>2. QED
    BY <2>1 DEF PaintInv, OnlyTask
<1>4. QueueInv'
  <2>1. \A u \in Tasks : status'[u] # "FREED" <=> status[u] # "FREED"
    BY <1>1 DEF OnlyTask
  <2>2. Turn
    BY DEF Runs, Turn
  <2>3. QED
    BY <2>1, <2>2 DEF IInv, QueueInv, OnlyTask
<1>5. ASSUME NEW u \in Tasks \ {t}
      PROVE  TaskInv(u)'
  <2>1. t = current /\ u # current
    BY DEF Runs
  <2>2. /\ status'[u] = status[u] /\ left'[u] = left[u] /\ build' = build /\ current' = current
        /\ machine'.mem[u] = machine.mem[u] /\ machine'.cont[u] = machine.cont[u]
    BY <1>1 DEF OnlyTask
  <2>3. TaskInv(u)
    BY DEF IInv
  <2>4. ~Runs(u) /\ ~Runs(u)'
    BY <2>1, <2>2 DEF Runs
  <2>5. QED
    BY <2>1, <2>2, <2>3, <2>4 DEF TaskInv
<1>6. QED
  BY <1>2, <1>3, <1>4, <1>5

(* A step of a task to another place of its code.                              *)
LEMMA TaskStep ==
  ASSUME IInv, NEW t \in Tasks, Runs(t), OnlyTask(t), machine'.rip \in TaskPlaces,
         Active(build, t, machine', status'[t], left'[t])
  PROVE  IInv'
<1>1. TypeInv' /\ PaintInv' /\ QueueInv' /\ \A u \in Tasks \ {t} : TaskInv(u)'
  BY OnlyTaskKeeps
<1>2. TaskInv(t)'
  BY DEF TaskInv, Runs, OnlyTask, rip
<1>3. MainInv'
  <2>1. Main \in Stacks \ {t}
    BY TasksAssumption DEF Stacks
  <2>2. /\ machine'.mem[Main] = machine.mem[Main] /\ machine'.cont[Main] = machine.cont[Main]
        /\ build' = build /\ current' = current
    BY <2>1 DEF OnlyTask
  <2>3. /\ rip' \in TaskPlaces /\ rip' # "main" /\ rip' \notin LoopPlaces
        /\ rip' # "switched" /\ rip' # "entered" /\ rip \in TaskPlaces /\ rip # "main"
    BY DEF Runs, rip, TaskPlaces, LoopPlaces
  <2>4. current \in Tasks /\ status'[current] # "FREED"
    BY DEF OnlyTask, Runs
  <2>5. QED
    BY <2>2, <2>3, <2>4 DEF IInv, MainInv
<1>4. QED
  BY <1>1, <1>2, <1>3 DEF IInv

(* A step of a task back to run_tasks.                                         *)
LEMMA LeaveStep ==
  ASSUME IInv, NEW t \in Tasks, Runs(t), OnlyTask(t),
         machine'.rip = IF build = "jump" THEN "entered" ELSE "switched",
         machine'.reg = LoopRegs,
         \/ status'[t] = "FINISHED" /\ left'[t] = <<>>
         \/ /\ status'[t] # "FINISHED"
            /\ Away(build, t, machine'.mem[t], machine'.cont[t], status'[t], left'[t])
  PROVE  IInv'
<1>1. TypeInv' /\ PaintInv' /\ QueueInv' /\ \A u \in Tasks \ {t} : TaskInv(u)'
  BY OnlyTaskKeeps
<1>2. /\ rip' \in {"switched", "entered"} /\ rip' \notin TaskPlaces /\ rip' # "main"
      /\ rip' = IF build = "jump" THEN "entered" ELSE "switched"
      /\ rip \in TaskPlaces /\ rip # "main"
  BY DEF Runs, rip, TaskPlaces, LoopPlaces
<1>3. TaskInv(t)'
  <2>1. build' = build /\ current' = t /\ status'[t] # "FREED"
    BY DEF OnlyTask, Runs
  <2>2. QED
    BY <1>2, <2>1 DEF TaskInv, Runs
<1>4. MainInv'
  <2>1. Main \in Stacks \ {t}
    BY TasksAssumption DEF Stacks
  <2>2. /\ machine'.mem[Main] = machine.mem[Main] /\ machine'.cont[Main] = machine.cont[Main]
        /\ build' = build
    BY <2>1 DEF OnlyTask
  <2>3. QED
    BY <1>2, <2>2 DEF IInv, MainInv
<1>5. QED
  BY <1>1, <1>3, <1>4 DEF IInv

(* Stacks that agree on their first words.                                     *)
LEMMA SubSeqEq ==
  ASSUME NEW f, f = [d \in 1..Words |-> f[d]], NEW g, g = [d \in 1..Words |-> g[d]],
         NEW n \in 0..Words, \A d \in 1..n : f[d] = g[d]
  PROVE  SubSeq(f, 1, n) = SubSeq(g, 1, n)
<1> DEFINE S == {f[d] : d \in 1..Words} \cup {g[d] : d \in 1..Words}
<1>1. /\ f \in Seq(S) /\ Len(f) = Words /\ g \in Seq(S) /\ Len(g) = Words
      /\ 1 \in 1..(Words + 1) /\ n \in (1 - 1)..Words
  BY WordsAssumption
<1> HIDE DEF S
<1>2. /\ SubSeq(f, 1, n) \in Seq(S) /\ Len(SubSeq(f, 1, n)) = n
      /\ \A i \in 1..n : SubSeq(f, 1, n)[i] = f[i]
  BY <1>1, SubSeqProperties, WordsAssumption
<1>3. /\ SubSeq(g, 1, n) \in Seq(S) /\ Len(SubSeq(g, 1, n)) = n
      /\ \A i \in 1..n : SubSeq(g, 1, n)[i] = g[i]
  BY <1>1, SubSeqProperties, WordsAssumption
<1>4. QED
  BY <1>2, <1>3, SeqEqual

(* What a task will return through is not disturbed by what happens below it. *)
LEMMA FramesKept ==
  ASSUME NEW b, NEW t \in Stacks, NEW m, NEW n, NEW d \in Nat, Above(m, n, t, d),
         NEW k \in Nat, 2 * k <= d, Frames(b, t, m.mem[t], k)
  PROVE  Frames(b, t, n.mem[t], k)
<1>1. \A i \in 1..Words : i <= d => n.mem[t][i] = m.mem[t][i]
  BY DEF Above, Kept
<1>2. BaseFrames(b) \in {1, 2} /\ BaseFrames(b) <= k /\ (b # "jump" => BaseFrames(b) = 2)
  BY DEF BaseFrames, Frames
<1>3. Bottom(b, t, n.mem[t])
  BY <1>1, <1>2, WordsAssumption DEF Frames, Bottom, Entry
<1>4. ASSUME NEW j \in (BaseFrames(b) + 1)..k
      PROVE  n.mem[t][2 * j - 1] = m.mem[t][2 * j - 1] /\ n.mem[t][2 * j] = m.mem[t][2 * j]
  <2>1. 2 * j - 1 \in 1..Words /\ 2 * j \in 1..Words /\ 2 * j - 1 <= d /\ 2 * j <= d
    BY <1>2, WordsAssumption DEF Frames
  <2>2. QED
    BY <1>1, <2>1
<1>5. QED
  BY <1>3, <1>4 DEF Frames

(* The call of a compiled function. *)
LEMMA CallFrame ==
  ASSUME NEW m, Shape(m), NEW s \in Stacks, NEW d \in 0..(Words - 2),
         m.reg["rsp"] = <<s, d>>, Unpainted(m.reg["rbp"]), NEW p \in Places
  PROVE  LET n == Prologue(Call(m, p))
         IN  /\ Shape(n) /\ SameRest(m, n) /\ n.rip = m.rip
             /\ n.reg = Pointers(m.reg, <<s, d + 2>>, <<s, d + 2>>)
             /\ n.mem[s][d + 1] = <<p>> /\ n.mem[s][d + 2] = m.reg["rbp"]
             /\ Above(m, n, s, d)
<1> DEFINE c == Call(m, p)
           n == Prologue(c)
<1>1. d \in 0..(Words - 1) /\ d + 1 \in 0..(Words - 1) /\ (d + 1) + 1 = d + 2 /\ d \in Nat
      /\ d + 1 \in 1..Words /\ d + 1 \in Nat /\ d <= d + 1
  BY WordsAssumption
<1>2. /\ Shape(c) /\ SameRest(m, c) /\ c.rip = m.rip
      /\ c.reg = Pointers(m.reg, <<s, d + 1>>, m.reg["rbp"])
      /\ c.mem[s][d + 1] = <<p>> /\ Above(m, c, s, d)
  BY <1>1, CallIs
<1> HIDE DEF c
<1>3. c.reg["rsp"] = <<s, d + 1>> /\ c.reg["rbp"] = m.reg["rbp"]
  BY <1>2, PointersAre
<1>4. /\ Shape(n) /\ SameRest(c, n) /\ n.rip = c.rip
      /\ n.reg = Pointers(c.reg, <<s, d + 2>>, <<s, d + 2>>)
      /\ n.mem[s][d + 2] = m.reg["rbp"] /\ Above(c, n, s, d + 1)
  BY <1>1, <1>2, <1>3, PrologueIs
<1> HIDE DEF n
<1>5. n.mem[s][d + 1] = <<p>>
  BY <1>1, <1>2, <1>4 DEF Above, Kept
<1>6. Above(m, n, s, d)
  BY <1>1, <1>2, <1>4, AboveTwice
<1>7. n.reg = Pointers(m.reg, <<s, d + 2>>, <<s, d + 2>>)
  BY <1>2, <1>4, PointersAre
<1>8. QED
  BY <1>2, <1>4, <1>5, <1>6, <1>7 DEF SameRest, n, c

(* What is known of the task that runs. *)
LEMMA RunningIs ==
  ASSUME IInv, rip \in TaskPlaces
  PROVE  /\ current \in Tasks /\ current \in Stacks /\ Runs(current) /\ Main \in Stacks /\ current # Main
         /\ status[current] \in Statuses \ {"FREED"} /\ Shape(machine) /\ build \in Builds
         /\ Active(build, current, machine, status[current], left[current])
         /\ status = [u \in Tasks |-> status[u]] /\ left = [u \in Tasks |-> left[u]]
         /\ machine.rip = rip /\ machine.rax \in {0, 1}
         /\ LeftFor(build, machine.mem[Main], machine.cont[Main], current)
         /\ (build = "jump" => Entered(machine.cont[Main]))
<1>1. current \in Tasks /\ status[current] # "FREED" /\ rip # "main"
  BY DEF IInv, MainInv, TaskPlaces
<1>2. status[current] \in Statuses /\ status = [u \in Tasks |-> status[u]]
  BY <1>1 DEF IInv, TypeInv
<1>3. TaskInv(current)
  BY <1>1 DEF IInv
<1>4. Runs(current)
  BY DEF Runs
<1>5. Active(build, current, machine, status[current], left[current])
  BY <1>1, <1>3, <1>4 DEF TaskInv
<1>6. QED
  BY <1>1, <1>2, <1>4, <1>5, TasksAssumption DEF IInv, TypeInv, MainInv, Stacks, rip

(* A step that writes to the stack of the running task and saves nothing. *)
LEMMA StackStep ==
  ASSUME IInv, NEW t \in Tasks, Runs(t), UNCHANGED <<build, queue, current>>,
         Shape(machine'), SameRest(machine, machine'), Above(machine, machine', t, 0),
         \/ UNCHANGED status
         \/ status' = [status EXCEPT ![t] = "FINISHED"],
         UNCHANGED left \/ \E l : left' = [left EXCEPT ![t] = l]
  PROVE  OnlyTask(t)
<1>1. /\ t \in Stacks /\ status[t] \in Statuses \ {"FREED"} /\ machine.rax \in {0, 1}
      /\ status = [u \in Tasks |-> status[u]] /\ left = [u \in Tasks |-> left[u]]
      /\ Tasks \subseteq Stacks
  BY RunningIs DEF Runs, Stacks
<1>2. status' = [u \in Tasks |-> status'[u]] /\ status'[t] \in Statuses \ {"FREED"}
      /\ \A u \in Tasks \ {t} : status'[u] = status[u]
  BY <1>1 DEF Statuses
<1>3. left' = [u \in Tasks |-> left'[u]] /\ \A u \in Tasks \ {t} : left'[u] = left[u]
  BY <1>1
<1>4. build # "jump" => Marked(build, machine'.mem[t], machine'.cont[t])
  <2>1. build # "jump" => Marked(build, machine.mem[t], machine.cont[t])
    BY <1>1 DEF IInv, PaintInv
  <2>2. QED
    BY <1>1, <2>1 DEF Marked, Above, Kept, SameRest
<1>5. QED
  BY <1>1, <1>2, <1>3, <1>4 DEF OnlyTask, SameRest, Above, Kept

(* A frame pointer a task starts with is not a painted word.                   *)
LEMMA OldRbpPlain == \A w \in OldRbp : Unpainted(w)
  BY PlainWords DEF OldRbp

(* task_call begins: the base of the frames of its task is written.            *)
LEMMA TaskCallKeeps ==
  ASSUME IInv, TaskCall
  PROVE  IInv'
<1> DEFINE t == current
           a == Prologue(machine)
           c == Prologue(Call(a, "called"))
<1>1. /\ rip = "task_call" /\ rip \in TaskPlaces /\ "called" \in Places /\ "func" \in TaskPlaces
      /\ machine' = Goto(c, "func")
      /\ UNCHANGED <<build, queue, current, status, left>>
  BY DEF TaskCall, Running, TaskPlaces, Places
<1>2. /\ t \in Tasks /\ t \in Stacks /\ Runs(t) /\ Shape(machine)
      /\ AtTaskCall(build, t, machine, status[t], left[t])
      /\ machine.rip = "task_call" /\ build # "jump"
  BY <1>1, RunningIs DEF Active, AtTaskCall, Entry
<1>3. /\ machine.reg["rsp"] = <<t, 1>> /\ machine.reg["rbp"] \in OldRbp
      /\ Unpainted(machine.reg["rbp"])
  BY <1>2, OldRbpPlain DEF AtTaskCall
<1>4. /\ 1 \in 0..(Words - 1) /\ 2 \in 0..(Words - 2) /\ 1 + 1 = 2 /\ 2 + 1 = 3 /\ 2 + 2 = 4
      /\ {0, 1, 2} \subseteq Nat /\ {2, 3, 4} \subseteq 1..Words
  BY WordsAssumption
<1>5. /\ Shape(a) /\ SameRest(machine, a) /\ a.rip = machine.rip
      /\ a.reg = Pointers(machine.reg, <<t, 2>>, <<t, 2>>)
      /\ a.mem[t][2] = machine.reg["rbp"] /\ Above(machine, a, t, 1)
  BY <1>2, <1>3, <1>4, PrologueIs
<1> HIDE DEF a
<1>6. a.reg["rsp"] = <<t, 2>> /\ a.reg["rbp"] = <<t, 2>> /\ Unpainted(a.reg["rbp"])
  BY <1>5, PointersAre, PlainWords
<1>7. /\ Shape(c) /\ SameRest(a, c) /\ c.rip = a.rip
      /\ c.reg = Pointers(a.reg, <<t, 4>>, <<t, 4>>)
      /\ c.mem[t][3] = <<"called">> /\ c.mem[t][4] = <<t, 2>> /\ Above(a, c, t, 2)
  BY <1>1, <1>2, <1>4, <1>5, <1>6, CallFrame
<1> HIDE DEF c
<1>8. /\ machine' = Moved(c, c.reg["rsp"], c.reg["rbp"], "func")
      /\ c.reg["rsp"] = <<t, 4>> /\ c.reg["rbp"] = <<t, 4>>
  BY <1>1, <1>7, GotoIs, PointersAre
<1>9. /\ Shape(machine') /\ SameRest(machine, machine') /\ machine'.mem = c.mem
      /\ machine'.rip = "func" /\ machine'.reg["rsp"] = <<t, 4>> /\ machine'.reg["rbp"] = <<t, 4>>
  BY <1>5, <1>7, <1>8, MovedIs, PointersAre DEF SameRest
<1>10. Above(machine, c, t, 0) /\ Above(machine, c, t, 1)
  BY <1>2, <1>4, <1>5, <1>7, AboveTwice DEF Above, Kept
<1>11. Frames(build, t, c.mem[t], 2)
  <2>1. Entry(build, c.mem[t])
    BY <1>2, <1>10, WordsAssumption DEF AtTaskCall, Entry, Above, Kept
  <2>2. c.mem[t][2] \in OldRbp
    BY <1>3, <1>4, <1>5, <1>7 DEF Above, Kept
  <2>3. QED
    BY <1>2, <1>7, <2>1, <2>2, WordsAssumption DEF Frames, Bottom, BaseFrames
<1>12. OnlyTask(t)
  BY <1>1, <1>2, <1>9, <1>10, StackStep DEF Above, Kept
<1>13. Active(build, t, machine', status'[t], left'[t])
  <2>1. AtFunc(build, t, machine', status'[t], left'[t])
    BY <1>1, <1>2, <1>9, <1>11, WordsAssumption DEF AtFunc, AtTaskCall
  <2>2. QED
    BY <1>9, <2>1 DEF Active
<1>14. QED
  BY <1>1, <1>2, <1>9, <1>12, <1>13, TaskStep

(* The function uses its registers, but not the two pointers.                  *)
LEMMA ComputeKeeps ==
  ASSUME IInv, NEW v \in {0, 1}, Compute(v)
  PROVE  IInv'
<1> DEFINE t == current
           new == [r \in Registers |-> IF r \in {"rsp", "rbp"} THEN machine.reg[r]
                                       ELSE <<r, current, v>>]
<1>1. /\ rip = "func" /\ rip \in TaskPlaces
      /\ machine' = [machine EXCEPT !.reg = new]
      /\ UNCHANGED <<build, queue, current, status, left>>
  BY DEF Compute, Running, TaskPlaces
<1>2. /\ t \in Tasks /\ t \in Stacks /\ Runs(t) /\ Shape(machine) /\ machine.rip = "func"
      /\ AtFunc(build, t, machine, status[t], left[t])
  BY <1>1, RunningIs DEF Active
<1>3. /\ new["rsp"] = machine.reg["rsp"] /\ new["rbp"] = machine.reg["rbp"]
      /\ new = [r \in Registers |-> new[r]]
  BY DEF Registers, CalleeSaved
<1> HIDE DEF new
<1>4. machine' = [reg |-> new, rax |-> machine.rax, rip |-> machine.rip, mem |-> machine.mem,
                  cont |-> machine.cont]
  BY <1>1, <1>2 DEF Shape
<1>5. /\ Shape(machine') /\ SameRest(machine, machine') /\ Above(machine, machine', t, 0)
      /\ machine'.rip = "func" /\ machine'.reg = new /\ machine'.mem = machine.mem
  BY <1>2, <1>3, <1>4 DEF Shape, SameRest, Above, Kept
<1>6. OnlyTask(t)
  BY <1>1, <1>2, <1>5, StackStep
<1>7. AtFunc(build, t, machine', status'[t], left'[t])
  BY <1>1, <1>2, <1>3, <1>5 DEF AtFunc
<1>8. QED
  BY <1>1, <1>2, <1>5, <1>6, <1>7, TaskStep DEF Active

(* The function calls itself: one frame more.                                  *)
LEMMA RecurseKeeps ==
  ASSUME IInv, Recurse
  PROVE  IInv'
<1> DEFINE t == current
           c == Prologue(Call(machine, "func"))
<1>1. /\ rip = "func" /\ rip \in TaskPlaces /\ "func" \in Places
      /\ rsp[2] + 5 <= Words /\ machine' = c
      /\ UNCHANGED <<build, queue, current, status, left>>
  BY DEF Recurse, Running, TaskPlaces, Places
<1>2. /\ t \in Tasks /\ t \in Stacks /\ Runs(t) /\ Shape(machine) /\ machine.rip = "func"
      /\ AtFunc(build, t, machine, status[t], left[t])
  BY <1>1, RunningIs DEF Active
<1>3. PICK k \in 1..Words : /\ Frames(build, t, machine.mem[t], k)
                            /\ machine.reg["rsp"] = <<t, 2 * k>> /\ machine.reg["rbp"] = <<t, 2 * k>>
  BY <1>2 DEF AtFunc
<1>4. /\ 2 * k + 5 <= Words /\ 2 * k \in 0..(Words - 2) /\ 2 * k \in Nat /\ k + 1 \in 1..Words
      /\ 2 * k + 1 = 2 * (k + 1) - 1 /\ 2 * k + 2 = 2 * (k + 1) /\ 2 * (k + 1) + 3 <= Words
      /\ 0 \in Nat /\ 0 <= 2 * k /\ 2 * (k + 1) - 2 = 2 * k /\ k \in Nat
  BY <1>1, <1>3, WordsAssumption DEF rsp
<1>5. /\ Shape(c) /\ SameRest(machine, c) /\ c.rip = machine.rip
      /\ c.reg = Pointers(machine.reg, <<t, 2 * k + 2>>, <<t, 2 * k + 2>>)
      /\ c.mem[t][2 * k + 1] = <<"func">> /\ c.mem[t][2 * k + 2] = <<t, 2 * k>>
      /\ Above(machine, c, t, 2 * k)
  BY <1>1, <1>2, <1>3, <1>4, CallFrame, PlainWords
<1> HIDE DEF c
<1>6. c.reg["rsp"] = <<t, 2 * (k + 1)>> /\ c.reg["rbp"] = <<t, 2 * (k + 1)>>
  BY <1>4, <1>5, PointersAre
<1>7. Frames(build, t, c.mem[t], k + 1)
  <2>1. Frames(build, t, c.mem[t], k)
    <3> DEFINE d == 2 * k
    <3>1. d \in Nat /\ 2 * k <= d /\ k \in Nat /\ Above(machine, c, t, d)
      BY <1>4, <1>5
    <3> HIDE DEF d
    <3>2. t \in Stacks /\ Frames(build, t, machine.mem[t], k)
      BY <1>2, <1>3
    <3>3. QED
      BY <3>1, <3>2, FramesKept
  <2>2. \A j \in (BaseFrames(build) + 1)..(k + 1) : j = k + 1 \/ j \in (BaseFrames(build) + 1)..k
    BY <1>4 DEF BaseFrames
  <2>3. BaseFrames(build) <= k + 1
    BY <1>4, <2>1 DEF BaseFrames, Frames
  <2>4. QED
    BY <1>4, <1>5, <2>1, <2>2, <2>3 DEF Frames
<1>8. Above(machine, c, t, 0)
  BY <1>2, <1>4, <1>5 DEF Above, Kept
<1>9. OnlyTask(t)
  BY <1>1, <1>2, <1>5, <1>8, StackStep
<1>10. AtFunc(build, t, machine', status'[t], left'[t])
  BY <1>1, <1>2, <1>4, <1>6, <1>7 DEF AtFunc
<1>11. Active(build, t, machine', status'[t], left'[t])
  BY <1>1, <1>2, <1>5, <1>10 DEF Active
<1>12. QED
  BY <1>1, <1>2, <1>5, <1>9, <1>11, TaskStep

(* The function returns: one frame less, or back to the base.                  *)
LEMMA FuncReturnsKeeps ==
  ASSUME IInv, FuncReturns
  PROVE  IInv'
<1> DEFINE t == current
<1>1. /\ rip = "func" /\ rip \in TaskPlaces /\ machine' = Epilogue(machine)
      /\ UNCHANGED <<build, queue, current, status, left>>
  BY DEF FuncReturns, Running, TaskPlaces
<1>2. /\ t \in Tasks /\ t \in Stacks /\ Runs(t) /\ Shape(machine) /\ machine.rip = "func"
      /\ AtFunc(build, t, machine, status[t], left[t])
  BY <1>1, RunningIs DEF Active
<1>3. PICK k \in 1..Words : /\ Frames(build, t, machine.mem[t], k)
                            /\ machine.reg["rsp"] = <<t, 2 * k>> /\ machine.reg["rbp"] = <<t, 2 * k>>
  BY <1>2 DEF AtFunc
<1>4. /\ 2 * k \in 2..Words /\ k \in Nat /\ BaseFrames(build) \in {1, 2} /\ BaseFrames(build) <= k
  BY <1>3, WordsAssumption DEF Frames, BaseFrames
<1>5. machine' = Moved(machine, <<t, 2 * k - 2>>, machine.mem[t][2 * k], machine.mem[t][2 * k - 1][1])
  BY <1>1, <1>2, <1>3, <1>4, EpilogueIs
<1>6. /\ Shape(machine') /\ SameRest(machine, machine') /\ machine'.mem = machine.mem
      /\ machine'.rip = machine.mem[t][2 * k - 1][1]
      /\ machine'.reg["rsp"] = <<t, 2 * k - 2>> /\ machine'.reg["rbp"] = machine.mem[t][2 * k]
  <2> DEFINE sp == <<t, 2 * k - 2>>
             bp == machine.mem[t][2 * k]
             place == machine.mem[t][2 * k - 1][1]
  <2>1. machine' = Moved(machine, sp, bp, place)
    BY <1>5
  <2> HIDE DEF sp, bp, place
  <2>2. /\ Shape(machine') /\ SameRest(machine, machine') /\ machine'.mem = machine.mem
        /\ machine'.rip = place /\ machine'.reg["rsp"] = sp /\ machine'.reg["rbp"] = bp
    BY <1>2, <2>1, MovedIs, PointersAre
  <2>3. QED
    BY <2>2 DEF sp, bp, place
<1>7. OnlyTask(t)
  BY <1>1, <1>2, <1>6, StackStep DEF Above, Kept
<1>8. machine'.rip \in TaskPlaces /\ Active(build, t, machine', status'[t], left'[t])
  <2>1. CASE k > BaseFrames(build)
    <3>1. /\ k \in (BaseFrames(build) + 1)..k /\ k - 1 \in 1..Words /\ 2 * k - 2 = 2 * (k - 1)
          /\ 2 * (k - 1) + 3 <= Words /\ BaseFrames(build) <= k - 1
          /\ \A j \in (BaseFrames(build) + 1)..(k - 1) : j \in (BaseFrames(build) + 1)..k
      BY <1>3, <1>4, <2>1, WordsAssumption DEF Frames
    <3>2. machine'.rip = "func" /\ machine'.reg["rbp"] = <<t, 2 * (k - 1)>>
      BY <1>3, <1>6, <3>1 DEF Frames
    <3>3. Frames(build, t, machine'.mem[t], k - 1)
      BY <1>3, <1>6, <3>1 DEF Frames
    <3>4. AtFunc(build, t, machine', status'[t], left'[t])
      BY <1>1, <1>2, <1>6, <3>1, <3>2, <3>3 DEF AtFunc
    <3>5. QED
      BY <3>2, <3>4 DEF Active, TaskPlaces
  <2>2. CASE k = BaseFrames(build) /\ build = "jump"
    <3>1. /\ k = 1 /\ 2 * k - 1 = 1 /\ 2 * k = 2 /\ 2 * k - 2 = 0
      BY <2>2 DEF BaseFrames
    <3>2. /\ machine'.rip = "scheduled" /\ machine'.reg["rsp"] = <<t, 0>>
          /\ machine'.reg["rbp"] = <<Main, 4>>
      BY <1>3, <1>6, <2>2, <3>1 DEF Frames, Bottom
    <3>3. QED
      BY <1>1, <1>2, <2>2, <3>2 DEF Active, AtScheduled, AtFunc, TaskPlaces
  <2>3. CASE k = BaseFrames(build) /\ build # "jump"
    <3>1. /\ k = 2 /\ 2 * k - 1 = 3 /\ 2 * k = 4 /\ 2 * k - 2 = 2
      BY <2>3 DEF BaseFrames
    <3>2. /\ machine'.rip = "called" /\ machine'.reg["rsp"] = <<t, 2>>
          /\ machine'.reg["rbp"] = <<t, 2>>
          /\ Entry(build, machine'.mem[t]) /\ machine'.mem[t][2] \in OldRbp
      BY <1>3, <1>6, <2>3, <3>1 DEF Frames, Bottom
    <3>3. QED
      BY <1>1, <1>2, <2>3, <3>2 DEF Active, AtCalled, AtFunc, TaskPlaces
  <2>4. QED
    BY <1>4, <2>1, <2>2, <2>3
<1>9. QED
  BY <1>1, <1>2, <1>7, <1>8, TaskStep
(* The frame a yielding task sees, below which task_yield has its own. *)
LEMMA YieldingKept ==
  ASSUME NEW b, NEW t \in Stacks, NEW m, NEW n, Shape(m), Shape(n), NEW l, NEW k \in Nat,
         NEW reg, NEW new, \A r \in Registers \ {"rsp", "rbp"} : new[r] = reg[r],
         Above(m, n, t, 2 * k + 1), Yielding(b, t, m.mem[t], l, k, reg)
  PROVE  Yielding(b, t, n.mem[t], l, k, new)
<1>1. /\ 2 * k + 1 \in Nat /\ 2 * k <= 2 * k + 1 /\ 2 * k + 1 \in 1..Words /\ 2 * k \in 0..Words
  BY WordsAssumption DEF Yielding, Frames
<1>2. Frames(b, t, n.mem[t], k)
  BY <1>1, FramesKept DEF Yielding
<1>3. n.mem[t][2 * k + 1] = <<"func">>
  <2> DEFINE d == 2 * k + 1
  <2>1. d \in 1..Words /\ d <= d /\ m.mem[t][d] = <<"func">> /\ Above(m, n, t, d)
    BY <1>1 DEF Yielding
  <2> HIDE DEF d
  <2>2. n.mem[t][d] = <<"func">>
    BY <2>1 DEF Above, Kept
  <2>3. QED
    BY <2>2 DEF d
<1>4. SubSeq(n.mem[t], 1, 2 * k) = SubSeq(m.mem[t], 1, 2 * k)
  <2>1. \A d \in 1..(2 * k) : m.mem[t][d] = n.mem[t][d]
    BY <1>1, WordsAssumption DEF Above, Kept
  <2>2. QED
    BY <1>1, <2>1, SubSeqEq DEF Shape
<1>5. Pointers(new, <<t, 2 * k>>, <<t, 2 * k>>) = Pointers(reg, <<t, 2 * k>>, <<t, 2 * k>>)
  BY DEF Pointers
<1>6. QED
  BY <1>2, <1>3, <1>4, <1>5 DEF Yielding

(* The function calls task_yield.                                              *)
LEMMA CallTaskYieldKeeps ==
  ASSUME IInv, CallTaskYield
  PROVE  IInv'
<1> DEFINE t == current
           c == Call(machine, "func")
<1>1. /\ rip = "func" /\ rip \in TaskPlaces /\ "func" \in Places /\ "task_yield" \in TaskPlaces
      /\ machine' = Goto(c, "task_yield")
      /\ left' = [left EXCEPT ![t] = View(machine)]
      /\ UNCHANGED <<build, queue, current, status>>
  BY DEF CallTaskYield, Running, TaskPlaces, Places
<1>2. /\ t \in Tasks /\ t \in Stacks /\ Runs(t) /\ Shape(machine) /\ machine.rip = "func"
      /\ AtFunc(build, t, machine, status[t], left[t])
      /\ left = [u \in Tasks |-> left[u]]
  BY <1>1, RunningIs DEF Active
<1>3. PICK k \in 1..Words : /\ Frames(build, t, machine.mem[t], k)
                            /\ machine.reg["rsp"] = <<t, 2 * k>> /\ machine.reg["rbp"] = <<t, 2 * k>>
  BY <1>2 DEF AtFunc
<1>4. /\ 2 * k \in 0..(Words - 1) /\ 2 * k \in Nat /\ k \in Nat /\ 2 * k \in 0..Words
  BY <1>3, WordsAssumption DEF Frames
<1>5. /\ Shape(c) /\ SameRest(machine, c)
      /\ c.reg = Pointers(machine.reg, <<t, 2 * k + 1>>, <<t, 2 * k>>)
      /\ c.mem[t][2 * k + 1] = <<"func">> /\ Above(machine, c, t, 2 * k)
  BY <1>1, <1>2, <1>3, <1>4, CallIs
<1> HIDE DEF c
<1>6. machine' = Moved(c, <<t, 2 * k + 1>>, <<t, 2 * k>>, "task_yield")
  BY <1>1, <1>5, GotoIs, PointersAre
<1>7. /\ Shape(machine') /\ SameRest(machine, machine') /\ machine'.mem = c.mem
      /\ machine'.rip = "task_yield" /\ machine'.reg["rsp"] = <<t, 2 * k + 1>>
      /\ machine'.reg["rbp"] = <<t, 2 * k>> /\ machine'.reg = c.reg
  BY <1>5, <1>6, MovedIs, PointersAre DEF SameRest
<1>8. /\ Above(machine, machine', t, 0) /\ \A d \in 1..(2 * k) : machine'.mem[t][d] = machine.mem[t][d]
  BY <1>2, <1>4, <1>5, <1>7, WordsAssumption DEF Above, Kept
<1>9. OnlyTask(t)
  BY <1>1, <1>2, <1>7, <1>8, StackStep
<1>10. Yielding(build, t, machine'.mem[t], left'[t], k, machine'.reg)
  <2>1. Frames(build, t, machine'.mem[t], k)
    <3>1. Frames(build, t, c.mem[t], k)
      BY <1>2, <1>3, <1>4, <1>5, FramesKept
    <3>2. QED
      BY <1>7, <3>1
  <2>2. left'[t] = <<machine.reg, SubSeq(machine.mem[t], 1, 2 * k)>>
    BY <1>1, <1>2, <1>3 DEF View
  <2>3. SubSeq(machine'.mem[t], 1, 2 * k) = SubSeq(machine.mem[t], 1, 2 * k)
    BY <1>2, <1>4, <1>7, <1>8, SubSeqEq DEF Shape
  <2>4. Pointers(machine'.reg, <<t, 2 * k>>, <<t, 2 * k>>) = machine.reg
    <3>1. Pointers(machine'.reg, <<t, 2 * k>>, <<t, 2 * k>>)
             = Pointers(machine.reg, <<t, 2 * k>>, <<t, 2 * k>>)
      BY <1>5, <1>7, PointersAre
    <3>2. QED
      BY <1>2, <1>3, <3>1, PointersOf
  <2>5. QED
    BY <1>5, <1>7, <2>1, <2>2, <2>3, <2>4 DEF Yielding
<1>11. AtTaskYield(build, t, machine', status'[t], left'[t])
  BY <1>1, <1>2, <1>7, <1>10 DEF AtTaskYield, AtFunc
<1>12. QED
  BY <1>1, <1>2, <1>7, <1>9, <1>11, TaskStep DEF Active

(* task_call marks its task and returns through the first word of the stack.   *)
LEMMA TaskCallEndsKeeps ==
  ASSUME IInv, TaskCallEnds
  PROVE  IInv'
<1> DEFINE t == current
<1>1. /\ rip = "called" /\ rip \in TaskPlaces /\ {"link", "task_yield"} \subseteq TaskPlaces
      /\ machine' = Epilogue(machine) /\ status' = [status EXCEPT ![t] = "FINISHED"]
      /\ UNCHANGED <<build, queue, current, left>>
  BY DEF TaskCallEnds, Running, TaskPlaces
<1>2. /\ t \in Tasks /\ t \in Stacks /\ Runs(t) /\ Shape(machine) /\ machine.rip = "called"
      /\ AtCalled(build, t, machine, status[t], left[t]) /\ build \in {"asm", "context"}
      /\ status = [u \in Tasks |-> status[u]]
  BY <1>1, RunningIs DEF Active, AtCalled, Entry, Builds
<1>3. machine' = Moved(machine, <<t, 0>>, machine.mem[t][2], machine.mem[t][1][1])
  BY <1>1, <1>2, EpilogueIs, WordsAssumption DEF AtCalled
<1>4. /\ Shape(machine') /\ SameRest(machine, machine') /\ machine'.mem = machine.mem
      /\ machine'.rip = machine.mem[t][1][1]
      /\ machine'.reg["rsp"] = <<t, 0>> /\ machine'.reg["rbp"] \in OldRbp
  BY <1>2, <1>3, MovedIs, PointersAre DEF AtCalled
<1>5. OnlyTask(t)
  BY <1>1, <1>2, <1>4, StackStep DEF Above, Kept
<1>6. machine'.rip = IF build = "asm" THEN "task_yield" ELSE "link"
  BY <1>2, <1>4 DEF AtCalled, Entry
<1>7. status'[t] = "FINISHED" /\ left'[t] = <<>>
  BY <1>1, <1>2 DEF AtCalled
<1>8. Active(build, t, machine', status'[t], left'[t])
  BY <1>2, <1>4, <1>6, <1>7 DEF Active, AtTaskYield, AtLink
<1>9. QED
  BY <1>1, <1>2, <1>5, <1>6, <1>8, TaskStep

(* The code behind makecontext goes on with the context of run_tasks.          *)
LEMMA LinkEndsKeeps ==
  ASSUME IInv, LinkEnds
  PROVE  IInv'
<1> DEFINE t == current
<1>1. /\ rip = "link" /\ rip \in TaskPlaces /\ machine' = setcontext(machine, Main)
      /\ UNCHANGED <<build, queue, current, status, left>>
  BY DEF LinkEnds, Running, TaskPlaces
<1>2. /\ t \in Tasks /\ t \in Stacks /\ Runs(t) /\ Shape(machine) /\ Main \in Stacks
      /\ machine.rip = "link" /\ AtLink(build, t, machine, status[t], left[t])
      /\ LeftFor(build, machine.mem[Main], machine.cont[Main], current)
  BY <1>1, RunningIs DEF Active
<1>3. build = "context"
  BY <1>2 DEF AtLink
<1>4. /\ Shape(machine') /\ machine'.mem = machine.mem /\ machine'.rax = machine.rax
      /\ machine'.cont = machine.cont /\ machine'.rip = machine.cont[Main]["rip"][1]
      /\ \A r \in Registers : machine'.reg[r] = Saved("context", machine.cont[Main], r)
  BY <1>1, <1>2, SetcontextIs
<1>5. /\ machine'.rip = "switched"
      /\ \A r \in Registers : machine'.reg[r] = LoopRegs[r]
  BY <1>2, <1>3, <1>4 DEF LeftFor
<1>6. machine'.reg = LoopRegs
  BY <1>4, <1>5 DEF Shape, LoopRegs
<1>7. OnlyTask(t)
  BY <1>1, <1>2, <1>4, StackStep DEF Above, Kept, SameRest
<1>8. status'[t] = "FINISHED" /\ left'[t] = <<>>
  BY <1>1, <1>2 DEF AtLink
<1>9. QED
  BY <1>2, <1>3, <1>5, <1>6, <1>7, <1>8, LeaveStep

(* The continuation task_yield has saved is one that will find its frames.     *)
LEMMA Suspends ==
  ASSUME NEW b, NEW t \in Stacks, NEW m, NEW n, Shape(m), Shape(n), NEW l, NEW k \in Nat,
         Above(m, n, t, 2 * k + 1), Yielding(b, t, m.mem[t], l, k, m.reg),
         n.mem[t][2 * k + 2] = <<t, 2 * k>>,
         NEW cont, \A r \in Registers \ {"rsp", "rbp"} : Saved(b, cont, r) = m.reg[r],
         SavedAt(b, t, n.mem[t], cont, k)
  PROVE  SuspendedAt(b, t, n.mem[t], cont, l, k)
<1> DEFINE new == [r \in Registers |-> Saved(b, cont, r)]
<1>1. \A r \in Registers \ {"rsp", "rbp"} : new[r] = m.reg[r]
  OBVIOUS
<1> HIDE DEF new
<1>2. Yielding(b, t, n.mem[t], l, k, new)
  BY <1>1, YieldingKept
<1>3. QED
  BY <1>2 DEF SuspendedAt, new

(* task_yield saves the frame pointer and calls the switch. *)
LEMMA SwitchCall ==
  ASSUME NEW m, Shape(m), NEW s \in Stacks, NEW d \in 0..(Words - 2),
         m.reg["rsp"] = <<s, d>>, Unpainted(m.reg["rbp"]), NEW p \in Places
  PROVE  LET n == Call(Prologue(m), p)
         IN  /\ Shape(n) /\ SameRest(m, n) /\ n.rip = m.rip
             /\ n.reg = Pointers(m.reg, <<s, d + 2>>, <<s, d + 1>>)
             /\ n.mem[s][d + 1] = m.reg["rbp"] /\ n.mem[s][d + 2] = <<p>>
             /\ Above(m, n, s, d)
<1> DEFINE c == Prologue(m)
           n == Call(c, p)
<1>1. d \in 0..(Words - 1) /\ d + 1 \in 0..(Words - 1) /\ (d + 1) + 1 = d + 2 /\ d \in Nat
      /\ d + 1 \in 1..Words /\ d + 1 \in Nat /\ d <= d + 1
  BY WordsAssumption
<1>2. /\ Shape(c) /\ SameRest(m, c) /\ c.rip = m.rip
      /\ c.reg = Pointers(m.reg, <<s, d + 1>>, <<s, d + 1>>)
      /\ c.mem[s][d + 1] = m.reg["rbp"] /\ Above(m, c, s, d)
  BY <1>1, PrologueIs
<1> HIDE DEF c
<1>3. c.reg["rsp"] = <<s, d + 1>> /\ c.reg["rbp"] = <<s, d + 1>>
  BY <1>2, PointersAre
<1>4. /\ Shape(n) /\ SameRest(c, n) /\ n.rip = c.rip
      /\ n.reg = Pointers(c.reg, <<s, d + 2>>, <<s, d + 1>>)
      /\ n.mem[s][d + 2] = <<p>> /\ Above(c, n, s, d + 1)
  BY <1>1, <1>2, <1>3, CallIs
<1> HIDE DEF n
<1>5. n.mem[s][d + 1] = m.reg["rbp"]
  BY <1>1, <1>2, <1>4 DEF Above, Kept
<1>6. Above(m, n, s, d)
  BY <1>1, <1>2, <1>4, AboveTwice
<1>7. n.reg = Pointers(m.reg, <<s, d + 2>>, <<s, d + 1>>)
  BY <1>2, <1>4, PointersAre
<1>8. QED
  BY <1>2, <1>4, <1>5, <1>6, <1>7 DEF SameRest, n, c

(* The state after the switch of either machine context from task t to run_tasks. *)
LEMMA SwitchesToMain ==
  ASSUME IInv, NEW t \in Tasks, Runs(t), build # "jump",
         NEW n, Shape(n), SameRest(machine, n), Above(machine, n, t, 0),
         NEW d \in 2..Words, n.reg["rsp"] = <<t, d>>, n.mem[t][d] = <<"yielded">>,
         Unpainted(n.mem[t][d - 1]),
         machine' = Switch(n, t, Main), UNCHANGED <<build, queue, current, status, left>>
  PROVE  /\ OnlyTask(t) /\ machine'.rip = "switched" /\ machine'.reg = LoopRegs
         /\ machine'.mem = n.mem
         /\ \A r \in Registers \ {"rsp"} : Saved(build, machine'.cont[t], r) = n.reg[r]
         /\ Saved(build, machine'.cont[t], "rsp") = <<t, IF build = "asm" THEN d ELSE d - 1>>
         /\ (build = "context" => machine'.cont[t]["rip"] = <<"yielded">>)
<1>1. /\ t \in Stacks /\ Main \in Stacks /\ t # Main /\ build \in {"asm", "context"}
      /\ status = [u \in Tasks |-> status[u]] /\ left = [u \in Tasks |-> left[u]]
      /\ status[t] \in Statuses \ {"FREED"} /\ machine.rax \in {0, 1}
      /\ LeftFor(build, machine.mem[Main], machine.cont[Main], t)
  BY RunningIs DEF Runs, Builds
<1>2. n.mem[Main] = machine.mem[Main] /\ n.cont = machine.cont /\ n.rax = machine.rax
  BY <1>1 DEF Above, Kept, SameRest
<1>3. /\ Shape(machine') /\ machine'.mem = n.mem /\ machine'.rax = n.rax
      /\ machine'.rip = "switched"
      /\ \A r \in Registers : machine'.reg[r] = LoopRegs[r]
      /\ \A u \in Stacks : u # t => machine'.cont[u] = n.cont[u]
      /\ \A r \in Registers \ {"rsp"} : Saved(build, machine'.cont[t], r) = n.reg[r]
      /\ Saved(build, machine'.cont[t], "rsp") = <<t, IF build = "asm" THEN d ELSE d - 1>>
      /\ (build = "context" => machine'.cont[t]["rip"] = <<"yielded">>)
  <2>1. CASE build = "asm"
    <3>1. machine' = contextswitch(n, t, Main)
      BY <2>1 DEF Switch
    <3>2. /\ Saved("asm", n.cont[Main], "rsp") = <<Main, 3>> /\ n.mem[Main][3] = <<"switched">>
          /\ \A r \in Registers \ {"rsp"} : Saved("asm", n.cont[Main], r) = LoopRegs[r]
          /\ 3 \in 1..Words /\ "rsp" \in Registers
      BY <1>1, <1>2, <2>1, WordsAssumption DEF LeftFor, Registers
    <3>3. /\ Shape(machine') /\ machine'.mem = n.mem /\ machine'.rax = n.rax
          /\ machine'.rip = n.mem[Main][3][1]
          /\ \A r \in Registers : machine'.reg[r] =
                IF r = "rsp" THEN <<Main, 3 - 1>> ELSE Saved("asm", n.cont[Main], r)
          /\ \A u \in Stacks : u # t => machine'.cont[u] = n.cont[u]
          /\ \A r \in Registers : Saved("asm", machine'.cont[t], r) = n.reg[r]
      BY <1>1, <3>1, <3>2, ContextswitchIs
    <3>4. QED
      BY <2>1, <3>2, <3>3 DEF LoopRegs
  <2>2. CASE build = "context"
    <3>1. machine' = swapcontext(n, t, Main)
      BY <2>2 DEF Switch
    <3>2. /\ n.cont[Main]["rip"] = <<"switched">>
          /\ \A r \in Registers : Saved("context", n.cont[Main], r) = LoopRegs[r]
          /\ "rsp" \in Registers /\ d \in 1..Words
      BY <1>1, <1>2, <2>2, WordsAssumption DEF LeftFor, Registers
    <3>3. /\ Shape(machine') /\ machine'.mem = n.mem /\ machine'.rax = n.rax
          /\ machine'.rip = n.cont[Main]["rip"][1]
          /\ \A r \in Registers : machine'.reg[r] = Saved("context", n.cont[Main], r)
          /\ \A u \in Stacks : u # t => machine'.cont[u] = n.cont[u]
          /\ machine'.cont[t]["rip"] = n.mem[t][d]
          /\ \A r \in Registers : Saved("context", machine'.cont[t], r) =
                IF r = "rsp" THEN <<t, d - 1>> ELSE n.reg[r]
      BY <1>1, <3>1, <3>2, SwapcontextIs
    <3>4. QED
      BY <2>2, <3>2, <3>3
  <2>3. QED
    BY <1>1, <2>1, <2>2
<1>4. machine'.reg = LoopRegs
  BY <1>3 DEF Shape, LoopRegs
<1>5. Marked(build, machine'.mem[t], machine'.cont[t])
  <2>1. d \in 1..Words /\ d - 1 \in 1..Words /\ Unpainted(n.mem[t][d])
    BY PlainWords, WordsAssumption DEF Places, TaskPlaces
  <2>2. QED
    BY <1>1, <1>3, <2>1 DEF Marked
<1>6. OnlyTask(t)
  BY <1>1, <1>2, <1>3, <1>5 DEF OnlyTask, Above, Kept, Stacks
<1>7. QED
  BY <1>3, <1>4, <1>6

(* task_yield saves the continuation, of a task that has finished as well.     *)
LEMMA TaskYieldKeeps ==
  ASSUME IInv, TaskYield
  PROVE  IInv'
<1> DEFINE t == current
           n == Call(Prologue(machine), "yielded")
<1>1. /\ rip = "task_yield" /\ rip \in TaskPlaces /\ "yielded" \in Places /\ "yielded" \in TaskPlaces
      /\ machine' = IF build = "jump" THEN my_setjmp(n, t) ELSE Switch(n, t, Main)
      /\ UNCHANGED <<build, queue, current, status, left>>
  BY DEF TaskYield, Running, TaskPlaces, Places
<1>2. /\ t \in Tasks /\ t \in Stacks /\ Runs(t) /\ Shape(machine) /\ machine.rip = "task_yield"
      /\ AtTaskYield(build, t, machine, status[t], left[t])
      /\ status = [u \in Tasks |-> status[u]] /\ left = [u \in Tasks |-> left[u]]
      /\ status[t] \in Statuses \ {"FREED"} /\ machine.rax \in {0, 1} /\ Tasks \subseteq Stacks
  BY <1>1, RunningIs DEF Active, Stacks
<1>3. CASE /\ status[t] = "FINISHED" /\ left[t] = <<>> /\ build = "asm"
           /\ machine.reg["rsp"] = <<t, 0>> /\ machine.reg["rbp"] \in OldRbp
  <2>1. /\ 0 \in 0..(Words - 2) /\ 0 + 1 = 1 /\ 0 + 2 = 2 /\ 2 \in 2..Words /\ 2 - 1 = 1
        /\ Unpainted(machine.reg["rbp"])
    BY <1>3, OldRbpPlain, WordsAssumption
  <2>2. /\ Shape(n) /\ SameRest(machine, n)
        /\ n.reg = Pointers(machine.reg, <<t, 2>>, <<t, 1>>)
        /\ n.mem[t][1] = machine.reg["rbp"] /\ n.mem[t][2] = <<"yielded">>
        /\ Above(machine, n, t, 0)
    <3> DEFINE d == 0
    <3>1. d \in 0..(Words - 2) /\ d + 1 = 1 /\ d + 2 = 2 /\ d = 0
      BY <2>1
    <3> HIDE DEF d
    <3>2. /\ Shape(n) /\ SameRest(machine, n)
          /\ n.reg = Pointers(machine.reg, <<t, d + 2>>, <<t, d + 1>>)
          /\ n.mem[t][d + 1] = machine.reg["rbp"] /\ n.mem[t][d + 2] = <<"yielded">>
          /\ Above(machine, n, t, d)
      BY <1>1, <1>2, <1>3, <2>1, <3>1, SwitchCall
    <3> HIDE DEF n
    <3>3. QED
      BY <3>1, <3>2
  <2>3. machine' = Switch(n, t, Main)
    BY <1>1, <1>3
  <2> HIDE DEF n
  <2>4. n.reg["rsp"] = <<t, 2>> /\ Unpainted(n.mem[t][2 - 1])
    BY <2>1, <2>2, PointersAre
  <2>5. OnlyTask(t) /\ machine'.rip = "switched" /\ machine'.reg = LoopRegs
    BY <1>1, <1>2, <1>3, <2>1, <2>2, <2>3, <2>4, SwitchesToMain
  <2>6. QED
    BY <1>1, <1>2, <1>3, <2>5, LeaveStep
<1>4. ASSUME status[t] = Unfinished(build),
             NEW k \in 1..Words, Yielding(build, t, machine.mem[t], left[t], k, machine.reg),
             machine.reg["rsp"] = <<t, 2 * k + 1>>, machine.reg["rbp"] = <<t, 2 * k>>
      PROVE  IInv'
  <2>1. /\ 2 * k + 1 \in 0..(Words - 2) /\ (2 * k + 1) + 1 = 2 * k + 2 /\ (2 * k + 1) + 2 = 2 * k + 3
        /\ 2 * k + 3 \in 2..Words /\ (2 * k + 3) - 1 = 2 * k + 2 /\ k \in Nat
        /\ 2 * k + 3 \in 1..Words
    BY <1>4, WordsAssumption DEF Yielding, Frames
  <2>2. /\ Shape(n) /\ SameRest(machine, n)
        /\ n.reg = Pointers(machine.reg, <<t, 2 * k + 3>>, <<t, 2 * k + 2>>)
        /\ n.mem[t][2 * k + 2] = <<t, 2 * k>> /\ n.mem[t][2 * k + 3] = <<"yielded">>
        /\ Above(machine, n, t, 2 * k + 1)
    <3> DEFINE d == 2 * k + 1
    <3>1. d \in 0..(Words - 2) /\ d + 1 = 2 * k + 2 /\ d + 2 = 2 * k + 3 /\ d = 2 * k + 1
          /\ Unpainted(machine.reg["rbp"]) /\ machine.reg["rsp"] = <<t, d>>
          /\ machine.reg["rbp"] = <<t, 2 * k>>
      BY <1>4, <2>1, PlainWords
    <3> HIDE DEF d
    <3>2. /\ Shape(n) /\ SameRest(machine, n)
          /\ n.reg = Pointers(machine.reg, <<t, d + 2>>, <<t, d + 1>>)
          /\ n.mem[t][d + 1] = machine.reg["rbp"] /\ n.mem[t][d + 2] = <<"yielded">>
          /\ Above(machine, n, t, d)
      <4>1. "yielded" \in Places /\ t \in Stacks /\ Shape(machine)
        BY <1>1, <1>2
      <4>2. QED
        BY <3>1, <4>1, SwitchCall
    <3> HIDE DEF n
    <3>3. QED
      BY <1>4, <3>1, <3>2
  <2> HIDE DEF n
  <2>3. /\ n.reg["rsp"] = <<t, 2 * k + 3>> /\ n.reg["rbp"] = <<t, 2 * k + 2>>
        /\ \A r \in Registers \ {"rsp", "rbp"} : n.reg[r] = machine.reg[r]
        /\ "rbp" \in Registers /\ "rsp" \in Registers
    BY <2>2, PointersAre DEF Registers, CalleeSaved
  <2>4. Above(machine, n, t, 0)
    BY <2>1, <2>2 DEF Above, Kept
  <2>5. status[t] # "FINISHED"
    BY <1>4 DEF Unfinished
  <2>6. CASE build # "jump"
    <3>1. machine' = Switch(n, t, Main)
      BY <1>1, <2>6
    <3>2. Unpainted(n.mem[t][(2 * k + 3) - 1])
      BY <2>1, <2>2, PlainWords
    <3>3. /\ OnlyTask(t) /\ machine'.rip = "switched" /\ machine'.reg = LoopRegs
          /\ machine'.mem = n.mem
          /\ \A r \in Registers \ {"rsp"} : Saved(build, machine'.cont[t], r) = n.reg[r]
          /\ Saved(build, machine'.cont[t], "rsp") =
                <<t, IF build = "asm" THEN 2 * k + 3 ELSE (2 * k + 3) - 1>>
          /\ (build = "context" => machine'.cont[t]["rip"] = <<"yielded">>)
      BY <1>1, <1>2, <2>1, <2>2, <2>3, <2>4, <2>6, <3>1, <3>2, SwitchesToMain
    <3>4. SavedAt(build, t, n.mem[t], machine'.cont[t], k)
      BY <2>1, <2>2, <2>3, <2>6, <3>3 DEF SavedAt
    <3>5. SuspendedAt(build, t, n.mem[t], machine'.cont[t], left[t], k)
      <4>1. \A r \in Registers \ {"rsp", "rbp"} : Saved(build, machine'.cont[t], r) = machine.reg[r]
        BY <2>3, <3>3
      <4>2. QED
        BY <1>2, <1>4, <2>1, <2>2, <3>4, <4>1, Suspends
    <3>6. Away(build, t, machine'.mem[t], machine'.cont[t], status'[t], left'[t])
      BY <1>1, <1>4, <3>3, <3>5 DEF Away
    <3>7. QED
      BY <1>1, <1>2, <2>5, <2>6, <3>3, <3>6, LeaveStep
  <2>7. CASE build = "jump"
    <3>1. machine' = my_setjmp(n, t)
      BY <1>1, <2>7
    <3>2. /\ Shape(machine') /\ machine'.mem = n.mem /\ machine'.rax = 0
          /\ machine'.rip = n.mem[t][2 * k + 3][1]
          /\ machine'.reg = Pointers(n.reg, <<t, (2 * k + 3) - 1>>, n.reg["rbp"])
          /\ \A u \in Stacks : u # t => machine'.cont[u] = n.cont[u]
          /\ machine'.cont[t][8] = n.mem[t][2 * k + 3]
          /\ \A r \in Registers : Saved("jump", machine'.cont[t], r) =
                IF r = "rsp" THEN <<t, (2 * k + 3) - 1>> ELSE n.reg[r]
      <4> DEFINE d == 2 * k + 3
      <4>1. d \in 1..Words /\ n.reg["rsp"] = <<t, d>> /\ t \in Stacks /\ Shape(n)
        BY <1>2, <2>1, <2>2, <2>3
      <4> HIDE DEF d
      <4>2. /\ Shape(machine') /\ machine'.mem = n.mem /\ machine'.rax = 0
            /\ machine'.rip = n.mem[t][d][1]
            /\ machine'.reg = Pointers(n.reg, <<t, d - 1>>, n.reg["rbp"])
            /\ \A u \in Stacks : u # t => machine'.cont[u] = n.cont[u]
            /\ machine'.cont[t][8] = n.mem[t][d]
            /\ \A r \in Registers : Saved("jump", machine'.cont[t], r) =
                  IF r = "rsp" THEN <<t, d - 1>> ELSE n.reg[r]
        BY <3>1, <4>1, SetjmpIs
      <4>3. QED
        BY <4>2 DEF d
    <3>3. /\ machine'.rip = "yielded" /\ machine'.reg["rsp"] = <<t, 2 * k + 2>>
          /\ machine'.reg["rbp"] = <<t, 2 * k + 2>>
          /\ \A r \in Registers \ {"rsp", "rbp"} : machine'.reg[r] = machine.reg[r]
      BY <2>1, <2>2, <2>3, <3>2, PointersAre
    <3>4. SavedAt(build, t, n.mem[t], machine'.cont[t], k)
      BY <2>1, <2>2, <2>3, <2>7, <3>2 DEF SavedAt
    <3>5. SuspendedAt(build, t, n.mem[t], machine'.cont[t], left[t], k)
      <4>1. \A r \in Registers \ {"rsp", "rbp"} : Saved(build, machine'.cont[t], r) = machine.reg[r]
        BY <2>3, <2>7, <3>2
      <4>2. QED
        BY <1>2, <1>4, <2>1, <2>2, <3>4, <4>1, Suspends
    <3>6. Yielding(build, t, n.mem[t], left[t], k, machine'.reg)
      <4>1. /\ t \in Stacks /\ Shape(machine) /\ Shape(n) /\ Above(machine, n, t, 2 * k + 1)
            /\ k \in Nat /\ Yielding(build, t, machine.mem[t], left[t], k, machine.reg)
        BY <1>2, <1>4, <2>1, <2>2
      <4>2. \A r \in Registers \ {"rsp", "rbp"} : machine'.reg[r] = machine.reg[r]
        BY <3>3
      <4>3. QED
        BY <4>1, <4>2, YieldingKept
    <3>7. AtYielded(build, t, machine', status'[t], left'[t])
      BY <1>1, <1>4, <2>2, <3>2, <3>3, <3>5, <3>6 DEF AtYielded
    <3>8. OnlyTask(t)
      BY <1>1, <1>2, <2>2, <2>4, <2>7, <3>2 DEF OnlyTask, Above, Kept, SameRest
    <3>9. QED
      BY <1>1, <1>2, <3>3, <3>7, <3>8, TaskStep DEF Active
  <2>8. QED
    BY <2>6, <2>7
<1>5. QED
  BY <1>2, <1>3, <1>4 DEF AtTaskYield

(* my_longjmp from the end of a turn, back to my_setjmp in run_tasks. *)
LEMMA JumpsToMain ==
  ASSUME IInv, rip \in TaskPlaces, build = "jump",
         NEW d \in 0..(Words - 1), machine.reg["rsp"] = <<current, d>>,
         machine' = my_longjmp(Call(machine, "unreached"), Main, 1)
  PROVE  /\ Shape(machine') /\ machine'.rax = 1 /\ machine'.cont = machine.cont
         /\ Above(machine, machine', current, d)
         /\ machine'.rip = "entered" /\ machine'.reg = LoopRegs
<1> DEFINE c == Call(machine, "unreached")
<1>1. /\ current \in Stacks /\ Main \in Stacks /\ Shape(machine) /\ "unreached" \in Places
      /\ Entered(machine.cont[Main])
  BY RunningIs DEF Places
<1>2. Shape(c) /\ SameRest(machine, c) /\ Above(machine, c, current, d)
  BY <1>1, CallIs
<1> HIDE DEF c
<1>3. /\ Shape(machine') /\ machine'.mem = c.mem /\ machine'.rax = 1 /\ machine'.cont = c.cont
      /\ machine'.rip = c.cont[Main][8][1]
      /\ \A r \in Registers : machine'.reg[r] = Saved("jump", c.cont[Main], r)
  BY <1>1, <1>2, LongjmpIs DEF c
<1>4. /\ machine'.cont = machine.cont /\ machine'.rip = "entered"
      /\ \A r \in Registers : machine'.reg[r] = LoopRegs[r]
  BY <1>1, <1>2, <1>3 DEF SameRest, Entered
<1>5. machine'.reg = LoopRegs
  BY <1>3, <1>4 DEF Shape, LoopRegs
<1>6. Above(machine, machine', current, d)
  BY <1>2, <1>3 DEF Above, Kept
<1>7. QED
  BY <1>3, <1>4, <1>5, <1>6

(* task_yield has been left, or is returned to.                                *)
LEMMA YieldedKeeps ==
  ASSUME IInv, Yielded
  PROVE  IInv'
<1> DEFINE t == current
<1>1. /\ rip = "yielded" /\ rip \in TaskPlaces /\ "func" \in TaskPlaces
      /\ UNCHANGED <<build, queue, current, status>>
  BY DEF Yielded, Running, TaskPlaces
<1>2. /\ t \in Tasks /\ t \in Stacks /\ Runs(t) /\ Shape(machine) /\ machine.rip = "yielded"
      /\ AtYielded(build, t, machine, status[t], left[t])
      /\ status = [u \in Tasks |-> status[u]] /\ left = [u \in Tasks |-> left[u]]
      /\ status[t] \in Statuses \ {"FREED"} /\ Tasks \subseteq Stacks
  BY <1>1, RunningIs DEF Active, Stacks
<1>3. PICK k \in 1..Words :
          /\ Yielding(build, t, machine.mem[t], left[t], k, machine.reg)
          /\ machine.mem[t][2 * k + 2] = <<t, 2 * k>>
          /\ machine.reg["rsp"] = <<t, 2 * k + 2>> /\ machine.reg["rbp"] = <<t, 2 * k + 2>>
          /\ (build = "jump" /\ machine.rax = 0 =>
                 SuspendedAt(build, t, machine.mem[t], machine.cont[t], left[t], k))
  BY <1>2 DEF AtYielded
<1>4. status[t] = Unfinished(build) /\ status[t] # "FINISHED"
  BY <1>2 DEF AtYielded, Unfinished
<1>5. /\ 2 * k + 2 \in 0..(Words - 1) /\ 2 * k + 2 \in 2..Words /\ (2 * k + 2) - 2 = 2 * k
      /\ (2 * k + 2) - 1 = 2 * k + 1 /\ k \in Nat /\ 2 * k + 2 \in Nat
      /\ 2 * k + 1 <= 2 * k + 2
  BY <1>3, WordsAssumption DEF Yielding, Frames
<1>6. CASE build = "jump" /\ machine.rax = 0
  <2>1. machine' = my_longjmp(Call(machine, "unreached"), Main, 1) /\ UNCHANGED left
    BY <1>6 DEF Yielded
  <2>2. /\ Shape(machine') /\ machine'.rax = 1 /\ machine'.cont = machine.cont
        /\ Above(machine, machine', t, 2 * k + 2)
        /\ machine'.rip = "entered" /\ machine'.reg = LoopRegs
    BY <1>1, <1>3, <1>5, <1>6, <2>1, JumpsToMain
  <2>3. /\ SuspendedAt(build, t, machine.mem[t], machine.cont[t], left[t], k)
        /\ machine'.mem[t][2 * k + 2] = <<t, 2 * k>> /\ Above(machine, machine', t, 2 * k + 1)
    BY <1>3, <1>5, <1>6, <2>2 DEF Above, Kept
  <2>4. SuspendedAt(build, t, machine'.mem[t], machine'.cont[t], left[t], k)
    <3> DEFINE reg == [r \in Registers |-> Saved(build, machine.cont[t], r)]
    <3>1. Yielding(build, t, machine.mem[t], left[t], k, reg)
      BY <2>3 DEF SuspendedAt
    <3> HIDE DEF reg
    <3>2. Yielding(build, t, machine'.mem[t], left[t], k, reg)
      BY <1>2, <1>5, <2>2, <2>3, <3>1, YieldingKept
    <3>3. SavedAt(build, t, machine'.mem[t], machine'.cont[t], k)
      BY <1>6, <2>2, <2>3 DEF SuspendedAt, SavedAt
    <3>4. QED
      BY <2>2, <2>3, <3>2, <3>3 DEF SuspendedAt, reg
  <2>5. Away(build, t, machine'.mem[t], machine'.cont[t], status'[t], left'[t])
    BY <1>1, <1>4, <2>1, <2>4 DEF Away
  <2>6. OnlyTask(t)
    BY <1>1, <1>2, <1>6, <2>1, <2>2 DEF OnlyTask, Above, Kept
  <2>7. QED
    BY <1>1, <1>2, <1>4, <1>6, <2>2, <2>5, <2>6, LeaveStep
<1>7. CASE ~(build = "jump" /\ machine.rax = 0)
  <2>1. machine' = Epilogue(machine) /\ left' = [left EXCEPT ![t] = <<>>]
    BY <1>7 DEF Yielded
  <2>2. machine' = Moved(machine, <<t, 2 * k>>, <<t, 2 * k>>, machine.mem[t][2 * k + 1][1])
    <3> DEFINE d == 2 * k + 2
    <3>1. /\ d \in 2..Words /\ d - 2 = 2 * k /\ d - 1 = 2 * k + 1
          /\ machine.mem[t][d] = <<t, 2 * k>> /\ machine.reg["rbp"] = <<t, d>>
      BY <1>3, <1>5
    <3> HIDE DEF d
    <3>2. machine' = Moved(machine, <<t, d - 2>>, machine.mem[t][d], machine.mem[t][d - 1][1])
      BY <1>2, <2>1, <3>1, EpilogueIs
    <3>3. QED
      BY <3>1, <3>2
  <2>3. /\ Shape(machine') /\ SameRest(machine, machine') /\ machine'.mem = machine.mem
        /\ machine'.rip = "func"
        /\ machine'.reg["rsp"] = <<t, 2 * k>> /\ machine'.reg["rbp"] = <<t, 2 * k>>
    BY <1>2, <1>3, <2>2, MovedIs, PointersAre DEF Yielding
  <2>4. OnlyTask(t)
    BY <1>1, <1>2, <2>1, <2>3, StackStep DEF Above, Kept
  <2>5. left'[t] = <<>>
    BY <1>2, <2>1
  <2>6. AtFunc(build, t, machine', status'[t], left'[t])
    BY <1>1, <1>3, <1>4, <2>3, <2>5 DEF AtFunc, Yielding
  <2>7. QED
    BY <1>1, <1>2, <2>3, <2>4, <2>6, TaskStep DEF Active
<1>8. QED
  BY <1>6, <1>7

(* schedule_task finds in its frame the task whose function has returned.      *)
LEMMA ScheduleTaskEndsKeeps ==
  ASSUME IInv, ScheduleTaskEnds
  PROVE  IInv' /\ status' = [status EXCEPT ![current] = "FINISHED"]
<1> DEFINE t == current
<1>1. /\ rip = "scheduled" /\ rip \in TaskPlaces
      /\ machine' = my_longjmp(Call(machine, "unreached"), Main, 1)
      /\ UNCHANGED <<build, queue, current, left>>
  BY DEF ScheduleTaskEnds, Running, TaskPlaces
<1>2. /\ t \in Tasks /\ t \in Stacks /\ Runs(t) /\ Shape(machine) /\ machine.rip = "scheduled"
      /\ AtScheduled(build, t, machine, status[t], left[t])
      /\ status = [u \in Tasks |-> status[u]]
      /\ LeftFor(build, machine.mem[Main], machine.cont[Main], t)
  BY <1>1, RunningIs DEF Active
<1>3. machine.mem[Main][5] = <<t>> /\ machine.reg["rbp"] = <<Main, 4>> /\ build = "jump"
  BY <1>2 DEF AtScheduled, LeftFor
<1>4. status' = [status EXCEPT ![t] = "FINISHED"]
  <2>1. machine.reg["rbp"][1] = Main /\ machine.reg["rbp"][2] + 1 = 5
    BY <1>3
  <2>2. machine.mem[machine.reg["rbp"][1]][machine.reg["rbp"][2] + 1][1] = t
    BY <1>3, <2>1
  <2>3. QED
    BY <2>2 DEF ScheduleTaskEnds
<1>5. /\ Shape(machine') /\ machine'.rax = 1 /\ machine'.cont = machine.cont
      /\ Above(machine, machine', t, 0) /\ machine'.rip = "entered" /\ machine'.reg = LoopRegs
  BY <1>1, <1>2, <1>3, JumpsToMain, WordsAssumption DEF AtScheduled
<1>6. OnlyTask(t)
  <2>1. /\ left = [u \in Tasks |-> left[u]] /\ Tasks \subseteq Stacks
        /\ status[t] \in Statuses \ {"FREED"}
    BY <1>1, RunningIs DEF Stacks
  <2>2. QED
    BY <1>1, <1>2, <1>3, <1>4, <1>5, <2>1 DEF OnlyTask, Above, Kept, Statuses
<1>7. status'[t] = "FINISHED" /\ left'[t] = <<>>
  BY <1>1, <1>2, <1>4 DEF AtScheduled
<1>8. QED
  BY <1>2, <1>3, <1>4, <1>5, <1>6, <1>7, LeaveStep
-----------------------------------------------------------------------------
(* The scheduler and main. *)

(* The head of a list becomes its tail. *)
LEMMA RotatedIs ==
  ASSUME NEW q \in Seq(Tasks), q # <<>>
  PROVE  /\ Head(q) \in Tasks /\ Head(q) = q[1] /\ Len(q) \in Nat /\ Len(q) >= 1
         /\ Append(Tail(q), Head(q)) \in Seq(Tasks)
         /\ Len(Append(Tail(q), Head(q))) = Len(q)
         /\ \A i \in 1..Len(q) : Append(Tail(q), Head(q))[i] = IF i = Len(q) THEN q[1] ELSE q[i + 1]
<1>1. /\ Head(q) \in Tasks /\ Head(q) = q[1] /\ Tail(q) \in Seq(Tasks) /\ Len(q) \in Nat
      /\ Len(q) >= 1 /\ Len(Tail(q)) = Len(q) - 1
      /\ \A i \in 1..Len(Tail(q)) : Tail(q)[i] = q[i + 1]
  BY HeadTailProperties, EmptySeq
<1>2. /\ Append(Tail(q), Head(q)) \in Seq(Tasks)
      /\ Len(Append(Tail(q), Head(q))) = Len(Tail(q)) + 1
      /\ \A i \in 1..Len(Tail(q)) : Append(Tail(q), Head(q))[i] = Tail(q)[i]
      /\ Append(Tail(q), Head(q))[Len(Tail(q)) + 1] = Head(q)
  BY <1>1, AppendProperties
<1>3. Len(q) \in Nat /\ Len(Tail(q)) = Len(q) - 1 /\ Len(Tail(q)) + 1 = Len(q)
  BY <1>1
<1>4. ASSUME NEW i \in 1..Len(q), i # Len(q)
      PROVE  i \in 1..Len(Tail(q))
  <2> DEFINE n == Len(q)
             k == Len(Tail(q))
  <2>1. n \in Nat /\ k = n - 1 /\ i \in 1..n /\ i # n
    BY <1>3, <1>4
  <2> HIDE DEF n, k
  <2>2. i \in 1..k
    BY <2>1
  <2>3. QED
    BY <2>2 DEF k
<1>5. QED
  BY <1>1, <1>2, <1>3, <1>4

(* What is known when run_tasks is in its loop. *)
LEMMA LoopIs ==
  ASSUME IInv, rip = "loop"
  PROVE  /\ Main \in Stacks /\ Main \notin Tasks /\ Tasks \subseteq Stacks /\ Shape(machine) /\ build \in Builds
         /\ machine.rip = "loop" /\ machine.rax \in {0, 1} /\ machine.reg = LoopRegs
         /\ machine.reg["rsp"] = <<Main, 2>> /\ machine.reg["rbp"] = <<Main, 2>>
         /\ LoopFrame(machine.mem[Main]) /\ (build = "jump" => Entered(machine.cont[Main]))
         /\ status = [u \in Tasks |-> status[u]] /\ left = [u \in Tasks |-> left[u]]
<1>1. rip \notin TaskPlaces /\ rip \in LoopPlaces /\ rip # "main" /\ machine.rip = "loop"
  BY DEF TaskPlaces, LoopPlaces, rip
<1>2. /\ machine.reg = LoopRegs /\ machine.reg["rsp"] = <<Main, 2>>
      /\ machine.reg["rbp"] = <<Main, 2>>
  BY <1>1 DEF IInv, MainInv, LoopRegs, Registers, CalleeSaved
<1>3. QED
  BY <1>1, <1>2, TasksAssumption DEF IInv, TypeInv, MainInv, Stacks, rip

(* No task has finished while none has a turn, and each live one is away.      *)
LEMMA IdleIs ==
  ASSUME IInv, rip \notin TaskPlaces, rip \notin {"switched", "entered"}, NEW u \in Tasks
  PROVE  /\ status[u] \in Statuses /\ status[u] # "FINISHED"
         /\ (status[u] = "FREED" => left[u] = <<>>)
         /\ (status[u] # "FREED" =>
                 Away(build, u, machine.mem[u], machine.cont[u], status[u], left[u]))
  BY DEF IInv, TypeInv, TaskInv, Runs

(* A step that gives a turn to the task at the head of the list.               *)
LEMMA EnterStep ==
  ASSUME IInv, rip = "loop", NEW t \in Tasks, queue # <<>>, t = Head(queue),
         queue' = Append(Tail(queue), t), current' = t, UNCHANGED <<build, left>>,
         Shape(machine'), machine'.rip \in TaskPlaces, machine'.rax \in {0, 1},
         \A u \in Tasks \ {t} : /\ machine'.mem[u] = machine.mem[u] /\ machine'.cont[u] = machine.cont[u]
                                 /\ status'[u] = status[u],
         status' = [u \in Tasks |-> status'[u]], status'[t] \in Statuses \ {"FREED"},
         build # "jump" => machine'.mem[t] = machine.mem[t] /\ machine'.cont[t] = machine.cont[t],
         LoopFrame(machine'.mem[Main]), build = "jump" => Entered(machine'.cont[Main]),
         LeftFor(build, machine'.mem[Main], machine'.cont[Main], t),
         Active(build, t, machine', status'[t], left'[t])
  PROVE  IInv' /\ rip' \in TaskPlaces
<1>1. /\ rip' = machine'.rip /\ rip' \in TaskPlaces /\ rip' \notin LoopPlaces /\ rip' # "main"
      /\ rip' # "switched" /\ rip' # "entered" /\ rip \notin TaskPlaces
      /\ rip' \in Places \ {"unreached"} /\ rip' \notin {"switched", "entered"}
  BY DEF rip, TaskPlaces, LoopPlaces, Places
<1>2. /\ queue \in Seq(Tasks) /\ queue' \in Seq(Tasks) /\ Len(queue') = Len(queue)
      /\ Len(queue) \in Nat /\ Len(queue) >= 1 /\ t = queue[1]
      /\ \A i \in 1..Len(queue) : queue'[i] = IF i = Len(queue) THEN queue[1] ELSE queue[i + 1]
  BY RotatedIs DEF IInv, TypeInv
<1>3. TypeInv'
  <2>1. \A u \in Tasks : status'[u] \in Statuses
    BY DEF IInv, TypeInv
  <2>2. status' \in [Tasks -> Statuses]
    BY <2>1
  <2>3. QED
    BY <1>1, <1>2, <2>2 DEF IInv, TypeInv
<1>4. \A j, k \in 1..Len(queue) : queue[j] = queue[k] => j = k
  BY DEF IInv, QueueInv
<1>5. \A u \in Tasks : status[u] # "FREED" <=> \E k \in 1..Len(queue) : queue[k] = u
  BY DEF IInv, QueueInv
<1>6. status[t] # "FREED"
  BY <1>2, <1>5
<1>7. QueueInv'
  <2>1. ASSUME NEW j \in 1..Len(queue'), NEW k \in 1..Len(queue'), queue'[j] = queue'[k]
        PROVE  j = k
    BY <1>2, <1>4, <2>1
  <2>2. ASSUME NEW u \in Tasks
        PROVE  status'[u] # "FREED" <=> \E k \in 1..Len(queue') : queue'[k] = u
    <3>1. status'[u] # "FREED" <=> status[u] # "FREED"
      BY <1>6
    <3>2. ASSUME NEW k \in 1..Len(queue), queue[k] = u
          PROVE  \E i \in 1..Len(queue') : queue'[i] = u
      <4>1. CASE k = 1
        BY <1>2, <3>2, <4>1
      <4>2. CASE k # 1
        <5>1. k - 1 \in 1..Len(queue) /\ k - 1 # Len(queue) /\ (k - 1) + 1 = k
          BY <1>2, <4>2
        <5>2. queue'[k - 1] = u
          BY <1>2, <3>2, <5>1
        <5>3. QED
          BY <1>2, <5>1, <5>2
      <4>3. QED
        BY <4>1, <4>2
    <3>3. ASSUME NEW k \in 1..Len(queue'), queue'[k] = u
          PROVE  \E i \in 1..Len(queue) : queue[i] = u
      BY <1>2, <3>3
    <3>4. QED
      BY <1>5, <3>1, <3>2, <3>3
  <2>3. Len(queue') > 0 /\ queue'[Len(queue')] = current'
    BY <1>2
  <2>4. QED
    BY <2>1, <2>2, <2>3 DEF QueueInv
<1>8. ASSUME NEW u \in Tasks
      PROVE  TaskInv(u)'
  <2>1. CASE u = t
    BY <1>1, <2>1 DEF TaskInv, Runs
  <2>2. CASE u # t
    <3>1. ~Runs(u)' /\ ~Runs(u)
      BY <1>1, <2>2 DEF Runs
    <3>2. /\ machine'.mem[u] = machine.mem[u] /\ machine'.cont[u] = machine.cont[u]
          /\ status'[u] = status[u] /\ left'[u] = left[u] /\ build' = build
      BY <2>2
    <3>3. TaskInv(u)
      BY DEF IInv
    <3>4. status[u] # "FINISHED"
      BY <3>1, <3>3 DEF TaskInv
    <3>5. QED
      BY <3>1, <3>2, <3>3, <3>4 DEF TaskInv
  <2>3. QED
    BY <2>1, <2>2
<1>9. MainInv'
  BY <1>1 DEF MainInv
<1>10. PaintInv'
  <2>1. ASSUME NEW u \in Tasks, build # "jump", status'[u] # "FREED"
        PROVE  Marked(build, machine'.mem[u], machine'.cont[u])
    BY <1>6, <2>1 DEF IInv, PaintInv
  <2>2. QED
    BY <2>1 DEF PaintInv
<1>11. QED
  BY <1>1, <1>3, <1>7, <1>8, <1>9, <1>10 DEF IInv

(* task_yield goes on with the registers its continuation had. *)
LEMMA Resumes ==
  ASSUME NEW b, NEW t, NEW m, NEW s, NEW l, NEW cont, NEW k \in 1..Words,
         SuspendedAt(b, t, m.mem[t], cont, l, k), s = Unfinished(b),
         m.reg["rsp"] = <<t, 2 * k + 2>>,
         \A r \in Registers \ {"rsp"} : m.reg[r] = Saved(b, cont, r),
         b # "jump" \/ m.rax = 1
  PROVE  AtYielded(b, t, m, s, l)
<1> DEFINE reg == [r \in Registers |-> Saved(b, cont, r)]
<1>1. /\ Yielding(b, t, m.mem[t], l, k, reg) /\ m.mem[t][2 * k + 2] = <<t, 2 * k>>
      /\ Saved(b, cont, "rbp") = <<t, 2 * k + 2>>
  BY DEF SuspendedAt, SavedAt
<1>2. Pointers(m.reg, <<t, 2 * k>>, <<t, 2 * k>>) = Pointers(reg, <<t, 2 * k>>, <<t, 2 * k>>)
  BY DEF Pointers
<1> HIDE DEF reg
<1>3. Yielding(b, t, m.mem[t], l, k, m.reg)
  BY <1>1, <1>2 DEF Yielding
<1>4. m.reg["rbp"] = <<t, 2 * k + 2>>
  BY <1>1 DEF Registers, CalleeSaved
<1>5. QED
  BY <1>1, <1>3, <1>4 DEF AtYielded

(* run_tasks switches to a task that starts or goes on in task_yield.          *)
LEMMA SwitchToTaskKeeps ==
  ASSUME IInv, NEW t \in Tasks, SwitchToTask(t)
  PROVE  IInv' /\ rip' \in TaskPlaces
<1> DEFINE n == Call(machine, "switched")
<1>1. /\ build # "jump" /\ rip = "loop" /\ queue # <<>> /\ t = Head(queue)
      /\ queue' = Append(Tail(queue), t) /\ current' = t /\ UNCHANGED <<build, left, status>>
      /\ machine' = Switch(n, Main, t) /\ "switched" \in Places
  BY DEF SwitchToTask, ChooseTask, Places, LoopPlaces
<1>2. /\ Main \in Stacks /\ t \in Stacks /\ t # Main /\ Tasks \subseteq Stacks /\ Shape(machine)
      /\ build \in {"asm", "context"} /\ machine.rax \in {0, 1} /\ machine.reg = LoopRegs
      /\ machine.reg["rsp"] = <<Main, 2>> /\ LoopFrame(machine.mem[Main])
      /\ status = [u \in Tasks |-> status[u]]
  BY <1>1, LoopIs DEF Builds
<1>3. status[t] # "FREED"
  <2>1. queue \in Seq(Tasks) /\ t = queue[1] /\ 1 \in 1..Len(queue)
    BY <1>1, RotatedIs DEF IInv, TypeInv
  <2>2. QED
    BY <2>1 DEF IInv, QueueInv
<1>4. /\ status[t] \in Statuses
      /\ Away(build, t, machine.mem[t], machine.cont[t], status[t], left[t])
  BY <1>1, <1>3, IdleIs DEF TaskPlaces
<1>5. status[t] = Unfinished(build)
  BY <1>1, <1>4 DEF Away, Fresh, Unfinished
<1>6. /\ Shape(n) /\ SameRest(machine, n)
      /\ n.reg = Pointers(machine.reg, <<Main, 3>>, machine.reg["rbp"])
      /\ n.mem[Main][3] = <<"switched">> /\ Above(machine, n, Main, 2)
  <2> DEFINE d == 2
  <2>1. d \in 0..(Words - 1) /\ d + 1 = 3 /\ d = 2
    BY WordsAssumption
  <2> HIDE DEF d
  <2>2. machine.reg["rsp"] = <<Main, d>>
    BY <1>2, <2>1
  <2>3. /\ Shape(n) /\ SameRest(machine, n)
        /\ n.reg = Pointers(machine.reg, <<Main, d + 1>>, machine.reg["rbp"])
        /\ n.mem[Main][d + 1] = <<"switched">> /\ Above(machine, n, Main, d)
    BY <1>1, <1>2, <2>1, <2>2, CallIs
  <2> HIDE DEF n
  <2>4. QED
    BY <2>1, <2>3
<1> HIDE DEF n
<1>7. /\ n.reg["rsp"] = <<Main, 3>> /\ \A r \in Registers \ {"rsp"} : n.reg[r] = LoopRegs[r]
      /\ n.cont = machine.cont /\ n.rax = machine.rax /\ "rsp" \in Registers /\ "rbp" \in Registers
      /\ \A u \in Tasks : n.mem[u] = machine.mem[u]
      /\ LoopFrame(n.mem[Main])
  <2>1. n.reg["rsp"] = <<Main, 3>> /\ "rsp" \in Registers /\ "rbp" \in Registers
    BY <1>6, PointersAre DEF Registers, CalleeSaved
  <2>2. \A r \in Registers \ {"rsp"} : n.reg[r] = LoopRegs[r]
    BY <1>2, <1>6 DEF Pointers
  <2>3. \A u \in Tasks : n.mem[u] = machine.mem[u]
    BY <1>2, <1>6, TasksAssumption DEF Above, Kept
  <2>4. LoopFrame(n.mem[Main])
    BY <1>2, <1>6, WordsAssumption DEF Above, Kept, LoopFrame
  <2>5. QED
    BY <1>6, <2>1, <2>2, <2>3, <2>4 DEF SameRest
(* What both switches do. *)
<1>8. ASSUME NEW place \in {"task_call", "yielded"}, NEW d \in Nat,
             Shape(machine'), machine'.mem = n.mem, machine'.rax = n.rax, machine'.rip = place,
             machine'.reg["rsp"] = <<t, d>>,
             \A r \in Registers \ {"rsp"} : machine'.reg[r] = Saved(build, n.cont[t], r),
             \A u \in Stacks : u # Main => machine'.cont[u] = n.cont[u],
             LeftFor(build, n.mem[Main], machine'.cont[Main], t),
             \/ /\ place = "task_call" /\ d = 1
                /\ Fresh(build, t, machine.mem[t], machine.cont[t], status[t], left[t])
             \/ /\ place = "yielded"
                /\ \E k \in 1..Words : /\ d = 2 * k + 2
                      /\ SuspendedAt(build, t, machine.mem[t], machine.cont[t], left[t], k)
      PROVE  IInv' /\ rip' \in TaskPlaces
  <2>1. Active(build, t, machine', status'[t], left'[t])
    <3>1. CASE /\ place = "task_call" /\ d = 1
               /\ Fresh(build, t, machine.mem[t], machine.cont[t], status[t], left[t])
      <4>1. AtTaskCall(build, t, machine', status'[t], left'[t])
        BY <1>1, <1>5, <1>7, <1>8, <3>1 DEF AtTaskCall, Fresh
      <4>2. QED
        BY <1>8, <3>1, <4>1 DEF Active
    <3>2. ASSUME place = "yielded", NEW k \in 1..Words, d = 2 * k + 2,
                 SuspendedAt(build, t, machine.mem[t], machine.cont[t], left[t], k)
          PROVE  Active(build, t, machine', status'[t], left'[t])
      <4>1. SuspendedAt(build, t, machine'.mem[t], n.cont[t], left[t], k)
        BY <1>7, <1>8, <3>2
      <4>2. AtYielded(build, t, machine', status[t], left[t])
        <5>1. /\ status[t] = Unfinished(build) /\ build # "jump"
              /\ machine'.reg["rsp"] = <<t, 2 * k + 2>>
              /\ \A r \in Registers \ {"rsp"} : machine'.reg[r] = Saved(build, n.cont[t], r)
          BY <1>1, <1>5, <1>8, <3>2
        <5>2. QED
          BY <4>1, <5>1, Resumes
      <4>3. QED
        BY <1>1, <1>8, <3>2, <4>2 DEF Active
    <3>3. QED
      BY <1>8, <3>1, <3>2
  <2>2. machine'.rip \in TaskPlaces
    BY <1>8 DEF TaskPlaces
  <2>3. \A u \in Tasks : machine'.mem[u] = machine.mem[u] /\ machine'.cont[u] = machine.cont[u]
    BY <1>2, <1>7, <1>8, TasksAssumption
  <2>4. LoopFrame(machine'.mem[Main]) /\ LeftFor(build, machine'.mem[Main], machine'.cont[Main], t)
    BY <1>7, <1>8
  <2>5. machine'.rax \in {0, 1} /\ status'[t] \in Statuses \ {"FREED"}
    BY <1>1, <1>2, <1>3, <1>4, <1>7, <1>8
  <2>6. QED
    BY <1>1, <1>2, <1>8, <2>1, <2>2, <2>3, <2>4, <2>5, EnterStep
<1>9. CASE build = "asm"
  <2>1. machine' = contextswitch(n, Main, t)
    BY <1>1, <1>9 DEF Switch
  <2>2. ASSUME NEW d \in 1..Words, Saved("asm", n.cont[t], "rsp") = <<t, d>>
        PROVE  /\ Shape(machine') /\ machine'.mem = n.mem /\ machine'.rax = n.rax
               /\ machine'.rip = machine.mem[t][d][1] /\ machine'.reg["rsp"] = <<t, d - 1>>
               /\ \A r \in Registers \ {"rsp"} : machine'.reg[r] = Saved(build, n.cont[t], r)
               /\ \A u \in Stacks : u # Main => machine'.cont[u] = n.cont[u]
               /\ LeftFor(build, n.mem[Main], machine'.cont[Main], t)
    <3>1. /\ Shape(machine') /\ machine'.mem = n.mem /\ machine'.rax = n.rax
          /\ machine'.rip = n.mem[t][d][1]
          /\ \A r \in Registers : machine'.reg[r] =
                IF r = "rsp" THEN <<t, d - 1>> ELSE Saved("asm", n.cont[t], r)
          /\ \A u \in Stacks : u # Main => machine'.cont[u] = n.cont[u]
          /\ \A r \in Registers : Saved("asm", machine'.cont[Main], r) = n.reg[r]
      BY <1>2, <1>6, <2>1, <2>2, ContextswitchIs
    <3>2. LeftFor(build, n.mem[Main], machine'.cont[Main], t)
      BY <1>6, <1>7, <1>9, <3>1 DEF LeftFor
    <3>3. QED
      BY <1>7, <1>9, <3>1, <3>2
  <2>3. CASE Fresh(build, t, machine.mem[t], machine.cont[t], status[t], left[t])
    <3>1. Saved("asm", n.cont[t], "rsp") = <<t, 2>> /\ machine.mem[t][2][1] = "task_call"
          /\ 2 \in 1..Words /\ 2 - 1 = 1 /\ 1 \in Nat
      BY <1>7, <1>9, <2>3, WordsAssumption DEF Fresh
    <3>2. QED
      BY <1>8, <2>2, <2>3, <3>1
  <2>4. ASSUME NEW k \in 1..Words,
               SuspendedAt(build, t, machine.mem[t], machine.cont[t], left[t], k)
        PROVE  IInv' /\ rip' \in TaskPlaces
    <3>1. Saved("asm", n.cont[t], "rsp") = <<t, 2 * k + 3>> /\ machine.mem[t][2 * k + 3][1] = "yielded"
      BY <1>7, <1>9, <2>4 DEF SuspendedAt, SavedAt
    <3>2. 2 * k + 3 \in 1..Words /\ (2 * k + 3) - 1 = 2 * k + 2 /\ 2 * k + 2 \in Nat
      BY <2>4, WordsAssumption DEF SuspendedAt, Yielding, Frames
    <3>3. QED
      BY <1>8, <2>2, <2>4, <3>1, <3>2
  <2>5. QED
    BY <1>4, <2>3, <2>4 DEF Away
<1>10. CASE build = "context"
  <2>1. machine' = swapcontext(n, Main, t)
    BY <1>1, <1>10 DEF Switch
  <2> DEFINE d == 3
  <2>2. d \in 1..Words /\ d - 1 = 2 /\ d = 3 /\ n.reg["rsp"] = <<Main, d>>
    BY <1>7, WordsAssumption
  <2> HIDE DEF d
  <2>3. /\ Shape(machine') /\ machine'.mem = n.mem /\ machine'.rax = n.rax
        /\ machine'.rip = n.cont[t]["rip"][1]
        /\ \A r \in Registers : machine'.reg[r] = Saved("context", n.cont[t], r)
        /\ \A u \in Stacks : u # Main => machine'.cont[u] = n.cont[u]
        /\ machine'.cont[Main]["rip"] = n.mem[Main][d]
        /\ \A r \in Registers : Saved("context", machine'.cont[Main], r) =
              IF r = "rsp" THEN <<Main, d - 1>> ELSE n.reg[r]
    BY <1>2, <1>6, <2>1, <2>2, SwapcontextIs
  <2>4. LeftFor(build, n.mem[Main], machine'.cont[Main], t)
    BY <1>6, <1>7, <1>10, <2>2, <2>3 DEF LeftFor, LoopRegs
  <2>5. CASE Fresh(build, t, machine.mem[t], machine.cont[t], status[t], left[t])
    <3>1. Saved("context", n.cont[t], "rsp") = <<t, 1>> /\ n.cont[t]["rip"][1] = "task_call"
          /\ 1 \in Nat
      BY <1>7, <1>10, <2>5 DEF Fresh
    <3>2. QED
      BY <1>7, <1>8, <1>10, <2>3, <2>4, <2>5, <3>1
  <2>6. ASSUME NEW k \in 1..Words,
               SuspendedAt(build, t, machine.mem[t], machine.cont[t], left[t], k)
        PROVE  IInv' /\ rip' \in TaskPlaces
    <3>1. /\ Saved("context", n.cont[t], "rsp") = <<t, 2 * k + 2>>
          /\ n.cont[t]["rip"][1] = "yielded" /\ 2 * k + 2 \in Nat
      BY <1>7, <1>10, <2>6 DEF SuspendedAt, SavedAt
    <3>2. QED
      BY <1>7, <1>8, <1>10, <2>3, <2>4, <2>6, <3>1
  <2>7. QED
    BY <1>4, <2>5, <2>6 DEF Away
<1>11. QED
  BY <1>2, <1>9, <1>10
(* The frame of schedule_task, with its parameter. *)
LEMMA ScheduleFrame ==
  ASSUME IInv, rip = "loop", NEW t
  PROVE  LET n == ScheduleTaskFrame(machine, t)
         IN  /\ Shape(n) /\ SameRest(machine, n) /\ n.rip = machine.rip
             /\ n.reg = Pointers(machine.reg, <<Main, 5>>, <<Main, 4>>)
             /\ n.mem[Main][5] = <<t>> /\ LoopFrame(n.mem[Main])
             /\ \A u \in Tasks : n.mem[u] = machine.mem[u]
<1> DEFINE c == Prologue(Call(machine, "loop"))
           n == ScheduleTaskFrame(machine, t)
<1>1. /\ Main \in Stacks /\ Main \notin Tasks /\ Tasks \subseteq Stacks /\ Shape(machine)
      /\ machine.reg["rsp"] = <<Main, 2>> /\ Unpainted(machine.reg["rbp"])
      /\ LoopFrame(machine.mem[Main]) /\ "loop" \in Places
  BY LoopIs, PlainWords DEF Places, LoopPlaces
<1> DEFINE d == 2
           e == 4
<1>2. d \in 0..(Words - 2) /\ d + 2 = e /\ d = 2 /\ e \in 0..(Words - 1) /\ e + 1 = 5 /\ e = 4
  BY WordsAssumption
<1> HIDE DEF d, e
<1>3. /\ Shape(c) /\ SameRest(machine, c) /\ c.rip = machine.rip
      /\ c.reg = Pointers(machine.reg, <<Main, d + 2>>, <<Main, d + 2>>)
      /\ Above(machine, c, Main, d)
  BY <1>1, <1>2, CallFrame
<1>4. n = Push(c, <<t>>)
  BY DEF ScheduleTaskFrame
<1> HIDE DEF c, n
<1>5. c.reg["rsp"] = <<Main, e>> /\ c.reg["rbp"] = <<Main, 4>>
  BY <1>2, <1>3, PointersAre
<1>6. /\ Shape(n) /\ SameRest(c, n) /\ n.rip = c.rip
      /\ n.reg = Pointers(c.reg, <<Main, e + 1>>, c.reg["rbp"])
      /\ n.mem[Main][e + 1] = <<t>> /\ Kept(c, n, Main, e)
  BY <1>1, <1>2, <1>3, <1>4, <1>5, PushIs
<1>7. n.reg = Pointers(machine.reg, <<Main, 5>>, <<Main, 4>>)
  BY <1>2, <1>3, <1>5, <1>6, PointersAre
<1>8. LoopFrame(n.mem[Main]) /\ \A u \in Tasks : n.mem[u] = machine.mem[u]
  BY <1>1, <1>2, <1>3, <1>6, WordsAssumption DEF Above, Kept, LoopFrame
<1>9. QED
  BY <1>2, <1>3, <1>6, <1>7, <1>8 DEF SameRest, n

(* choose_task, when the loop is at its beginning. *)
LEMMA ChosenIs ==
  ASSUME IInv, NEW t \in Tasks, ChooseTask(t)
  PROVE  /\ rip = "loop" /\ queue # <<>> /\ t = Head(queue) /\ status[t] \in Statuses \ {"FREED"}
         /\ queue' = Append(Tail(queue), t) /\ current' = t /\ UNCHANGED <<build, left>>
         /\ Away(build, t, machine.mem[t], machine.cont[t], status[t], left[t])
<1>1. /\ rip = "loop" /\ queue # <<>> /\ t = Head(queue)
      /\ queue' = Append(Tail(queue), t) /\ current' = t /\ UNCHANGED <<build, left>>
  BY DEF ChooseTask
<1>2. status[t] # "FREED"
  <2>1. queue \in Seq(Tasks) /\ t = queue[1] /\ 1 \in 1..Len(queue)
    BY <1>1, RotatedIs DEF IInv, TypeInv
  <2>2. QED
    BY <2>1 DEF IInv, QueueInv
<1>3. QED
  BY <1>1, <1>2, IdleIs DEF TaskPlaces

(* schedule_task starts a task on its own stack.                               *)
LEMMA StartTaskKeeps ==
  ASSUME IInv, NEW t \in Tasks, StartTask(t)
  PROVE  IInv' /\ rip' \in TaskPlaces
<1> DEFINE n == ScheduleTaskFrame(machine, t)
           o == [n EXCEPT !.reg["rsp"] = <<t, 0>>]
           c == Prologue(Call(o, "scheduled"))
<1>1. /\ build = "jump" /\ ChooseTask(t) /\ status[t] = "CREATED"
      /\ status' = [status EXCEPT ![t] = "RUNNING"]
      /\ machine' = Goto(c, "func") /\ "scheduled" \in Places /\ "func" \in TaskPlaces
  BY DEF StartTask, Places, TaskPlaces
<1>2. /\ rip = "loop" /\ queue # <<>> /\ t = Head(queue)
      /\ queue' = Append(Tail(queue), t) /\ current' = t /\ UNCHANGED <<build, left>>
      /\ Away(build, t, machine.mem[t], machine.cont[t], status[t], left[t])
  BY <1>1, ChosenIs
<1>3. /\ Main \in Stacks /\ t \in Stacks /\ t # Main /\ Tasks \subseteq Stacks
      /\ machine.rax \in {0, 1} /\ Entered(machine.cont[Main])
      /\ status = [u \in Tasks |-> status[u]]
  BY <1>1, <1>2, LoopIs
<1>4. left[t] = <<>>
  BY <1>1, <1>2 DEF Away, Fresh, Unfinished
<1>5. /\ Shape(n) /\ SameRest(machine, n)
      /\ n.reg = Pointers(machine.reg, <<Main, 5>>, <<Main, 4>>)
      /\ n.mem[Main][5] = <<t>> /\ LoopFrame(n.mem[Main])
      /\ \A u \in Tasks : n.mem[u] = machine.mem[u]
  BY <1>2, ScheduleFrame
<1> HIDE DEF n
<1>6. /\ Shape(o) /\ SameRest(n, o) /\ o.mem = n.mem
      /\ o.reg["rsp"] = <<t, 0>> /\ o.reg["rbp"] = <<Main, 4>>
  <2>1. o = Moved(n, <<t, 0>>, n.reg["rbp"], n.rip)
    BY <1>5, PointerSet
  <2> HIDE DEF o
  <2>2. QED
    BY <1>5, <2>1, MovedIs, PointersAre
<1> HIDE DEF o
<1>7. /\ Shape(c) /\ SameRest(o, c)
      /\ c.reg = Pointers(o.reg, <<t, 2>>, <<t, 2>>)
      /\ c.mem[t][1] = <<"scheduled">> /\ c.mem[t][2] = <<Main, 4>>
      /\ Above(o, c, t, 0)
  <2> DEFINE d == 0
  <2>1. d \in 0..(Words - 2) /\ d + 1 = 1 /\ d + 2 = 2 /\ d = 0 /\ o.reg["rsp"] = <<t, d>>
        /\ Unpainted(o.reg["rbp"])
    BY <1>6, PlainWords, WordsAssumption
  <2> HIDE DEF d
  <2>2. /\ Shape(c) /\ SameRest(o, c)
        /\ c.reg = Pointers(o.reg, <<t, d + 2>>, <<t, d + 2>>)
        /\ c.mem[t][d + 1] = <<"scheduled">> /\ c.mem[t][d + 2] = o.reg["rbp"]
        /\ Above(o, c, t, d)
    BY <1>1, <1>3, <1>6, <2>1, CallFrame
  <2> HIDE DEF c
  <2>3. QED
    BY <1>6, <2>1, <2>2
<1> HIDE DEF c
<1>8. machine' = Moved(c, <<t, 2>>, <<t, 2>>, "func")
  BY <1>1, <1>7, GotoIs, PointersAre
<1>9. /\ Shape(machine') /\ SameRest(machine, machine') /\ machine'.mem = c.mem
      /\ machine'.rip = "func" /\ machine'.reg["rsp"] = <<t, 2>> /\ machine'.reg["rbp"] = <<t, 2>>
  BY <1>5, <1>6, <1>7, <1>8, MovedIs, PointersAre DEF SameRest
<1>10. /\ c.mem[Main] = n.mem[Main] /\ \A u \in Tasks \ {t} : c.mem[u] = machine.mem[u]
  BY <1>3, <1>5, <1>6, <1>7 DEF Above, Kept
<1>11. Frames(build, t, machine'.mem[t], 1)
  BY <1>1, <1>7, <1>9, WordsAssumption DEF Frames, Bottom, BaseFrames
<1>12. status'[t] = "RUNNING" /\ status' = [u \in Tasks |-> status'[u]]
       /\ \A u \in Tasks \ {t} : status'[u] = status[u]
  BY <1>1, <1>3
<1>13. AtFunc(build, t, machine', status'[t], left'[t])
  <2>1. 2 * 1 = 2 /\ 1 \in 1..Words
    BY WordsAssumption
  <2>2. QED
    BY <1>1, <1>2, <1>4, <1>9, <1>11, <1>12, <2>1 DEF AtFunc, Unfinished
<1>14. Active(build, t, machine', status'[t], left'[t])
  BY <1>9, <1>13 DEF Active
<1>15. LeftFor(build, machine'.mem[Main], machine'.cont[Main], t) /\ LoopFrame(machine'.mem[Main])
       /\ Entered(machine'.cont[Main])
  BY <1>1, <1>3, <1>5, <1>9, <1>10 DEF LeftFor, SameRest
<1>16. \A u \in Tasks \ {t} : machine'.mem[u] = machine.mem[u] /\ machine'.cont[u] = machine.cont[u]
  BY <1>9, <1>10 DEF SameRest
<1>17. machine'.rax \in {0, 1} /\ status'[t] \in Statuses \ {"FREED"}
  BY <1>3, <1>9, <1>12 DEF SameRest, Statuses
<1>18. QED
  BY <1>1, <1>2, <1>9, <1>12, <1>14, <1>15, <1>16, <1>17, EnterStep

(* schedule_task jumps into task_yield.                                        *)
LEMMA ResumeTaskKeeps ==
  ASSUME IInv, NEW t \in Tasks, ResumeTask(t)
  PROVE  IInv' /\ rip' \in TaskPlaces
<1> DEFINE n == ScheduleTaskFrame(machine, t)
           c == Call(n, "unreached")
<1>1. /\ build = "jump" /\ ChooseTask(t) /\ status[t] = "RUNNING" /\ UNCHANGED status
      /\ machine' = my_longjmp(c, t, 1) /\ "unreached" \in Places /\ "yielded" \in TaskPlaces
  BY DEF ResumeTask, Places, TaskPlaces
<1>2. /\ rip = "loop" /\ queue # <<>> /\ t = Head(queue) /\ status[t] \in Statuses \ {"FREED"}
      /\ queue' = Append(Tail(queue), t) /\ current' = t /\ UNCHANGED <<build, left>>
      /\ Away(build, t, machine.mem[t], machine.cont[t], status[t], left[t])
  BY <1>1, ChosenIs
<1>3. /\ Main \in Stacks /\ t \in Stacks /\ t # Main /\ Tasks \subseteq Stacks
      /\ Entered(machine.cont[Main]) /\ status = [u \in Tasks |-> status[u]]
  BY <1>1, <1>2, LoopIs
<1>4. PICK k \in 1..Words : SuspendedAt(build, t, machine.mem[t], machine.cont[t], left[t], k)
  BY <1>1, <1>2 DEF Away, Fresh
<1>5. /\ Shape(n) /\ SameRest(machine, n)
      /\ n.reg = Pointers(machine.reg, <<Main, 5>>, <<Main, 4>>)
      /\ n.mem[Main][5] = <<t>> /\ LoopFrame(n.mem[Main])
      /\ \A u \in Tasks : n.mem[u] = machine.mem[u]
  BY <1>2, ScheduleFrame
<1> HIDE DEF n
<1>6. Shape(c) /\ SameRest(n, c) /\ Above(n, c, Main, 5)
  <2> DEFINE d == 5
  <2>1. d \in 0..(Words - 1) /\ d = 5 /\ n.reg["rsp"] = <<Main, d>>
    BY <1>5, PointersAre, WordsAssumption
  <2> HIDE DEF d
  <2>2. Shape(c) /\ SameRest(n, c) /\ Above(n, c, Main, d)
    BY <1>1, <1>3, <1>5, <2>1, CallIs
  <2>3. QED
    BY <2>1, <2>2
<1> HIDE DEF c
<1>7. /\ Shape(machine') /\ machine'.mem = c.mem /\ machine'.rax = 1 /\ machine'.cont = c.cont
      /\ machine'.rip = c.cont[t][8][1]
      /\ \A r \in Registers : machine'.reg[r] = Saved("jump", c.cont[t], r)
  BY <1>1, <1>3, <1>6, LongjmpIs
<1>8. c.cont = machine.cont
  BY <1>5, <1>6 DEF SameRest
<1>9. /\ machine'.rip = "yielded" /\ machine'.reg["rsp"] = <<t, 2 * k + 2>>
  BY <1>1, <1>4, <1>7, <1>8 DEF SuspendedAt, SavedAt, Registers
<1>10. /\ \A u \in Tasks : c.mem[u] = machine.mem[u]
       /\ LoopFrame(c.mem[Main]) /\ c.mem[Main][5] = <<t>>
  <2>1. \A u \in Tasks : c.mem[u] = machine.mem[u]
    BY <1>3, <1>5, <1>6, TasksAssumption DEF Above, Kept
  <2>2. {1, 2, 5} \subseteq 1..Words /\ \A d \in {1, 2, 5} : d <= 5
    BY WordsAssumption
  <2>3. \A d \in {1, 2, 5} : c.mem[Main][d] = n.mem[Main][d]
    BY <1>6, <2>2 DEF Above, Kept
  <2>4. QED
    BY <1>5, <2>1, <2>3 DEF LoopFrame
<1>11. AtYielded(build, t, machine', status[t], left[t])
  <2>1. \A r \in Registers \ {"rsp"} : machine'.reg[r] = Saved(build, machine.cont[t], r)
    BY <1>1, <1>7, <1>8
  <2>2. SuspendedAt(build, t, machine'.mem[t], machine.cont[t], left[t], k)
    BY <1>4, <1>7, <1>10
  <2>3. status[t] = Unfinished(build)
    BY <1>1 DEF Unfinished
  <2>4. QED
    BY <1>7, <1>9, <2>1, <2>2, <2>3, Resumes
<1>12. Active(build, t, machine', status'[t], left'[t])
  BY <1>1, <1>2, <1>9, <1>11 DEF Active
<1>13. /\ LeftFor(build, machine'.mem[Main], machine'.cont[Main], t) /\ LoopFrame(machine'.mem[Main])
       /\ Entered(machine'.cont[Main])
  BY <1>1, <1>3, <1>7, <1>8, <1>10 DEF LeftFor
<1>14. \A u \in Tasks : machine'.mem[u] = machine.mem[u] /\ machine'.cont[u] = machine.cont[u]
  BY <1>7, <1>8, <1>10
<1>15. QED
  BY <1>1, <1>2, <1>3, <1>7, <1>9, <1>12, <1>13, <1>14, EnterStep
(* A step of main or run_tasks that gives no task a turn. *)
LEMMA MainStep ==
  ASSUME IInv, rip \notin TaskPlaces, \A u \in Tasks : status[u] # "FINISHED",
         UNCHANGED <<build, queue, status, left>>, current' \in Tasks \cup {Null},
         Shape(machine'), machine'.rip \in Places \ {"unreached"}, machine'.rip \notin TaskPlaces,
         machine'.rax \in {0, 1},
         \A u \in Tasks : machine'.mem[u] = machine.mem[u] /\ machine'.cont[u] = machine.cont[u],
         MainInv', ~Turn'
  PROVE  IInv'
<1>1. TypeInv'
  BY DEF IInv, TypeInv, rip
<1>2. ASSUME NEW u \in Tasks
      PROVE  TaskInv(u)'
  <2>1. ~Runs(u) /\ ~Runs(u)' /\ status[u] # "FINISHED" /\ TaskInv(u)
    BY DEF Runs, rip, IInv
  <2>2. QED
    BY <2>1 DEF TaskInv
<1>3. PaintInv'
  BY DEF IInv, PaintInv
<1>4. QueueInv'
  BY DEF IInv, QueueInv
<1>5. QED
  BY <1>1, <1>2, <1>3, <1>4 DEF IInv

(* main calls run_tasks.                                                       *)
LEMMA RunTasksKeeps ==
  ASSUME IInv, RunTasks
  PROVE  IInv'
<1> DEFINE n == Prologue(Call(machine, "main"))
           c == Call(n, "entered")
<1>1. /\ rip = "main" /\ rip \notin TaskPlaces /\ rip \notin {"switched", "entered"}
      /\ machine' = IF build = "jump" THEN my_setjmp(c, Main) ELSE Goto(n, "loop")
      /\ {"main", "entered", "loop"} \subseteq Places
      /\ UNCHANGED <<build, queue, current, status, left>>
  BY DEF RunTasks, TaskPlaces, Places, LoopPlaces
<1>2. /\ Main \in Stacks /\ Main \notin Tasks /\ Tasks \subseteq Stacks /\ Shape(machine)
      /\ machine.reg = MainRegs /\ machine.rax \in {0, 1} /\ current = Null
  BY <1>1, TasksAssumption DEF IInv, TypeInv, MainInv, Stacks
<1>3. /\ machine.reg["rsp"] = <<Main, 0>> /\ machine.reg["rbp"] = <<"rbp", Main, 0>>
      /\ Unpainted(machine.reg["rbp"])
  BY <1>2, PlainWords DEF MainRegs, Registers, CalleeSaved
<1> DEFINE d == 0
           e == 2
           f == 3
<1>4. d \in 0..(Words - 2) /\ d + 1 = 1 /\ d + 2 = e /\ d = 0 /\ e = 2 /\ e \in 0..(Words - 1)
      /\ e + 1 = f /\ f \in 1..Words /\ f - 1 = e
  BY WordsAssumption
<1> HIDE DEF d, e, f
<1>5. /\ Shape(n) /\ SameRest(machine, n)
      /\ n.reg = Pointers(machine.reg, <<Main, d + 2>>, <<Main, d + 2>>)
      /\ n.mem[Main][d + 1] = <<"main">> /\ n.mem[Main][d + 2] = machine.reg["rbp"]
      /\ Above(machine, n, Main, d)
  BY <1>1, <1>2, <1>3, <1>4, CallFrame
<1> HIDE DEF n
<1>6. /\ n.reg = LoopRegs /\ LoopFrame(n.mem[Main]) /\ n.reg["rsp"] = <<Main, e>>
      /\ n.reg["rbp"] = <<Main, 2>>
  <2>1. n.reg = LoopRegs
    BY <1>2, <1>4, <1>5 DEF Pointers, LoopRegs, MainRegs
  <2>2. n.reg["rsp"] = <<Main, e>> /\ n.reg["rbp"] = <<Main, 2>>
    BY <1>4, <1>5, PointersAre
  <2>3. LoopFrame(n.mem[Main])
    BY <1>3, <1>4, <1>5 DEF LoopFrame
  <2>4. QED
    BY <2>1, <2>2, <2>3
<1>7. \A u \in Tasks : n.mem[u] = machine.mem[u] /\ n.cont[u] = machine.cont[u]
  BY <1>2, <1>5 DEF Above, Kept, SameRest
<1>8. \A u \in Tasks : status[u] # "FINISHED"
  BY <1>1, IdleIs
<1>9. CASE build = "jump"
  <2>1. machine' = my_setjmp(c, Main)
    BY <1>1, <1>9
  <2>2. /\ Shape(c) /\ SameRest(n, c)
        /\ c.reg = Pointers(n.reg, <<Main, e + 1>>, n.reg["rbp"])
        /\ c.mem[Main][e + 1] = <<"entered">> /\ Above(n, c, Main, e)
    BY <1>1, <1>2, <1>4, <1>5, <1>6, CallIs
  <2> HIDE DEF c
  <2>3. /\ c.reg["rsp"] = <<Main, f>> /\ c.mem[Main][f] = <<"entered">>
        /\ \A r \in Registers \ {"rsp"} : c.reg[r] = LoopRegs[r]
    BY <1>4, <1>6, <2>2 DEF Pointers, Registers
  <2>4. /\ Shape(machine') /\ machine'.mem = c.mem /\ machine'.rax = 0
        /\ machine'.rip = c.mem[Main][f][1]
        /\ machine'.reg = Pointers(c.reg, <<Main, f - 1>>, c.reg["rbp"])
        /\ \A u \in Stacks : u # Main => machine'.cont[u] = c.cont[u]
        /\ machine'.cont[Main][8] = c.mem[Main][f]
        /\ \A r \in Registers : Saved("jump", machine'.cont[Main], r) =
              IF r = "rsp" THEN <<Main, f - 1>> ELSE c.reg[r]
    BY <1>2, <1>4, <2>1, <2>2, <2>3, SetjmpIs
  <2>5. machine'.rip = "entered" /\ Entered(machine'.cont[Main])
    BY <1>4, <2>3, <2>4 DEF Entered, LoopRegs
  <2>6. machine'.reg = LoopRegs
    BY <1>4, <1>6, <2>2, <2>4 DEF Pointers, LoopRegs
  <2>7. LoopFrame(machine'.mem[Main])
    BY <1>4, <1>6, <2>2, <2>4, WordsAssumption DEF LoopFrame, Above, Kept
  <2>8. \A u \in Tasks : machine'.mem[u] = machine.mem[u] /\ machine'.cont[u] = machine.cont[u]
    BY <1>2, <1>7, <2>2, <2>4 DEF Above, Kept, SameRest
  <2>9. MainInv'
    BY <1>1, <1>9, <2>5, <2>6, <2>7 DEF MainInv, rip, TaskPlaces
  <2>10. ~Turn'
    BY <1>1, <1>2, <2>5 DEF Turn, rip, TaskPlaces
  <2>11. QED
    BY <1>1, <1>2, <1>8, <2>4, <2>5, <2>8, <2>9, <2>10, MainStep DEF TaskPlaces
<1>10. CASE build # "jump"
  <2>1. machine' = Moved(n, n.reg["rsp"], n.reg["rbp"], "loop")
    BY <1>1, <1>5, <1>10, GotoIs
  <2>2. /\ Shape(machine') /\ SameRest(n, machine') /\ machine'.mem = n.mem /\ machine'.rip = "loop"
        /\ machine'.reg = LoopRegs
    BY <1>5, <1>6, <2>1, MovedIs, PointersOf
  <2>3. MainInv'
    BY <1>1, <1>6, <1>10, <2>2 DEF MainInv, rip, TaskPlaces
  <2>4. ~Turn'
    BY <2>2 DEF Turn, rip, TaskPlaces
  <2>5. machine'.rax \in {0, 1}
        /\ \A u \in Tasks : machine'.mem[u] = machine.mem[u] /\ machine'.cont[u] = machine.cont[u]
    BY <1>2, <1>5, <1>7, <2>2 DEF SameRest
  <2>6. QED
    BY <1>1, <1>2, <1>8, <2>2, <2>3, <2>4, <2>5, MainStep DEF TaskPlaces
<1>11. QED
  BY <1>9, <1>10

(* run_tasks returns to main, through the frame it began with.                 *)
LEMMA RunTasksReturnsKeeps ==
  ASSUME IInv, RunTasksReturns
  PROVE  IInv'
<1>1. /\ rip = "loop" /\ rip \notin TaskPlaces /\ rip \notin {"switched", "entered"}
      /\ current' = Null /\ machine' = Epilogue(machine) /\ "main" \in Places
      /\ UNCHANGED <<build, queue, status, left>>
  BY DEF RunTasksReturns, TaskPlaces, Places
<1>2. /\ Main \in Stacks /\ Shape(machine) /\ machine.rax \in {0, 1} /\ machine.reg = LoopRegs
      /\ machine.reg["rbp"] = <<Main, 2>> /\ LoopFrame(machine.mem[Main])
  BY <1>1, LoopIs
<1>3. machine' = Moved(machine, <<Main, 0>>, <<"rbp", Main, 0>>, "main")
  <2> DEFINE d == 2
  <2>1. d \in 2..Words /\ d - 2 = 0 /\ d - 1 = 1 /\ d = 2 /\ machine.reg["rbp"] = <<Main, d>>
    BY <1>2, WordsAssumption
  <2> HIDE DEF d
  <2>2. machine' = Moved(machine, <<Main, d - 2>>, machine.mem[Main][d], machine.mem[Main][d - 1][1])
    BY <1>1, <1>2, <2>1, EpilogueIs
  <2>3. machine.mem[Main][d] = <<"rbp", Main, 0>> /\ machine.mem[Main][d - 1][1] = "main"
    BY <1>2, <2>1 DEF LoopFrame
  <2>4. QED
    BY <2>1, <2>2, <2>3
<1>4. /\ Shape(machine') /\ SameRest(machine, machine') /\ machine'.mem = machine.mem
      /\ machine'.rip = "main" /\ machine'.reg = MainRegs
  <2>1. Pointers(machine.reg, <<Main, 0>>, <<"rbp", Main, 0>>) = MainRegs
    BY <1>2 DEF Pointers, LoopRegs, MainRegs
  <2>2. QED
    BY <1>2, <1>3, <2>1, MovedIs
<1>5. MainInv' /\ ~Turn'
  BY <1>1, <1>4 DEF MainInv, Turn, rip, TaskPlaces, LoopPlaces
<1>6. \A u \in Tasks : status[u] # "FINISHED"
  BY <1>1, IdleIs
<1>7. QED
  BY <1>1, <1>2, <1>4, <1>5, <1>6, MainStep DEF SameRest, TaskPlaces

(* The task that has had its turn last leaves the list. *)
LEMMA RemoveLast ==
  ASSUME NEW q \in Seq(Tasks), NEW t, Len(q) > 0, q[Len(q)] = t,
         \A j, k \in 1..Len(q) : q[j] = q[k] => j = k
  PROVE  /\ remove_task_tail(q, t) \in Seq(Tasks) /\ Len(q) \in Nat
         /\ Len(remove_task_tail(q, t)) = Len(q) - 1
         /\ \A i \in 1..(Len(q) - 1) : remove_task_tail(q, t)[i] = q[i]
<1>1. Len(q) \in Nat /\ q # <<>> /\ 1 \in 1..Len(q) /\ Len(q) \in 1..Len(q)
  BY EmptySeq
<1>2. /\ Head(q) = q[1] /\ Tail(q) \in Seq(Tasks) /\ Len(Tail(q)) = Len(q) - 1
  BY <1>1, HeadTailProperties
<1>3. CASE Head(q) = t
  <2>1. Len(q) = 1
    BY <1>1, <1>2, <1>3
  <2>2. remove_task_tail(q, t) = Tail(q)
    BY <1>1, <1>3 DEF remove_task_tail
  <2>3. QED
    BY <1>1, <1>2, <2>1, <2>2
<1>4. CASE Head(q) # t
  <2>1. remove_task_tail(q, t) = SubSeq(q, 1, Len(q) - 1)
    BY <1>1, <1>4 DEF remove_task_tail, Last, Front
  <2> DEFINE n == Len(q) - 1
  <2>2. 1 \in 1..(Len(q) + 1) /\ n \in (1 - 1)..Len(q) /\ n \in Nat
    BY <1>1
  <2>3. /\ SubSeq(q, 1, n) \in Seq(Tasks) /\ Len(SubSeq(q, 1, n)) = n
        /\ \A i \in 1..n : SubSeq(q, 1, n)[i] = q[i]
    <3> HIDE DEF n
    <3>1. SubSeq(q, 1, n) \in Seq(Tasks) /\ Len(SubSeq(q, 1, n)) = n
      BY <2>2, SubSeqProperties
    <3>2. \A i \in 1..n : SubSeq(q, 1, n)[i] = q[1 + i - 1]
      BY <2>2, SubSeqProperties
    <3>3. QED
      BY <2>2, <3>1, <3>2
  <2>4. QED
    BY <1>1, <2>1, <2>3
<1>5. QED
  BY <1>3, <1>4

(* Back in the loop, with a finished task reclaimed or with none.              *)
LEMMA ReclaimKeeps ==
  ASSUME IInv, Reclaim
  PROVE  IInv'
<1>1. /\ rip \in {"switched", "entered"} /\ rip \notin TaskPlaces /\ rip \in LoopPlaces /\ rip # "main"
      /\ machine' = Goto(machine, "loop") /\ "loop" \in Places /\ UNCHANGED <<build, left>>
  BY DEF Reclaim, TaskPlaces, LoopPlaces, Places
<1>2. /\ Shape(machine) /\ machine.reg = LoopRegs /\ machine.rax \in {0, 1}
      /\ LoopFrame(machine.mem[Main]) /\ (build = "jump" => Entered(machine.cont[Main]))
      /\ current \in Tasks \cup {Null} /\ queue \in Seq(Tasks)
      /\ status \in [Tasks -> Statuses]
  BY <1>1 DEF IInv, TypeInv, MainInv
<1>3. machine' = Moved(machine, machine.reg["rsp"], machine.reg["rbp"], "loop")
  BY <1>1, <1>2, GotoIs
<1>4. /\ Shape(machine') /\ SameRest(machine, machine') /\ machine'.mem = machine.mem
      /\ machine'.rip = "loop" /\ machine'.reg = LoopRegs
  BY <1>2, <1>3, MovedIs, PointersOf
<1>5. MainInv' /\ ~Turn'
  BY <1>1, <1>2, <1>4 DEF MainInv, Turn, rip, TaskPlaces, LoopPlaces, SameRest
<1>6. \A u \in Tasks : TaskInv(u) /\ ~Runs(u)
  BY <1>1 DEF IInv, Runs
<1>7. CASE ~(current # Null /\ status[current] = "FINISHED")
  <2>1. UNCHANGED <<queue, status, current>>
    BY <1>7 DEF Reclaim
  <2>2. ASSUME NEW u \in Tasks
        PROVE  status[u] # "FINISHED"
    BY <1>6, <1>7, TasksAssumption DEF TaskInv
  <2>3. QED
    BY <1>1, <1>2, <1>4, <1>5, <2>1, <2>2, MainStep DEF SameRest, TaskPlaces
<1>8. CASE current # Null /\ status[current] = "FINISHED"
  <2> DEFINE t == current
  <2>1. /\ t \in Tasks /\ queue' = remove_task_tail(queue, t)
        /\ status' = [status EXCEPT ![t] = "FREED"] /\ current' \in Tasks \cup {Null}
    BY <1>2, <1>8 DEF Reclaim
  <2>2. /\ Len(queue) > 0 /\ queue[Len(queue)] = t
        /\ \A j, k \in 1..Len(queue) : queue[j] = queue[k] => j = k
        /\ \A u \in Tasks : status[u] # "FREED" <=> \E k \in 1..Len(queue) : queue[k] = u
    BY <1>1, <1>8 DEF IInv, QueueInv, Turn
  <2>3. /\ queue' \in Seq(Tasks) /\ Len(queue) \in Nat /\ Len(queue') = Len(queue) - 1
        /\ \A i \in 1..(Len(queue) - 1) : queue'[i] = queue[i]
    BY <1>2, <2>1, <2>2, RemoveLast
  <2>4. /\ status'[t] = "FREED" /\ status' \in [Tasks -> Statuses]
        /\ \A u \in Tasks \ {t} : status'[u] = status[u] /\ status[u] # "FINISHED"
    BY <1>2, <1>6, <2>1 DEF Statuses, TaskInv
  <2>5. left[t] = <<>>
    BY <1>6, <1>8, <2>1 DEF TaskInv
  <2>6. TypeInv'
    BY <1>1, <1>2, <1>4, <2>1, <2>3, <2>4 DEF IInv, TypeInv, SameRest, rip
  <2>7. ASSUME NEW u \in Tasks
        PROVE  TaskInv(u)'
    <3>1. ~Runs(u)'
      BY <1>4 DEF Runs, rip, TaskPlaces
    <3>2. CASE u = t
      BY <1>1, <2>1, <2>4, <2>5, <3>2 DEF TaskInv
    <3>3. CASE u # t
      <4>1. /\ machine'.mem[u] = machine.mem[u] /\ machine'.cont[u] = machine.cont[u]
            /\ status'[u] = status[u] /\ left'[u] = left[u] /\ build' = build
            /\ status[u] # "FINISHED"
        BY <1>1, <1>4, <2>4, <3>3 DEF SameRest
      <4>2. QED
        BY <1>6, <3>1, <4>1 DEF TaskInv
    <3>4. QED
      BY <3>2, <3>3
  <2>8. PaintInv'
    <3>1. ASSUME NEW u \in Tasks, build # "jump", status'[u] # "FREED"
          PROVE  Marked(build, machine'.mem[u], machine'.cont[u])
      BY <1>4, <2>4, <3>1 DEF IInv, PaintInv, SameRest
    <3>2. QED
      BY <1>1, <3>1 DEF PaintInv
  <2>9. QueueInv'
    <3>1. ASSUME NEW j \in 1..Len(queue'), NEW k \in 1..Len(queue'), queue'[j] = queue'[k]
          PROVE  j = k
      BY <2>2, <2>3, <3>1
    <3>2. ASSUME NEW u \in Tasks, NEW k \in 1..Len(queue'), queue'[k] = u
          PROVE  status'[u] # "FREED"
      <4>1. k \in 1..Len(queue) /\ k # Len(queue) /\ queue[k] = u /\ Len(queue) \in 1..Len(queue)
        BY <2>3, <3>2
      <4>2. u # t
        BY <2>2, <4>1
      <4>3. QED
        BY <2>2, <2>4, <4>1, <4>2
    <3>3. ASSUME NEW u \in Tasks, status'[u] # "FREED"
          PROVE  \E k \in 1..Len(queue') : queue'[k] = u
      <4>1. u # t /\ status[u] # "FREED"
        BY <2>4, <3>3
      <4>2. PICK k \in 1..Len(queue) : queue[k] = u
        BY <2>2, <4>1
      <4>3. k # Len(queue) /\ k \in 1..(Len(queue) - 1)
        BY <2>2, <2>3, <4>1, <4>2
      <4>4. QED
        BY <2>3, <4>2, <4>3
    <3>4. QED
      BY <1>5, <3>1, <3>2, <3>3 DEF QueueInv
  <2>10. QED
    BY <1>5, <2>6, <2>7, <2>8, <2>9 DEF IInv
<1>9. QED
  BY <1>7, <1>8
(* A stack and its continuation are replaced. *)
WordsOf(a) == a = [d \in 1..Words |-> a[d]]

Replacing(m, t, a, c) == [m EXCEPT !.mem[t] = a, !.cont[t] = c]

(* Only that stack and that continuation change.                               *)
LEMMA StackReplaced ==
  ASSUME NEW m, Shape(m), NEW t \in Stacks, NEW a, WordsOf(a), NEW c,
         NEW o, o = Replacing(m, t, a, c)
  PROVE  /\ Shape(o) /\ o.reg = m.reg /\ o.rax = m.rax /\ o.rip = m.rip
         /\ o.mem[t] = a /\ o.cont[t] = c
         /\ \A u \in Stacks \ {t} : o.mem[u] = m.mem[u] /\ o.cont[u] = m.cont[u]
<1> DEFINE mem == [m.mem EXCEPT ![t] = a]
           cont == [m.cont EXCEPT ![t] = c]
<1>1. o.reg = m.reg /\ o.rax = m.rax /\ o.rip = m.rip /\ o.mem = mem /\ o.cont = cont
  BY DEF Replacing, Shape
<1>2. DOMAIN o = {"reg", "rax", "rip", "mem", "cont"} /\ o = [f \in DOMAIN o |-> o[f]]
  BY DEF Replacing, Shape
<1>3. /\ mem = [u \in Stacks |-> mem[u]] /\ mem[t] = a
      /\ \A u \in Stacks \ {t} : mem[u] = m.mem[u]
  BY DEF Shape
<1>4. /\ cont = [u \in Stacks |-> cont[u]] /\ cont[t] = c
      /\ \A u \in Stacks \ {t} : cont[u] = m.cont[u]
  BY DEF Shape
<1> HIDE DEF mem, cont
<1>5. \A u \in Stacks : mem[u] = [d \in 1..Words |-> mem[u][d]]
  BY <1>3 DEF Shape, WordsOf
<1>6. o = [reg |-> m.reg, rax |-> m.rax, rip |-> m.rip, mem |-> mem, cont |-> cont]
  BY <1>1, <1>2
<1>7. QED
  BY <1>1, <1>3, <1>4, <1>5, <1>6 DEF Shape

(* A new task, in each of the builds. *)
LEMMA CreatedIs ==
  ASSUME IInv, NEW t \in Tasks, CreateTask(t)
  PROVE  /\ Shape(machine') /\ machine'.reg = machine.reg /\ machine'.rax = machine.rax
         /\ machine'.rip = machine.rip
         /\ \A u \in Stacks \ {t} : machine'.mem[u] = machine.mem[u] /\ machine'.cont[u] = machine.cont[u]
         /\ Fresh(build, t, machine'.mem[t], machine'.cont[t], "CREATED", <<>>)
         /\ (build # "jump" => Marked(build, machine'.mem[t], machine'.cont[t]))
<1>1. /\ rip = "main" /\ t \in Stacks /\ Shape(machine) /\ build \in Builds /\ machine.reg = MainRegs
  BY DEF CreateTask, Stacks, IInv, TypeInv, MainInv
<1>2. "rsp" \in Registers /\ "rbp" \in Registers /\ "rip" \notin Registers
      /\ 1 \in 1..Words /\ 2 \in 1..Words /\ 1 # 2 /\ Unpainted(<<"task_call">>) /\ Unpainted(<<"link">>)
  BY PlainWords, WordsAssumption DEF Registers, CalleeSaved, Places, TaskPlaces
<1>3. CASE build = "asm"
  <2> DEFINE a == init_task_stack(allocate_fixedsize_stack)
             c == [i \in DOMAIN AsmStored |-> IF AsmStored[i] = "rsp" THEN <<t, 2>> ELSE Junk]
  <2>1. machine' = Replacing(machine, t, a, c)
    BY <1>3 DEF CreateTask, Replacing
  <2>2. WordsOf(a) /\ a[1] = <<"task_yield">> /\ a[2] = <<"task_call">>
    <3> DEFINE b == allocate_fixedsize_stack
               e == [b EXCEPT ![1] = <<"task_yield">>]
    <3>1. b = [d \in 1..Words |-> b[d]]
      BY DEF allocate_fixedsize_stack
    <3>2. e = [d \in 1..Words |-> e[d]] /\ e[1] = <<"task_yield">>
      BY <1>2, <3>1
    <3>3. a = [e EXCEPT ![2] = <<"task_call">>]
      BY DEF init_task_stack
    <3> HIDE DEF a, e
    <3>4. QED
      BY <1>2, <3>2, <3>3 DEF WordsOf
  <2>3. Saved("asm", c, "rsp") = <<t, 2>> /\ Saved("asm", c, "rbp") = Junk
    BY <1>2, Fields DEF Saved
  <2> HIDE DEF a, c
  <2>4. /\ Shape(machine') /\ machine'.reg = machine.reg /\ machine'.rax = machine.rax
        /\ machine'.rip = machine.rip /\ machine'.mem[t] = a /\ machine'.cont[t] = c
        /\ \A u \in Stacks \ {t} : machine'.mem[u] = machine.mem[u] /\ machine'.cont[u] = machine.cont[u]
    BY <1>1, <2>1, <2>2, StackReplaced
  <2>5. Fresh(build, t, a, c, "CREATED", <<>>)
    BY <1>3, <2>2, <2>3 DEF Fresh, Entry, OldRbp
  <2>6. Marked(build, a, c)
    BY <1>2, <1>3, <2>2, <2>3 DEF Marked
  <2>7. QED
    BY <2>4, <2>5, <2>6
<1>4. CASE build = "context"
  <2> DEFINE a == [allocate_fixedsize_stack EXCEPT ![1] = <<"link">>]
             c == makecontext(t)
  <2>1. machine' = Replacing(machine, t, a, c)
    BY <1>4 DEF CreateTask, Replacing
  <2>2. WordsOf(a) /\ a[1] = <<"link">>
    BY <1>2 DEF allocate_fixedsize_stack, WordsOf
  <2>3. /\ Saved("context", c, "rsp") = <<t, 1>> /\ c["rip"] = <<"task_call">>
        /\ Saved("context", c, "rbp") = <<"rbp", Main, 0>>
    BY <1>1, <1>2 DEF Saved, makecontext, MainRegs
  <2> HIDE DEF a, c
  <2>4. /\ Shape(machine') /\ machine'.reg = machine.reg /\ machine'.rax = machine.rax
        /\ machine'.rip = machine.rip /\ machine'.mem[t] = a /\ machine'.cont[t] = c
        /\ \A u \in Stacks \ {t} : machine'.mem[u] = machine.mem[u] /\ machine'.cont[u] = machine.cont[u]
    BY <1>1, <2>1, <2>2, StackReplaced
  <2>5. Fresh(build, t, a, c, "CREATED", <<>>)
    BY <1>4, <2>2, <2>3 DEF Fresh, Entry, OldRbp
  <2>6. Marked(build, a, c)
    BY <1>2, <1>4, <2>2, <2>3 DEF Marked
  <2>7. QED
    BY <2>4, <2>5, <2>6
<1>5. CASE build = "jump"
  <2> DEFINE a == [d \in 1..Words |-> Junk]
             c == [i \in 1..8 |-> Junk]
  <2>1. machine' = Replacing(machine, t, a, c)
    BY <1>5 DEF CreateTask, Replacing
  <2>2. WordsOf(a)
    BY DEF WordsOf
  <2> HIDE DEF a, c
  <2>3. /\ Shape(machine') /\ machine'.reg = machine.reg /\ machine'.rax = machine.rax
        /\ machine'.rip = machine.rip /\ machine'.mem[t] = a /\ machine'.cont[t] = c
        /\ \A u \in Stacks \ {t} : machine'.mem[u] = machine.mem[u] /\ machine'.cont[u] = machine.cont[u]
    BY <1>1, <2>1, <2>2, StackReplaced
  <2>4. Fresh(build, t, a, c, "CREATED", <<>>)
    BY <1>5 DEF Fresh
  <2>5. QED
    BY <1>5, <2>3, <2>4
<1>6. QED
  BY <1>1, <1>3, <1>4, <1>5 DEF Builds

(* A new task waits for its first turn.                                        *)
LEMMA CreateTaskKeeps ==
  ASSUME IInv, NEW t \in Tasks, CreateTask(t)
  PROVE  IInv'
<1>1. /\ rip = "main" /\ rip \notin TaskPlaces /\ rip \notin LoopPlaces
      /\ rip \notin {"switched", "entered"} /\ status[t] = "FREED"
      /\ status' = [status EXCEPT ![t] = "CREATED"] /\ queue' = Append(queue, t)
      /\ UNCHANGED <<build, current, left>>
  BY DEF CreateTask, TaskPlaces, LoopPlaces
<1>2. /\ Shape(machine') /\ machine'.reg = machine.reg /\ machine'.rax = machine.rax
      /\ machine'.rip = machine.rip
      /\ \A u \in Stacks \ {t} : machine'.mem[u] = machine.mem[u] /\ machine'.cont[u] = machine.cont[u]
      /\ Fresh(build, t, machine'.mem[t], machine'.cont[t], "CREATED", <<>>)
      /\ (build # "jump" => Marked(build, machine'.mem[t], machine'.cont[t]))
  BY CreatedIs
<1>3. /\ queue \in Seq(Tasks) /\ status \in [Tasks -> Statuses] /\ left[t] = <<>>
      /\ rip' = rip /\ Tasks \subseteq Stacks
  BY <1>1, <1>2, IdleIs DEF IInv, TypeInv, rip, Stacks
<1>4. /\ queue' \in Seq(Tasks) /\ Len(queue) \in Nat /\ Len(queue') = Len(queue) + 1
      /\ queue'[Len(queue) + 1] = t /\ \A i \in 1..Len(queue) : queue'[i] = queue[i]
  BY <1>1, <1>3, AppendProperties
<1>5. /\ status'[t] = "CREATED" /\ status' \in [Tasks -> Statuses]
      /\ \A u \in Tasks \ {t} : status'[u] = status[u]
  BY <1>1, <1>3 DEF Statuses
<1>6. TypeInv'
  BY <1>1, <1>2, <1>3, <1>4, <1>5 DEF IInv, TypeInv
<1>7. ASSUME NEW u \in Tasks
      PROVE  TaskInv(u)'
  <2>1. ~Runs(u)' /\ ~Runs(u)
    BY <1>1, <1>3 DEF Runs
  <2>2. CASE u = t
    <3>1. Away(build, t, machine'.mem[t], machine'.cont[t], status'[t], left'[t])
      BY <1>1, <1>2, <1>3, <1>5 DEF Away
    <3>2. QED
      BY <1>1, <1>5, <2>1, <2>2, <3>1 DEF TaskInv
  <2>3. CASE u # t
    <3>1. /\ machine'.mem[u] = machine.mem[u] /\ machine'.cont[u] = machine.cont[u]
          /\ status'[u] = status[u] /\ left'[u] = left[u] /\ build' = build
      BY <1>1, <1>2, <1>3, <1>5, <2>3
    <3>2. TaskInv(u) /\ status[u] # "FINISHED"
      BY <1>1, IdleIs DEF IInv
    <3>3. QED
      BY <2>1, <3>1, <3>2 DEF TaskInv
  <2>4. QED
    BY <2>2, <2>3
<1>8. MainInv'
  BY <1>1, <1>2, <1>3 DEF IInv, MainInv
<1>9. PaintInv'
  <2>1. ASSUME NEW u \in Tasks, build # "jump", status'[u] # "FREED"
        PROVE  Marked(build, machine'.mem[u], machine'.cont[u])
    <3>1. CASE u = t
      BY <1>2, <2>1, <3>1
    <3>2. CASE u # t
      BY <1>2, <1>3, <1>5, <2>1, <3>2 DEF IInv, PaintInv
    <3>3. QED
      BY <3>1, <3>2
  <2>2. QED
    BY <1>1, <2>1 DEF PaintInv
<1>10. QueueInv'
  <2>1. /\ \A j, k \in 1..Len(queue) : queue[j] = queue[k] => j = k
        /\ \A u \in Tasks : status[u] # "FREED" <=> \E k \in 1..Len(queue) : queue[k] = u
    BY DEF IInv, QueueInv
  <2>2. \A k \in 1..Len(queue) : queue[k] # t
    BY <1>1, <2>1
  <2>3. ASSUME NEW j \in 1..Len(queue')
        PROVE  j \in 1..Len(queue) \/ j = Len(queue) + 1
    BY <1>4
  <2>4. ASSUME NEW j \in 1..Len(queue'), NEW k \in 1..Len(queue'), queue'[j] = queue'[k]
        PROVE  j = k
    BY <1>4, <2>1, <2>2, <2>3, <2>4
  <2>5. ASSUME NEW u \in Tasks
        PROVE  status'[u] # "FREED" <=> \E k \in 1..Len(queue') : queue'[k] = u
    <3>1. CASE u = t
      BY <1>4, <1>5, <3>1
    <3>2. CASE u # t
      <4>1. status'[u] = status[u]
        BY <1>5, <3>2
      <4>2. ASSUME NEW k \in 1..Len(queue'), queue'[k] = u
            PROVE  \E i \in 1..Len(queue) : queue[i] = u
        BY <1>4, <2>3, <3>2, <4>2
      <4>3. ASSUME NEW k \in 1..Len(queue), queue[k] = u
            PROVE  \E i \in 1..Len(queue') : queue'[i] = u
        BY <1>4, <4>3
      <4>4. QED
        BY <2>1, <4>1, <4>2, <4>3
    <3>3. QED
      BY <3>1, <3>2
  <2>6. ~Turn'
    BY <1>1, <1>3 DEF Turn
  <2>7. QED
    BY <2>4, <2>5, <2>6 DEF QueueInv
<1>11. QED
  BY <1>6, <1>7, <1>8, <1>9, <1>10 DEF IInv
-----------------------------------------------------------------------------

(* The invariant holds initially,                                              *)
LEMMA InitIInv == Init => IInv
<1> SUFFICES ASSUME Init PROVE IInv
  OBVIOUS
<1>1. /\ machine.rip = "main" /\ machine.rax = 0 /\ machine.reg = MainRegs /\ Shape(machine)
  BY DEF Init, MainRegs, Shape
<1>2. /\ queue = <<>> /\ current = Null /\ status = [t \in Tasks |-> "FREED"]
      /\ left = [t \in Tasks |-> <<>>] /\ build \in Builds
  BY DEF Init
<1>3. TypeInv
  BY <1>1, <1>2 DEF TypeInv, rip, Places, Statuses
<1>4. \A t \in Tasks : TaskInv(t)
  BY <1>2 DEF TaskInv
<1>5. MainInv
  BY <1>1, <1>2 DEF MainInv, rip, TaskPlaces, LoopPlaces
<1>6. PaintInv
  BY <1>2 DEF PaintInv
<1>7. QueueInv
  BY <1>1, <1>2 DEF QueueInv, Turn, rip, TaskPlaces
<1>8. QED
  BY <1>3, <1>4, <1>5, <1>6, <1>7 DEF IInv

(* each step keeps it,                                                         *)
LEMMA NextIInv == IInv /\ [Next]_vars => IInv'
<1> SUFFICES ASSUME IInv, [Next]_vars PROVE IInv'
  OBVIOUS
<1>1. ASSUME NEW t \in Tasks, CreateTask(t) PROVE IInv'
  BY <1>1, CreateTaskKeeps
<1>2. ASSUME NEW t \in Tasks, Dispatch(t) PROVE IInv'
  BY <1>2, SwitchToTaskKeeps, StartTaskKeeps, ResumeTaskKeeps DEF Dispatch
<1>3. CASE RunTasks
  BY <1>3, RunTasksKeeps
<1>4. CASE Reclaim
  BY <1>4, ReclaimKeeps
<1>5. CASE RunTasksReturns
  BY <1>5, RunTasksReturnsKeeps
<1>6. CASE TaskCall
  BY <1>6, TaskCallKeeps
<1>7. ASSUME NEW v \in {0, 1}, Compute(v) PROVE IInv'
  BY <1>7, ComputeKeeps
<1>8. CASE Recurse
  BY <1>8, RecurseKeeps
<1>9. CASE FuncReturns
  BY <1>9, FuncReturnsKeeps
<1>10. CASE CallTaskYield
  BY <1>10, CallTaskYieldKeeps
<1>11. CASE TaskYield
  BY <1>11, TaskYieldKeeps
<1>12. CASE Yielded
  BY <1>12, YieldedKeeps
<1>13. CASE TaskCallEnds
  BY <1>13, TaskCallEndsKeeps
<1>14. CASE LinkEnds
  BY <1>14, LinkEndsKeeps
<1>15. CASE ScheduleTaskEnds
  BY <1>15, ScheduleTaskEndsKeeps
<1>16. CASE UNCHANGED vars
  BY <1>16 DEF vars, IInv, TypeInv, TaskInv, Runs, MainInv, PaintInv, QueueInv, Turn, rip
<1>17. QED
  BY <1>1, <1>2, <1>3, <1>4, <1>5, <1>6, <1>7, <1>8, <1>9, <1>10, <1>11, <1>12, <1>13, <1>14, <1>15,
     <1>16 DEF Next

(* and so it always holds.                                                     *)
LEMMA AlwaysIInv == Spec => []IInv
  BY InitIInv, NextIInv, PTL DEF Spec
============================================================================
