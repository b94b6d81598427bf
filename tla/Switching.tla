----------------------------- MODULE Switching -----------------------------
(***************************************************************************)
(* How the stackful C coroutines change stacks (Stackful/SJLJ and          *)
(* StackManagement): contextswitch, my_setjmp and my_longjmp at the level  *)
(* of registers and words of memory, the functions of ucontext.h as far as *)
(* a caller sees them, and the scheduler and the tasks that call them.     *)
(* The list of tasks is a queue here; TaskList has its nodes.              *)
(*                                                                         *)
(* A stack is numbered in words of 8 bytes from its high end: word 1 is    *)
(* pushed first.  An address is a pair <<stack, word>>, the address of an  *)
(* instruction <<place>>, a value kept in a register <<register, owner,    *)
(* version>>: all words are sequences.  The compiled functions are those   *)
(* of the build files, which ask for no optimisation: a call pushes the    *)
(* return address, the function saves rbp and uses it as frame pointer.    *)
(***************************************************************************)
EXTENDS Naturals, Sequences, SequencesExt

CONSTANTS Tasks,    \* the blocks of memory for a task and its stack
          Main,     \* the stack main and the scheduler run on
          Null,     \* the null pointer
          Words     \* the size of a stack in words: bounds the recursion

ASSUME TasksAssumption == Main \notin Tasks /\ Null \notin Tasks /\ Main # Null
ASSUME WordsAssumption == Words \in Nat /\ Words >= 9

VARIABLES build,      \* "asm" (contextswitch), "context" (swapcontext), "jump"
          machine,    \* registers, memory and the saved continuations
          queue,      \* the tasks of the list from head to tail
          current,    \* scheduler_data.current
          status,     \* task->status, FREED for a block that is not in use
          left        \* what a task that has called task_yield expects to find

vars == <<build, machine, queue, current, status, left>>

Builds == {"asm", "context", "jump"}
Stacks == Tasks \cup {Main}
CalleeSaved == {"rbx", "rbp", "r12", "r13", "r14", "r15"}
Registers == CalleeSaved \cup {"rsp"}
LoopPlaces == {"loop", "switched", "entered"}
TaskPlaces == {"task_call", "func", "called", "scheduled", "task_yield", "yielded",
               "link"}
Places == LoopPlaces \cup TaskPlaces \cup {"main", "unreached"}
Statuses == {"FREED", "CREATED", "RUNNING", "FINISHED"}

rip == machine.rip
rsp == machine.reg["rsp"]
Junk == <<"junk">>
-----------------------------------------------------------------------------
(* The processor, and the code the compiler puts around a function. *)

Word(m) == m.mem[m.reg["rsp"][1]][m.reg["rsp"][2]]

Push(m, w) ==
    LET s == m.reg["rsp"][1]
        d == m.reg["rsp"][2] + 1
    IN  [m EXCEPT !.reg["rsp"] = <<s, d>>, !.mem[s][d] = w]

Drop(m) == [m EXCEPT !.reg["rsp"][2] = @ - 1]

Call(m, return) == Push(m, <<return>>)

Ret(m) == [Drop(m) EXCEPT !.rip = Word(m)[1]]

Goto(m, place) == [m EXCEPT !.rip = place]

\* push %rbp; mov %rsp, %rbp
Prologue(m) ==
    LET p == Push(m, m.reg["rbp"])
    IN  [p EXCEPT !.reg["rbp"] = p.reg["rsp"]]

\* leave; ret
Epilogue(m) ==
    LET p == [m EXCEPT !.reg["rsp"] = m.reg["rbp"]]
    IN  Ret(Drop([p EXCEPT !.reg["rbp"] = Word(p)]))
-----------------------------------------------------------------------------
(* The assembly.  A continuation is the sequence of its 64-bit fields. *)

AsmStored == <<"rsp", "r15", "r14", "r13", "r12", "rbx", "rbp">>

\* Mutant of AsmLoaded: two registers are loaded from each other's field.
AsmLoadedSwapped == <<"rsp", "r15", "r14", "r12", "r13", "rbx", "rbp">>

AsmLoaded == <<"rsp", "r15", "r14", "r13", "r12", "rbx", "rbp">>

Field(layout, r) == CHOOSE i \in DOMAIN layout : layout[i] = r

contextswitch(m, old, new) ==
    LET cont == [m.cont EXCEPT ![old] =
                    [i \in DOMAIN AsmStored |-> m.reg[AsmStored[i]]]]
    IN  Ret([m EXCEPT !.cont = cont,
                      !.reg = [r \in Registers |-> cont[new][Field(AsmLoaded, r)]]])

JumpLayout == <<"rbx", "rbp", "r12", "r13", "r14", "r15", "rsp">>

\* Mutant of my_setjmp: the stack pointer is stored as it is.
SetjmpInside(m, env) ==
    LET stored == [i \in DOMAIN JumpLayout |-> m.reg[JumpLayout[i]]]
    IN  Ret([m EXCEPT !.cont[env] = Append(stored, Word(m)), !.rax = 0])

\* The stack pointer is stored as it will be after the return, and the return
\* address after it.
my_setjmp(m, env) ==
    LET stored == [i \in DOMAIN JumpLayout |-> Drop(m).reg[JumpLayout[i]]]
    IN  Ret([m EXCEPT !.cont[env] = Append(stored, Word(m)), !.rax = 0])

\* Mutant of my_longjmp: the stack pointer stays where it is.
LongjmpWithoutStack(m, env, val) ==
    [m EXCEPT !.reg = [r \in Registers |-> IF r = "rsp" THEN @["rsp"]
                          ELSE m.cont[env][Field(JumpLayout, r)]],
              !.rax = IF val = 0 THEN 1 ELSE val,
              !.rip = m.cont[env][8][1]]

my_longjmp(m, env, val) ==
    [m EXCEPT !.reg = [r \in Registers |-> m.cont[env][Field(JumpLayout, r)]],
              !.rax = IF val = 0 THEN 1 ELSE val,
              !.rip = m.cont[env][8][1]]

(* The C library.  A context has the registers after the return of the call    *)
(* that saves it, and the address it returns to.                               *)

setcontext(m, new) ==
    [m EXCEPT !.reg = [r \in Registers |-> m.cont[new][r]],
              !.rip = m.cont[new]["rip"][1]]

swapcontext(m, old, new) ==
    LET saved == [r \in Registers \cup {"rip"} |->
                     IF r = "rip" THEN Word(m) ELSE Drop(m).reg[r]]
    IN  setcontext([m EXCEPT !.cont[old] = saved], new)

\* The switch of the two builds with machine contexts.
Switch(m, old, new) ==
    IF build = "asm" THEN contextswitch(m, old, new) ELSE swapcontext(m, old, new)
-----------------------------------------------------------------------------
Init ==
    /\ build \in Builds
    /\ machine = [reg |-> [r \in Registers |->
                              IF r = "rsp" THEN <<Main, 0>> ELSE <<r, Main, 0>>],
                  rax |-> 0, rip |-> "main",
                  mem |-> [s \in Stacks |-> [d \in 1..Words |-> Junk]],
                  cont |-> [s \in Stacks |-> [i \in 1..8 |-> Junk]]]
    /\ queue = <<>>
    /\ current = Null
    /\ status = [t \in Tasks |-> "FREED"]
    /\ left = [t \in Tasks |-> <<>>]

\* A stack whose bytes are all 0xAA, whatever pattern the caller asks for, as the
\* two builds with machine contexts get it in StackManagement.
allocate_fixedsize_stack == [d \in 1..Words |-> <<"xAAAAAAAA">>]

\* The two addresses a task of the asm build ends and starts with.
init_task_stack(stack) ==
    [stack EXCEPT ![1] = <<"task_yield">>, ![2] = <<"task_call">>]

\* getcontext, and makecontext with task_call and uc_link.
makecontext(t) ==
    [r \in Registers \cup {"rip"} |-> CASE r = "rsp" -> <<t, 1>>
                                        [] r = "rip" -> <<"task_call">>
                                        [] OTHER -> machine.reg[r]]

\* main allocates a stack and creates a task on it.
CreateTask(t) ==
    /\ rip = "main"
    /\ status[t] = "FREED"
    /\ status' = [status EXCEPT ![t] = "CREATED"]
    /\ queue' = Append(queue, t)
    /\ machine' =
        CASE build = "asm" ->
               [machine EXCEPT
                   !.mem[t] = init_task_stack(allocate_fixedsize_stack),
                   !.cont[t] = [i \in DOMAIN AsmStored |->
                                   IF AsmStored[i] = "rsp" THEN <<t, 2>> ELSE Junk]]
          [] build = "context" ->
               [machine EXCEPT
                   !.mem[t] = [allocate_fixedsize_stack EXCEPT ![1] = <<"link">>],
                   !.cont[t] = makecontext(t)]
          [] build = "jump" ->
               [machine EXCEPT !.mem[t] = [d \in 1..Words |-> Junk],
                               !.cont[t] = [i \in 1..8 |-> Junk]]
    /\ UNCHANGED <<build, current, left>>

\* main calls run_tasks, which in the jump build saves its context first.
RunTasks ==
    /\ rip = "main"
    /\ LET m == Prologue(Call(machine, "main"))
       IN  machine' = IF build = "jump" THEN my_setjmp(Call(m, "entered"), Main)
                      ELSE Goto(m, "loop")
    /\ UNCHANGED <<build, queue, current, status, left>>

\* Only the two ends of the list are looked at.
remove_task_tail(q, t) ==
    CASE q # <<>> /\ Head(q) = t -> Tail(q)
      [] q # <<>> /\ Head(q) # t /\ Last(q) = t -> Front(q)
      [] OTHER -> q

\* Back in run_tasks, from the switch or a second time from my_setjmp, whose
\* value is not looked at: a finished task is unlinked and freed.
Reclaim ==
    /\ rip \in {"switched", "entered"}
    /\ machine' = Goto(machine, "loop")
    /\ IF current # Null /\ status[current] = "FINISHED"
       THEN /\ queue' = remove_task_tail(queue, current)
            /\ status' = [status EXCEPT ![current] = "FREED"]
            /\ current' = IF build = "jump" THEN Null ELSE current
       ELSE UNCHANGED <<queue, status, current>>
    /\ UNCHANGED <<build, left>>

\* choose_task finds no task.
RunTasksReturns ==
    /\ rip = "loop"
    /\ queue = <<>>
    /\ current' = Null
    /\ machine' = Epilogue(machine)
    /\ UNCHANGED <<build, queue, status, left>>

\* Mutant of ChooseTask: the task at the head stays at the head.
ChooseWithoutRotation(t) ==
    /\ rip = "loop"
    /\ queue # <<>>
    /\ t = Head(queue)
    /\ current' = t
    /\ UNCHANGED <<build, queue, left>>

ChooseTask(t) ==
    /\ rip = "loop"
    /\ queue # <<>>
    /\ t = Head(queue)
    /\ current' = t
    /\ queue' = Append(Tail(queue), t)
    /\ UNCHANGED <<build, left>>

\* The loop of the builds with machine contexts.
SwitchToTask(t) ==
    /\ build # "jump"
    /\ ChooseTask(t)
    /\ machine' = Switch(Call(machine, "switched"), Main, t)
    /\ UNCHANGED status

\* schedule_task has been called and keeps its parameter in its frame.
ScheduleTaskFrame(m, next) == Push(Prologue(Call(m, "loop")), <<next>>)

\* Mutant of StartTask: the stack pointer is set to the low end of the stack.
StartAtLowEnd(t) ==
    /\ build = "jump"
    /\ ChooseTask(t)
    /\ status[t] = "CREATED"
    /\ status' = [status EXCEPT ![t] = "RUNNING"]
    /\ LET m == [ScheduleTaskFrame(machine, t) EXCEPT !.reg["rsp"] = <<t, Words>>]
       IN  machine' = Goto(Prologue(Call(m, "scheduled")), "func")

\* schedule_task moves the stack pointer to the stack of the task and calls its
\* function from there: its own frame, which rbp points to, stays behind.
StartTask(t) ==
    /\ build = "jump"
    /\ ChooseTask(t)
    /\ status[t] = "CREATED"
    /\ status' = [status EXCEPT ![t] = "RUNNING"]
    /\ LET m == [ScheduleTaskFrame(machine, t) EXCEPT !.reg["rsp"] = <<t, 0>>]
       IN  machine' = Goto(Prologue(Call(m, "scheduled")), "func")

\* Mutant of ResumeTask: run_tasks jumps to the task itself.
ResumeFromLoop(t) ==
    /\ build = "jump"
    /\ ChooseTask(t)
    /\ status[t] = "RUNNING"
    /\ machine' = my_longjmp(Call(machine, "unreached"), t, 1)
    /\ UNCHANGED status

\* The other branch of schedule_task.
ResumeTask(t) ==
    /\ build = "jump"
    /\ ChooseTask(t)
    /\ status[t] = "RUNNING"
    /\ machine' = my_longjmp(Call(ScheduleTaskFrame(machine, t), "unreached"), t, 1)
    /\ UNCHANGED status

Running(place) == rip = place /\ UNCHANGED <<build, queue, current>>

\* The address of task_call is popped when a task of the asm build starts, and
\* taken from the context in the other build.
TaskCall ==
    /\ Running("task_call")
    /\ machine' = Goto(Prologue(Call(Prologue(machine), "called")), "func")
    /\ UNCHANGED <<status, left>>

\* The function computes: it may use every register it has to preserve.
Compute(version) ==
    /\ Running("func")
    /\ machine' = [machine EXCEPT !.reg =
                      [r \in Registers |-> IF r \in {"rsp", "rbp"} THEN @[r]
                                           ELSE <<r, current, version>>]]
    /\ UNCHANGED <<status, left>>

\* fibonacci_recurs calls itself, as long as a call of task_yield will fit.
Recurse ==
    /\ Running("func")
    /\ rsp[2] + 5 <= Words
    /\ machine' = Prologue(Call(machine, "func"))
    /\ UNCHANGED <<status, left>>

\* The function returns to itself, to task_call or to schedule_task.
FuncReturns ==
    /\ Running("func")
    /\ machine' = Epilogue(machine)
    /\ UNCHANGED <<status, left>>

\* The words of the stack in use and the registers, as the function sees them.
View(m) == <<m.reg, SubSeq(m.mem[m.reg["rsp"][1]], 1, m.reg["rsp"][2])>>

CallTaskYield ==
    /\ Running("func")
    /\ machine' = Goto(Call(machine, "func"), "task_yield")
    /\ left' = [left EXCEPT ![current] = View(machine)]
    /\ UNCHANGED status

TaskYield ==
    /\ Running("task_yield")
    /\ LET m == Call(Prologue(machine), "yielded")
       IN  machine' = IF build = "jump" THEN my_setjmp(m, current)
                      ELSE Switch(m, current, Main)
    /\ UNCHANGED <<status, left>>

\* In task_yield, after the switch or my_setjmp has returned.
Yielded ==
    /\ Running("yielded")
    /\ IF build = "jump" /\ machine.rax = 0
       THEN /\ machine' = my_longjmp(Call(machine, "unreached"), Main, 1)
            /\ UNCHANGED left
       ELSE /\ machine' = Epilogue(machine)
            /\ left' = [left EXCEPT ![current] = <<>>]
    /\ UNCHANGED status

\* task_call marks the task and returns: to task_yield, whose address is above
\* its own, or to the code that makecontext has put there.
TaskCallEnds ==
    /\ Running("called")
    /\ status' = [status EXCEPT ![current] = "FINISHED"]
    /\ machine' = Epilogue(machine)
    /\ UNCHANGED left

\* That code goes on with uc_link, the context of the scheduler.
LinkEnds ==
    /\ Running("link")
    /\ machine' = setcontext(machine, Main)
    /\ UNCHANGED <<status, left>>

\* schedule_task marks the task its parameter points to.  It reads the parameter
\* in its frame on the stack of main, which was left with the first yield and
\* has been written to by every call of schedule_task since.
ScheduleTaskEnds ==
    /\ Running("scheduled")
    /\ LET frame == machine.reg["rbp"]
           next == machine.mem[frame[1]][frame[2] + 1][1]
       IN  status' = [status EXCEPT ![next] = "FINISHED"]
    /\ machine' = my_longjmp(Call(machine, "unreached"), Main, 1)
    /\ UNCHANGED left

Dispatch(t) == SwitchToTask(t) \/ StartTask(t) \/ ResumeTask(t)

Next == \/ \E t \in Tasks : CreateTask(t) \/ Dispatch(t)
        \/ RunTasks \/ Reclaim \/ RunTasksReturns
        \/ TaskCall \/ (\E v \in {0, 1} : Compute(v)) \/ Recurse \/ FuncReturns
        \/ CallTaskYield \/ TaskYield \/ Yielded
        \/ TaskCallEnds \/ LinkEnds \/ ScheduleTaskEnds

Spec == Init /\ [][Next]_vars
-----------------------------------------------------------------------------
(* The measure of a painted stack (stat.c).  It compares 32-bit units from the *)
(* low end of the stack, two in a word; a word that holds a pattern twice is    *)
(* the sequence of the name of the pattern.                                    *)

\* The first unit that differs from the pattern, or Null.
find_mismatch(t, pattern) ==
    LET differs == {i \in 0..(2 * Words - 1) :
                       machine.mem[t][Words - i \div 2] # <<pattern>>}
    IN  IF differs = {} THEN Null
        ELSE CHOOSE i \in differs : \A j \in differs : i <= j

\* Mutant of get_stack_usage: the units are counted as words.
UsageInWords(t, pattern) ==
    IF find_mismatch(t, pattern) = Null THEN 8 * Words
    ELSE 8 * Words - 8 * find_mismatch(t, pattern)

\* get_stack_usage_percent before it divides by the size of the stack.
get_stack_usage(t, pattern) ==
    IF find_mismatch(t, pattern) = Null THEN 8 * Words
    ELSE 8 * Words - find_mismatch(t, pattern)

Patterns == {"xDEADBEEF", "xAAAAAAAA"}
Painted == {t \in Tasks : build # "jump" /\ status[t] # "FREED"}

\* The words of its stack that a task needs to go on.
InUse(t) ==
    IF rsp[1] = t THEN rsp[2]
    ELSE LET saved == IF build = "asm" THEN Field(AsmStored, "rsp") ELSE "rsp"
         IN  machine.cont[t][saved][2]
-----------------------------------------------------------------------------
TypeOK ==
    /\ build \in Builds
    /\ rip \in Places
    /\ rsp \in Stacks \X (0..Words)
    /\ DOMAIN machine.reg = Registers
    /\ machine.rax \in {0, 1}
    /\ queue \in Seq(Tasks)
    /\ current \in Tasks \cup {Null}
    /\ status \in [Tasks -> Statuses]

\* The code of a task runs on the stack of the current task, which is not freed,
\* and the code of the scheduler and of main on the stack main was started on.
RunsOnOwnStack ==
    /\ rip \in TaskPlaces => /\ rsp[1] = current
                             /\ status[current] # "FREED"
    /\ rip \in LoopPlaces \cup {"main"} => rsp[1] = Main
    /\ rip # "unreached"

\* However often run_tasks was left for a task, it finds the registers and the
\* frame it had, and can return to main; and so does main.
LoopKeepsItsFrame ==
    /\ rip \in LoopPlaces =>
          /\ machine.reg = [r \in Registers |->
                IF r \in {"rsp", "rbp"} THEN <<Main, 2>> ELSE <<r, Main, 0>>]
          /\ SubSeq(machine.mem[Main], 1, 2) = <<<<"main">>, <<"rbp", Main, 0>>>>
    /\ rip = "main" =>
          machine.reg = [r \in Registers |->
                IF r = "rsp" THEN <<Main, 0>> ELSE <<r, Main, 0>>]

\* Where task_yield returns to the function, all registers that a function has to
\* preserve, the stack pointer and the words of the stack in use are what they
\* were at the call, whatever the other tasks and the scheduler did meanwhile.
ResumesAsItLeft ==
    [][rip = "yielded" /\ rip' = "func" => View(machine') = left[current]]_vars

\* The task that is marked as finished is the one whose function returned.
FinishMarksItself ==
    [][\A t \in Tasks : status[t] # "FINISHED" /\ status'[t] = "FINISHED"
                            => rip \in {"called", "scheduled"} /\ rsp[1] = t]_vars

\* A painted stack is not used beyond what the measure reports, with either
\* pattern the programs speak of.
UsageNeverTooLow ==
    \A t \in Painted, p \in Patterns : get_stack_usage(t, p) >= 8 * InUse(t)

\* The measure that stat.c:47-66 spells out: four bytes in a unit, nothing used
\* when no unit differs.
UsageIsExact ==
    \A t \in Painted :
        get_stack_usage(t, "xAAAAAAAA") =
            IF find_mismatch(t, "xAAAAAAAA") = Null THEN 0
            ELSE 8 * Words - 4 * find_mismatch(t, "xAAAAAAAA")

\* The tasks that will have a turn: at most one of the list has finished.
Waiting ==
    IF \E k \in DOMAIN queue : status[queue[k]] = "FINISHED"
    THEN RemoveAt(queue, CHOOSE k \in DOMAIN queue : status[queue[k]] = "FINISHED")
    ELSE queue

\* Who runs, by the stack pointer alone, and the order of the list are taking
\* turns in a queue: no switch goes to a task whose turn it is not.
RR == INSTANCE RoundRobin
          WITH Nobody <- Null,
               queue <- Waiting,
               running <- IF /\ rsp[1] \in Tasks
                             /\ status[rsp[1]] # "FINISHED"
                          THEN rsp[1] ELSE Null

TakesTurns == RR!Init /\ [][RR!Next]_(RR!vars)
=============================================================================
