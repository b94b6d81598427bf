# Verification of the coroutine programs of Habr

The repository holds four small programs about coroutines on one thread:

- `CoroPolls` (C++): an epoll based echo and time server whose handlers are
  stackful coroutines on `ucontext`, and its interactive client;
- `Stackful` and `StackManagement` (C): cooperative schedulers over a hand-made
  task list, with three ways of switching (ucontext, assembly, setjmp/longjmp);
- `ProtoThreads` (C): stackless coroutines on Adam Dunkels' macros.

This directory has TLA+ models of them, the configurations that check the models
with TLC, and theorems that TLAPS proves. Check a module with
`tlc -config X.cfg M`, its proofs with `tlapm M.tla`.

Contents: [inventory](#1-inventory), [plan](#2-plan),
[modules and code](#3-modules-and-the-code-they-model), [runs](#4-runs),
[bounds](#5-bounds), [fairness](#6-fairness), [proofs](#7-proofs),
[findings](#8-findings), [not modelled](#9-what-is-not-modelled).

## 1. Inventory

### CoroPolls

| part | state | operations |
|---|---|---|
| `Scheduler` (scheduler.h/.cpp) | `task_map` (`unordered_map<uint32_t, Task>`), `id`, the poller | `CreateTask`, `ProcessTasks`, `ProcessEvents`, `RunTasks` |
| `Task` (coroutine.h) | `status`, `exception`, two contexts, a stack, the function and what it captured | `operator()`, `Yield`, `AllowResume`, `StoreException`, `RethrowException`, `TaskCall` |
| `EPoller` (epoller.h/.cpp) | the epoll instance: for each descriptor an event mask and a packed (id, descriptor) | `AddAcceptEvent`, `AddReadEvent`, `AppendWriteEvent`, `RemoveWriteEvent`, `Poll` |
| sockets (basesocket.h/.cpp) | a descriptor each, closed by the destructor | `CreateSocket`, `Bind`, `Listen`, `AsyncAccept`, `AsyncRead`, `AsyncWrite`; for the client `Connect`, `SendString`, `ReceiveString` |
| server.cpp | the acceptor coroutine, one `client_handler` per connection | accept and create tasks; read a request, answer it |
| client.cpp | one socket | connect; send a line and wait for the response |

*Interaction.* `RunTasks` alternates between a pass over `task_map` that switches
to every coroutine in `CREATED` or `RUNNING`, and one `Poll`, whose results turn
sleeping coroutines `RUNNING` or store an exception in them. A coroutine sleeps in
`Yield` inside the socket calls after `EAGAIN`. The acceptor creates tasks while
the scheduler iterates over the map that they are inserted into.

*Hard behaviour.* Registrations are edge-triggered: an event is reported once, and
data, FIN, RST and connections arrive between any two steps of the server.
Descriptors and ids are reused. `unordered_map` may rehash under the iterator.
Frames are split at arbitrary points. Clients are ended at arbitrary points.
Errors are delivered late, as exceptions in the coroutine.

*What makes it correct.* Nobody sleeps through an event; every result of a poll
reaches the coroutine it is for; every connection has exactly one owner until it
is closed; a frame is read and written whole; a client gets the answer to its own
request; runnable coroutines run; requests end.

### Stackful/SJLJ and StackManagement

| part | state | operations |
|---|---|---|
| task list (tasklist.c) | nodes with `next` and `prev`; `head`, `current`, `tail` | `create_task`, `insert_task_list_item_tail`, `remove_task_list_item_head`, `remove_task_tail`, `delete_task_list_item`, `choose_task` |
| schedulers (Context, AsmContext, Jump) | the scheduler's continuation, one per task | `run_tasks`, `task_yield`, `task_call` / `schedule_task` |
| switching (Asm/*.s) | callee-saved registers, stack pointer, return address | `contextswitch`, `my_setjmp`, `my_longjmp` |
| stacks (stackcontext.c, stat.c) | malloc'ed or mmap'ed memory, a fill pattern | allocate and free fixed and protected stacks, measure their use |

*Interaction.* `main` creates tasks and calls `run_tasks`; tasks and scheduler
switch to each other; `current` is the only thing by which a task that yields or
ends knows itself. In StackManagement `main` allocates the stacks and the
scheduler frees them.

*Hard behaviour.* The list is edited in place and leaves stale pointers to freed
nodes whose addresses malloc hands out again; the scheduler frees the stack it
has just come from; the three builds differ in what they leave behind.

*What makes it correct.* The list holds the live tasks and nothing else, the
scheduler always finds a task it can dispatch or returns, tasks take turns, and a
task is freed once, after its last turn.

### ProtoThreads

The macros of `pt.h` keep a line number as the whole state of a coroutine;
`pt-sem.h` adds counting semaphores and shows a bounded buffer; `fibonacci.c`,
`printconent.c` and `nonblock.c` are sequential programs of one or two
protothreads. Hard to see in the source: a protothread that has ended starts
again when it is called once more, and C does not order the operands of
`producer(..) & consumer(..)`.

`PROJECT.json` lists every component with its status, and under `hazards` the
lines where something can go wrong that a test would hardly reach.

## 2. Plan

The order follows the weight of the behaviour in the repository.

1. **Done.** `Scheduler`, `PollLoop` and its proofs: the scheduler with the
   weakest coroutines and poller it can live with.
2. **Done.** `EPoller`, `EchoServer`: the server with the kernel's side of epoll
   and its clients; refinement of `PollLoop`; liveness of requests.
3. **Done.** `RoundRobin` and `TaskList`: the queue of the stackful schedulers and
   the linked list that implements it.
4. **Done.** `Switching`: the three ways of switching on registers, stack words and
   frames, with the scheduler loops and the tasks that call them; fixed stacks and the
   measure of their use.
5. **Done.** `BoundedBuffer`: protothreads with semaphores and the driver of `pt-sem.h`,
   for all numbers of items and buffer sizes up to a bound, with the order of the
   operands of `&` as part of the initial state; and its proofs.
6. **Done.** `TaskListProofs` and `TaskListTurns`: the nodes of the list are the live
   tasks, from an invariant with a witness sequence; the walk along the pointers finds
   them; `TaskList` implements the safety part of `RoundRobin`.
7. **Done.** `SwitchingLemmas`, `SwitchingInvariant`, `SwitchingProofs`: every property of
   `Switching`, for any number of tasks and stacks of any size.
8. **Done.** `EchoServerProofs`: the step-by-step refinement of `PollLoop` by `EchoServer`,
   then its safety properties from two invariants, one of tables and one of streams.
9. Left: every safety property, action property and refinement that a passing run checks is
   proved, except `OnlyCreatorsAreStranded` after its first break; the five properties with
   fairness are not, for the reasons at the end of section 7. What would add most is more of the system: protected stacks and `PT_YIELD`,
   `PT_SPAWN` and `PT_RESTART`, when a program uses them.

## 3. Modules and the code they model

The map from definitions to lines is in `PROJECT.json`; this is how to read it.

**Scheduler** (no specification of its own; operations only). `status` and
`exception` are the fields of the tasks in `task_map`, with `ABSENT` for an id that
is not in the map. `visit` is what the iterator of `ProcessTasks` has still to
reach, `current` the coroutine switched to, `phase` the place in `RunTasks`. Two
things are not what a first look suggests:

- `CreateTask` runs inside a pass. `Relink` says what the insertion does to it: the
  new node may come before or after the iterator; if the table rehashes, the nodes
  are linked anew and the pass may meet again, or miss, any other coroutine. The
  standard calls an iterator invalid after a rehash; the outcomes here are those of
  a node-based table, whose iterator still points at a valid node.
- `id` is a `uint32_t` that wraps around, and `emplace` on an id still in use adds
  nothing: the new task and the socket it captured are destroyed.

`ProcessEvents` is one batch of poll results; an unknown id would throw and lose
any part of the batch.

**PollLoop** closes `Scheduler` with coroutines that may do anything but (1) sleep
without a registration, and (2) leave the map before their registrations leave the
poller; and with a poller that reports any subset of the registrations. Both
premises are what `EchoServer` is checked and proved to satisfy (`LoopSpec`). `Finish` may
drop the registration already, because a socket that is local to the coroutine's
function is closed before the function returns; a captured one goes with `Destroy`.
An empty batch is most often a timeout: `Poll` waits 10 ms by default (`sleep_default`,
epoller.h:10 and 38), and `epoll_wait` then returns 0. It also stands for `EINTR`, and for an
`epoll_wait` that fails and throws: `RunTasks` catches it and goes on.

**EPoller** has the descriptor table, the TCP peers and the epoll instance: for
each descriptor the packed id, whether the mask has `EPOLLOUT`, and the ready list.
`EPOLL_CTL_ADD` and `MOD` poll once and link; arriving segments link; `epoll_wait`
takes from the front until it has `MaxEvents` with an event to report and drops the
rest of what it took. FIN is reported as `EPOLLIN`; RST as `EPOLLHUP`, which makes
`Poll` delete the descriptor. Kernel definitions are marked external in the map.

**EchoServer** composes the two with `server.cpp`, the asynchronous transfers and
`client.cpp`. `pc` is where a coroutine is, `sock` its descriptor, `count` the
progress of a transfer, `accepted` the vector that `AsyncAccept` fills. A step is a
system call with the code up to the next one. `accept` finds no free descriptor
before it looks at the backlog, so one descriptor more than sockets is needed to see
`EAGAIN`. The client sends header and text with two calls, reads the answer in
pieces, and may be ended anywhere (`Quit`) and started again (`Restart`).

**RoundRobin** is the promise of the stackful schedulers: a queue, one task running
at a time, from the front to the back.

**TaskList** is the C code at the level of pointers. `list` is `head`, `tail` and
all `next` and `prev` fields, those of freed blocks included; `status` also says
whether a block is in use; `build` chooses the scheduler. `InsertTail`, `RemoveHead`
and `Unlink` are the three list functions, stale pointers and all. `control` is
`main`, `task`, or the scheduler after a switch back (`returned`) or at the top of
its loop (`choose`). The builds differ in three ways, all modelled: only the build
with setjmp ever sets `RUNNING`; only it sets `current` to NULL after freeing; and
only it enters the loop through the test for a finished task. Node, task and stack
are one block, because the code allocates and frees them together. `choose_task` has
a `while` that never advances: a head that cannot be dispatched would spin, which the
model shows as no step.

`remove_task_tail` only unlinks a node that is the head or the tail. A dispatched
task is the tail until it creates another one. `Discipline = TRUE` says that a task
which created one in its turn yields before it finishes (or is the head, being the
only older task). The programs of the repository create tasks only in `main`. With
`Discipline = FALSE`, a freed node is on the list after seven steps: two tasks, the first
creates a third and returns. `task_list_free` checks that this is the only way:
`OnlyCreatorsAreStranded` says that a sound list goes bad exactly when a task is freed that
created others in its turn and is not at the head (`Strands`). It is not a run that is
expected to fail, since no text of the repository says whether a task may create tasks. What
the program does after such a step, with freed memory in the list, is undefined; the model
goes on with the fields as they are, and stops where `choose_task` would read a freed head.

**Switching** has the same tasks and schedulers one level down: registers, the words of
each stack, and the continuations. A stack is numbered in words from its high end, as it
is pushed. `machine.reg`, `rip`, `mem` and `cont` are the callee-saved registers with
`rsp`, the place in the code, the stacks and the saved continuations. `contextswitch`,
`my_setjmp` and `my_longjmp` do what the assembly does, field by field, in the order of
fields that the assembly uses; what C compiles to is `Call`, `Prologue`, `Epilogue` and
`Ret`, the convention of a build without optimisation, which is what the CMake files ask
for (they set no build type): a frame pointer in `rbp`, parameters and locals in the
frame. `swapcontext` and the functions that `uc_link` and `makecontext` involve are
modelled as a caller sees them and marked external. `Compute` lets a task put its own
values into every register a function has to preserve, so that a register that a switch
forgets or confuses shows. The task recurses and yields at any depth, as
`fibonacci_recurs` does. Four things the source does not say:

- in the build with `contextswitch` a task starts by a `ret` to `task_call` and ends by a
  `ret` into `task_yield`, the two words that `init_task_stack` writes;
- in the build with `makecontext` it ends through `uc_link`, the one context of the
  scheduler, which every dispatch writes again;
- in the build with `my_setjmp`, `schedule_task` changes `rsp` in its middle. Its frame,
  to which `rbp` still points, is on the stack of `main`, where every later call of
  `schedule_task` writes. When the task's function returns, the parameter `next` is read
  from there. It is right because the dispatch of the last turn has put the same task into
  the same word (`FinishMarksItself`);
- `my_setjmp` in `run_tasks` returns again and again into a frame that nothing has
  returned from (`LoopKeepsItsFrame`).

The list is a queue here, since `TaskList` shows that it is one; `remove_task_tail` keeps
its look at the two ends. Only `main` creates tasks, as in the programs. `find_mismatch` and `get_stack_usage` are the measure of
stat.c. The program declares it and, in the present state of the code, never calls it
(the call in `run_tasks` is commented out), so it is not a step but a function of the
state. `allocate_fixedsize_stack` paints with 0xAA whatever pattern it is given, so the
`default_pattern` of main.c, 0xDEADBEEF, differs in the first unit and would give 100 per
cent: `UsageNeverTooLow` takes both patterns.

**BoundedBuffer** is the example in the documentation of `pt-sem.h`, with the macros of
`pt.h` and the local continuations of `lc-switch.h`. `lc` is the line a protothread
resumes at, `pc` how far the one that runs has come, `result` what the two operands of
`&` have returned in this pass. `PT_WAIT_UNTIL` sets the line and returns or goes on;
`PT_SEM_WAIT` adds the decrement, `PT_END` resets the line, so that the next call starts
the loop again. `numItems`, `bufSize` and `first` are chosen in `Init` and never change:
`NUM_ITEMS`, `BUFSIZE`, and the operand of `&` that the compiler evaluates first. An item
is the value of `produced` when it was made.

**MCEchoServer** only adds the symmetry of the clients.

Operators whose comment starts with "Mutant of" stand before the definition that they
change in the way a mistake in the code would; no specification uses them.
`PROJECT.json` names for each property one that breaks it.

## 4. Runs

| run | configuration | states | shows |
|---|---|---|---|
| `loop` | PollLoop | 32 799 | one coroutine that creates, ids that wrap around and rehashes in a pass: only started coroutines are watched, sleepers are watched, stored exceptions are delivered once, the iterator is sound, each status change is lawful, and created or woken coroutines get the processor, although a rehash can make a pass miss them |
| `echo_one` | EchoOne | 21 163 | one client, every command, every split of every frame: no lost wake-up, the mask is right, frames are whole, answers match |
| `echo_two` | EchoTwo | 2 694 346 | two clients that come and go, three ids, one event per poll: no lost wake-up, one owner per descriptor, the listener stays, `EchoServer` implements `PollLoop` |
| `echo_few` | EchoFew | 108 976 | no spare descriptor: `accept` fails with `EMFILE`, the acceptor unwinds and ends, nothing leaks, handlers go on |
| `echo_live` | EchoLive | 653 460 | with two clients every request that has an answer ends |
| `task_list` | TaskList | 61 395 | four live tasks at most, created by `main` or a task, three builds, blocks reused: the list is the queue of `RoundRobin`, and every task gets its turns |
| `task_list_free` | TaskListFree | 234 459 | the same without the discipline: the list goes bad exactly when a task that created others in its turn is freed away from the head |
| `switching` | Switching | 911 202 | two tasks, three builds, a recursion two calls deep: a task resumes with its registers and stack, nobody runs on another's stack, the loop of the scheduler keeps its frame, the task that ends is the one marked, `RoundRobin` by the stack pointer alone, the measure is never too low |
| `bounded_buffer` | BoundedBuffer | 94 548 | all sizes up to the ones of the example, both orders of evaluation: semaphores count, items stay in order over restarts, the order decides what is left and whether the driver ends |
| `echo_no_text` | EchoNoText | violation | finding 1 |
| `echo_closed` | EchoClosed | violation | finding 2 |
| `stack_usage` | StackUsage | violation | finding 3 |

The properties, each stated in words above its definition:

- *PollLoop*: `WatchedAreStarted`, `WaitingIsWatched`, `ErrorIsDelivered`,
  `IteratorIsSound`, the action property `Lifecycle`, the liveness `RunnableRuns`.
- *EchoServer*: `NoLostWakeup` (whoever sleeps although it could go on is on the ready
  list, for itself, with the right mask), `RegisteredWhileServing`, `FramesAreWhole`
  (units sent = read + buffered + on the wire), `DescriptorsAreOwned`; the action
  properties `AnswersMatch` and `ListenerStays`; the refinement `LoopSpec`; the
  liveness `RequestsEnd`.
- *TaskList*: `ListHoldsLiveTasks` (the walk from head to tail meets each live task
  once and nothing freed), `ChooseNeverSpins`, `FinishedIsCurrent`; the refinement
  `TakesTurns` (safety), the fairness of `RoundRobin` as `TurnsGoOn`; the liveness
  `EveryTaskRuns`; without the discipline, the action property `OnlyCreatorsAreStranded`.
- *Switching*: `RunsOnOwnStack`, `LoopKeepsItsFrame`, `UsageNeverTooLow`; the action
  properties `ResumesAsItLeft` (at the return from `task_yield` registers and stack are
  those of the call) and `FinishMarksItself`; the refinement `TakesTurns`, safety only.
- *BoundedBuffer*: `SemaphoresCount`, `ItemsInOrder`, `OrderDecidesLeftovers` and the
  liveness `DriverEnds`.
- one type invariant each.

Deadlock is not checked where the program may stop: `RunTasks` returns when the map is
empty, and a signal ends the process. It is checked for `TaskList`, where `main` can
always go on and a spinning `choose_task` would be a deadlock, and for `Switching`, where it
would be a return to a word that is no place in the code. It is not checked for
`task_list_free`, which stops at a freed head. `BoundedBuffer` stops when the
driver has ended.

## 5. Bounds

| constant | code | value | why it is enough |
|---|---|---|---|
| `IdMod` | 2^32 | 3, 4 | ids wrap around and meet live ones |
| `InitialCapacity` | 13 with libstdc++ | 1, 2 | the table rehashes during a pass |
| `FDs` | process limit | 3, 4 | N clients with exactly enough (N + 2) or one too few |
| `MaxEvents` | 100 | 1 | one poll never takes everything |
| `Backlog` | 128 | 1, 2 | as many as clients |
| `SndBuf` | kernel | 1, 2 | smaller than an answer: writers must sleep |
| `HeaderUnits`, `TextUnits` | 4 bytes, any | 1, 2 | frames split inside header and text |
| `Returning` | - | all or none | client processes started again |
| `Creators` | the acceptor | 1 id | it inserts while the scheduler iterates, and ids wrap onto live ones |
| `Items` | memory | 4 | head, tail and two in between; freed blocks come back |
| `Tasks` of Switching | memory | 2 | one task runs between a yield and the resumption of the other; a block is reused |
| `Words` | 2048 | 11 | a task yields from three depths, and the stack is full at the deepest |
| `MaxItems`, `MaxSize` | 32, 8 | 32, 8 | the numbers of the example and all below: fewer items than slots, as many, more |

`EchoOne` has two units each for header and text, and one client; `EchoTwo` has one
each, and two clients: splits of a frame and interleavings of connections are
independent, since coroutines share no buffer.

## 6. Fairness

- *PollLoop*: weak fairness for the scheduler's own steps (one thread that goes on by
  itself) and for "the coroutine suspends or finishes", the premise of cooperative
  scheduling. Only one coroutine creates in `loop`, as in server.cpp: when several
  do, passes that keep meeting new coroutines need not end. The safety properties do not
  depend on this; section 7 proves them for every set of creators.
- *EchoServer*: weak fairness for the server as a whole, for each client's own calls and
  for the network. Users need not type, quit or restart. `RequestsEnd` assumes that the
  processor keeps coming back to the loop. The code does not guarantee this: a handler
  gives it back only on `EAGAIN`, and a client whose next request is always there in
  time keeps it. That starvation is a hazard which no property covers: nothing in the
  repository bounds it or promises that it does not happen.
- *TaskList*: weak fairness for `run_tasks` being called, for the scheduler and for the
  end of a turn. Tasks created meanwhile go behind the waiting ones, so no fairness
  between tasks is needed.
- *BoundedBuffer*: weak fairness of the next step: one thread runs everything, and a
  driver protothread is called until it has ended. That is enough for `DriverEnds` with the
  producer first, where the two end in the same pass, and for a buffer that holds all items.
  With the consumer first and the numbers of the example, 32 and 8, TLC shows a cycle: the
  consumer ends a pass after the producer, whom the driver has started again by then, and so
  on for ever.
- *Switching* states no fairness; its properties are safety.

## 7. Proofs

`PollLoopProofs` proves for every number of ids (at least two), every initial capacity
and every set of creators:

| theorem | statement |
|---|---|
| `TypeCorrect` | `Spec => []TypeOK` |
| `NoAbsentCoroutine` | `Spec => []WatchedAreStarted`: no batch is cut short |
| `NoUnreachableSleep` | `Spec => []WaitingIsWatched` |
| `ExceptionsAreDelivered` | `Spec => []ErrorIsDelivered` |
| `IteratorSoundness` | `Spec => []IteratorIsSound` |
| `LifecycleHolds` | `Spec => Lifecycle` |

The assumptions are those named in `Scheduler` and `PollLoop` (`SchedulerConstants`,
`CreatorsAreIds`). No invariant is inductive alone. `IInv`, their conjunction, is: a
sleeper is woken by a result only because what is watched is in the map; what is watched
is in the map because registrations leave before entries; a stored exception meets its
coroutine because a descriptor in error leaves the poller at once, so that no second
result can overtake it; the iterator stays sound because the coroutine it stands on is
the only one that can be erased. There is one lemma per action, the one for `CreateTask`
with the cases of a rehash and of an id in use, and the theorems follow by PTL.

`BoundedBufferProofs` proves for every `MaxItems` and `MaxSize` (natural numbers; the
assumptions are `MaxItemsAssumption` and `MaxSizeAssumption`) and both orders:

| theorem | statement |
|---|---|
| `TypeCorrect` | `Spec => []TypeOK` |
| `SlotsAreCounted` | `Spec => []SemaphoresCount` |
| `ConsumedInOrder` | `Spec => []ItemsInOrder` |
| `LeftoversByOrder` | `Spec => []OrderDecidesLeftovers` |

Its `IInv` adds to the type and the counts: `Control`, where each protothread can be when
another one runs (the mutex is always free when a worker comes to it, so that nobody ever
waits at it); `Chain`, by which the buffer is a stretch of the numbers of items taken in a
circle, from the count of the consumer to that of the producer, so that a restart of one
worker is a step over the seam; and `ProducerFirst` and `ConsumerFirst`, who is ahead when
a pass ends. `ItemsInOrder` alone is not inductive, because nothing in it says what is
behind the head of the buffer.

`TaskListProofs` proves for every finite set of blocks and the three builds, from
`ItemsAssumption` and under the hypothesis `Discipline` where a theorem names it:

| theorem | statement |
|---|---|
| `Inductive` | `Spec => [](IInv /\ FinishesAtAnEnd)`: the nodes from head to tail are the live tasks, each once |
| `TypeCorrect` | `Spec => []TypeInv` |
| `NeverSpins` | `Spec => []ChooseNeverSpins` |
| `FinishedCurrent` | `Spec => []FinishedIsCurrent` |

`IInv` says that some sequence q orders the live tasks (`Ordered`): q[1] is the head, q[n]
the tail, `next` and `prev` are right between neighbours, and nothing is said of the
`next` of the tail and the `prev` of the head, which are the stale pointers. `Runner`
says where the running task is: at the tail until it creates tasks, and when it is at an
end, the pointer by which `remove_task_tail` moves that end is null exactly when the list
becomes empty. Each action has a lemma that shows the new sequence: one longer, turned by
one, or one shorter at either end. The discipline is not needed for `IInv` but for one step:
`Reclaim` keeps it unless it `Strands` a task, and `FinishesAtAnEnd`, which the discipline
maintains, excludes that.

`TaskListTurns` goes on from there, the first and the last again under `Discipline`:

| theorem | statement |
|---|---|
| `HoldsLiveTasks` | `Spec => []ListHoldsLiveTasks` |
| `SoundUntilStranded` | `Spec /\ [][~Strands]_vars => []ListHoldsLiveTasks`, with or without the discipline |
| `StrandedStaysLinked` | a step from `IInv` that `Strands` a task ends in a state without `ListHoldsLiveTasks` |
| `ImplementsTurns` | `Spec => TakesTurns`: every step is a step of `RoundRobin`, or a stutter |

`SoundUntilStranded` and `StrandedStaysLinked` are `OnlyCreatorsAreStranded` up to the first
stranded task; what it says of the states after that is left to TLC.

`Order`, the walk from head to tail, is a recursive function. No induction principle can
be cited here, so `OrderIs` looks at the least place where the walk would leave the
witness sequence, and finds that it does not. The refinement mapping is that walk without
the task that has finished (`Waiting`): a turn ends for `RoundRobin` with `Finish`, while
`Reclaim`, which unlinks the node, is a stutter.

`SwitchingLemmas`, `SwitchingInvariant` and `SwitchingProofs` prove all the properties of
`Switching`, for any set of tasks (`TasksAssumption`), stacks of any size of at least nine
words (`WordsAssumption`: the smallest that holds the frames of `task_call`, of a function
and of `task_yield`), and the three builds:

| theorem | statement |
|---|---|
| `TypeCorrect` | `Spec => []TypeOK` |
| `OwnStack` | `Spec => []RunsOnOwnStack` |
| `LoopFrameKept` | `Spec => []LoopKeepsItsFrame` |
| `UsageBound` | `Spec => []UsageNeverTooLow` |
| `ComesBack` | `Spec => ResumesAsItLeft` |
| `MarksItself` | `Spec => FinishMarksItself` |
| `ImplementsTurns` | `Spec => TakesTurns` |

The first module says what each instruction does to registers, words and continuations,
and which of them it leaves alone (`Above`, `SameRest`). The second has the invariant:
what lies on a stack while its task is away is what the task will return through. For each
task that is `Fresh` (the words that `init_task_stack` or `makecontext` wrote), or
`SuspendedAt` some depth: `Bottom` and `Frames` give the return addresses and frame
pointers from the first word on, `SavedAt` the continuation that goes back into them, and
`left`, which only `Yielding` mentions, the registers and words of the call. For the task
that runs there is one predicate for each place of its code (`AtFunc`, `AtYielded`, ...).
`MainInv` has the frame of the loop and, while a task runs, `LeftFor`: the address or the
continuation it will go back to and, in the build with `my_setjmp`, the word in the frame
of `schedule_task` that names the current task. `PaintInv` says that the word a saved
stack pointer points at is not paint any more, from which the bound of the measure follows;
`QueueInv` that the task of the last turn is at the tail. TLC has checked `IInv` on the
states of `switching` before it was proved. No property is inductive alone: that a jump
lands on the right stack depends on words written by another step, often of another task.
`ImplementsTurns` maps each step to one of `RoundRobin`; the queue turns by `ChooseTask`,
whichever stack the switch then selects, and `OwnStack` makes the stack pointer tell whose
turn it is.

`EchoServerProofs` proves the safety properties of the server, for any number of clients,
descriptors, ids and commands, and any sizes of buffers, of the backlog, of a batch and of
the parts of a message:

| theorem | statement |
|---|---|
| `ImplementsLoop` | `Spec => LoopSpec`: every step is a step of `PollLoop`, or a stutter |
| `NoDescriptorLeaks` | `Spec => []DescriptorsAreOwned` |
| `ServingIsRegistered` | `Spec => []RegisteredWhileServing` |
| `NoWakeupIsLost` | `Spec => []NoLostWakeup` |
| `ListensForGood` | `Spec => ListenerStays` |
| `NoFrameIsCut` | `Spec => []FramesAreWhole` |
| `AnswersAreRight` | `Spec => AnswersMatch` |
| `TypeCorrect` | `Spec => []TypeOK` |

The assumptions are `SchedulerConstants`, `EPollerConstants` and `EchoServerConstants`.
Clients and descriptors are finite sets: a process has a limit of descriptors, and
`ListensForGood` counts both.

The module instantiates `PollLoopProofs` with the registered coroutines as the watched
ones (`LoopProofs`), so that `ImplementsLoop` needs the two premises of `PollLoop` at each
step, sleepers registered and entries gone after their registrations, and gives back
everything proved of the scheduler. The premises are facts about sockets, so refinement and
invariant are proved together: `IInv` has PollLoop's `IInv` as a conjunct, which a step
keeps because it is a step of the scheduler (`Refines`, `KeepsIInv`), and which says in
turn which statuses the other conjuncts can meet. Those are

- `ConnInv`: a connection is in the backlog, or behind one descriptor, or down;
- `OwnerInv`: an open descriptor is in `accepted` or is the socket of one coroutine, and
  only the acceptor's is the listening one;
- `PlaceInv`: which statuses go with which places, and where there is a socket at all;
- `RegInv`: what is registered is registered by who holds it, with the mask of what it
  does; what is on the ready list is registered;
- `WakeInv`: who sleeps although it could go on is on the ready list. It has to speak of
  the acceptor also between the return of `AsyncAccept` and the next call of it, when it
  will suspend without a look at the backlog: in that gap the edge of a connection is
  on the ready list already, or the backlog is empty.

`NoLostWakeup`, `RegisteredWhileServing` and `DescriptorsAreOwned` follow. `Kept` is the
inductive step without its first conjunct, with a lemma for each action. The ready list
after a close is a recursive function (`Without`), and its properties are proved from the
least place where they would fail, as those of `Order` are. `ListensForGood` is a count: if
no descriptor is free, then the descriptors other than the listening one are mapped to
different clients, and there are not enough clients.

`FrameInv`, proved relative to `IInv`, follows the units of a connection. While its client
goes on and the connection is up, its handler and it are in an `Exchange` of one of four
kinds: the request is on its way or read (`Requesting`), the answer is being written
(`Answering`), or it is written and not read to its end (`Written`), or read to its end
before its writer has looked again (`ReadFirst`), when the next request may already be
on its way. `FramesAreWhole` has the same four cases and is not inductive, for four
reasons: a connection that nobody serves yet must be `Untouched`; one that the server
closed under its client must be `Abandoned`, with nothing on its way back; the handler must
have read the request that its client waits for the answer of (`input[t] = req[c]`); and the
text on the way back must be the reply to it. The last two carry `AnswersMatch`. A handler
ends with its connection up only for an empty request, which is why what it leaves behind
is nothing that a client could take for an answer. TLC has checked `FrameInv` on the
states of the five configurations of `EchoServer` without fairness, before it was proved.

What stays with TLC: the liveness properties, `RunnableRuns`, `RequestsEnd`, `EveryTaskRuns`,
`TurnsGoOn` and `DriverEnds`, because they rest on fairness, whose definition has ENABLED, which
these provers do not have; what `OnlyCreatorsAreStranded`
says of a list that has gone bad once; and the violations of section 8, which are counterexamples. What
recursive definitions compute is proved where a least counterexample is enough (`Order`,
`Without`); no induction theorem of the library can be used here.

## 8. Findings

1. `echo_no_text`: after the line `echo:` the answer has no text, and `AsyncWrite`
   (basesocket.cpp:191) writes nothing at all for an empty text, not even a header. The
   client, which waits for a response to each line (client.cpp:24-25), waits for ever, and
   so does its handler.
2. `echo_closed`: a client that ends between its request and the answer resets the
   connection after its end of stream; the next `write` (basesocket.cpp:175) raises
   SIGPIPE, which nothing ignores, and the server ends with all its connections.
   epoller.cpp:133-135 expects a closed remote end to cost one descriptor and one exception.
3. `stack_usage`: `get_stack_usage_percent` (stat.c:39) subtracts a difference of
   `uint32_t` pointers, a number of 4-byte units, from a size in bytes, so that the untouched
   part counts for a quarter of what it is; and it reports a stack without any mismatch as
   full (stat.c:36-37). `UsageNeverTooLow` cannot see this, because too much is reported, never
   too little; `UsageIsExact` does. The version kept in the comment below it (stat.c:46-66) multiplies by
   `sizeof(pattern)` and returns 0 in that case.

Seen while modelling, without a finding of its own: tasks that create tasks and return
(section 3, `Discipline`, and `task_list_free`); an id in use drops a new connection (`CreateTask`); a server
at its limit of descriptors stops accepting for good (`echo_few`); the setjmp build of
StackManagement does not compile, since its `init_task_stack` assigns a pointer to
`task->stack`, which is a structure there; no build of StackManagement calls the measure
of stack use; the pattern passed to `allocate_fixedsize_stack` is ignored; the bounded
buffer of `pt-sem.h` ends with an empty buffer only where the compiler evaluates the
producer's call first, and with its own numbers does not end at all where it does not.

## 9. What is not modelled

- Memory: every allocation succeeds. In the server a failed one is an exception of the
  handler, which the model has; in the task list it is a hazard with a note.
- In `Switching`: caller-saved registers, which a call may change anyway; the code of an
  optimising compiler, which may keep `next` in a register or find `rbp` useless as a frame
  pointer; floating-point control words, which `swapcontext` saves and the assembly does
  not, and no program changes; a recursion deeper than the stack, of which nothing in the
  code takes notice.
- Protected stacks (stackcontext.c:84-127), which no program allocates; the demonstration
  of one jump in `Stackful/Jumps`.
- Of the protothreads: `PT_YIELD`, `PT_SPAWN`, `PT_RESTART`, `PT_EXIT` and the labels of gcc,
  which the bounded buffer does not use; `fibonacci.c`, `printconent.c` and `nonblock.c`,
  loops of one protothread or of two that alternate, without shared state to get wrong.
- Address parsing, formatting and printing; `AppendReadEvent` and `AddWriteEvent`, which
  have no caller; packing id and descriptor into 64 bits, which is the pair itself.
- The observer of StackManagement: the default build compiles it (CMakeLists.txt:26), but
  no other file includes observer.h, so nothing in a program calls it. Editor and build files.
