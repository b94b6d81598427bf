--------------------------- MODULE BoundedBuffer ---------------------------
(***************************************************************************)
(* The protothreads of pt.h, with the local continuations of lc-switch.h   *)
(* and the semaphores of pt-sem.h, as the bounded buffer in the            *)
(* documentation of pt-sem.h uses them.  A protothread is a C function     *)
(* without a stack of its own: all it keeps between two calls is lc, the   *)
(* line of the PT_... macro in which it returned, and static variables.    *)
(* The driver calls the two others until neither of them waits:            *)
(*     PT_WAIT_THREAD(pt, producer(&pt_producer) & consumer(&pt_consumer)) *)
(* and C leaves it to the compiler which operand of & it evaluates first.  *)
(***************************************************************************)
EXTENDS Naturals, Sequences

CONSTANTS MaxItems,     \* NUM_ITEMS is 1..MaxItems
          MaxSize       \* BUFSIZE is 1..MaxSize

ASSUME MaxItemsAssumption == MaxItems \in Nat
ASSUME MaxSizeAssumption == MaxSize \in Nat

VARIABLES numItems,     \* NUM_ITEMS
          bufSize,      \* BUFSIZE
          first,        \* the operand of & that is evaluated first
          at,           \* whose code runs
          pc,           \* how far the producer or the consumer that runs has come
          lc,           \* pt->lc of the three protothreads
          result,       \* the operands of & that have a value
          count,        \* the variables produced and consumed
          sem,          \* the counts of the three semaphores
          buffer        \* the items, each the value of "produced" it was made with

vars == <<numItems, bufSize, first, at, pc, lc, result, count, sem, buffer>>
constants == <<numItems, bufSize, first>>

Workers == {"producer", "consumer"}
Threads == Workers \cup {"driver"}
Lines == {"begin", "own", "mutex"}
Places == Lines \cup {"loop", "section", "out"}

PT_WAITING == 0
PT_EXITED == 2
PT_ENDED == 3
NoResult == 4

\* & of two status codes, which have two bits.
And(a, b) == 2 * (a \div 2) * (b \div 2) + (a % 2) * (b % 2)

\* Mutant of PT_SCHEDULE: only PT_EXIT ends a protothread.
ScheduleUnlessExited(code) == code # PT_EXITED

PT_SCHEDULE(code) == code < PT_EXITED

\* The semaphore a worker waits for, and the one it signals when it is done.
Awaited(p) == IF p = "producer" THEN "full" ELSE "empty"
Signalled(p) == IF p = "producer" THEN "empty" ELSE "full"
-----------------------------------------------------------------------------
Init ==
    /\ numItems \in 1..MaxItems
    /\ bufSize \in 1..MaxSize
    /\ first \in Workers
    /\ at = "caller"
    /\ pc = "out"
    /\ lc = [p \in Threads |-> "begin"]
    /\ result = [p \in Workers |-> NoResult]
    /\ count = [p \in Workers |-> 0]
    /\ sem = [empty |-> 0, full |-> 0, mutex |-> 0]
    /\ buffer = <<>>

\* The driver is called: the first time it initialises the semaphores and the
\* two protothreads, and then it comes to PT_WAIT_THREAD, where it resumes later.
CallDriver ==
    /\ at = "caller"
    /\ at' = "driver"
    /\ IF lc["driver"] = "begin"
       THEN /\ sem' = [empty |-> 0, full |-> bufSize, mutex |-> 1]
            /\ lc' = [lc EXCEPT !["driver"] = "wait", !["producer"] = "begin",
                               !["consumer"] = "begin"]
       ELSE UNCHANGED <<sem, lc>>
    /\ result' = [p \in Workers |-> NoResult]
    /\ UNCHANGED <<constants, pc, count, buffer>>

\* The driver evaluates an operand: LC_RESUME goes to the line in lc.
CallWorker(p) ==
    /\ at = "driver"
    /\ result[p] = NoResult
    /\ p = first \/ result[first] # NoResult
    /\ at' = p
    /\ pc' = lc[p]
    /\ UNCHANGED <<constants, lc, result, count, sem, buffer>>

\* A macro returns from the protothread.
Return(p, code) ==
    /\ at' = "driver"
    /\ pc' = "out"
    /\ result' = [result EXCEPT ![p] = code]

\* Mutant of PT_WAIT_UNTIL: a protothread that waits says that it has exited.
WaitExits(p, line, condition) ==
    /\ lc' = [lc EXCEPT ![p] = line]
    /\ IF condition THEN UNCHANGED <<at, result>> ELSE Return(p, PT_EXITED)

\* Execution goes on behind the macro if the condition holds.
PT_WAIT_UNTIL(p, line, condition) ==
    /\ lc' = [lc EXCEPT ![p] = line]
    /\ IF condition THEN UNCHANGED <<at, result>> ELSE Return(p, PT_WAITING)

\* Mutant of PT_SEM_WAIT: the count goes down when it is called.
SemWaitBusy(p, line, s, next) ==
    /\ PT_WAIT_UNTIL(p, line, TRUE)
    /\ pc' = next
    /\ sem' = [sem EXCEPT ![s] = IF @ > 0 THEN @ - 1 ELSE 0]

PT_SEM_WAIT(p, line, s, next) ==
    /\ PT_WAIT_UNTIL(p, line, sem[s] > 0)
    /\ IF sem[s] > 0
       THEN pc' = next /\ sem' = [sem EXCEPT ![s] = @ - 1]
       ELSE UNCHANGED sem

Runs(p, place) == at = p /\ pc = place

\* PT_BEGIN, and the loop starts.
Begin(p) ==
    /\ Runs(p, "begin")
    /\ count' = [count EXCEPT ![p] = 0]
    /\ pc' = "loop"
    /\ UNCHANGED <<constants, at, lc, result, sem, buffer>>

\* Mutant of Loop: one iteration more.
LoopOnceMore(p) ==
    /\ Runs(p, "loop")
    /\ count[p] <= numItems
    /\ pc' = "own"
    /\ UNCHANGED <<constants, at, lc, result, count, sem, buffer>>

Loop(p) ==
    /\ Runs(p, "loop")
    /\ count[p] < numItems
    /\ pc' = "own"
    /\ UNCHANGED <<constants, at, lc, result, count, sem, buffer>>

\* PT_END: the next call starts from the beginning.
End(p) ==
    /\ Runs(p, "loop")
    /\ count[p] >= numItems
    /\ lc' = [lc EXCEPT ![p] = "begin"]
    /\ Return(p, PT_ENDED)
    /\ UNCHANGED <<constants, count, sem, buffer>>

\* The producer waits for a free slot, the consumer for an item.
WaitOwn(p) ==
    /\ Runs(p, "own")
    /\ PT_SEM_WAIT(p, "own", Awaited(p), "mutex")
    /\ UNCHANGED <<constants, count, buffer>>

WaitMutex(p) ==
    /\ Runs(p, "mutex")
    /\ PT_SEM_WAIT(p, "mutex", "mutex", "section")
    /\ UNCHANGED <<constants, count, buffer>>

\* Mutant of Section: the worker signals the semaphore it has waited for.
SectionSignalsOwn(p) ==
    /\ Runs(p, "section")
    /\ buffer' = IF p = "producer" THEN Append(buffer, count[p]) ELSE Tail(buffer)
    /\ sem' = [sem EXCEPT !["mutex"] = @ + 1, ![Awaited(p)] = @ + 1]
    /\ count' = [count EXCEPT ![p] = @ + 1]
    /\ pc' = "loop"
    /\ UNCHANGED <<constants, at, lc, result>>

\* What follows the second wait, up to the end of the loop's body.
Section(p) ==
    /\ Runs(p, "section")
    /\ buffer' = IF p = "producer" THEN Append(buffer, count[p]) ELSE Tail(buffer)
    /\ sem' = [sem EXCEPT !["mutex"] = @ + 1, ![Signalled(p)] = @ + 1]
    /\ count' = [count EXCEPT ![p] = @ + 1]
    /\ pc' = "loop"
    /\ UNCHANGED <<constants, at, lc, result>>

\* The driver has both values: it waits, or it ends and is not called again.
DriverTests ==
    /\ at = "driver"
    /\ \A p \in Workers : result[p] # NoResult
    /\ IF PT_SCHEDULE(And(result["producer"], result["consumer"]))
       THEN at' = "caller" /\ UNCHANGED lc
       ELSE at' = "ended" /\ lc' = [lc EXCEPT !["driver"] = "begin"]
    /\ UNCHANGED <<constants, pc, result, count, sem, buffer>>

Step(p) == CallWorker(p) \/ Begin(p) \/ Loop(p) \/ End(p)
               \/ WaitOwn(p) \/ WaitMutex(p) \/ Section(p)

Next == CallDriver \/ DriverTests \/ \E p \in Workers : Step(p)

\* One thread runs everything, and the program around the driver calls it until
\* it has ended.
Spec == Init /\ [][Next]_vars /\ WF_vars(Next)
-----------------------------------------------------------------------------
TypeOK ==
    /\ numItems \in 1..MaxItems
    /\ bufSize \in 1..MaxSize
    /\ first \in Workers
    /\ at \in Workers \cup {"caller", "driver", "ended"}
    /\ pc \in Places
    /\ at \in Workers <=> pc # "out"
    /\ lc \in [Threads -> Lines \cup {"wait"}]
    /\ lc["driver"] \in {"begin", "wait"} /\ \A p \in Workers : lc[p] \in Lines
    /\ result \in [Workers -> {PT_WAITING, PT_ENDED, NoResult}]
    /\ count \in [Workers -> 0..numItems]
    /\ sem \in [{"empty", "full", "mutex"} -> Nat]
    /\ buffer \in Seq(0..(numItems - 1))

Holds(p) == at = p /\ pc \in {"mutex", "section"}

\* The count of each semaphore is what it stands for, less what is taken by a
\* worker on its way to the buffer: free slots, items, and the buffer itself.  So
\* the buffer holds at most BUFSIZE items and no item is taken from an empty one.
SemaphoresCount ==
    lc["driver"] = "wait" \/ at = "ended" =>
        /\ sem["empty"] + (IF Holds("consumer") THEN 1 ELSE 0) = Len(buffer)
        /\ sem["full"] + (IF Holds("producer") THEN 1 ELSE 0) + Len(buffer) = bufSize
        /\ sem["mutex"] = IF pc = "section" THEN 0 ELSE 1

\* The item that the consumer takes as its k-th is the one the producer made as
\* its k-th, though both are started again when they have ended before the other.
ItemsInOrder ==
    Runs("consumer", "section") =>
        /\ buffer # <<>>
        /\ Head(buffer) = count["consumer"]

\* When the driver ends both have done all their items, and the buffer is empty
\* if the driver calls the producer first; if it calls the consumer first it never
\* ends without items left in the buffer.
OrderDecidesLeftovers ==
    at = "ended" => /\ \A p \in Workers : count[p] = numItems
                    /\ buffer = <<>> <=> first = "producer"

\* The driver ends if it calls the producer first, or if all items have room in
\* the buffer.  With the consumer first and the numbers of the example it never
\* ends: the two workers start each other again and again.
DriverEnds == first = "producer" \/ numItems <= bufSize ~> at = "ended"
=============================================================================
