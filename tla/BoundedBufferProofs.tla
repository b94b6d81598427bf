------------------------ MODULE BoundedBufferProofs ------------------------
(***************************************************************************)
(* What the bounded buffer of protothreads promises for any number of      *)
(* items and any size of the buffer, whichever operand C evaluates first.  *)
(***************************************************************************)
EXTENDS BoundedBuffer, TLAPS

(* Where each protothread is: a worker that is not running has ended or waits  *)
(* for its own semaphore with items still to do, because the mutex is free     *)
(* whenever a worker comes to it; the results are those of this pass.          *)
Control ==
    /\ at \in Workers \cup {"driver"} => lc["driver"] = "wait"
    /\ at = "caller" /\ lc["driver"] # "wait" =>
          /\ buffer = <<>>
          /\ \A p \in Workers : /\ lc[p] = "begin"
                                /\ count[p] = 0
                                /\ result[p] = NoResult
    /\ at = "ended" => \A p \in Workers : result[p] = PT_ENDED
    /\ \A p \in Workers :
          /\ at = p => result[p] = NoResult
          /\ at # p => lc[p] \in {"begin", "own"}
          /\ at # p /\ lc[p] = "own" => count[p] < numItems
          /\ at = p /\ pc \in {"own", "mutex", "section"} => count[p] < numItems
          /\ at = p /\ pc \in {"mutex", "section"} => lc[p] # "begin"
          /\ at = p /\ pc = "begin" => lc[p] = "begin"
          /\ lc[p] = "begin" => count[p] \in {0, numItems}
          /\ result[p] = PT_WAITING => count[p] < numItems
          /\ result[p] = PT_ENDED => count[p] = numItems
          /\ p # first /\ (at = p \/ result[p] # NoResult) => result[first] # NoResult

(* The numbers 0..numItems-1 in a circle: a worker that has ended starts with 0. *)
Wrap(n) == IF n = numItems THEN 0 ELSE n

(* The buffer is the stretch of the circle from the consumer to the producer. *)
Chain ==
    /\ buffer = <<>> => Wrap(count["consumer"]) = Wrap(count["producer"])
    /\ buffer # <<>> =>
          /\ buffer[1] = Wrap(count["consumer"])
          /\ Wrap(buffer[Len(buffer)] + 1) = Wrap(count["producer"])
    /\ \A k \in 1..(Len(buffer) - 1) : buffer[k + 1] = Wrap(buffer[k] + 1)

(* With the producer first nobody is ever started again, so the counts differ  *)
(* by the items in the buffer and both end in the same pass.                   *)
ProducerFirst ==
    first = "producer" =>
        /\ count["producer"] = count["consumer"] + Len(buffer)
        /\ \A p \in Workers :
              /\ at = "caller" => result[p] # PT_ENDED
              /\ lc[p] = "begin" /\ result[p] # PT_ENDED => count[p] = 0
        /\ result["consumer"] # NoResult =>
              (result["producer"] = PT_ENDED <=> result["consumer"] = PT_ENDED)

(* With the consumer first the producer leaves its last item in the buffer.    *)
ConsumerFirst ==
    first = "consumer" =>
        /\ result["producer"] = PT_ENDED => buffer # <<>>
        /\ Runs("producer", "loop") /\ count["producer"] > 0 => buffer # <<>>

IInv == TypeOK /\ Control /\ SemaphoresCount /\ Chain /\ ProducerFirst /\ ConsumerFirst

(* The program before the first call of the driver. *)
LEMMA InitIInv == Init => IInv
<1> SUFFICES ASSUME Init PROVE IInv
  OBVIOUS
<1> USE MaxItemsAssumption, MaxSizeAssumption DEF Init, Workers, Threads
<1>1. TypeOK
  BY DEF TypeOK, Places, Lines, NoResult
<1>2. Control
  BY DEF Control, NoResult, PT_WAITING, PT_ENDED
<1>3. SemaphoresCount
  BY DEF SemaphoresCount
<1>4. Chain
  BY DEF Chain
<1>5. ProducerFirst /\ ConsumerFirst
  BY DEF ProducerFirst, ConsumerFirst, Runs, NoResult, PT_ENDED
<1>6. QED
  BY <1>1, <1>2, <1>3, <1>4, <1>5 DEF IInv

(* The first call initialises the semaphores, every call forgets the results. *)
LEMMA CallDriverIInv == ASSUME IInv, CallDriver PROVE IInv'
<1> USE DEF IInv, CallDriver, constants, Workers, Threads, NoResult, PT_WAITING, PT_ENDED
<1>1. lc' \in [Threads -> Lines \cup {"wait"}] /\ lc'["driver"] = "wait"
      /\ \A p \in Workers : lc'[p] = lc[p]
  BY DEF TypeOK, Control, Lines
<1>2. TypeOK'
  BY <1>1 DEF TypeOK
<1>3. Control'
  BY <1>1 DEF Control, TypeOK
<1>4. SemaphoresCount'
  BY <1>1 DEF SemaphoresCount, Control, TypeOK, Holds
<1>5. Chain'
  BY DEF Chain, Wrap
<1>6. ProducerFirst' /\ ConsumerFirst'
  BY <1>1 DEF ProducerFirst, ConsumerFirst, Runs, TypeOK, Control
<1>7. QED
  BY <1>2, <1>3, <1>4, <1>5, <1>6

(* LC_RESUME: the worker goes on where it has returned. *)
LEMMA CallWorkerIInv == ASSUME NEW p \in Workers, IInv, CallWorker(p) PROVE IInv'
<1> USE DEF IInv, CallWorker, constants, Workers, Threads, NoResult, PT_WAITING, PT_ENDED
<1>1. TypeOK'
  BY DEF TypeOK, Control, Lines, Places
<1>2. Control'
  BY DEF Control, TypeOK
<1>3. SemaphoresCount'
  BY DEF SemaphoresCount, Control, TypeOK, Holds
<1>4. Chain'
  BY DEF Chain, Wrap
<1>5. ProducerFirst' /\ ConsumerFirst'
  BY DEF ProducerFirst, ConsumerFirst, Runs, TypeOK, Control
<1>6. QED
  BY <1>1, <1>2, <1>3, <1>4, <1>5

(* PT_BEGIN: a count of numItems becomes 0, its neighbour in the circle. *)
LEMMA BeginIInv == ASSUME NEW p \in Workers, IInv, Begin(p) PROVE IInv'
<1> USE DEF IInv, Begin, Runs, constants, Workers, Threads, NoResult, PT_WAITING, PT_ENDED
<1>1. TypeOK'
  BY DEF TypeOK, Places
<1>2. Control'
  BY DEF Control, TypeOK
<1>3. SemaphoresCount'
  BY DEF SemaphoresCount, Control, TypeOK, Holds
<1>4. Chain'
  BY DEF Chain, Wrap, Control, TypeOK
<1>5. ProducerFirst' /\ ConsumerFirst'
  BY DEF ProducerFirst, ConsumerFirst, TypeOK, Control
<1>6. QED
  BY <1>1, <1>2, <1>3, <1>4, <1>5

LEMMA LoopIInv == ASSUME NEW p \in Workers, IInv, Loop(p) PROVE IInv'
<1> USE DEF IInv, Loop, Runs, constants, Workers, Threads, NoResult, PT_WAITING, PT_ENDED
<1>1. TypeOK'
  BY DEF TypeOK, Places, Lines
<1>2. Control'
  BY DEF Control, TypeOK
<1>3. SemaphoresCount'
  BY DEF SemaphoresCount, Control, TypeOK, Holds
<1>4. Chain'
  BY DEF Chain, Wrap
<1>5. ProducerFirst' /\ ConsumerFirst'
  BY DEF ProducerFirst, ConsumerFirst, TypeOK, Control
<1>6. QED
  BY <1>1, <1>2, <1>3, <1>4, <1>5

(* PT_END: the next call will start from the beginning. *)
LEMMA EndIInv == ASSUME NEW p \in Workers, IInv, End(p) PROVE IInv'
<1> USE DEF IInv, End, Return, Runs, constants, Workers, Threads, NoResult, PT_WAITING, PT_ENDED
<1>1. TypeOK' /\ count[p] = numItems
  BY DEF TypeOK, Places, Lines
<1>2. Control'
  BY <1>1 DEF Control, TypeOK
<1>3. SemaphoresCount'
  BY DEF SemaphoresCount, Control, TypeOK, Holds
<1>4. Chain'
  BY DEF Chain, Wrap
<1>5. ProducerFirst' /\ ConsumerFirst'
  BY <1>1 DEF ProducerFirst, ConsumerFirst, TypeOK, Control
<1>6. QED
  BY <1>1, <1>2, <1>3, <1>4, <1>5

(* The wait for a slot or an item, with the two ways it can go. *)
LEMMA WaitOwnIInv == ASSUME NEW p \in Workers, IInv, WaitOwn(p) PROVE IInv'
<1> USE DEF IInv, WaitOwn, PT_SEM_WAIT, PT_WAIT_UNTIL, Awaited, Return, Runs,
            constants, Workers, Threads, NoResult, PT_WAITING, PT_ENDED
<1>1. TypeOK'
  BY DEF TypeOK, Places, Lines
<1>2. Control'
  BY DEF Control, TypeOK
<1>3. SemaphoresCount'
  BY DEF SemaphoresCount, Control, TypeOK, Holds
<1>4. Chain'
  BY DEF Chain, Wrap
<1>5. ProducerFirst' /\ ConsumerFirst'
  BY DEF ProducerFirst, ConsumerFirst, TypeOK, Control, SemaphoresCount, Holds
<1>6. QED
  BY <1>1, <1>2, <1>3, <1>4, <1>5

(* The mutex is free: nobody returns between the wait for it and the signal. *)
LEMMA WaitMutexIInv == ASSUME NEW p \in Workers, IInv, WaitMutex(p) PROVE IInv'
<1> USE DEF IInv, WaitMutex, PT_SEM_WAIT, PT_WAIT_UNTIL, Runs,
            constants, Workers, Threads, NoResult, PT_WAITING, PT_ENDED
<1>1. sem["mutex"] = 1
  BY DEF TypeOK, Control, SemaphoresCount
<1>2. TypeOK'
  BY <1>1 DEF TypeOK, Places, Lines
<1>3. Control'
  BY <1>1 DEF Control, TypeOK
<1>4. SemaphoresCount'
  BY <1>1 DEF SemaphoresCount, Control, TypeOK, Holds
<1>5. Chain'
  BY DEF Chain, Wrap
<1>6. ProducerFirst' /\ ConsumerFirst'
  BY <1>1 DEF ProducerFirst, ConsumerFirst, TypeOK, Control
<1>7. QED
  BY <1>2, <1>3, <1>4, <1>5, <1>6

(* The producer puts the next number of the circle behind the last. *)
LEMMA ProducerSectionIInv == ASSUME IInv, Section("producer") PROVE IInv'
<1> USE DEF IInv, Runs, Workers, Threads, NoResult, PT_WAITING, PT_ENDED
<1> DEFINE n == count["producer"]
<1>1. /\ at = "producer" /\ pc = "section" /\ n \in 0..(numItems - 1)
      /\ numItems \in Nat \ {0} /\ buffer \in Seq(0..(numItems - 1))
      /\ lc["driver"] = "wait"
  BY DEF TypeOK, Control, Section
<1>2. /\ buffer' \in Seq(0..(numItems - 1))
      /\ Len(buffer') = Len(buffer) + 1 /\ buffer' # <<>>
      /\ buffer'[Len(buffer')] = n
      /\ \A k \in 1..Len(buffer) : buffer'[k] = buffer[k]
  BY <1>1 DEF Section
<1>3. /\ count' \in [Workers -> 0..numItems] /\ count'["producer"] = n + 1
      /\ count'["consumer"] = count["consumer"]
  BY <1>1 DEF Section, TypeOK
<1>4. /\ sem' \in [{"empty", "full", "mutex"} -> Nat]
      /\ sem'["mutex"] = sem["mutex"] + 1 /\ sem'["empty"] = sem["empty"] + 1
      /\ sem'["full"] = sem["full"]
      /\ pc' = "loop" /\ at' = at /\ lc' = lc /\ result' = result
      /\ numItems' = numItems /\ bufSize' = bufSize /\ first' = first
  BY DEF Section, Signalled, constants, TypeOK
<1>5. TypeOK'
  BY <1>1, <1>2, <1>3, <1>4 DEF TypeOK, Places
<1>6. Control'
  BY <1>1, <1>2, <1>3, <1>4 DEF Control, TypeOK
<1>7. SemaphoresCount'
  <2>1. /\ sem["mutex"] = 0 /\ sem["empty"] = Len(buffer)
        /\ sem["full"] + 1 + Len(buffer) = bufSize
    BY <1>1 DEF SemaphoresCount, Holds, TypeOK
  <2>2. Len(buffer) \in Nat /\ bufSize \in Nat /\ sem["full"] \in Nat
    BY <1>1, MaxSizeAssumption DEF TypeOK
  <2>3. /\ sem'["mutex"] = 1 /\ sem'["empty"] + 0 = Len(buffer')
        /\ sem'["full"] + 0 + Len(buffer') = bufSize'
    BY <1>2, <1>4, <2>1, <2>2
  <2>4. QED
    BY <1>1, <1>4, <2>3 DEF SemaphoresCount, Holds
<1>8. Chain'
  <2>1. Wrap(n) = n /\ Wrap(count["consumer"])' = Wrap(count["consumer"])
        /\ Wrap(count["producer"])' = Wrap(n + 1)
    BY <1>1, <1>3, <1>4 DEF Wrap, TypeOK
  <2>2. buffer'[1] = Wrap(count["consumer"])
    BY <1>1, <1>2, <2>1 DEF Chain
  <2>3. Wrap(buffer'[Len(buffer')] + 1) = Wrap(n + 1)
    BY <1>2
  <2>4. ASSUME NEW k \in 1..(Len(buffer') - 1)
        PROVE  buffer'[k + 1] = Wrap(buffer'[k] + 1)
    <3>1. CASE k = Len(buffer)
      BY <1>1, <1>2, <2>1, <3>1 DEF Chain
    <3>2. CASE k # Len(buffer)
      <4>1. k \in 1..(Len(buffer) - 1) /\ k + 1 \in 1..Len(buffer)
        BY <1>1, <1>2, <3>2
      <4>2. QED
        BY <1>2, <4>1 DEF Chain
    <3>3. QED
      BY <3>1, <3>2
  <2>5. QED
    BY <1>2, <1>3, <1>4, <2>1, <2>2, <2>3, <2>4 DEF Chain, Wrap
<1>9. ProducerFirst' /\ ConsumerFirst'
  <2>1. \A q \in Workers : lc[q] = "begin" /\ result[q] # PT_ENDED => count'[q] = count[q]
    BY <1>1, <1>3, <1>4 DEF Control
  <2>2. Len(buffer) \in Nat /\ count["producer"] \in Nat /\ count["consumer"] \in Nat
    BY <1>1, MaxItemsAssumption DEF TypeOK
  <2>3. ProducerFirst'
    <3>1. SUFFICES ASSUME first = "producer" PROVE ProducerFirst'
      BY <1>4 DEF ProducerFirst
    <3>2. count'["producer"] = count'["consumer"] + Len(buffer')
      BY <3>1, <1>1, <1>2, <1>3, <1>4, <2>2 DEF ProducerFirst
    <3>3. QED
      BY <3>1, <3>2, <1>1, <1>4, <2>1 DEF ProducerFirst
  <2>4. ConsumerFirst'
    BY <1>1, <1>2, <1>3, <1>4 DEF ConsumerFirst, Control, TypeOK
  <2>5. QED
    BY <2>3, <2>4
<1>10. QED
  BY <1>5, <1>6, <1>7, <1>8, <1>9

(* The consumer takes the item it holds a count of "empty" for. *)
LEMMA ConsumerSectionIInv == ASSUME IInv, Section("consumer") PROVE IInv'
<1> USE DEF IInv, Runs, Workers, Threads, NoResult, PT_WAITING, PT_ENDED
<1> DEFINE n == count["consumer"]
<1>1. /\ at = "consumer" /\ pc = "section" /\ n \in 0..(numItems - 1)
      /\ numItems \in Nat \ {0} /\ buffer \in Seq(0..(numItems - 1))
      /\ lc["driver"] = "wait"
  BY DEF TypeOK, Control, Section
<1>2. Len(buffer) \in Nat \ {0}
  BY <1>1 DEF SemaphoresCount, Holds, TypeOK
<1>3. /\ buffer' \in Seq(0..(numItems - 1))
      /\ Len(buffer') = Len(buffer) - 1
      /\ \A k \in 1..Len(buffer') : buffer'[k] = buffer[k + 1]
      /\ buffer # <<>>
  BY <1>1, <1>2 DEF Section
<1>4. /\ count' \in [Workers -> 0..numItems] /\ count'["consumer"] = n + 1
      /\ count'["producer"] = count["producer"]
      /\ sem' \in [{"empty", "full", "mutex"} -> Nat]
      /\ sem'["mutex"] = sem["mutex"] + 1 /\ sem'["full"] = sem["full"] + 1
      /\ sem'["empty"] = sem["empty"]
      /\ pc' = "loop" /\ at' = at /\ lc' = lc /\ result' = result
      /\ numItems' = numItems /\ bufSize' = bufSize /\ first' = first
  BY <1>1 DEF Section, Signalled, constants, TypeOK
<1>5. TypeOK'
  BY <1>1, <1>3, <1>4 DEF TypeOK, Places
<1>6. Control'
  BY <1>1, <1>3, <1>4 DEF Control, TypeOK
<1>7. SemaphoresCount'
  <2>1. /\ sem["mutex"] = 0 /\ sem["empty"] + 1 = Len(buffer)
        /\ sem["full"] + Len(buffer) = bufSize
    BY <1>1 DEF SemaphoresCount, Holds, TypeOK
  <2>2. bufSize \in Nat /\ sem["full"] \in Nat /\ sem["empty"] \in Nat
    BY MaxSizeAssumption DEF TypeOK
  <2>3. Len(buffer') = sem["empty"]
    BY <1>2, <1>3, <2>1, <2>2
  <2>4. /\ sem'["mutex"] = 1 /\ sem'["empty"] + 0 = Len(buffer')
        /\ sem'["full"] + 0 + Len(buffer') = bufSize'
    BY <1>4, <2>1, <2>2, <2>3
  <2>5. QED
    BY <1>1, <1>4, <2>4 DEF SemaphoresCount, Holds
<1>8. Chain'
  <2>1. Wrap(n) = n /\ Wrap(count["producer"])' = Wrap(count["producer"])
        /\ Wrap(count["consumer"])' = Wrap(n + 1) /\ numItems' = numItems
    BY <1>1, <1>4 DEF Wrap, TypeOK
  <2>2. buffer[1] = n /\ Wrap(buffer[Len(buffer)] + 1) = Wrap(count["producer"])
    BY <1>3, <2>1 DEF Chain
  <2>3. CASE Len(buffer) = 1
    <3>1. buffer' = <<>> /\ Len(buffer') = 0
      BY <1>3, <2>3
    <3>2. Wrap(n + 1) = Wrap(count["producer"])
      BY <2>2, <2>3
    <3>3. QED
      BY <2>1, <3>1, <3>2 DEF Chain
  <2>4. CASE Len(buffer) # 1
    <3>1. Len(buffer') \in Nat \ {0} /\ buffer' # <<>>
      BY <1>2, <1>3, <2>4
    <3>2. buffer'[1] = Wrap(n + 1)
      BY <1>2, <1>3, <2>2, <2>4, <3>1 DEF Chain
    <3>3. buffer'[Len(buffer')] = buffer[Len(buffer)]
      BY <1>2, <1>3, <3>1
    <3>4. ASSUME NEW k \in 1..(Len(buffer') - 1)
          PROVE  buffer'[k + 1] = Wrap(buffer'[k] + 1)
      <4>1. k + 1 \in 1..(Len(buffer) - 1) /\ k \in 1..Len(buffer')
            /\ k + 1 \in 1..Len(buffer')
        BY <1>2, <1>3
      <4>2. buffer[(k + 1) + 1] = Wrap(buffer[k + 1] + 1)
        BY <4>1 DEF Chain
      <4>3. QED
        BY <1>3, <4>1, <4>2
    <3>5. QED
      BY <2>1, <2>2, <3>1, <3>2, <3>3, <3>4 DEF Chain, Wrap
  <2>5. QED
    BY <2>3, <2>4
<1>9. ProducerFirst' /\ ConsumerFirst'
  <2>1. \A q \in Workers : lc[q] = "begin" /\ result[q] # PT_ENDED => count'[q] = count[q]
    BY <1>1, <1>4 DEF Control
  <2>2. Len(buffer) \in Nat /\ count["producer"] \in Nat /\ count["consumer"] \in Nat
    BY <1>1, MaxItemsAssumption DEF TypeOK
  <2>3. ProducerFirst'
    <3>1. SUFFICES ASSUME first = "producer" PROVE ProducerFirst'
      BY <1>4 DEF ProducerFirst
    <3>2. count'["producer"] = count'["consumer"] + Len(buffer')
      BY <3>1, <1>1, <1>2, <1>3, <1>4, <2>2 DEF ProducerFirst
    <3>3. QED
      BY <3>1, <3>2, <1>1, <1>4, <2>1 DEF ProducerFirst
  <2>4. ConsumerFirst'
    BY <1>1, <1>2, <1>3, <1>4 DEF ConsumerFirst, Control, TypeOK
  <2>5. QED
    BY <2>3, <2>4
<1>10. QED
  BY <1>5, <1>6, <1>7, <1>8, <1>9

(* With the producer first both workers of a pass wait or both have ended. *)
LEMMA DriverTestsIInv == ASSUME IInv, DriverTests PROVE IInv'
<1> USE DEF IInv, DriverTests, constants, Workers, Threads, NoResult, PT_WAITING, PT_ENDED
<1>1. \A p \in Workers : result[p] \in {0, 3}
  BY DEF TypeOK
<1>2. And(0, 0) = 0 /\ And(0, 3) = 0 /\ And(3, 0) = 0 /\ And(3, 3) = 3
  BY DEF And
<1>3. \/ /\ at' = "ended" /\ lc' = [lc EXCEPT !["driver"] = "begin"]
         /\ \A p \in Workers : result[p] = 3
      \/ at' = "caller" /\ lc' = lc /\ \E p \in Workers : result[p] = 0
  BY <1>1, <1>2 DEF PT_SCHEDULE, PT_EXITED
<1>4. TypeOK'
  BY <1>3 DEF TypeOK, Lines
<1>5. Control'
  BY <1>3 DEF Control, TypeOK
<1>6. SemaphoresCount'
  BY <1>3 DEF SemaphoresCount, Control, TypeOK, Holds
<1>7. Chain'
  BY DEF Chain, Wrap
<1>8. ProducerFirst' /\ ConsumerFirst'
  BY <1>1, <1>3 DEF ProducerFirst, ConsumerFirst, Runs, TypeOK, Control
<1>9. QED
  BY <1>4, <1>5, <1>6, <1>7, <1>8

(* Each step keeps the invariant,                                              *)
LEMMA NextIInv == IInv /\ [Next]_vars => IInv'
<1> SUFFICES ASSUME IInv, [Next]_vars PROVE IInv'
  OBVIOUS
<1>1. CASE CallDriver
  BY <1>1, CallDriverIInv
<1>2. CASE DriverTests
  BY <1>2, DriverTestsIInv
<1>3. ASSUME NEW p \in Workers, Step(p) PROVE IInv'
  <2>1. CASE Section(p)
    BY <2>1, ProducerSectionIInv, ConsumerSectionIInv DEF Workers
  <2>2. CASE WaitOwn(p) \/ WaitMutex(p)
    BY <2>2, WaitOwnIInv, WaitMutexIInv
  <2>3. CASE CallWorker(p) \/ Begin(p) \/ Loop(p) \/ End(p)
    BY <2>3, CallWorkerIInv, BeginIInv, LoopIInv, EndIInv
  <2>4. QED
    BY <1>3, <2>1, <2>2, <2>3 DEF Step
<1>4. CASE UNCHANGED vars
  BY <1>4 DEF vars, IInv, TypeOK, Control, SemaphoresCount, Holds, Chain, Wrap,
              ProducerFirst, ConsumerFirst, Runs
<1>5. QED
  BY <1>1, <1>2, <1>3, <1>4 DEF Next

(* and so it always holds.                                                     *)
THEOREM Inductive == Spec => []IInv
  BY InitIInv, NextIInv, PTL DEF Spec

(* The variables have their types: the counts stay below NUM_ITEMS and the     *)
(* semaphores, unsigned in the code, never go below zero.                      *)
THEOREM TypeCorrect == Spec => []TypeOK
<1>1. IInv => TypeOK
  BY DEF IInv
<1>2. QED
  BY <1>1, Inductive, PTL

(* The semaphores count the free slots and the items, for every BUFSIZE.       *)
THEOREM SlotsAreCounted == Spec => []SemaphoresCount
<1>1. IInv => SemaphoresCount
  BY DEF IInv
<1>2. QED
  BY <1>1, Inductive, PTL

(* Items are consumed in the order they were made in, for every NUM_ITEMS and  *)
(* BUFSIZE, in both orders of evaluation.                                      *)
THEOREM ConsumedInOrder == Spec => []ItemsInOrder
<1>1. ASSUME IInv, Runs("consumer", "section")
      PROVE  buffer # <<>> /\ Head(buffer) = count["consumer"]
  <2> USE <1>1 DEF IInv, Runs, Workers
  <2>1. /\ count["consumer"] \in 0..(numItems - 1)
        /\ buffer \in Seq(0..(numItems - 1)) /\ lc["driver"] = "wait"
        /\ sem["empty"] \in Nat
    BY DEF TypeOK, Control
  <2>2. buffer # <<>>
    BY <2>1 DEF SemaphoresCount, Holds
  <2>3. Head(buffer) = buffer[1] /\ buffer[1] = count["consumer"]
    BY <2>1, <2>2 DEF Chain, Wrap
  <2>4. QED
    BY <2>2, <2>3
<1>2. IInv => ItemsInOrder
  BY <1>1 DEF ItemsInOrder
<1>3. QED
  BY <1>2, Inductive, PTL

(* The driver ends with nothing left over exactly when it calls the producer   *)
(* first, for every NUM_ITEMS and BUFSIZE.                                     *)
THEOREM LeftoversByOrder == Spec => []OrderDecidesLeftovers
<1>1. ASSUME IInv, at = "ended"
      PROVE  /\ \A p \in Workers : count[p] = numItems
             /\ buffer = <<>> <=> first = "producer"
  <2> USE <1>1 DEF IInv, Workers
  <2>1. \A p \in Workers : result[p] = PT_ENDED /\ count[p] = numItems
    BY DEF Control
  <2>2. numItems \in Nat /\ buffer \in Seq(0..(numItems - 1)) /\ first \in Workers
    BY DEF TypeOK
  <2>3. CASE first = "producer"
    <3>1. Len(buffer) = 0
      BY <2>1, <2>2, <2>3 DEF ProducerFirst
    <3>2. QED
      BY <2>1, <2>2, <2>3, <3>1
  <2>4. CASE first = "consumer"
    BY <2>1, <2>4 DEF ConsumerFirst
  <2>5. QED
    BY <2>2, <2>3, <2>4
<1>2. IInv => OrderDecidesLeftovers
  BY <1>1 DEF OrderDecidesLeftovers
<1>3. QED
  BY <1>2, Inductive, PTL
=============================================================================
