-------------------------- MODULE TaskListTurns ---------------------------
(***************************************************************************)
(* What the linked list of tasks means: the walk along its pointers finds  *)
(* the live tasks in the order of a queue, and every step of the scheduler *)
(* and of the tasks is a step of the queue of RoundRobin, or none.         *)
(***************************************************************************)
EXTENDS TaskListProofs, FiniteSetTheorems, SequenceTheorems

(* A nonempty set of numbers has a least element.                              *)
LEMMA LeastOf == ASSUME NEW S \in SUBSET Nat, S # {}
                 PROVE \E m \in S : \A k \in S : m <= k
<1>1. PICK m \in S : \A k \in S : ~(<<k, m>> \in OpToRel(<, Nat))
  BY NatLessThanWellFounded, WFMin
<1>2. \A k \in S : ~(k < m)
  BY <1>1 DEF OpToRel
<1>3. \A k \in S : m <= k
  <2> SUFFICES ASSUME NEW k \in S PROVE m <= k
    OBVIOUS
  <2>1. k \in Nat /\ m \in Nat /\ ~(k < m)
    BY <1>1, <1>2
  <2>2. QED
    BY <2>1
<1>4. QED
  BY <1>1, <1>3

(* A list without repetition is no longer than there are items.                *)
LEMMA OrderedFits ==
  ASSUME NEW n \in Nat, NEW q \in [1..n -> Items], Ordered(n, q)
  PROVE  n <= Cardinality(Items) /\ Cardinality(Items) \in Nat
<1>1. q \in Injection(1..n, Items)
  BY DEF Ordered, Injection, IsInjective
<1>2. IsFiniteSet(1..n) /\ Cardinality(1..n) = n
  BY FS_Interval
<1>3. Cardinality(1..n) <= Cardinality(Items)
  BY <1>1, FS_Injection, ItemsAssumption
<1>4. QED
  BY <1>2, <1>3, FS_CardinalityType, ItemsAssumption

(* The walk along the pointers finds the list they are known to form.          *)
LEMMA OrderIs ==
  ASSUME NEW n \in Nat, NEW q \in [1..n -> Items], Ordered(n, q)
  PROVE  Order = q
<1> DEFINE N == Cardinality(Items) + 1
           Step(f, k) == IF k = 1 THEN list.head
                         ELSE IF f[k - 1] \in {Null, list.tail} THEN Null
                         ELSE list.next[f[k - 1]]
           w == [k \in 1..N |-> IF k <= n THEN q[k] ELSE Null]
<1>1. N \in Nat /\ n < N
  BY OrderedFits
<1>2. ASSUME NEW k \in 1..N PROVE w[k] = Step(w, k)
  <2>1. CASE k = 1
    BY <1>1, <2>1 DEF Ordered
  <2>2. CASE k # 1 /\ k <= n
    <3>1. k - 1 \in 1..(n - 1) /\ k - 1 \in 1..N /\ (k - 1) + 1 = k /\ n \in 1..n
      BY <1>1, <2>2
    <3>2. w[k - 1] = q[k - 1] /\ q[k - 1] # q[n] /\ q[k - 1] # Null /\ list.tail = q[n]
      BY <3>1, ItemsAssumption DEF Ordered
    <3>3. QED
      BY <2>2, <3>1, <3>2 DEF Ordered
  <2>3. CASE k # 1 /\ k = n + 1
    BY <1>1, <2>3 DEF Ordered
  <2>4. CASE k > n + 1
    BY <1>1, <2>4
  <2>5. QED
    BY <2>1, <2>2, <2>3, <2>4
<1>3. w = [k \in 1..N |-> Step(w, k)]
  BY <1>2
<1>4. Node = CHOOSE f : f = [k \in 1..N |-> Step(f, k)]
  BY DEF Node
<1>5. Node = [k \in 1..N |-> Step(Node, k)]
  BY <1>3, <1>4
<1>6. \A k \in 1..N : Node[k] = Step(Node, k)
  BY <1>5
<1> HIDE DEF w
<1>7. \A k \in 1..N : Node[k] = w[k]
  <2> DEFINE Wrong == {k \in 1..N : Node[k] # w[k]}
  <2> SUFFICES ASSUME Wrong # {} PROVE FALSE
    OBVIOUS
  <2>1. Wrong \in SUBSET Nat
    BY <1>1
  <2> HIDE DEF Wrong
  <2>2. PICK m \in Wrong : \A k \in Wrong : m <= k
    BY <2>1, LeastOf
  <2> USE DEF Wrong
  <2>3. m \in 1..N /\ Node[m] # w[m] /\ Node[m] = Step(Node, m) /\ w[m] = Step(w, m)
    BY <1>2, <1>6, <2>2
  <2>4. m # 1
    BY <2>3
  <2>5. m - 1 \in 1..N /\ m - 1 \notin Wrong
    BY <1>1, <2>2, <2>3, <2>4
  <2>6. Node[m - 1] = w[m - 1]
    BY <2>5
  <2>7. QED
    BY <2>3, <2>4, <2>6
<1>8. DOMAIN Node = 1..N
  BY <1>5
<1>9. ASSUME NEW k \in 1..N PROVE IF k <= n THEN Node[k] = q[k] ELSE Node[k] = Null
  BY <1>7 DEF w
<1>10. {k \in DOMAIN Node : Node[k] # Null} = 1..n
  BY <1>1, <1>8, <1>9, ItemsAssumption
<1>11. \A k \in 1..n : Node[k] = q[k]
  BY <1>1, <1>9
<1>12. QED
  BY <1>10, <1>11 DEF Order
(* The same in the next state. *)
OrderIsFound == \A n \in Nat : \A q \in [1..n -> Items] : Ordered(n, q) => Order = q

(* In a state of the invariant, and in the next one.                           *)
LEMMA OrderFound == OrderIsFound /\ OrderIsFound'
<1>1. OrderIsFound
  BY OrderIs DEF OrderIsFound
<1>2. QED
  BY <1>1, PTL

(* The operators on sequences that RoundRobin is written with. *)
LEMMA QueueOperators ==
  ASSUME NEW n \in Nat, NEW q \in [1..n -> Items]
  PROVE  /\ q \in Seq(Items) /\ Len(q) = n
         /\ \A i \in Items : Append(q, i) = Added(n, q, i)
         /\ n > 0 => /\ q # <<>> /\ Head(q) = q[1]
                     /\ Append(Tail(q), Head(q)) = Turned(n, q)
         /\ \A c \in 1..n : RemoveAt(q, c) = Without(n, q, c)
<1>1. q \in Seq(Items) /\ Len(q) = n
  OBVIOUS
<1>2. ASSUME NEW i \in Items PROVE Append(q, i) = Added(n, q, i)
  <2>1. /\ Append(q, i) \in Seq(Items) /\ Len(Append(q, i)) = n + 1
        /\ Append(q, i)[n + 1] = i /\ \A k \in 1..n : Append(q, i)[k] = q[k]
    BY <1>1, AppendProperties
  <2>2. /\ Added(n, q, i) \in Seq(Items) /\ Len(Added(n, q, i)) = n + 1
        /\ Added(n, q, i)[n + 1] = i /\ \A k \in 1..n : Added(n, q, i)[k] = q[k]
    BY DEF Added
  <2>3. \A k \in 1..(n + 1) : k = n + 1 \/ k \in 1..n
    OBVIOUS
  <2>4. QED
    BY <2>1, <2>2, <2>3, SeqEqual
<1>3. ASSUME n > 0
      PROVE  q # <<>> /\ Head(q) = q[1] /\ Append(Tail(q), Head(q)) = Turned(n, q)
  <2>1. q # <<>> /\ Head(q) = q[1] /\ q[1] \in Items
    BY <1>1, <1>3
  <2>2. /\ Tail(q) \in Seq(Items) /\ Len(Tail(q)) = n - 1
        /\ \A k \in 1..(n - 1) : Tail(q)[k] = q[k + 1]
    BY <1>1, <2>1, HeadTailProperties
  <2>3. /\ Append(Tail(q), q[1]) \in Seq(Items) /\ Len(Append(Tail(q), q[1])) = n
        /\ Append(Tail(q), q[1])[n] = q[1]
        /\ \A k \in 1..(n - 1) : Append(Tail(q), q[1])[k] = q[k + 1]
    BY <1>3, <2>1, <2>2, AppendProperties
  <2>4. /\ Turned(n, q) \in Seq(Items) /\ Len(Turned(n, q)) = n
        /\ Turned(n, q)[n] = q[1] /\ \A k \in 1..(n - 1) : Turned(n, q)[k] = q[k + 1]
    BY <1>3 DEF Turned
  <2>5. \A k \in 1..n : k = n \/ k \in 1..(n - 1)
    OBVIOUS
  <2>6. QED
    BY <2>1, <2>3, <2>4, <2>5, SeqEqual
<1>4. ASSUME NEW c \in 1..n PROVE RemoveAt(q, c) = Without(n, q, c)
  BY <1>1 DEF RemoveAt, Without
<1>5. QED
  BY <1>1, <1>2, <1>3, <1>4

(* The invariant is about the walk: it is sound.                               *)
LEMMA IInvHolds == IInv => ListHoldsLiveTasks
<1> SUFFICES ASSUME IInv PROVE ListHoldsLiveTasks
  OBVIOUS
<1>1. PICK n \in Nat : \E q \in [1..n -> Items] : Ordered(n, q)
  BY DEF IInv
<1>2. PICK q \in [1..n -> Items] : Ordered(n, q)
  BY <1>1
<1>3. Order = q /\ Len(q) = n /\ q \in Seq(Items)
  BY <1>2, OrderIs, QueueOperators
<1>4. {q[k] : k \in 1..n} = Live
  BY <1>2 DEF Ordered, Live
<1>5. Cardinality(Live) = n
  <2>1. q \in Bijection(1..n, Live)
    BY <1>2 DEF Ordered, Live, Bijection, Injection, IsInjective, Surjection
  <2>2. IsFiniteSet(1..n) /\ Cardinality(1..n) = n
    BY FS_Interval
  <2>3. QED
    BY <2>1, <2>2, FS_Bijection DEF ExistsBijection
<1>6. list.tail = IF q = <<>> THEN Null ELSE q[n]
  BY <1>2, <1>3 DEF Ordered
<1>7. QED
  BY <1>2, <1>3, <1>4, <1>5, <1>6 DEF ListHoldsLiveTasks

(* The list holds each live task once and nothing else, and ends at the tail.  *)
THEOREM HoldsLiveTasks == ASSUME Discipline PROVE Spec => []ListHoldsLiveTasks
  BY IInvHolds, Inductive, PTL

(* With or without the discipline: remove_task_tail keeps the list sound for   *)
(* as long as no task that created others in its turn is freed after that      *)
(* turn away from the head.                                                    *)
THEOREM SoundUntilStranded == Spec /\ [][~Strands]_vars => []ListHoldsLiveTasks
<1>1. IInv /\ UNCHANGED vars => IInv'
  BY SameListIInv
<1>2. QED
  BY <1>1, IInvHolds, InitIInv, NextIInv, PTL DEF Spec

(* And freeing such a task leaves its node linked, always: the first such step *)
(* of a behaviour, to which SoundUntilStranded leads, ends the soundness.      *)
THEOREM StrandedStaysLinked ==
  ASSUME IInv, [Next]_vars, Strands PROVE ~ListHoldsLiveTasks'
<1>1. PICK i \in Items : /\ status[i] = "FINISHED" /\ status'[i] = "FREED"
                         /\ created /\ list.head # i
  BY DEF Strands
<1>2. control = "returned" /\ current = i /\ i # Null
  BY <1>1, ItemsAssumption DEF IInv, FinishedIsCurrent
<1>3. Reclaim
  BY <1>1, <1>2 DEF Next, Scheduler, CreateTask, RunTasks, RunTasksReturns, ChooseTask,
                    Yield, Finish, vars
<1>4. PICK n \in Nat : \E q \in [1..n -> Items] : Ordered(n, q) /\ Runner(n, q)
  BY DEF IInv
<1>5. PICK q \in [1..n -> Items] : Ordered(n, q) /\ Runner(n, q)
  BY <1>4
<1>6. PICK c \in 1..n : q[c] = i /\ c # n
  BY <1>1, <1>2, <1>5 DEF Runner
<1>7. list.tail # i /\ list.head # i
  BY <1>1, <1>5, <1>6 DEF Ordered
<1>8. list' = list
  <2>1. list' = Unlink(list, i)
    BY <1>1, <1>2, <1>3 DEF Reclaim
  <2>2. list \in [head : Pointers, tail : Pointers,
                  next : [Items -> Pointers], prev : [Items -> Pointers]]
    BY DEF IInv, TypeInv
  <2>3. QED
    BY <1>7, <2>1, <2>2 DEF Unlink
<1>9. Order' = Order
  BY <1>8 DEF Order, Node
<1>10. Order = q
  BY <1>5, OrderIs
<1>11. i \in {Order'[k] : k \in DOMAIN Order'}
  BY <1>6, <1>9, <1>10
<1>12. i \notin Live'
  BY <1>1 DEF Live
<1>13. QED
  BY <1>11, <1>12 DEF ListHoldsLiveTasks

(* Between its end and the return to run_tasks a task is still in the list but *)
(* no longer in the queue.                                                     *)
LEMMA WaitingIs ==
  ASSUME NEW n \in Nat, NEW q \in [1..n -> Items], Order = q
  PROVE  /\ (\A k \in 1..n : status[q[k]] # "FINISHED") => Waiting = q
         /\ \A c \in 1..n :
               (\A k \in 1..n : status[q[k]] = "FINISHED" <=> k = c)
                  => Waiting = RemoveAt(q, c)
<1>1. DOMAIN Order = 1..n
  OBVIOUS
<1>2. QED
  BY <1>1 DEF Waiting

(* Each step of the list is a step of the queue, or leaves the queue alone.    *)
LEMMA StepTurns == ASSUME IInv, [Next]_vars, ~Strands PROVE [RR!Next]_(RR!vars)
<1>1. PICK n \in Nat : \E q \in [1..n -> Items] : Ordered(n, q) /\ Runner(n, q)
  BY DEF IInv
<1>2. PICK q \in [1..n -> Items] : Ordered(n, q) /\ Runner(n, q)
  BY <1>1
<1>3. Order = q /\ q \in Seq(Items) /\ Len(q) = n
  BY <1>2, OrderIs, QueueOperators
<1>4. TypeInv /\ \A i \in Items : status[i] = "FINISHED" => control = "returned" /\ current = i
  BY DEF IInv, FinishedIsCurrent
<1>5. control # "returned" => Waiting = q
  BY <1>3, <1>4, WaitingIs
<1>6. CASE \E i \in Items : CreateTask(i)
  <2>1. PICK i \in Items : CreateTask(i)
    BY <1>6
  <2>2. /\ Added(n, q, i) \in [1..(n + 1) -> Items] /\ Ordered(n + 1, Added(n, q, i))'
        /\ \A k \in 1..n : q[k] # i
    BY <1>2, <1>4, <2>1, CreateOrder
  <2>3. Order' = Added(n, q, i)
    BY <2>2, OrderFound DEF OrderIsFound
  <2>4. Waiting = q /\ \A k \in Items : status'[k] # "FINISHED"
    BY <1>4, <1>5, <2>1 DEF CreateTask, TypeInv
  <2>5. Waiting' = Added(n, q, i)
    BY <2>2, <2>3, <2>4 DEF Waiting
  <2>6. i \notin Range(q) /\ Added(n, q, i) = Append(q, i)
    BY <1>3, <2>2, QueueOperators DEF Range
  <2>7. control' = control /\ current' = current
    BY <2>1 DEF CreateTask
  <2>8. RR!Submit(i)
    BY <2>4, <2>5, <2>6, <2>7 DEF RR!Submit, RR!Range, Range
  <2>9. QED
    BY <2>8 DEF RR!Next
<1>7. CASE RunTasks \/ RunTasksReturns \/ UNCHANGED vars
  <2>1. /\ list' = list /\ status' = status
        /\ (control' = "task") = (control = "task")
        /\ control = "task" => current' = current
    BY <1>7 DEF RunTasks, RunTasksReturns, vars
  <2>2. Ordered(n, q)'
    BY <1>2, <2>1 DEF Ordered
  <2>3. Waiting' = Waiting
    BY <1>3, <2>1, <2>2, OrderFound DEF OrderIsFound, Waiting
  <2>4. QED
    BY <2>1, <2>3 DEF RR!vars
<1>8. CASE Yield
  <2>1. /\ list' = list /\ status' = status
        /\ control' = "returned" /\ control = "task"
    BY <1>8 DEF Yield
  <2>2. Ordered(n, q)'
    BY <1>2, <2>1 DEF Ordered
  <2>3. Waiting' = Waiting
    BY <1>3, <2>1, <2>2, OrderFound DEF OrderIsFound, Waiting
  <2>4. current # Null
    BY <1>2, <2>1, ItemsAssumption DEF Runner
  <2>5. RR!Yield
    BY <2>1, <2>3, <2>4 DEF RR!Yield
  <2>6. QED
    BY <2>5 DEF RR!Next
<1>9. CASE ChooseTask
  <2>1. control = "choose" /\ control' = "task" /\ current' = list.head
    BY <1>9 DEF ChooseTask
  <2>2. /\ Turned(n, q) \in [1..n -> Items] /\ n > 0 /\ list.head = q[1]
        /\ Ordered(n, Turned(n, q))'
        /\ status'[list.head] \in {"CREATED", "RUNNING"}
        /\ \A j \in Items : j # list.head => status'[j] = status[j]
    BY <1>2, <1>4, <1>9, ChooseOrder
  <2>3. Order' = Turned(n, q)
    BY <2>2, OrderFound DEF OrderIsFound
  <2>4. Waiting = q /\ \A k \in Items : status'[k] # "FINISHED"
    BY <1>4, <1>5, <2>1, <2>2
  <2>5. Waiting' = Turned(n, q)
    BY <2>2, <2>3, <2>4 DEF Waiting
  <2>6. q # <<>> /\ Head(q) = q[1] /\ Append(Tail(q), Head(q)) = Turned(n, q)
    BY <2>2, QueueOperators
  <2>7. RR!Dispatch
    BY <2>1, <2>2, <2>4, <2>5, <2>6 DEF RR!Dispatch
  <2>8. QED
    BY <2>7 DEF RR!Next
<1>10. CASE Finish
  <2>1. /\ list' = list /\ status' = [status EXCEPT ![current] = "FINISHED"]
        /\ control' = "returned" /\ control = "task"
    BY <1>10 DEF Finish
  <2>2. PICK c \in 1..n : q[c] = current
    BY <1>2, <2>1 DEF Runner
  <2>3. /\ current \in Items /\ current # Null /\ status'[current] = "FINISHED"
        /\ \A j \in Items : j # current => status'[j] = status[j] /\ status[j] # "FINISHED"
    BY <1>4, <2>1, <2>2, ItemsAssumption DEF TypeInv
  <2>4. status[current] # "FREED"
    BY <1>2, <2>2 DEF Ordered
  <2>5. \A j \in Items : status'[j] # "FREED" <=> status[j] # "FREED"
    BY <2>3, <2>4
  <2>6. Ordered(n, q)'
    BY <1>2, <2>1, <2>5 DEF Ordered
  <2>7. Order' = q
    BY <2>6, OrderFound DEF OrderIsFound
  <2>8. \A k \in 1..n : status'[q[k]] = "FINISHED" <=> k = c
    BY <1>2, <2>2, <2>3 DEF Ordered
  <2>9. Waiting' = RemoveAt(q, c)
    BY <2>7, <2>8 DEF Waiting
  <2>10. RR!Finish
    BY <1>3, <1>5, <2>1, <2>2, <2>3, <2>9 DEF RR!Finish, RR!RemoveAt, RemoveAt
  <2>11. QED
    BY <2>10 DEF RR!Next
<1>11. CASE Reclaim
  <2>1. control = "returned" /\ control' = "choose"
    BY <1>11 DEF Reclaim
  <2>2. CASE ~(current # Null /\ status[current] = "FINISHED")
    <3>1. list' = list /\ status' = status
      BY <1>11, <2>2 DEF Reclaim
    <3>2. Ordered(n, q)'
      BY <1>2, <3>1 DEF Ordered
    <3>3. Waiting' = Waiting
      BY <1>3, <3>1, <3>2, OrderFound DEF OrderIsFound, Waiting
    <3>4. QED
      BY <2>1, <3>3 DEF RR!vars
  <2>3. CASE current # Null /\ status[current] = "FINISHED"
    <3>1. PICK c \in 1..n : /\ q[c] = current
                            /\ c = 1 => list.prev[current] = Null
                            /\ c = n => list.next[current] = Null
                            /\ c \in {1, n}
      BY <1>2, <1>4, <1>11, <2>3, AtAnEnd DEF TypeInv
    <3>2. /\ Without(n, q, c) \in [1..(n - 1) -> Items] /\ n - 1 \in Nat
          /\ Ordered(n - 1, Without(n, q, c))'
          /\ status'[current] = "FREED"
          /\ \A j \in Items : j # current => status'[j] = status[j]
      BY <1>2, <1>4, <1>11, <2>3, <3>1, ReclaimOrder
    <3>3. Order' = Without(n, q, c)
      BY <3>2, OrderFound DEF OrderIsFound
    <3>4. \A k \in 1..n : status[q[k]] = "FINISHED" <=> k = c
      BY <1>2, <1>4, <2>3, <3>1 DEF Ordered
    <3>5. Waiting = RemoveAt(q, c)
      BY <1>3, <3>4, WaitingIs
    <3>6. Waiting' = Without(n, q, c)
      BY <1>4, <3>2, <3>3 DEF Waiting
    <3>7. QED
      BY <2>1, <3>5, <3>6, QueueOperators DEF RR!vars
  <2>4. QED
    BY <2>2, <2>3
<1>12. QED
  BY <1>6, <1>7, <1>8, <1>9, <1>10, <1>11 DEF Next, Scheduler

(* The list implements the queue: no step of the list, whatever is stale in    *)
(* its pointers, takes a turn out of order, drops a task or repeats one.       *)
THEOREM ImplementsTurns == ASSUME Discipline PROVE Spec => TakesTurns
<1>1. Init => RR!Init
  <2> SUFFICES ASSUME Init PROVE RR!Init
    OBVIOUS
  <2>1. Ordered(0, <<>>) /\ <<>> \in [1..0 -> Items]
    BY DEF Init, Ordered
  <2>2. Order = <<>>
    BY <2>1, OrderIs
  <2>3. QED
    BY <2>2 DEF Init, RR!Init, Waiting
<1>2. IInv /\ FinishesAtAnEnd /\ [Next]_vars => [RR!Next]_(RR!vars)
  BY StepTurns, NoneIsStranded
<1>3. QED
  BY <1>1, <1>2, Inductive, PTL DEF Spec, TakesTurns
====
