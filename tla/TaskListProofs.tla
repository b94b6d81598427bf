--------------------------- MODULE TaskListProofs ---------------------------
(***************************************************************************)
(* The linked list of tasks, for any number of memory blocks and in the    *)
(* three builds, as long as no task is stranded: none is freed in the turn *)
(* in which it created others, unless it is at the head.  The discipline   *)
(* of the programs sees to that.                                           *)
(***************************************************************************)
EXTENDS TaskList, TLAPS

(* q lists the n live tasks in the order of the list.  The next field of the   *)
(* last node and the prev field of the first may point anywhere, except when   *)
(* the node is that of the running task and will be unlinked by them.          *)
Ordered(n, q) ==
    /\ \A j, k \in 1..n : q[j] = q[k] => j = k
    /\ \A k \in 1..n : status[q[k]] # "FREED"
    /\ \A i \in Items : status[i] # "FREED" => \E k \in 1..n : q[k] = i
    /\ n = 0 => list.head = Null /\ list.tail = Null
    /\ n > 0 => list.head = q[1] /\ list.tail = q[n]
    /\ \A k \in 1..(n - 1) : list.next[q[k]] = q[k + 1] /\ list.prev[q[k + 1]] = q[k]

(* Where the running task is: at the tail, until it creates tasks.             *)
Runner(n, q) ==
    control = "task" \/ (control = "returned" /\ current # Null) =>
        \E c \in 1..n :
            /\ q[c] = current
            /\ c = 1 => list.prev[current] = Null
            /\ c = n => list.next[current] = Null
            /\ created <=> c # n

IInv ==
    /\ TypeInv
    /\ FinishedIsCurrent
    /\ control = "main" => current = Null
    /\ \E n \in Nat : \E q \in [1..n -> Items] : Ordered(n, q) /\ Runner(n, q)

(* What the discipline adds.                                                   *)
FinishesAtAnEnd ==
    control = "returned" /\ current \in Items /\ created /\ status[current] = "FINISHED"
        => list.head = current

(* The three ways in which a step changes the order q of the n live tasks: a   *)
(* new one comes last, the first becomes the last, the one at c is taken out.  *)
Added(n, q, i) == [k \in 1..(n + 1) |-> IF k = n + 1 THEN i ELSE q[k]]
Turned(n, q) == [k \in 1..n |-> IF k = n THEN q[1] ELSE q[k + 1]]
Without(n, q, c) == [k \in 1..(n - 1) |-> IF k < c THEN q[k] ELSE q[k + 1]]

(* The fields of the list after the two operations that are used together.     *)
LEMMA InsertTailType ==
  ASSUME TypeInv, NEW i \in Items,
         NEW l \in [head : Pointers, tail : Pointers,
                    next : [Items -> Pointers], prev : [Items -> Pointers]]
  PROVE  /\ InsertTail(l, i) \in [head : Pointers, tail : Pointers,
                    next : [Items -> Pointers], prev : [Items -> Pointers]]
         /\ InsertTail(l, i).head = IF l.head = Null THEN i ELSE l.head
         /\ InsertTail(l, i).tail = i
         /\ InsertTail(l, i).next[i] = Null
         /\ InsertTail(l, i).prev[i] = l.tail
         /\ \A j \in Items : j # i /\ j = l.tail => InsertTail(l, i).next[j] = i
         /\ \A j \in Items : j # i /\ j # l.tail => InsertTail(l, i).next[j] = l.next[j]
         /\ \A j \in Items : j # i => InsertTail(l, i).prev[j] = l.prev[j]
  BY DEF InsertTail, Pointers

(* No task, an empty list. *)
LEMMA InitIInv == Init => IInv
<1> SUFFICES ASSUME Init PROVE IInv
  OBVIOUS
<1>1. TypeInv
  BY DEF Init, TypeInv, Pointers, Statuses, Places
<1>2. FinishedIsCurrent /\ current = Null
  BY DEF Init, FinishedIsCurrent
<1>3. [k \in 1..0 |-> Null] \in [1..0 -> Items]
  OBVIOUS
<1>4. Ordered(0, [k \in 1..0 |-> Null]) /\ Runner(0, [k \in 1..0 |-> Null])
  BY DEF Init, Ordered, Runner
<1>5. QED
  BY <1>1, <1>2, <1>3, <1>4 DEF IInv

(* The new task comes last. *)
LEMMA CreateOrder ==
  ASSUME TypeInv, NEW i \in Items, CreateTask(i),
         NEW n \in Nat, NEW q \in [1..n -> Items], Ordered(n, q)
  PROVE  /\ Added(n, q, i) \in [1..(n + 1) -> Items]
         /\ \A k \in 1..n : Added(n, q, i)[k] = q[k] /\ q[k] # i
         /\ Ordered(n + 1, Added(n, q, i))'
         /\ TypeInv' /\ \A j \in Items : j # i => list'.prev[j] = list.prev[j]
<1>1. /\ list' = InsertTail(list, i) /\ status' = [status EXCEPT ![i] = "CREATED"]
      /\ status[i] = "FREED" /\ control \in {"main", "task"} /\ created' = (control = "task")
      /\ current' = current /\ control' = control /\ build' = build
  BY DEF CreateTask
<1>2. TypeInv /\ status \in [Items -> Statuses] /\ current \in Pointers
  BY DEF TypeInv
<1>3. /\ list' \in [head : Pointers, tail : Pointers,
                    next : [Items -> Pointers], prev : [Items -> Pointers]]
      /\ list'.head = IF list.head = Null THEN i ELSE list.head
      /\ list'.tail = i /\ list'.next[i] = Null /\ list'.prev[i] = list.tail
      /\ \A j \in Items : j # i /\ j = list.tail => list'.next[j] = i
      /\ \A j \in Items : j # i /\ j # list.tail => list'.next[j] = list.next[j]
      /\ \A j \in Items : j # i => list'.prev[j] = list.prev[j]
  BY <1>1, <1>2, InsertTailType DEF TypeInv
<1>4. TypeInv'
  BY <1>1, <1>2, <1>3 DEF TypeInv, Statuses
<1> DEFINE r == Added(n, q, i)
<1>5. /\ r \in [1..(n + 1) -> Items] /\ r[n + 1] = i
      /\ \A k \in 1..n : r[k] = q[k] /\ r[k] # i
  BY <1>1 DEF Ordered, Added
<1> HIDE DEF r
<1>6. Ordered(n + 1, r)'
  <2>1. \A j, k \in 1..(n + 1) : r[j] = r[k] => j = k
    BY <1>5 DEF Ordered
  <2>2. \A k \in 1..(n + 1) : status'[r[k]] # "FREED"
    BY <1>1, <1>2, <1>5 DEF Ordered
  <2>3. \A j \in Items : status'[j] # "FREED" => \E k \in 1..(n + 1) : r[k] = j
    <3> SUFFICES ASSUME NEW j \in Items, status'[j] # "FREED"
                 PROVE  \E k \in 1..(n + 1) : r[k] = j
      OBVIOUS
    <3>1. CASE j = i
      BY <1>5, <3>1
    <3>2. CASE j # i
      <4>1. PICK k \in 1..n : q[k] = j
        BY <1>1, <1>2, <3>2 DEF Ordered
      <4>2. QED
        BY <1>5, <4>1
    <3>3. QED
      BY <3>1, <3>2
  <2>4. list'.head = r[1] /\ list'.tail = r[n + 1]
    <3>1. CASE n = 0
      BY <1>3, <1>5, <3>1 DEF Ordered
    <3>2. CASE n > 0
      BY <1>3, <1>5, <3>2, ItemsAssumption DEF Ordered
    <3>3. QED
      BY <3>1, <3>2
  <2>5. ASSUME NEW k \in 1..n
        PROVE  list'.next[r[k]] = r[k + 1] /\ list'.prev[r[k + 1]] = r[k]
    <3>1. CASE k = n
      BY <1>3, <1>5, <3>1 DEF Ordered
    <3>2. CASE k # n
      <4>1. k \in 1..(n - 1) /\ k + 1 \in 1..n /\ n \in 1..n
        BY <3>2
      <4>2. /\ list.next[q[k]] = q[k + 1] /\ list.prev[q[k + 1]] = q[k]
            /\ q[k] # list.tail
        BY <4>1 DEF Ordered
      <4>3. QED
        BY <1>3, <1>5, <4>1, <4>2
    <3>3. QED
      BY <3>1, <3>2
  <2>6. n + 1 > 0 /\ (n + 1) - 1 = n
    OBVIOUS
  <2>7. QED
    BY <2>1, <2>2, <2>3, <2>4, <2>5, <2>6 DEF Ordered
<1>7. QED
  BY <1>3, <1>4, <1>5, <1>6 DEF r

(* A new task keeps the invariant,                                             *)
LEMMA CreateIInv == ASSUME IInv, NEW i \in Items, CreateTask(i) PROVE IInv'
<1>1. /\ status' = [status EXCEPT ![i] = "CREATED"] /\ created' = (control = "task")
      /\ control \in {"main", "task"} /\ current' = current /\ control' = control
  BY DEF CreateTask
<1>2. TypeInv /\ status \in [Items -> Statuses] /\ current \in Pointers
  BY DEF IInv, TypeInv
<1>3. FinishedIsCurrent' /\ (control' = "main" => current' = Null)
  BY <1>1, <1>2 DEF IInv, FinishedIsCurrent
<1>4. PICK n \in Nat : \E q \in [1..n -> Items] : Ordered(n, q) /\ Runner(n, q)
  BY DEF IInv
<1>5. PICK q \in [1..n -> Items] : Ordered(n, q) /\ Runner(n, q)
  BY <1>4
<1> DEFINE r == Added(n, q, i)
<1>6. /\ r \in [1..(n + 1) -> Items] /\ Ordered(n + 1, r)' /\ TypeInv'
      /\ \A k \in 1..n : r[k] = q[k] /\ r[k] # i
      /\ \A j \in Items : j # i => list'.prev[j] = list.prev[j]
  BY <1>2, <1>5, CreateOrder
<1> HIDE DEF r
<1>7. Runner(n + 1, r)'
  <2>1. CASE control = "main"
    BY <1>1, <2>1 DEF Runner
  <2>2. CASE control = "task"
    <3>1. PICK c \in 1..n : q[c] = current /\ (c = 1 => list.prev[current] = Null)
      BY <1>5, <2>2 DEF Runner
    <3>2. current \in Items /\ current # i /\ r[c] = current /\ c \in 1..(n + 1)
          /\ c # n + 1 /\ status[current] # "FINISHED"
      BY <1>5, <1>6, <2>2, <3>1 DEF IInv, FinishedIsCurrent
    <3>3. status'[current] # "FINISHED" /\ (c = 1 => list'.prev[current] = Null)
      BY <1>1, <1>2, <1>6, <3>1, <3>2
    <3>4. QED
      BY <1>1, <2>2, <3>2, <3>3 DEF Runner
  <2>3. QED
    BY <1>1, <2>1, <2>2
<1>8. QED
  BY <1>3, <1>6, <1>7 DEF IInv

(* The steps that leave the list and who is live alone. *)
LEMMA SameListIInv ==
  ASSUME IInv, RunTasks \/ RunTasksReturns \/ Yield \/ UNCHANGED vars
  PROVE  IInv'
<1>1. list' = list /\ status' = status /\ build' = build /\ created' = created
  BY DEF RunTasks, RunTasksReturns, Yield, vars
<1>2. \/ current' = current /\ control' \in {control, "choose"}
      \/ control = "main" /\ current' = current /\ control' = "returned"
      \/ control = "choose" /\ current' = Null /\ control' = "main"
      \/ control = "task" /\ current' = current /\ control' = "returned"
  BY DEF RunTasks, RunTasksReturns, Yield, vars
<1>3. TypeInv'
  BY <1>1, <1>2 DEF IInv, TypeInv, Pointers, Places
<1>4. FinishedIsCurrent' /\ (control' = "main" => current' = Null)
  BY <1>1, <1>2 DEF IInv, FinishedIsCurrent, RunTasks, RunTasksReturns, Yield, vars
<1>5. PICK n \in Nat : \E q \in [1..n -> Items] : Ordered(n, q) /\ Runner(n, q)
  BY DEF IInv
<1>6. PICK q \in [1..n -> Items] : Ordered(n, q) /\ Runner(n, q)
  BY <1>5
<1>7. Ordered(n, q)' /\ Runner(n, q)'
  BY <1>1, <1>2, <1>6 DEF IInv, Ordered, Runner
<1>8. QED
  BY <1>3, <1>4, <1>7 DEF IInv

(* A task that finishes stays where it is. *)
LEMMA FinishIInv == ASSUME IInv, Finish PROVE IInv'
<1>1. /\ control = "task" /\ control' = "returned"
      /\ status' = [status EXCEPT ![current] = "FINISHED"]
      /\ list' = list /\ current' = current /\ created' = created /\ build' = build
  BY DEF Finish
<1>2. PICK n \in Nat : \E q \in [1..n -> Items] : Ordered(n, q) /\ Runner(n, q)
  BY DEF IInv
<1>3. PICK q \in [1..n -> Items] : Ordered(n, q) /\ Runner(n, q)
  BY <1>2
<1>4. PICK c \in 1..n : /\ q[c] = current
                        /\ c = 1 => list.prev[current] = Null
                        /\ c = n => list.next[current] = Null
                        /\ created <=> c # n
  BY <1>1, <1>3 DEF Runner
<1>5. TypeInv /\ status \in [Items -> Statuses] /\ current \in Items
  BY <1>4 DEF IInv, TypeInv
<1>6. TypeInv' /\ status'[current] = "FINISHED"
      /\ \A j \in Items : j # current => status'[j] = status[j]
  BY <1>1, <1>5 DEF TypeInv, Statuses, Places
<1>7. FinishedIsCurrent'
  BY <1>1, <1>6 DEF IInv, FinishedIsCurrent
<1>8. Ordered(n, q)'
  <2>1. status[current] # "FREED" /\ \A k \in 1..n : q[k] \in Items
    BY <1>3, <1>4 DEF Ordered
  <2>2. \A j \in Items : status'[j] # "FREED" <=> status[j] # "FREED"
    BY <1>6, <2>1
  <2>3. QED
    BY <1>1, <1>3, <2>1, <2>2 DEF Ordered
<1>9. Runner(n, q)'
  BY <1>1, <1>4 DEF Runner
<1>10. QED
  BY <1>1, <1>6, <1>7, <1>8, <1>9 DEF IInv

(* The node at the head becomes the tail: the order turns by one. *)
LEMMA ChooseOrder ==
  ASSUME TypeInv, ChooseTask, NEW n \in Nat, NEW q \in [1..n -> Items], Ordered(n, q)
  PROVE  /\ Turned(n, q) \in [1..n -> Items] /\ n > 0
         /\ list.head = q[1] /\ Turned(n, q)[n] = list.head
         /\ Ordered(n, Turned(n, q))'
         /\ TypeInv' /\ list'.next[list.head] = Null
         /\ n = 1 => list'.prev[list.head] = Null
         /\ status'[list.head] \in {"CREATED", "RUNNING"}
         /\ \A j \in Items : j # list.head => status'[j] = status[j]
<1> DEFINE h == list.head
           l == RemoveHead(list)
<1>1. /\ control = "choose" /\ control' = "task" /\ h # Null
      /\ status[h] \in {"CREATED", "RUNNING"}
      /\ list' = InsertTail(l, h) /\ current' = h /\ created' = FALSE
      /\ status' = (IF build = "jump" THEN [status EXCEPT ![h] = "RUNNING"] ELSE status)
      /\ build' = build
  BY DEF ChooseTask
<1>2. TypeInv /\ status \in [Items -> Statuses]
      /\ list \in [head : Pointers, tail : Pointers,
                   next : [Items -> Pointers], prev : [Items -> Pointers]]
  BY DEF TypeInv
<1>3. n > 0 /\ h = q[1] /\ list.tail = q[n] /\ h \in Items /\ q[n] \in Items
  BY <1>1 DEF Ordered
<1>4. /\ l \in [head : Pointers, tail : Pointers,
                next : [Items -> Pointers], prev : [Items -> Pointers]]
      /\ l.next = list.next /\ l.prev = list.prev
      /\ n = 1 => l.head = Null /\ l.tail = Null
      /\ n # 1 => l.head = q[2] /\ l.tail = q[n] /\ q[n] # h
  <2>1. CASE n = 1
    BY <1>2, <1>3, <2>1 DEF RemoveHead, Pointers
  <2>2. CASE n # 1
    <3>1. 1 \in 1..(n - 1) /\ 2 \in 1..n /\ q[2] \in Items
      BY <1>3, <2>2
    <3>2. list.next[q[1]] = q[2] /\ q[n] # q[1]
      BY <1>3, <2>2, <3>1 DEF Ordered
    <3>3. QED
      BY <1>2, <1>3, <2>2, <3>1, <3>2 DEF RemoveHead, Pointers
  <2>3. QED
    BY <2>1, <2>2
<1> HIDE DEF l
<1>5. /\ list' \in [head : Pointers, tail : Pointers,
                    next : [Items -> Pointers], prev : [Items -> Pointers]]
      /\ list'.head = IF l.head = Null THEN h ELSE l.head
      /\ list'.tail = h /\ list'.next[h] = Null /\ list'.prev[h] = l.tail
      /\ \A j \in Items : j # h /\ j = l.tail => list'.next[j] = h
      /\ \A j \in Items : j # h /\ j # l.tail => list'.next[j] = list.next[j]
      /\ \A j \in Items : j # h => list'.prev[j] = list.prev[j]
  BY <1>1, <1>2, <1>3, <1>4, InsertTailType
<1>6. /\ status' \in [Items -> Statuses] /\ status'[h] \in {"CREATED", "RUNNING"}
      /\ \A j \in Items : j # h => status'[j] = status[j]
  BY <1>1, <1>2, <1>3 DEF Statuses
<1>7. TypeInv'
  BY <1>1, <1>2, <1>3, <1>5, <1>6 DEF TypeInv, Places, Pointers
<1> DEFINE r == Turned(n, q)
<1>8. /\ r \in [1..n -> Items] /\ r[n] = h
       /\ \A k \in 1..(n - 1) : r[k] = q[k + 1] /\ r[k] # h
  BY <1>3 DEF Ordered, Turned
<1> HIDE DEF r, h
<1>9. Ordered(n, r)'
  <2>1. \A j, k \in 1..n : r[j] = r[k] => j = k
    <3> SUFFICES ASSUME NEW j \in 1..n, NEW k \in 1..n, r[j] = r[k] PROVE j = k
      OBVIOUS
    <3>1. CASE j = n \/ k = n
      BY <1>8, <3>1
    <3>2. CASE j # n /\ k # n
      <4>1. q[j + 1] = q[k + 1] /\ j + 1 \in 1..n /\ k + 1 \in 1..n
        BY <1>8, <3>2
      <4>2. QED
        BY <4>1 DEF Ordered
    <3>3. QED
      BY <3>1, <3>2
  <2>2. \A k \in 1..n : status'[r[k]] # "FREED"
    <3> SUFFICES ASSUME NEW k \in 1..n PROVE status'[r[k]] # "FREED"
      OBVIOUS
    <3>1. CASE k = n
      BY <1>6, <1>8, <3>1
    <3>2. CASE k # n
      <4>1. r[k] = q[k + 1] /\ r[k] # h /\ k + 1 \in 1..n /\ r[k] \in Items
        BY <1>8, <3>2
      <4>2. QED
        BY <1>6, <4>1 DEF Ordered
    <3>3. QED
      BY <3>1, <3>2
  <2>3. ASSUME NEW j \in Items, status'[j] # "FREED"
        PROVE  \E k \in 1..n : r[k] = j
    <3>1. CASE j = h
      BY <1>3, <1>8, <3>1
    <3>2. CASE j # h
      <4>1. PICK k \in 1..n : q[k] = j
        BY <1>6, <2>3, <3>2 DEF Ordered
      <4>2. k # 1
        BY <1>3, <3>2, <4>1
      <4>3. k - 1 \in 1..(n - 1) /\ r[k - 1] = q[(k - 1) + 1]
        BY <1>8, <4>2
      <4>4. QED
        BY <4>1, <4>3
    <3>3. QED
      BY <3>1, <3>2
  <2>4. list'.head = r[1] /\ list'.tail = r[n]
    <3>1. CASE n = 1
      BY <1>4, <1>5, <1>8, <3>1
    <3>2. CASE n # 1
      <4>1. 1 \in 1..(n - 1) /\ r[1] = q[2] /\ q[2] # Null
        BY <1>3, <1>8, <3>2, ItemsAssumption
      <4>2. QED
        BY <1>4, <1>5, <1>8, <3>2, <4>1
    <3>3. QED
      BY <3>1, <3>2
  <2>5. ASSUME NEW k \in 1..(n - 1)
        PROVE  list'.next[r[k]] = r[k + 1] /\ list'.prev[r[k + 1]] = r[k]
    <3>1. r[k] = q[k + 1] /\ r[k] # h /\ k + 1 \in 1..n /\ n # 1
      BY <1>8
    <3>2. CASE k + 1 = n
      BY <1>3, <1>4, <1>5, <1>8, <3>1, <3>2
    <3>3. CASE k + 1 # n
      <4>1. k + 1 \in 1..(n - 1) /\ r[k + 1] = q[(k + 1) + 1] /\ r[k + 1] # h
        BY <1>8, <3>3
      <4>2. /\ list.next[q[k + 1]] = q[(k + 1) + 1]
            /\ list.prev[q[(k + 1) + 1]] = q[k + 1] /\ q[k + 1] # q[n]
        BY <1>3, <3>1, <3>3, <4>1 DEF Ordered
      <4>3. r[k] \in Items /\ r[k + 1] \in Items
        BY <1>8, <3>1
      <4>4. QED
        BY <1>4, <1>5, <3>1, <4>1, <4>2, <4>3
    <3>4. QED
      BY <3>2, <3>3
  <2>6. QED
    BY <1>3, <2>1, <2>2, <2>3, <2>4, <2>5 DEF Ordered
<1>10. QED
  BY <1>3, <1>4, <1>5, <1>6, <1>7, <1>8, <1>9 DEF r, h

(* and so do the choice of a task                                              *)
LEMMA ChooseIInv == ASSUME IInv, ChooseTask PROVE IInv'
<1>1. control = "choose" /\ control' = "task" /\ current' = list.head /\ created' = FALSE
  BY DEF ChooseTask
<1>2. PICK n \in Nat : \E q \in [1..n -> Items] : Ordered(n, q) /\ Runner(n, q)
  BY DEF IInv
<1>3. PICK q \in [1..n -> Items] : Ordered(n, q) /\ Runner(n, q)
  BY <1>2
<1>4. /\ Turned(n, q) \in [1..n -> Items] /\ n > 0 /\ Turned(n, q)[n] = list.head
      /\ Ordered(n, Turned(n, q))' /\ TypeInv' /\ list'.next[list.head] = Null
      /\ n = 1 => list'.prev[list.head] = Null
      /\ status'[list.head] \in {"CREATED", "RUNNING"}
      /\ \A j \in Items : j # list.head => status'[j] = status[j]
  BY <1>3, ChooseOrder DEF IInv
<1>5. FinishedIsCurrent' /\ control' # "main"
  BY <1>1, <1>4 DEF IInv, FinishedIsCurrent
<1>6. Runner(n, Turned(n, q))'
  <2>1. n \in 1..n
    BY <1>4
  <2>2. QED
    BY <1>1, <1>4, <2>1 DEF Runner
<1>7. QED
  BY <1>4, <1>5, <1>6 DEF IInv

(* The finished task is at an end of the list, and only that end moves. *)
LEMMA ReclaimOrder ==
  ASSUME TypeInv, Reclaim, current # Null, status[current] = "FINISHED",
         NEW n \in Nat, NEW q \in [1..n -> Items], Ordered(n, q),
         NEW c \in 1..n, q[c] = current, c \in {1, n},
         c = 1 => list.prev[current] = Null,
         c = n => list.next[current] = Null
  PROVE  /\ Without(n, q, c) \in [1..(n - 1) -> Items]
         /\ Ordered(n - 1, Without(n, q, c))'
         /\ TypeInv' /\ current \in Items /\ n - 1 \in Nat
         /\ status'[current] = "FREED"
         /\ \A j \in Items : j # current => status'[j] = status[j]
<1>1. /\ list' = Unlink(list, current)
      /\ status' = [status EXCEPT ![current] = "FREED"]
      /\ current' = IF build = "jump" THEN Null ELSE current
      /\ control' = "choose" /\ build' = build /\ created' = created
  BY DEF Reclaim
<1>2. /\ status \in [Items -> Statuses]
      /\ list \in [head : Pointers, tail : Pointers,
                   next : [Items -> Pointers], prev : [Items -> Pointers]]
      /\ q[c] = current /\ c \in {1, n}
      /\ c = 1 => list.prev[current] = Null
      /\ c = n => list.next[current] = Null
  BY DEF TypeInv
<1>3. /\ current \in Items /\ n > 0 /\ list.head = q[1] /\ list.tail = q[n]
      /\ q[1] \in Items /\ q[n] \in Items
  BY DEF Ordered
<1>4. /\ list' \in [head : Pointers, tail : Pointers,
                    next : [Items -> Pointers], prev : [Items -> Pointers]]
      /\ list'.next = list.next /\ list'.prev = list.prev
      /\ list'.head = IF list.head = current THEN list.next[current] ELSE list.head
      /\ list'.tail = IF list.tail = current THEN list.prev[current] ELSE list.tail
  BY <1>1, <1>2, <1>3 DEF Unlink, Pointers
<1>5. /\ status' \in [Items -> Statuses] /\ status'[current] = "FREED"
      /\ \A j \in Items : j # current => status'[j] = status[j]
  BY <1>1, <1>2, <1>3 DEF Statuses
<1>6. /\ Without(n, q, c) \in [1..(n - 1) -> Items]
      /\ Ordered(n - 1, Without(n, q, c))'
  <2>1. CASE c = n
    <3> DEFINE r == Without(n, q, c)
    <3>1. /\ r \in [1..(n - 1) -> Items]
          /\ \A k \in 1..(n - 1) : r[k] = q[k] /\ r[k] # current /\ k \in 1..n
      BY <1>2, <2>1 DEF Ordered, Without
    <3> HIDE DEF r
    <3>2. \A j, k \in 1..(n - 1) : r[j] = r[k] => j = k
      BY <3>1 DEF Ordered
    <3>3. \A k \in 1..(n - 1) : status'[r[k]] # "FREED"
      BY <1>5, <3>1 DEF Ordered
    <3>4. ASSUME NEW j \in Items, status'[j] # "FREED"
          PROVE  \E k \in 1..(n - 1) : r[k] = j
      <4>1. PICK k \in 1..n : q[k] = j
        BY <1>5, <3>4 DEF Ordered
      <4>2. k # n
        BY <1>2, <1>5, <2>1, <3>4, <4>1
      <4>3. k \in 1..(n - 1)
        BY <4>2
      <4>4. QED
        BY <3>1, <4>1, <4>3
    <3>5. ASSUME n = 1 PROVE Ordered(n - 1, r)'
      <4>1. list'.head = Null /\ list'.tail = Null
        BY <1>2, <1>3, <1>4, <2>1, <3>5
      <4>2. n - 1 = 0
        BY <3>5
      <4>3. QED
        BY <3>2, <3>3, <3>4, <4>1, <4>2 DEF Ordered
    <3>6. ASSUME n # 1 PROVE Ordered(n - 1, r)'
      <4>1. n - 1 \in 1..(n - 1) /\ 1 \in 1..(n - 1) /\ (n - 1) + 1 = n
        BY <1>3, <3>6
      <4>2. list.prev[q[n]] = q[n - 1] /\ q[1] # current
        BY <3>1, <4>1 DEF Ordered
      <4>3. list'.head = r[1] /\ list'.tail = r[n - 1]
        BY <1>2, <1>3, <1>4, <2>1, <3>1, <4>1, <4>2
      <4>4. \A k \in 1..((n - 1) - 1) : /\ list'.next[r[k]] = r[k + 1]
                                        /\ list'.prev[r[k + 1]] = r[k]
        <5> SUFFICES ASSUME NEW k \in 1..((n - 1) - 1)
                     PROVE  list'.next[r[k]] = r[k + 1] /\ list'.prev[r[k + 1]] = r[k]
          OBVIOUS
        <5>1. k \in 1..(n - 1) /\ k + 1 \in 1..(n - 1)
          OBVIOUS
        <5>2. QED
          BY <1>4, <3>1, <5>1 DEF Ordered
      <4>5. QED
        BY <3>2, <3>3, <3>4, <4>1, <4>3, <4>4 DEF Ordered
    <3>7. QED
      BY <3>1, <3>5, <3>6 DEF r
  <2>2. CASE c = 1 /\ n # 1
    <3> DEFINE r == Without(n, q, c)
    <3>1. /\ r \in [1..(n - 1) -> Items]
          /\ \A k \in 1..(n - 1) : r[k] = q[k + 1] /\ r[k] # current /\ k + 1 \in 1..n
      BY <1>2, <2>2 DEF Ordered, Without
    <3> HIDE DEF r
    <3>2. \A j, k \in 1..(n - 1) : r[j] = r[k] => j = k
      <4> SUFFICES ASSUME NEW j \in 1..(n - 1), NEW k \in 1..(n - 1), r[j] = r[k]
                   PROVE  j = k
        OBVIOUS
      <4>1. q[j + 1] = q[k + 1] /\ j + 1 \in 1..n /\ k + 1 \in 1..n
        BY <3>1
      <4>2. QED
        BY <4>1 DEF Ordered
    <3>3. \A k \in 1..(n - 1) : status'[r[k]] # "FREED"
      <4> SUFFICES ASSUME NEW k \in 1..(n - 1) PROVE status'[r[k]] # "FREED"
        OBVIOUS
      <4>1. r[k] = q[k + 1] /\ r[k] # current /\ r[k] \in Items /\ k + 1 \in 1..n
        BY <3>1
      <4>2. QED
        BY <1>5, <4>1 DEF Ordered
    <3>4. ASSUME NEW j \in Items, status'[j] # "FREED"
          PROVE  \E k \in 1..(n - 1) : r[k] = j
      <4>1. PICK k \in 1..n : q[k] = j
        BY <1>5, <3>4 DEF Ordered
      <4>2. k # 1
        BY <1>2, <1>5, <2>2, <3>4, <4>1
      <4>3. k - 1 \in 1..(n - 1) /\ r[k - 1] = q[(k - 1) + 1]
        BY <3>1, <4>2
      <4>4. QED
        BY <4>1, <4>3
    <3>5. /\ 1 \in 1..(n - 1) /\ n - 1 \in 1..(n - 1)
          /\ (n - 1) + 1 = n /\ 1 + 1 \in 1..n
      BY <1>3, <2>2
    <3>6. list.next[q[1]] = q[1 + 1] /\ r[1] = q[1 + 1] /\ r[n - 1] = q[n]
          /\ q[n] # current
      BY <3>1, <3>5 DEF Ordered
    <3>7. list'.head = r[1] /\ list'.tail = r[n - 1]
      BY <1>2, <1>3, <1>4, <2>2, <3>6
    <3>8. \A k \in 1..((n - 1) - 1) : /\ list'.next[r[k]] = r[k + 1]
                                      /\ list'.prev[r[k + 1]] = r[k]
      <4> SUFFICES ASSUME NEW k \in 1..((n - 1) - 1)
                   PROVE  list'.next[r[k]] = r[k + 1] /\ list'.prev[r[k + 1]] = r[k]
        OBVIOUS
      <4>1. k \in 1..(n - 1) /\ k + 1 \in 1..(n - 1)
        OBVIOUS
      <4>2. r[k] = q[k + 1] /\ r[k + 1] = q[(k + 1) + 1]
        BY <3>1, <4>1
      <4>3. QED
        BY <1>4, <4>1, <4>2 DEF Ordered
    <3>9. Ordered(n - 1, r)'
      BY <3>2, <3>3, <3>4, <3>5, <3>7, <3>8 DEF Ordered
    <3>10. QED
      BY <3>1, <3>9 DEF r
  <2>3. QED
    BY <1>2, <2>1, <2>2
<1>7. TypeInv'
  BY <1>1, <1>3, <1>4, <1>5 DEF TypeInv, Pointers, Places
<1>8. QED
  BY <1>3, <1>5, <1>6, <1>7

(* A finished task that is not stranded is at one of the ends.                 *)
LEMMA AtAnEnd ==
  ASSUME Reclaim, ~Strands, current # Null, status[current] = "FINISHED",
         status \in [Items -> Statuses],
         NEW n \in Nat, NEW q \in [1..n -> Items], Ordered(n, q), Runner(n, q)
  PROVE  \E c \in 1..n : /\ q[c] = current
                         /\ c = 1 => list.prev[current] = Null
                         /\ c = n => list.next[current] = Null
                         /\ c \in {1, n}
<1>1. control = "returned" /\ status' = [status EXCEPT ![current] = "FREED"]
  BY DEF Reclaim
<1>2. PICK c \in 1..n : /\ q[c] = current
                        /\ c = 1 => list.prev[current] = Null
                        /\ c = n => list.next[current] = Null
                        /\ created <=> c # n
  BY <1>1 DEF Runner
<1>3. current \in Items /\ status'[current] = "FREED"
  BY <1>1, <1>2
<1>4. ~created \/ list.head = current
  BY <1>3 DEF Strands
<1>5. list.head = q[1] /\ 1 \in 1..n
  BY <1>2 DEF Ordered
<1>6. c \in {1, n}
  BY <1>2, <1>4, <1>5 DEF Ordered
<1>7. QED
  BY <1>2, <1>6

(* and the reclaiming of a finished one,                                       *)
LEMMA ReclaimIInv == ASSUME IInv, Reclaim, ~Strands PROVE IInv'
<1>1. control = "returned" /\ control' = "choose" /\ build' = build /\ created' = created
  BY DEF Reclaim
<1>2. PICK n \in Nat : \E q \in [1..n -> Items] : Ordered(n, q) /\ Runner(n, q)
  BY DEF IInv
<1>3. PICK q \in [1..n -> Items] : Ordered(n, q) /\ Runner(n, q)
  BY <1>2
<1>4. TypeInv /\ status \in [Items -> Statuses]
      /\ list \in [head : Pointers, tail : Pointers,
                   next : [Items -> Pointers], prev : [Items -> Pointers]]
  BY DEF IInv, TypeInv
<1>5. CASE ~(current # Null /\ status[current] = "FINISHED")
  <2>1. list' = list /\ status' = status /\ current' = current
    BY <1>5 DEF Reclaim
  <2>2. TypeInv' /\ (control' = "main" => current' = Null)
    BY <1>1, <1>4, <2>1 DEF TypeInv, Places
  <2>3. \A i \in Items : status[i] # "FINISHED"
    BY <1>5, ItemsAssumption DEF IInv, FinishedIsCurrent
  <2>4. FinishedIsCurrent' /\ Ordered(n, q)' /\ Runner(n, q)'
    BY <1>1, <1>3, <2>1, <2>3 DEF FinishedIsCurrent, Ordered, Runner
  <2>5. QED
    BY <2>2, <2>4 DEF IInv
<1>6. CASE current # Null /\ status[current] = "FINISHED"
  <2>1. PICK c \in 1..n : /\ q[c] = current
                          /\ c = 1 => list.prev[current] = Null
                          /\ c = n => list.next[current] = Null
                          /\ c \in {1, n}
    BY <1>3, <1>4, <1>6, AtAnEnd
  <2>2. /\ Without(n, q, c) \in [1..(n - 1) -> Items]
        /\ Ordered(n - 1, Without(n, q, c))'
        /\ TypeInv' /\ current \in Items /\ n - 1 \in Nat
        /\ status'[current] = "FREED"
        /\ \A j \in Items : j # current => status'[j] = status[j]
    BY <1>3, <1>4, <1>6, <2>1, ReclaimOrder
  <2>3. FinishedIsCurrent' /\ control' # "main"
    BY <1>1, <2>2 DEF IInv, FinishedIsCurrent
  <2>4. Runner(n - 1, Without(n, q, c))'
    BY <1>1 DEF Runner
  <2>5. QED
    BY <2>2, <2>3, <2>4 DEF IInv
<1>7. QED
  BY <1>5, <1>6

(* and every other step.                                                       *)
LEMMA NextIInv == ASSUME IInv, [Next]_vars, ~Strands PROVE IInv'
<1>1. CASE \E i \in Items : CreateTask(i)
  BY <1>1, CreateIInv
<1>2. CASE RunTasks \/ RunTasksReturns \/ Yield \/ UNCHANGED vars
  BY <1>2, SameListIInv
<1>3. CASE ChooseTask
  BY <1>3, ChooseIInv
<1>4. CASE Reclaim
  BY <1>4, ReclaimIInv
<1>5. CASE Finish
  BY <1>5, FinishIInv
<1>6. QED
  BY <1>1, <1>2, <1>3, <1>4, <1>5 DEF Next, Scheduler

(* The discipline keeps a finished task at the head, or one that created none, *)
LEMMA DisciplineKept ==
  ASSUME Discipline, IInv, FinishesAtAnEnd, [Next]_vars PROVE FinishesAtAnEnd'
<1>1. CASE RunTasks
  <2>1. current' = Null
    BY <1>1 DEF RunTasks, IInv
  <2>2. QED
    BY <2>1, ItemsAssumption DEF FinishesAtAnEnd
<1>2. CASE Yield
  <2>1. status' = status /\ current' = current /\ control = "task"
    BY <1>2 DEF Yield
  <2>2. current \in Items => status[current] # "FINISHED"
    BY <2>1 DEF IInv, FinishedIsCurrent
  <2>3. QED
    BY <2>1, <2>2 DEF FinishesAtAnEnd
<1>3. CASE Finish
  BY <1>3 DEF Finish, FinishesAtAnEnd
<1>4. CASE (\E i \in Items : CreateTask(i)) \/ Scheduler
  BY <1>4 DEF CreateTask, Scheduler, RunTasksReturns, ChooseTask, Reclaim, FinishesAtAnEnd
<1>5. CASE UNCHANGED vars
  BY <1>5 DEF vars, FinishesAtAnEnd
<1>6. QED
  BY <1>1, <1>2, <1>3, <1>4, <1>5 DEF Next

(* so that none is stranded.                                                   *)
LEMMA NoneIsStranded == ASSUME IInv, FinishesAtAnEnd PROVE ~Strands
  BY DEF IInv, FinishedIsCurrent, FinishesAtAnEnd, Strands

(* The nodes reached from the head are the live tasks in an order, whatever    *)
(* the stale fields of freed nodes and of the ends hold, and the running task  *)
(* is where remove_task_tail will find it.                                     *)
THEOREM Inductive == ASSUME Discipline PROVE Spec => [](IInv /\ FinishesAtAnEnd)
<1>1. Init => FinishesAtAnEnd
  BY DEF Init, FinishesAtAnEnd
<1>2. QED
  BY <1>1, InitIInv, NextIInv, DisciplineKept, NoneIsStranded, PTL DEF Spec

(* Pointers stay pointers to blocks or null, and statuses those of the code.   *)
THEOREM TypeCorrect == ASSUME Discipline PROVE Spec => []TypeInv
<1>1. IInv => TypeInv
  BY DEF IInv
<1>2. QED
  BY <1>1, Inductive, PTL

(* A finished task is freed by the return to run_tasks that follows its end.   *)
THEOREM FinishedCurrent == ASSUME Discipline PROVE Spec => []FinishedIsCurrent
<1>1. IInv => FinishedIsCurrent
  BY DEF IInv
<1>2. QED
  BY <1>1, Inductive, PTL

(* choose_task never meets a head that is freed or finished: its loop, which   *)
(* would not move past such a head, ends at once.                              *)
THEOREM NeverSpins == ASSUME Discipline PROVE Spec => []ChooseNeverSpins
<1>1. IInv => ChooseNeverSpins
  <2> SUFFICES ASSUME IInv, control = "choose", list.head # Null
               PROVE  status[list.head] \in {"CREATED", "RUNNING"}
    BY DEF ChooseNeverSpins
  <2>1. PICK n \in Nat : \E q \in [1..n -> Items] : Ordered(n, q)
    BY DEF IInv
  <2>2. PICK q \in [1..n -> Items] : Ordered(n, q)
    BY <2>1
  <2>3. list.head \in Items /\ status[list.head] # "FREED"
    BY <2>2 DEF Ordered
  <2>4. QED
    BY <2>3 DEF IInv, TypeInv, Statuses, FinishedIsCurrent
<1>2. QED
  BY <1>1, Inductive, PTL
=============================================================================
