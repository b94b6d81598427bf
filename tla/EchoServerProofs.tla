-------------------------- MODULE EchoServerProofs --------------------------
(***************************************************************************)
(* What the server promises, for any numbers of clients, descriptors and   *)
(* ids, any sizes of buffers and batches, any texts and any splits of the  *)
(* transfers.                                                              *)
(***************************************************************************)
EXTENDS EchoServer, TLAPS, FiniteSetTheorems, SequenceTheorems

(* The scheduler and its proofs, with the epoll instance as its poller. *)
LoopProofs == INSTANCE PollLoopProofs WITH Creators <- {Acceptor}, watched <- Watched

(* Every variable but those of the scheduler, whose types LoopProofs has. *)
TypeInv ==
    /\ file \in [FDs -> Clients \cup {Free, Listener}]
    /\ backlog \in Seq(Clients)
    /\ peer \in [Clients -> PeerStates]
    /\ coro \in [FDs -> Ids \cup {NoCoro}]
    /\ out \in [FDs -> BOOLEAN]
    /\ rdllist \in Seq(FDs)
    /\ pc \in [Ids -> AcceptorPCs \cup HandlerPCs \cup {"none"}]
    /\ sock \in [Ids -> FDs \cup {NoFD}]
    /\ accepted \in Seq(FDs)
    /\ cpc \in [Clients -> {"new", "idle", "text", "wait", "gone", "aborted"}]

(* Units on their way, and how far a transfer is. *)
DataInv ==
    /\ {wire, inbuf, received} \subseteq [Clients -> Nat]
    /\ outbuf \in [Clients -> 0 .. SndBuf]
    /\ count \in [Ids -> Nat]

(* The connection of a client is in the backlog, or behind one descriptor, *)
(* or there is none.                                                       *)
Connected == {"up", "fin", "rst", "finrst"}

ConnInv ==
    /\ IsInjective(backlog)
    /\ \A c \in ToSet(backlog) : peer[c] \in Connected
    /\ \A f \in FDs : file[f] \in Clients =>
          peer[file[f]] \in Connected /\ file[f] \notin ToSet(backlog)
    /\ \A f, g \in FDs : file[f] = file[g] /\ file[f] # Free => f = g
    /\ \A c \in Clients : cpc[c] = "new" => peer[c] = "none"

(* An open descriptor belongs to one coroutine or waits for one. *)
OwnerInv ==
    /\ IsInjective(accepted)
    /\ \A f \in ToSet(accepted) : file[f] \in Clients
    /\ \A f \in FDs : file[f] # Free =>
          f \in ToSet(accepted) \/ \E t \in Ids : sock[t] = f
    /\ \A t \in Ids : sock[t] \in FDs =>
          /\ file[sock[t]] # Free
          /\ sock[t] \notin ToSet(accepted)
          /\ file[sock[t]] = Listener <=> t = Acceptor
    /\ \A t, u \in Ids : sock[t] = sock[u] /\ sock[t] # NoFD => t = u

(* Where a coroutine can be, whom it serves, and when it may be suspended. *)
Suspendable == {"accept", "read", "write"}

HoldsSocket(t) ==
    \/ pc[t] \in HandlerPCs
    \/ pc[t] \in {"register", "spawn", "accept"} /\ status[t] # "FINISHED"

PlaceInv(t) ==
    /\ pc[t] = "none" <=> status[t] = "ABSENT"
    /\ pc[t] \in AcceptorPCs => t = Acceptor
    /\ pc[t] \in HandlerPCs => t # Acceptor
    /\ sock[t] \in FDs <=> HoldsSocket(t)
    /\ status[t] = "CREATED" => pc[t] \in {"listen", "start"}
    /\ status[t] = "WAITING" => pc[t] \in Suspendable
    /\ status[t] = "RUNNING" /\ t # current => pc[t] \in Suspendable
    /\ pc[t] \in {"register", "spawn"} => status[t] = "RUNNING"
    /\ exception[t] => pc[t] \in {"read", "write"}

(* What is registered with the epoll instance, by whom, and with which mask. *)
Served(t) ==
    \/ pc[t] \in {"spawn", "accept"} /\ status[t] # "FINISHED"
    \/ pc[t] \in {"read", "dispatch", "write"} /\ ~exception[t]

RegInv ==
    /\ IsInjective(rdllist)
    /\ ToSet(rdllist) \subseteq Registered
    /\ \A f \in Registered : sock[coro[f]] = f
    /\ \A t \in Ids : Served(t) =>
          /\ coro[sock[t]] = t
          /\ out[sock[t]] <=> pc[t] = "write"

(* Whoever sleeps although it could go on is on the ready list; so is the  *)
(* listening socket when the acceptor is about to sleep.                   *)
WakeInv(t) ==
    \/ status[t] = "WAITING" /\ CouldProceed(t)
    \/ pc[t] = "spawn" /\ backlog # <<>>
    => sock[t] \in ToSet(rdllist)

(* The inductive invariant of the server's tables: PollLoop's for the      *)
(* scheduler, and what ties coroutines, descriptors, connections and       *)
(* registrations to each other.                                            *)
IInv ==
    /\ LoopProofs!IInv /\ TypeInv /\ DataInv /\ ConnInv /\ OwnerInv /\ RegInv
    /\ \A t \in Ids : PlaceInv(t) /\ WakeInv(t)

-----------------------------------------------------------------------------
(* Sequences without repetition, by the set of their elements. *)

(* An element more. *)
LEMMA AppendFacts ==
  ASSUME NEW S, NEW s \in Seq(S), NEW e \in S
  PROVE  /\ Append(s, e) \in Seq(S) /\ ToSet(Append(s, e)) = ToSet(s) \cup {e}
         /\ IsInjective(s) /\ e \notin ToSet(s) => IsInjective(Append(s, e))
<1>1. /\ Append(s, e) \in Seq(S) /\ Len(Append(s, e)) = Len(s) + 1
      /\ Append(s, e)[Len(s) + 1] = e
      /\ \A i \in 1..Len(s) : Append(s, e)[i] = s[i]
      /\ Len(s) \in Nat
  BY AppendProperties, LenProperties
<1>2. DOMAIN Append(s, e) = 1..(Len(s) + 1) /\ DOMAIN s = 1..Len(s)
  BY <1>1, LenProperties
<1>3. \A i \in 1..(Len(s) + 1) : i \in 1..Len(s) \/ i = Len(s) + 1
  BY <1>1
<1>4. ToSet(Append(s, e)) = ToSet(s) \cup {e}
  BY <1>1, <1>2, <1>3 DEF ToSet
<1>5. ASSUME IsInjective(s), e \notin ToSet(s) PROVE IsInjective(Append(s, e))
  <2> SUFFICES ASSUME NEW i \in 1..(Len(s) + 1), NEW j \in 1..(Len(s) + 1),
                      Append(s, e)[i] = Append(s, e)[j]
               PROVE  i = j
    BY <1>2 DEF IsInjective
  <2>1. \A k \in 1..Len(s) : s[k] \in ToSet(s)
    BY <1>2 DEF ToSet
  <2>2. QED
    BY <1>1, <1>2, <1>3, <1>5, <2>1 DEF IsInjective
<1>6. QED
  BY <1>1, <1>4, <1>5

(* The first element taken away. *)
LEMMA TailFacts ==
  ASSUME NEW S, NEW s \in Seq(S), s # <<>>
  PROVE  /\ Head(s) \in S /\ Tail(s) \in Seq(S) /\ Head(s) \in ToSet(s)
         /\ ToSet(s) = {Head(s)} \cup ToSet(Tail(s))
         /\ IsInjective(s) => IsInjective(Tail(s)) /\ Head(s) \notin ToSet(Tail(s))
<1>1. /\ Head(s) \in S /\ Tail(s) \in Seq(S) /\ Len(Tail(s)) = Len(s) - 1
      /\ \A i \in 1..Len(Tail(s)) : Tail(s)[i] = s[i + 1]
      /\ Len(s) \in Nat \ {0} /\ Head(s) = s[1]
  BY HeadTailProperties, EmptySeq
<1>2. DOMAIN s = 1..Len(s) /\ DOMAIN Tail(s) = 1..(Len(s) - 1)
  BY <1>1, LenProperties
<1>3. \A i \in 1..Len(s) : i = 1 \/ (i - 1 \in 1..(Len(s) - 1) /\ s[i] = Tail(s)[i - 1])
  BY <1>1
<1>4. \A i \in 1..(Len(s) - 1) : i + 1 \in 1..Len(s) /\ Tail(s)[i] = s[i + 1]
  BY <1>1
<1>5. 1 \in 1..Len(s)
  BY <1>1
<1>6. ToSet(s) = {Head(s)} \cup ToSet(Tail(s)) /\ Head(s) \in ToSet(s)
  <2>1. /\ ToSet(s) = {s[i] : i \in 1..Len(s)}
        /\ ToSet(Tail(s)) = {Tail(s)[i] : i \in 1..(Len(s) - 1)}
    BY <1>2 DEF ToSet
  <2>2. Head(s) \in ToSet(s) /\ ToSet(s) \subseteq {Head(s)} \cup ToSet(Tail(s))
    BY <1>1, <1>3, <1>5, <2>1
  <2>3. ToSet(Tail(s)) \subseteq ToSet(s)
    BY <1>4, <2>1
  <2>4. QED
    BY <2>2, <2>3
<1>7. ASSUME IsInjective(s) PROVE IsInjective(Tail(s)) /\ Head(s) \notin ToSet(Tail(s))
  <2>1. \A i, j \in 1..Len(s) : s[i] = s[j] => i = j
    BY <1>2, <1>7 DEF IsInjective
  <2>2. IsInjective(Tail(s))
    <3> SUFFICES ASSUME NEW i \in 1..(Len(s) - 1), NEW j \in 1..(Len(s) - 1), Tail(s)[i] = Tail(s)[j]
                 PROVE  i = j
      BY <1>2 DEF IsInjective
    <3>1. i + 1 = j + 1
      BY <1>4, <2>1
    <3>2. QED
      BY <3>1
  <2>3. ASSUME NEW i \in 1..(Len(s) - 1) PROVE Tail(s)[i] # Head(s)
    <3>1. i + 1 \in 1..Len(s) /\ i + 1 # 1 /\ Tail(s)[i] = s[i + 1]
      BY <1>4
    <3>2. QED
      BY <1>1, <1>5, <2>1, <3>1
  <2>4. QED
    BY <1>2, <2>2, <2>3 DEF ToSet
<1>8. QED
  BY <1>1, <1>6, <1>7

(* A nonempty set of numbers has a least element. *)
LEMMA LeastOf == ASSUME NEW S \in SUBSET Nat, S # {}
                 PROVE \E m \in S : \A k \in S : m <= k
<1>1. PICK m \in S : \A k \in S : ~(<<k, m>> \in OpToRel(<, Nat))
  BY NatLessThanWellFounded, WFMin
<1>2. ASSUME NEW k \in S PROVE m <= k
  <2>1. k \in Nat /\ m \in Nat /\ ~(k < m)
    BY <1>1 DEF OpToRel
  <2>2. QED
    BY <2>1
<1>3. QED
  BY <1>1, <1>2

(* The elements that stay when those of a set are taken out.  First, the  *)
(* recursion of the definition has a solution: there is no least place at  *)
(* which it would have none.  Then, there is no least place at which the   *)
(* solution would not be as it should.                                     *)
Next1(s, X, f, n) ==
    IF n = 0 THEN <<>> ELSE IF s[n] \in X THEN f[n - 1] ELSE Append(f[n - 1], s[n])

Solves(s, X, n, f) == f = [k \in 0..n |-> Next1(s, X, f, k)]

(* The recursion has a solution, by the least counterexample: no length is *)
(* without one.                                                            *)
LEMMA WithoutIsDefined ==
  ASSUME NEW s, NEW X, NEW N \in Nat
  PROVE  \E f : Solves(s, X, N, f)
<1> DEFINE Bad == {n \in Nat : ~(\E f : Solves(s, X, n, f))}
<1> SUFFICES ASSUME Bad # {} PROVE FALSE
  OBVIOUS
<1>1. Bad \in SUBSET Nat
  OBVIOUS
<1> HIDE DEF Bad
<1>2. PICK n \in Bad : \A k \in Bad : n <= k
  BY <1>1, LeastOf
<1> USE DEF Bad
<1>3. n \in Nat /\ ~(\E f : Solves(s, X, n, f))
  BY <1>2
<1>4. n # 0
  <2>1. Solves(s, X, 0, [k \in 0..0 |-> <<>>])
    BY DEF Solves, Next1
  <2>2. QED
    BY <1>3, <2>1
<1>5. n - 1 \in Nat /\ n - 1 \notin Bad
  BY <1>2, <1>3, <1>4
<1>6. PICK f : Solves(s, X, n - 1, f)
  BY <1>5
<1> DEFINE g == [k \in 0..n |-> IF k = n THEN Next1(s, X, f, n) ELSE f[k]]
<1>7. \A k \in 0..(n - 1) : f[k] = Next1(s, X, f, k)
  BY <1>6 DEF Solves
<1>8. ASSUME NEW k \in 0..n PROVE g[k] = Next1(s, X, g, k)
  <2>1. k # 0 => k - 1 \in 0..(n - 1) /\ k - 1 \in 0..n /\ k - 1 # n
    BY <1>3, <1>8
  <2>2. k # 0 => g[k - 1] = f[k - 1]
    BY <2>1
  <2>3. Next1(s, X, g, k) = Next1(s, X, f, k)
    BY <2>2 DEF Next1
  <2>4. k = n \/ k \in 0..(n - 1)
    BY <1>3, <1>8
  <2>5. QED
    BY <1>7, <2>3, <2>4
<1>9. Solves(s, X, n, g)
  BY <1>8 DEF Solves
<1>10. QED
  BY <1>3, <1>9

(* What is left of a ready list when descriptors are closed. *)
LEMMA WithoutFacts ==
  ASSUME NEW S, NEW s \in Seq(S), NEW X
  PROVE  /\ Without(s, X) \in Seq(S) /\ ToSet(Without(s, X)) = ToSet(s) \ X
         /\ IsInjective(s) => IsInjective(Without(s, X))
<1> DEFINE N == Len(s)
           r == CHOOSE f : f = [n \in 0..N |-> Next1(s, X, f, n)]
           Left(n) == {s[i] : i \in 1..n} \ X
           Good(n) == /\ r[n] \in Seq(S) /\ ToSet(r[n]) = Left(n)
                      /\ IsInjective(s) => IsInjective(r[n])
           Bad == {n \in 0..N : ~Good(n)}
<1>1. N \in Nat /\ DOMAIN s = 1..N /\ \A i \in 1..N : s[i] \in S
  BY LenProperties, ElementOfSeq
<1>2. r = [n \in 0..N |-> Next1(s, X, r, n)]
  BY <1>1, WithoutIsDefined DEF Solves
<1>3. Without(s, X) = r[N]
  BY Zenon DEF Without, Next1
<1>4. \A n \in 0..N : r[n] = Next1(s, X, r, n)
  BY <1>2
<1> HIDE DEF r
<1>5. Bad = {}
  <2> SUFFICES ASSUME Bad # {} PROVE FALSE
    OBVIOUS
  <2>1. Bad \in SUBSET Nat
    BY <1>1
  <2> HIDE DEF Bad
  <2>2. PICK n \in Bad : \A k \in Bad : n <= k
    BY <2>1, LeastOf
  <2> HIDE DEF Good
  <2>3. n \in 0..N /\ ~Good(n)
    BY <2>2 DEF Bad
  <2>4. n # 0
    <3>1. ASSUME n = 0 PROVE FALSE
      <4>1. r[0] = <<>>
        BY <1>1, <1>4 DEF Next1
      <4>2. Good(0)
        BY <4>1 DEF Good, ToSet, IsInjective
      <4>3. QED
        BY <2>3, <3>1, <4>2
    <3>2. QED
      BY <3>1
  <2>5. n - 1 \in 0..N /\ n \in 1..N /\ Good(n - 1)
    <3>1. n - 1 \in 0..N /\ n \in 1..N /\ ~(n <= n - 1)
      BY <1>1, <2>3, <2>4
    <3>2. n - 1 \notin Bad
      BY <2>2, <3>1
    <3>3. QED
      BY <3>1, <3>2 DEF Bad
  <2>6. \A i \in 1..n : i = n \/ i \in 1..(n - 1)
    BY <2>5
  <2>7. n \in 1..n /\ \A i \in 1..(n - 1) : i \in 1..n
    BY <2>5
  <2>8. CASE s[n] \in X
    <3>1. r[n] = r[n - 1]
      BY <1>4, <2>3, <2>4, <2>8 DEF Next1
    <3>2. Left(n) = Left(n - 1)
      BY <2>6, <2>7, <2>8
    <3>3. QED
      BY <2>3, <2>5, <3>1, <3>2 DEF Good
  <2>9. CASE s[n] \notin X
    <3>1. r[n] = Append(r[n - 1], s[n])
      BY <1>4, <2>3, <2>4, <2>9 DEF Next1
    <3>2. Left(n) = Left(n - 1) \cup {s[n]}
      BY <2>6, <2>7, <2>9
    <3>3. s[n] \in S
      BY <1>1, <2>5
    <3>4. IsInjective(s) => s[n] \notin Left(n - 1)
      <4>1. \A i \in 1..(n - 1) : i \in 1..N /\ i # n
        BY <2>5
      <4>2. QED
        BY <1>1, <2>5, <4>1 DEF IsInjective
    <3>5. QED
      BY <2>3, <2>5, <3>1, <3>2, <3>3, <3>4, AppendFacts DEF Good
  <2>10. QED
    BY <2>8, <2>9
<1>6. Good(N)
  <2>1. N \in 0..N
    BY <1>1
  <2> HIDE DEF Good
  <2>2. QED
    BY <1>5, <2>1
<1>7. Left(N) = ToSet(s) \ X
  BY <1>1 DEF ToSet
<1>8. QED
  BY <1>3, <1>6, <1>7

(* A sequence cut in two. *)
LEMMA CutFacts ==
  ASSUME NEW S, NEW s \in Seq(S), NEW n \in 0..Len(s)
  PROVE  LET a == SubSeq(s, 1, n)
             b == SubSeq(s, n + 1, Len(s))
         IN  /\ b \in Seq(S) /\ ToSet(s) = ToSet(a) \cup ToSet(b)
             /\ IsInjective(s) => IsInjective(b) /\ ToSet(a) \cap ToSet(b) = {}
<1> DEFINE a == SubSeq(s, 1, n)
           b == SubSeq(s, n + 1, Len(s))
           N == Len(s)
<1>1. N \in Nat /\ DOMAIN s = 1..N /\ \A i \in 1..N : s[i] \in S
  BY LenProperties, ElementOfSeq
<1>2. n \in Int /\ N \in Int /\ 1 \in Int /\ n + 1 \in Int /\ n <= N /\ 0 <= n
  BY <1>1
<1>3. a \in Seq(S) /\ Len(a) = n /\ \A i \in 1..n : a[i] = s[i]
  <2>1. \A i \in 1..n : s[i] \in S
    BY <1>1, <1>2
  <2>2. /\ a \in Seq(S) /\ Len(a) = IF 1 <= n THEN n - 1 + 1 ELSE 0
        /\ \A i \in 1..(n - 1 + 1) : a[i] = s[1 + i - 1]
    BY <1>2, <2>1, SubSeqProperties
  <2>3. QED
    BY <1>2, <2>2
<1>4. b \in Seq(S) /\ Len(b) = N - n /\ \A i \in 1..(N - n) : b[i] = s[n + i]
  <2>1. \A i \in (n + 1)..N : s[i] \in S
    BY <1>1, <1>2
  <2>2. /\ b \in Seq(S) /\ Len(b) = IF n + 1 <= N THEN N - (n + 1) + 1 ELSE 0
        /\ \A i \in 1..(N - (n + 1) + 1) : b[i] = s[(n + 1) + i - 1]
    BY <1>2, <2>1, SubSeqProperties
  <2>3. N - (n + 1) + 1 = N - n /\ \A i \in 1..(N - n) : (n + 1) + i - 1 = n + i
    BY <1>2
  <2> HIDE DEF b
  <2>4. Len(b) = N - n
    BY <1>2, <2>2
  <2>5. \A i \in 1..(N - n) : b[i] = s[n + i]
    BY <2>2, <2>3
  <2>6. QED
    BY <2>2, <2>4, <2>5
<1> HIDE DEF a, b, N
<1>5. DOMAIN a = 1..n /\ DOMAIN b = 1..(N - n)
  BY <1>3, <1>4, LenProperties
<1>6. ASSUME NEW i \in 1..N PROVE s[i] \in ToSet(a) \cup ToSet(b)
  <2>1. CASE i <= n
    BY <1>2, <1>3, <1>5, <2>1 DEF ToSet
  <2>2. CASE i > n
    <3>1. i - n \in 1..(N - n) /\ n + (i - n) = i
      BY <1>2, <2>2
    <3>2. b[i - n] = s[i]
      BY <1>4, <3>1
    <3>3. QED
      BY <1>5, <3>1, <3>2 DEF ToSet
  <2>3. QED
    BY <1>2, <2>1, <2>2
<1>7. ASSUME NEW i \in 1..n PROVE a[i] \in ToSet(s)
  BY <1>1, <1>2, <1>3 DEF ToSet
<1>8. ASSUME NEW i \in 1..(N - n) PROVE n + i \in 1..N /\ b[i] = s[n + i]
  BY <1>2, <1>4
<1>9. ToSet(s) = ToSet(a) \cup ToSet(b)
  <2>1. /\ ToSet(s) = {s[i] : i \in 1..N} /\ ToSet(a) = {a[i] : i \in 1..n}
        /\ ToSet(b) = {b[i] : i \in 1..(N - n)}
    BY <1>1, <1>5 DEF ToSet
  <2>2. ToSet(s) \subseteq ToSet(a) \cup ToSet(b)
    BY <1>6, <2>1
  <2>3. ToSet(a) \subseteq ToSet(s)
    BY <1>7, <2>1
  <2>4. ToSet(b) \subseteq ToSet(s)
    BY <1>8, <2>1
  <2>5. QED
    BY <2>2, <2>3, <2>4
<1>10. ASSUME IsInjective(s) PROVE IsInjective(b)
  <2> SUFFICES ASSUME NEW i \in 1..(N - n), NEW j \in 1..(N - n), b[i] = b[j] PROVE i = j
    BY <1>5 DEF IsInjective
  <2>1. n + i = n + j
    BY <1>1, <1>8, <1>10 DEF IsInjective
  <2>2. QED
    BY <1>2, <2>1
<1>11. ASSUME IsInjective(s), NEW i \in 1..n, NEW j \in 1..(N - n), a[i] = b[j] PROVE FALSE
  <2>1. i \in 1..N /\ n + j \in 1..N /\ i # n + j /\ s[i] = s[n + j]
    BY <1>2, <1>3, <1>4, <1>11
  <2>2. QED
    BY <1>1, <1>11, <2>1 DEF IsInjective
<1>12. IsInjective(s) => ToSet(a) \cap ToSet(b) = {}
  BY <1>5, <1>11 DEF ToSet
<1>13. QED
  BY <1>4, <1>9, <1>10, <1>12 DEF a, b, N

-----------------------------------------------------------------------------
(* The assumptions on the constants, as they are needed. *)
LEMMA Constants ==
  /\ Acceptor \in Ids /\ NoTask \notin Ids /\ NoCoro \notin Ids /\ NoFD \notin FDs
  /\ FDs \subseteq Nat /\ IsFiniteSet(FDs)
  /\ Free \notin Clients /\ Listener \notin Clients /\ Free # Listener
  /\ SndBuf \in Nat \ {0} /\ HeaderUnits \in Nat \ {0} /\ TextUnits \in Nat \ {0}
<1>1. Acceptor \in Ids
  BY SchedulerConstants DEF Acceptor, Ids
<1>2. NoTask \notin Ids /\ NoCoro \notin Ids /\ NoFD \notin FDs
  BY SchedulerConstants, EchoServerConstants
<1>3. FDs \subseteq Nat /\ IsFiniteSet(FDs)
  BY EPollerConstants
<1>4. Free \notin Clients /\ Listener \notin Clients /\ Free # Listener
  BY EPollerConstants
<1>5. SndBuf \in Nat \ {0} /\ HeaderUnits \in Nat \ {0} /\ TextUnits \in Nat \ {0}
  BY EPollerConstants, EchoServerConstants
<1>6. QED
  BY <1>1, <1>2, <1>3, <1>4, <1>5

(* The invariant of PollLoop, in the words of this module. *)
SchedInv ==
    /\ phase \in Phases /\ status \in [Ids -> Statuses] /\ exception \in [Ids -> BOOLEAN]
    /\ id \in Ids /\ visit \in SUBSET (Live \ {current}) /\ current \in Ids \cup {NoTask}
    /\ \A f \in Registered : status[coro[f]] \notin {"ABSENT", "CREATED"}
    /\ \A t \in Ids : status[t] = "WAITING" => t \in Watched
    /\ \A t \in Ids : exception[t] =>
          status[t] = "RUNNING" /\ t # current /\ t \notin Watched
    /\ current # NoTask => /\ phase \in {"tasks", "killed"}
                           /\ status[current] \in {"RUNNING", "FINISHED"}
    /\ \A t \in Ids : status[t] = "FINISHED" => t = current

(* What the scheduler's own inductive invariant says of this server. *)
LEMMA SchedFacts == (LoopProofs!IInv => SchedInv) /\ (LoopProofs!IInv' => SchedInv')
<1>1. LoopProofs!IInv => SchedInv
  BY DEF LoopProofs!IInv, LoopProofs!TypeOK, LoopProofs!WatchedAreStarted, LoopProofs!WaitingIsWatched,
         LoopProofs!ErrorIsDelivered, LoopProofs!IteratorIsSound, SchedInv, LoopProofs!Ids, Ids,
         LoopProofs!Live, Live, LoopProofs!Phases, Phases, LoopProofs!Statuses, Statuses,
         Watched
<1>2. QED
  BY <1>1, PTL

(* Every step of the server and its clients is one of the scheduler, or none. *)
RefStep == [LoopProofs!Next]_(LoopProofs!vars)

(* The coroutines watched are read off the registrations. *)
LEMMA WatchedSame == ASSUME coro' = coro PROVE Watched' = Watched
  BY DEF Watched, Registered

(* A step of the scheduler keeps the invariant proved with PollLoop. *)
LEMMA KeepsIInv == ASSUME LoopProofs!IInv, RefStep PROVE LoopProofs!IInv'
<1>1. LoopProofs!SchedulerConstants /\ LoopProofs!CreatorsAreIds
  BY SchedulerConstants, Constants
     DEF LoopProofs!SchedulerConstants, LoopProofs!CreatorsAreIds, LoopProofs!Ids, Ids
<1>2. QED
  BY <1>1, LoopProofs!NextIInv
     DEF RefStep, LoopProofs!SchedulerConstants, LoopProofs!CreatorsAreIds, LoopProofs!Ids

(* The descriptor that the kernel gives out. *)
LEMMA NextIsFree == ASSUME FreeFDs # {} PROVE NextFD \in FreeFDs
<1>1. FreeFDs \in SUBSET Nat
  BY Constants DEF FreeFDs
<1>2. QED
  BY <1>1, LeastOf DEF NextFD

(* What close does to the tables. *)
LEMMA CloseTables ==
  ASSUME TypeInv, NEW fds \in SUBSET FDs, Close(fds)
  PROVE  /\ \A f \in FDs : file'[f] = IF f \in fds THEN Free ELSE file[f]
         /\ file' \in [FDs -> Clients \cup {Free, Listener}]
         /\ \A f \in FDs : coro'[f] = IF f \in fds THEN NoCoro ELSE coro[f]
         /\ coro' \in [FDs -> Ids \cup {NoCoro}]
         /\ \A f \in FDs : f \notin fds => out'[f] = out[f]
         /\ out' \in [FDs -> BOOLEAN]
         /\ backlog' \in {<<>>, backlog} /\ backlog' \in Seq(Clients)
         /\ (\A f \in fds : file[f] # Listener) => backlog' = backlog
         /\ peer' \in [Clients -> PeerStates]
         /\ rdllist' \in Seq(FDs) /\ ToSet(rdllist') = ToSet(rdllist) \ fds
         /\ IsInjective(rdllist) => IsInjective(rdllist')
         /\ wire' = wire /\ outbuf' = outbuf
<1>1. /\ rdllist' \in Seq(FDs) /\ ToSet(rdllist') = ToSet(rdllist) \ fds
      /\ IsInjective(rdllist) => IsInjective(rdllist')
  BY WithoutFacts DEF Close, TypeInv
<1>2. QED
  BY <1>1 DEF Close, TypeInv, PeerStates

(* It leaves the connections that are not closed as they are. *)
LEMMA CloseConn ==
  ASSUME TypeInv, ConnInv, NEW fds \in SUBSET FDs, Close(fds)
  PROVE  /\ \A f \in FDs : f \notin fds /\ file[f] \in Clients =>
               peer'[file[f]] = peer[file[f]] /\ inbuf'[file[f]] = inbuf[file[f]]
         /\ cpc' = cpc => ConnInv'
<1> DEFINE reset == IF \E f \in fds : file[f] = Listener THEN ToSet(backlog) ELSE {}
           down  == {c \in Clients : FDsOf(c) \cap fds # {}} \cup reset
<1>1. /\ \A c \in Clients : c \notin down => peer'[c] = peer[c] /\ inbuf'[c] = inbuf[c]
      /\ \A c \in Clients : c \in down => peer'[c] = "closed"
  BY DEF Close
<1>2. ToSet(<<>>) = {} /\ IsInjective(<<>>)
  BY DEF ToSet, IsInjective
<1>3. backlog' = IF \E f \in fds : file[f] = Listener THEN <<>> ELSE backlog
  BY DEF Close
<1>4. reset \subseteq ToSet(backlog) /\ ToSet(backlog') \subseteq ToSet(backlog)
      /\ IsInjective(backlog') /\ ToSet(backlog') \cap reset = {}
  BY <1>2, <1>3 DEF ConnInv
<1>5. \A c \in Clients : FDsOf(c) \cap fds # {} => \E f \in fds : file[f] = c
  BY DEF FDsOf
<1> HIDE DEF reset
<1>6. ASSUME NEW f \in FDs, f \notin fds, file[f] \in Clients
      PROVE  file[f] \notin down
  BY <1>4, <1>5, <1>6, Constants DEF ConnInv
<1>7. ASSUME NEW c \in ToSet(backlog) PROVE c \in Clients /\ (c \in down => c \in reset)
  <2>1. c \in Clients
    BY ElementOfSeq, LenProperties DEF TypeInv, ToSet
  <2>2. QED
    BY <1>5, <2>1 DEF ConnInv
<1>8. ASSUME NEW c \in Clients, peer[c] = "none" PROVE c \notin down
  BY <1>4, <1>5, <1>8 DEF ConnInv, Connected
<1> HIDE DEF down
<1>9. \A f \in FDs : file'[f] = IF f \in fds THEN Free ELSE file[f]
  BY DEF Close
<1>10. ASSUME cpc' = cpc PROVE ConnInv'
  <2>1. \A c \in ToSet(backlog') : peer'[c] \in Connected
    BY <1>1, <1>4, <1>7 DEF ConnInv
  <2>2. \A f \in FDs : file'[f] \in Clients =>
          peer'[file'[f]] \in Connected /\ file'[f] \notin ToSet(backlog')
    BY <1>1, <1>4, <1>6, <1>9, Constants DEF ConnInv
  <2>3. \A f, g \in FDs : file'[f] = file'[g] /\ file'[f] # Free => f = g
    BY <1>9 DEF ConnInv
  <2>4. \A c \in Clients : cpc'[c] = "new" => peer'[c] = "none"
    BY <1>1, <1>8, <1>10 DEF ConnInv
  <2>5. QED
    BY <1>4, <2>1, <2>2, <2>3, <2>4 DEF ConnInv
<1>11. QED
  BY <1>1, <1>6, <1>10

(* An element more of the ready list. *)
LEMMA LinkedFacts ==
  ASSUME TypeInv, NEW f \in FDs
  PROVE  /\ Linked(f) \in Seq(FDs) /\ ToSet(Linked(f)) = ToSet(rdllist) \cup {f}
         /\ IsInjective(rdllist) => IsInjective(Linked(f))
  BY AppendFacts DEF Linked, TypeInv

(* An arrival puts the descriptor it is for on the ready list. *)
LEMMA WakeFacts ==
  ASSUME TypeInv, ConnInv, NEW s \in Clients \cup {Listener}, Wake(s)
  PROVE  /\ rdllist' \in Seq(FDs) /\ (IsInjective(rdllist) => IsInjective(rdllist'))
         /\ ToSet(rdllist') = ToSet(rdllist) \cup {f \in Registered : file[f] = s}
<1>1. CASE FDsOf(s) \cap Registered = {}
  <2>1. {f \in Registered : file[f] = s} = {}
    BY <1>1 DEF FDsOf, Registered
  <2>2. QED
    BY <1>1, <2>1 DEF Wake, TypeInv
<1>2. CASE FDsOf(s) \cap Registered # {}
  <2>1. PICK f \in Registered : f \in FDs /\ file[f] = s
    BY <1>2 DEF FDsOf, Registered
  <2>2. FDsOf(s) = {f}
    BY <2>1, Constants DEF FDsOf, ConnInv
  <2>3. rdllist' = Linked(f)
    BY <1>2, <2>2 DEF Wake
  <2>4. {g \in Registered : file[g] = s} = {f}
    BY <2>1, <2>2 DEF FDsOf, Registered
  <2>5. QED
    BY <2>1, <2>3, <2>4, LinkedFacts
<1>3. QED
  BY <1>1, <1>2

(* EPOLL_CTL_ADD and EPOLL_CTL_MOD on a descriptor. *)
LEMMA ControlFacts ==
  ASSUME TypeInv, NEW f \in FDs, NEW t \in Ids, NEW mask \in BOOLEAN, Control(f, t, mask)
  PROVE  /\ coro' \in [FDs -> Ids \cup {NoCoro}] /\ out' \in [FDs -> BOOLEAN]
         /\ coro'[f] = t /\ out'[f] = mask
         /\ \A g \in FDs : g # f => coro'[g] = coro[g] /\ out'[g] = out[g]
         /\ Registered' = Registered \cup {f}
         /\ rdllist' \in Seq(FDs) /\ (IsInjective(rdllist) => IsInjective(rdllist'))
         /\ ToSet(rdllist') = ToSet(rdllist) \cup (IF HasEvent(f, mask) THEN {f} ELSE {})
         /\ UNCHANGED <<file, backlog, peer, inbuf, outbuf, wire>>
<1>1. /\ rdllist' \in Seq(FDs) /\ (IsInjective(rdllist) => IsInjective(rdllist'))
      /\ ToSet(rdllist') = ToSet(rdllist) \cup (IF HasEvent(f, mask) THEN {f} ELSE {})
  BY LinkedFacts DEF Control, TypeInv
<1>2. /\ coro' = [coro EXCEPT ![f] = t] /\ out' = [out EXCEPT ![f] = mask]
      /\ UNCHANGED <<file, backlog, peer, inbuf, outbuf, wire>>
  BY DEF Control, connVars
<1>3. Registered' = Registered \cup {f}
  BY <1>2, Constants DEF Registered, TypeInv
<1>4. QED
  BY <1>1, <1>2, <1>3 DEF TypeInv

(* One epoll_wait: what it takes from the ready list. *)
LEMMA PollFacts ==
  ASSUME TypeInv, RegInv, PollEvents
  PROVE  /\ Batch \subseteq Registered /\ Failed \subseteq Batch
         /\ rdllist' \in Seq(FDs) /\ IsInjective(rdllist')
         /\ ToSet(rdllist') \subseteq ToSet(rdllist) \ Batch
         /\ \A f \in ToSet(rdllist) : HasEvent(f, out[f]) => f \in Batch \/ f \in ToSet(rdllist')
         /\ \A f \in FDs : coro'[f] = IF f \in Failed THEN NoCoro ELSE coro[f]
         /\ \A f \in FDs : f \notin Failed => out'[f] = out[f]
         /\ coro' \in [FDs -> Ids \cup {NoCoro}] /\ out' \in [FDs -> BOOLEAN]
         /\ UNCHANGED <<file, backlog, peer, inbuf, outbuf, wire>>
<1> DEFINE S == {n \in 1..Len(rdllist) : Cardinality(Eventful(n - 1)) < MaxEvents}
<1>1. Len(rdllist) \in Nat
  BY LenProperties DEF TypeInv
<1>2. IsFiniteSet(S) /\ Cardinality(S) <= Cardinality(1..Len(rdllist))
  <2>1. S \in SUBSET (1..Len(rdllist))
    OBVIOUS
  <2> HIDE DEF S
  <2>2. IsFiniteSet(1..Len(rdllist))
    BY <1>1, FS_Interval
  <2>3. QED
    BY <2>1, <2>2, FS_Subset
<1>3. Taken \in 0..Len(rdllist)
  <2>1. Cardinality(S) \in Nat
    BY <1>2, FS_CardinalityType
  <2>2. Cardinality(1..Len(rdllist)) = Len(rdllist)
    BY <1>1, FS_Interval
  <2>3. Taken = Cardinality(S)
    BY DEF Taken
  <2>4. QED
    BY <1>1, <1>2, <2>1, <2>2, <2>3
<1> HIDE DEF S
<1> DEFINE a == SubSeq(rdllist, 1, Taken)
<1>4. /\ rdllist' \in Seq(FDs) /\ IsInjective(rdllist')
      /\ ToSet(rdllist) = ToSet(a) \cup ToSet(rdllist')
      /\ ToSet(a) \cap ToSet(rdllist') = {}
  BY <1>3, CutFacts DEF PollEvents, TypeInv, RegInv
<1>5. Batch = {f \in ToSet(a) : HasEvent(f, out[f])}
  BY DEF Batch, Eventful
<1>6. Batch \subseteq Registered /\ Failed \subseteq Batch
  BY <1>4, <1>5 DEF RegInv, Failed
<1> HIDE DEF a
<1>7. /\ coro' = [f \in FDs |-> IF f \in Failed THEN NoCoro ELSE coro[f]]
      /\ out' = [f \in FDs |-> out[f] /\ f \notin Failed]
      /\ UNCHANGED <<file, backlog, peer, inbuf, outbuf, wire>>
  BY DEF PollEvents, connVars
<1>8. QED
  BY <1>4, <1>5, <1>6, <1>7 DEF TypeInv

-----------------------------------------------------------------------------
(* A descriptor that is registered is registered for its owner. *)
LEMMA RegisteredFacts ==
  ASSUME IInv, NEW f \in Registered
  PROVE  /\ f \in FDs /\ coro[f] \in Ids /\ sock[coro[f]] = f
         /\ \A t \in Ids : sock[t] = f => t = coro[f]
<1>1. coro[f] \in Ids /\ f \in FDs /\ sock[coro[f]] = f /\ f # NoFD
  BY Constants DEF IInv, RegInv, TypeInv, Registered
<1>2. QED
  BY <1>1 DEF IInv, OwnerInv

(* A coroutine that closes its descriptor, with others or none that are not *)
(* registered, leaves the epoll instance.                                   *)
LEMMA CloseWatched ==
  ASSUME IInv, NEW t \in Ids, NEW fds \in SUBSET FDs, Close(fds),
         sock[t] \in FDs => sock[t] \in fds,
         \A f \in fds : f \in Registered => f = sock[t]
  PROVE  Watched' = Watched \ {t}
<1>1. \A f \in FDs : coro'[f] = IF f \in fds THEN NoCoro ELSE coro[f]
  BY CloseTables DEF IInv
<1>2. Registered' = Registered \ fds
  BY <1>1 DEF Registered
<1>3. \A f \in Registered : f \in fds <=> coro[f] = t
  BY RegisteredFacts
<1>4. QED
  BY <1>1, <1>2, <1>3 DEF Watched, Registered

(* Those that a poll reports in error leave it, and no others. *)
LEMMA PollWatched ==
  ASSUME IInv, PollEvents
  PROVE  /\ Watched' = Watched \ {coro[f] : f \in Failed}
         /\ {coro[f] : f \in Batch} \subseteq Watched
         /\ {coro[f] : f \in Failed} \subseteq {coro[f] : f \in Batch}
<1>1. /\ Batch \subseteq Registered /\ Failed \subseteq Batch
      /\ \A f \in FDs : coro'[f] = IF f \in Failed THEN NoCoro ELSE coro[f]
  BY PollFacts DEF IInv
<1>2. Registered' = Registered \ Failed
  BY <1>1 DEF Registered
<1>3. \A f, g \in Registered : coro[f] = coro[g] => f = g
  BY DEF IInv, RegInv
<1>4. \A f \in Registered : f \in FDs
  BY DEF Registered
<1>5. QED
  BY <1>1, <1>2, <1>3, <1>4 DEF Watched

(* One that registers its descriptor joins it. *)
LEMMA ControlWatched ==
  ASSUME IInv, NEW t \in Ids, NEW f \in FDs, NEW mask \in BOOLEAN, Control(f, t, mask),
         f \in Registered => coro[f] = t
  PROVE  Watched' = Watched \cup {t}
<1>1. /\ coro'[f] = t /\ Registered' = Registered \cup {f}
      /\ \A g \in FDs : g # f => coro'[g] = coro[g]
  BY ControlFacts DEF IInv
<1>2. QED
  BY <1>1 DEF Watched, Registered

(* A coroutine that may suspend itself is registered. *)
LEMMA ServedIsWatched ==
  ASSUME IInv, NEW t \in Ids, Served(t)
  PROVE  t \in Watched /\ sock[t] \in Registered /\ coro[sock[t]] = t
<1>1. sock[t] \in FDs
  BY DEF IInv, PlaceInv, Served, HoldsSocket, HandlerPCs
<1>2. coro[sock[t]] = t
  BY DEF IInv, RegInv
<1>3. sock[t] \in Registered
  BY <1>1, <1>2, Constants DEF Registered
<1>4. QED
  BY <1>2, <1>3 DEF Watched

(* The library's operators are the same through the instance. *)
LEMMA SameCardinality == \A S : LoopProofs!Cardinality(S) = Cardinality(S)
  BY DEF LoopProofs!Cardinality, Cardinality

(* The scheduler's operations, by what they do to the watched coroutines. *)
LEMMA SchedulerSteps ==
  /\ \A t \in Ids : Resume(t) /\ Watched' = Watched => RefStep
  /\ \A t \in Ids : Erase(t) /\ Watched' = Watched \ {t} => RefStep
  /\ \A t \in Ids : Return(t) /\ Watched' \in {Watched, Watched \ {t}} => RefStep
  /\ \A t \in Ids : Yield(t) /\ t \in Watched /\ Watched' = Watched => RefStep
  /\ \A t \in Ids : Kill(t) /\ Watched' = Watched => RefStep
  /\ CreateTask(Acceptor) /\ Watched' = Watched => RefStep
  /\ EndPass /\ Watched' = Watched => RefStep
  /\ \A t \in Ids : Executes(t) /\ UNCHANGED schedVars /\ Watched' = Watched \cup {t} => RefStep
  /\ UNCHANGED schedVars /\ Watched' = Watched => RefStep
  /\ \A ready \in SUBSET Watched : \A errors \in SUBSET ready :
        ProcessEvents(ready, errors) /\ Watched' = Watched \ errors => RefStep
<1>1. ASSUME NEW t \in Ids, Resume(t), Watched' = Watched PROVE LoopProofs!Switch(t)
  BY <1>1 DEF Resume, LoopProofs!Switch, LoopProofs!Resume, MayRun, LoopProofs!MayRun, Ids, LoopProofs!Ids
<1>2. ASSUME NEW t \in Ids, Erase(t), Watched' = Watched \ {t} PROVE LoopProofs!Destroy(t)
  BY <1>2 DEF Erase, LoopProofs!Destroy, LoopProofs!Erase
<1>3. ASSUME NEW t \in Ids, Return(t), Watched' \in {Watched, Watched \ {t}} PROVE LoopProofs!Finish(t)
  BY <1>3 DEF Return, LoopProofs!Finish, LoopProofs!Return, Executes, LoopProofs!Executes
<1>4. ASSUME NEW t \in Ids, Yield(t), t \in Watched, Watched' = Watched PROVE LoopProofs!Suspend(t)
  BY <1>4 DEF Yield, LoopProofs!Suspend, LoopProofs!Yield, Executes, LoopProofs!Executes
<1>5. ASSUME NEW t \in Ids, Kill(t), Watched' = Watched PROVE LoopProofs!Die(t)
  BY <1>5 DEF Kill, LoopProofs!Die, LoopProofs!Kill, Executes, LoopProofs!Executes
<1>6. ASSUME CreateTask(Acceptor), Watched' = Watched PROVE LoopProofs!Create(Acceptor)
  BY <1>6, SameCardinality DEF CreateTask, LoopProofs!Create, LoopProofs!CreateTask, Executes, LoopProofs!Executes,
              Relink, LoopProofs!Relink, Live, LoopProofs!Live, Ids, LoopProofs!Ids
<1>7. ASSUME EndPass, Watched' = Watched PROVE LoopProofs!EndPass /\ UNCHANGED Watched
  BY <1>7 DEF EndPass, LoopProofs!EndPass, MayRun, LoopProofs!MayRun, Ids, LoopProofs!Ids
<1>8. ASSUME NEW t \in Ids, Executes(t), UNCHANGED schedVars, Watched' = Watched \cup {t}
      PROVE  LoopProofs!Watch(t)
  BY <1>8 DEF LoopProofs!Watch, Executes, LoopProofs!Executes, schedVars, LoopProofs!schedVars
<1>9. ASSUME UNCHANGED schedVars, Watched' = Watched PROVE UNCHANGED LoopProofs!vars
  BY <1>9 DEF schedVars, LoopProofs!vars, LoopProofs!schedVars
<1>10. ASSUME NEW ready \in SUBSET Watched, NEW errors \in SUBSET ready,
              ProcessEvents(ready, errors), Watched' = Watched \ errors
       PROVE  LoopProofs!Poll
  <2>1. LoopProofs!ProcessEvents(ready, errors)
    BY <1>10 DEF ProcessEvents, LoopProofs!ProcessEvents, Live, LoopProofs!Live, Ids, LoopProofs!Ids
  <2>2. QED
    BY <1>10, <2>1 DEF LoopProofs!Poll
<1>11. LoopProofs!Ids = Ids /\ Acceptor \in Ids
  BY Constants DEF Ids, LoopProofs!Ids
<1>12. QED
  BY <1>1, <1>2, <1>3, <1>4, <1>5, <1>6, <1>7, <1>8, <1>9, <1>10, <1>11 DEF RefStep, LoopProofs!Next

(* The steps of the server that are not the scheduler's own, by what they   *)
(* do to it.                                                                *)
LEMMA RefinesScheduler ==
  ASSUME IInv, NEW t \in Ids, Switch(t) \/ Destroy(t) \/ IteratorEnds \/ Poll
  PROVE  RefStep
<1>1. CASE Switch(t)
  BY <1>1, SchedulerSteps, WatchedSame DEF Switch, kernelVars, epollVars
<1>2. CASE Destroy(t)
  <2> DEFINE fds == {sock[t]} \cap FDs
  <2>1. Erase(t) /\ Close(fds)
    BY <1>2, Zenon DEF Destroy
  <2>2. ASSUME NEW f \in fds PROVE f \in FDs /\ f = sock[t]
    OBVIOUS
  <2>3. sock[t] \in FDs => sock[t] \in fds
    OBVIOUS
  <2> HIDE DEF fds
  <2>4. Watched' = Watched \ {t}
    BY <2>1, <2>2, <2>3, CloseWatched
  <2>5. QED
    BY <2>1, <2>4, SchedulerSteps
<1>3. CASE IteratorEnds
  BY <1>3, SchedulerSteps, WatchedSame DEF IteratorEnds, kernelVars, epollVars
<1>4. CASE Poll
  <2> DEFINE ready  == {coro[f] : f \in Batch}
             errors == {coro[f] : f \in Failed}
  <2>1. ready \in SUBSET Watched /\ errors \in SUBSET ready /\ Watched' = Watched \ errors
    BY <1>4, PollWatched DEF Poll
  <2>2. ProcessEvents(ready, errors)
    BY <1>4 DEF Poll
  <2> HIDE DEF ready, errors
  <2>3. QED
    BY <2>1, <2>2, SchedulerSteps
<1>5. QED
  BY <1>1, <1>2, <1>3, <1>4

(* What is in the vector of AsyncAccept is not registered. *)
LEMMA AcceptedFacts ==
  ASSUME IInv, NEW f \in ToSet(accepted)
  PROVE  f \in FDs /\ f \notin Registered /\ file[f] \in Clients
<1>1. f \in FDs
  BY LenProperties, ElementOfSeq DEF IInv, TypeInv, ToSet
<1>2. ASSUME f \in Registered PROVE FALSE
  <2>1. coro[f] \in Ids /\ sock[coro[f]] = f
    BY <1>2, RegisteredFacts
  <2>2. QED
    BY <1>1, <2>1 DEF IInv, OwnerInv
<1>3. QED
  BY <1>1, <1>2 DEF IInv, OwnerInv

(* Each statement of the acceptor is one of the scheduler's steps, or none. *)
LEMMA RefinesAcceptor ==
  ASSUME IInv, NEW t \in Ids, AcceptorStep(t)
  PROVE  RefStep
<1>1. CASE Listen(t)
  BY <1>1, SchedulerSteps, WatchedSame DEF Listen, epollVars
<1>2. CASE BindFails(t)
  BY <1>2, SchedulerSteps, WatchedSame DEF BindFails, Throw, kernelVars, epollVars
<1>3. CASE AddAcceptEvent(t)
  <2>1. sock[t] \in FDs /\ Executes(t) /\ AddEvent(sock[t], t)
    BY <1>3 DEF AddAcceptEvent, IInv, PlaceInv, HoldsSocket, Executes
  <2>2. Watched' = Watched \cup {t}
    BY <2>1, ControlWatched DEF AddEvent
  <2>3. QED
    BY <1>3, <2>1, <2>2, SchedulerSteps DEF AddAcceptEvent
<1>4. CASE AwaitClients(t)
  <2>1. Served(t) /\ Yield(t) /\ UNCHANGED coro
    BY <1>4 DEF AwaitClients, Served, Yield, Executes, kernelVars, epollVars
  <2>2. QED
    BY <2>1, ServedIsWatched, SchedulerSteps, WatchedSame
<1>5. CASE Accept(t)
  BY <1>5, SchedulerSteps, WatchedSame DEF Accept, epollVars
<1>6. CASE NoneToAccept(t)
  BY <1>6, SchedulerSteps, WatchedSame DEF NoneToAccept, kernelVars, epollVars
<1>7. CASE AcceptFails(t)
  <2> DEFINE fds == ToSet(accepted) \cup {sock[t]}
  <2>1. sock[t] \in FDs /\ Return(t) /\ Close(fds)
    BY <1>7 DEF AcceptFails, IInv, PlaceInv, HoldsSocket, Return, Executes
  <2>2. fds \in SUBSET FDs /\ \A f \in fds : f \in Registered => f = sock[t]
    BY <2>1, AcceptedFacts
  <2>3. sock[t] \in fds
    OBVIOUS
  <2> HIDE DEF fds
  <2>4. Watched' = Watched \ {t}
    BY <2>1, <2>2, <2>3, CloseWatched
  <2>5. QED
    BY <2>1, <2>4, SchedulerSteps
<1>8. CASE Spawn(t)
  <2>1. t = Acceptor /\ CreateTask(t) /\ accepted # <<>>
    BY <1>8 DEF Spawn, IInv, PlaceInv, AcceptorPCs
  <2>2. Watched' = Watched
    <3>1. CASE status[id] = "ABSENT"
      BY <1>8, <3>1, WatchedSame DEF Spawn, kernelVars, epollVars
    <3>2. CASE status[id] # "ABSENT"
      <4>1. Head(accepted) \in ToSet(accepted)
        BY <2>1, TailFacts DEF IInv, TypeInv
      <4>2. Head(accepted) \in FDs /\ Head(accepted) \notin Registered
        BY <4>1, AcceptedFacts
      <4>3. Close({Head(accepted)})
        BY <1>8, <3>2 DEF Spawn
      <4>4. \A f \in FDs : coro'[f] = coro[f]
        BY <4>2, <4>3, CloseTables DEF IInv, Registered
      <4>5. QED
        BY <4>4 DEF Watched, Registered
    <3>3. QED
      BY <3>1, <3>2
  <2>3. QED
    BY <2>1, <2>2, SchedulerSteps
<1>9. QED
  BY <1>1, <1>2, <1>3, <1>4, <1>5, <1>6, <1>7, <1>8 DEF AcceptorStep

(* A handler before and after a call that changes its event mask. *)
LEMMA RefinesControl ==
  ASSUME IInv, NEW t \in Ids, Dispatch(t) \/ Answered(t) \/ AddReadEvent(t)
  PROVE  RefStep
<1>1. pc[t] \in HandlerPCs /\ Executes(t) /\ UNCHANGED schedVars
      /\ (Control(sock[t], t, TRUE) \/ Control(sock[t], t, FALSE))
  BY Zenon DEF Dispatch, Answered, AddReadEvent, AddEvent, AppendWriteEvent,
               RemoveWriteEvent, HandlerPCs
<1>2. sock[t] \in FDs
  BY <1>1 DEF IInv, PlaceInv, HoldsSocket
<1>3. Watched' = Watched \cup {t}
  BY <1>1, <1>2, ControlWatched, RegisteredFacts
<1>4. QED
  BY <1>1, <1>3, SchedulerSteps

(* So is each statement of a handler. *)
LEMMA RefinesHandler ==
  ASSUME IInv, NEW t \in Ids, HandlerStep(t)
  PROVE  RefStep
<1>1. CASE AddReadEvent(t) \/ Dispatch(t) \/ Answered(t)
  BY <1>1, RefinesControl
<1>2. CASE Read(t) \/ Write(t)
  BY <1>2, SchedulerSteps, WatchedSame DEF Read, Write, epollVars
<1>3. CASE ReadAgain(t) \/ WriteAgain(t)
  <2>1. pc[t] \in {"read", "write"} /\ Executes(t) /\ Yield(t) /\ UNCHANGED coro
    BY <1>3 DEF ReadAgain, WriteAgain, Writes, Await, Yield, kernelVars, epollVars
  <2>2. SchedInv
    BY SchedFacts DEF IInv
  <2>3. ~exception[t]
    BY <2>1, <2>2 DEF SchedInv, Executes
  <2>4. QED
    BY <2>1, <2>3, ServedIsWatched, SchedulerSteps, WatchedSame DEF Served
<1>4. CASE ReadFails(t) \/ EmptyInput(t) \/ WriteFails(t) \/ Rethrown(t)
  <2>1. Throw(t)
    BY <1>4, Zenon DEF ReadFails, EmptyInput, WriteFails, Rethrown
  <2>2. QED
    BY <2>1, SchedulerSteps, WatchedSame DEF Throw, kernelVars, epollVars
<1>5. CASE SigPipe(t)
  BY <1>5, SchedulerSteps, WatchedSame DEF SigPipe, kernelVars, epollVars
<1>6. QED
  BY <1>1, <1>2, <1>3, <1>4, <1>5 DEF HandlerStep

(* Clients and the network leave the scheduler and the registrations alone. *)
LEMMA RefinesClient ==
  ASSUME IInv, NEW c \in Clients,
         \/ Connect(c) \/ SendHeader(c) \/ ClientStep(c)
         \/ Quit(c) \/ Restart(c) \/ Network(c)
  PROVE  UNCHANGED schedVars /\ UNCHANGED coro
<1>1. CASE Connect(c)
  BY <1>1 DEF Connect, Handshake, kernelVars, epollVars
<1>2. CASE SendHeader(c) \/ Restart(c)
  BY <1>2, Zenon DEF SendHeader, Restart, epollVars
<1>3. CASE ClientStep(c)
  BY <1>3 DEF ClientStep, SendText, Receive, Disconnected, Leave, kernelVars, epollVars
<1>4. CASE Quit(c)
  BY <1>4 DEF Quit, Leave, kernelVars, epollVars
<1>5. CASE Network(c)
  BY <1>5 DEF Network, Deliver, ArriveFin, ArriveRst
<1>6. QED
  BY <1>1, <1>2, <1>3, <1>4, <1>5

(* So is every step: those of clients and network leave the scheduler alone. *)
LEMMA Refines == ASSUME IInv, [Next]_vars PROVE RefStep
<1>1. CASE Server
  <2>1. ASSUME NEW t \in Ids, \/ Switch(t) \/ Destroy(t)
                              \/ AcceptorStep(t) \/ HandlerStep(t)
        PROVE  RefStep
    BY <2>1, RefinesScheduler, RefinesAcceptor, RefinesHandler
  <2>2. CASE IteratorEnds \/ Poll
    BY <2>2, RefinesScheduler, Constants
  <2>3. QED
    BY <1>1, <2>1, <2>2 DEF Server
<1>2. ASSUME NEW c \in Clients, \/ Connect(c) \/ SendHeader(c) \/ ClientStep(c)
                                \/ Quit(c) \/ Restart(c) \/ Network(c)
      PROVE  RefStep
  <2>1. UNCHANGED schedVars /\ UNCHANGED coro
    BY <1>2, RefinesClient
  <2>2. QED
    BY <2>1, SchedulerSteps, WatchedSame
<1>3. CASE UNCHANGED vars
  BY <1>3, SchedulerSteps, WatchedSame DEF vars, kernelVars, epollVars
<1>4. QED
  BY <1>1, <1>2, <1>3 DEF Next

-----------------------------------------------------------------------------
(* The socket of the acceptor listens, that of a handler is a connection. *)
LEMMA SocketFacts ==
  ASSUME IInv, NEW t \in Ids, sock[t] \in FDs
  PROVE  /\ file[sock[t]] = IF t = Acceptor THEN Listener ELSE file[sock[t]]
         /\ t # Acceptor => file[sock[t]] \in Clients
         /\ sock[t] \notin ToSet(accepted) /\ file[sock[t]] # Free
         /\ \A u \in Ids : sock[u] = sock[t] => u = t
<1>1. /\ file[sock[t]] \in Clients \cup {Free, Listener} /\ file[sock[t]] # Free
      /\ file[sock[t]] = Listener <=> t = Acceptor
      /\ sock[t] \notin ToSet(accepted)
  BY DEF IInv, TypeInv, OwnerInv
<1>2. \A u \in Ids : sock[u] = sock[t] => u = t
  BY Constants DEF IInv, OwnerInv
<1>3. QED
  BY <1>1, <1>2

(* A coroutine that is suspended, or about to suspend itself for clients. *)
Sleeps(t) == status[t] = "WAITING" \/ pc[t] = "spawn"

(* Who sleeps holds a registered socket with the mask of what it waits for. *)
LEMMA SleeperFacts ==
  ASSUME IInv, NEW t \in Ids, Sleeps(t)
  PROVE  /\ pc[t] \in Suspendable \cup {"spawn"} /\ sock[t] \in FDs
         /\ pc[t] \in {"accept", "spawn"} <=> t = Acceptor
         /\ IF t = Acceptor THEN file[sock[t]] = Listener ELSE file[sock[t]] \in Clients
         /\ Served(t) /\ coro[sock[t]] = t /\ (out[sock[t]] <=> pc[t] = "write")
         /\ sock[t] \in Registered
<1>1. SchedInv
  BY SchedFacts DEF IInv
<1>2. pc[t] \in Suspendable \cup {"spawn"} /\ status[t] \in {"WAITING", "RUNNING"}
  BY DEF IInv, PlaceInv, Sleeps
<1>3. pc[t] \in {"accept", "spawn"} <=> t = Acceptor
  BY <1>2 DEF IInv, PlaceInv, Suspendable, AcceptorPCs, HandlerPCs
<1>4. Served(t)
  <2>1. CASE pc[t] = "spawn"
    BY <1>2, <2>1 DEF Served
  <2>2. CASE pc[t] # "spawn"
    <3>1. status[t] = "WAITING" /\ ~exception[t]
      BY <1>1, <2>2 DEF Sleeps, SchedInv
    <3>2. QED
      BY <1>2, <2>2, <3>1 DEF Served, Suspendable
  <2>3. QED
    BY <2>1, <2>2
<1>5. sock[t] \in Registered /\ sock[t] \in FDs
  BY <1>4, ServedIsWatched DEF Registered
<1>6. coro[sock[t]] = t /\ (out[sock[t]] <=> pc[t] = "write")
  BY <1>4 DEF IInv, RegInv
<1>7. IF t = Acceptor THEN file[sock[t]] = Listener ELSE file[sock[t]] \in Clients
  BY <1>5, SocketFacts
<1>8. QED
  BY <1>2, <1>3, <1>4, <1>5, <1>6, <1>7

(* Whatever a step does, it wakes or leaves on the ready list who slept     *)
(* before, unless it changes what its socket has to offer.                  *)
Unmoved(t) ==
    /\ UNCHANGED <<pc[t], sock[t], status[t], file[sock[t]]>>
    /\ t = Acceptor => UNCHANGED backlog
    /\ t # Acceptor => UNCHANGED <<peer[file[sock[t]]], inbuf[file[sock[t]]],
                                   outbuf[file[sock[t]]]>>
    /\ sock[t] \in ToSet(rdllist) => sock[t] \in ToSet(rdllist')

(* What leaves its socket alone, or wakes it, loses no wakeup of a sleeper. *)
LEMMA StaysAwake ==
  ASSUME IInv, NEW t \in Ids, Sleeps(t), Unmoved(t)
  PROVE  WakeInv(t)'
<1>1. /\ pc[t] \in {"accept", "spawn"} <=> t = Acceptor
      /\ IF t = Acceptor THEN file[sock[t]] = Listener ELSE file[sock[t]] \in Clients
  BY SleeperFacts
<1>2. CASE t = Acceptor
  <2>1. pc'[t] \in {"accept", "spawn"} /\ UNCHANGED <<pc[t], sock[t], status[t], backlog>>
        /\ file'[sock'[t]] = Listener /\ file[sock[t]] = Listener
    BY <1>1, <1>2 DEF Unmoved
  <2>2. ~Hangup(sock[t])' /\ (CouldProceed(t)' => CouldProceed(t))
    BY <2>1, Constants DEF CouldProceed, Hangup
  <2>3. QED
    BY <2>1, <2>2 DEF IInv, WakeInv, Unmoved
<1>3. CASE t # Acceptor
  <2> DEFINE c == file[sock[t]]
  <2>1. /\ UNCHANGED <<pc[t], sock[t], status[t]>> /\ file'[sock'[t]] = c
        /\ UNCHANGED <<peer[c], inbuf[c], outbuf[c]>>
        /\ c \in Clients /\ c # Listener /\ pc[t] \notin {"accept", "spawn"}
    BY <1>1, <1>3, Constants DEF Unmoved
  <2>2. CouldProceed(t)' <=> CouldProceed(t)
    BY <2>1 DEF CouldProceed, Hangup, Readable, Writable
  <2>3. QED
    BY <2>1, <2>2 DEF IInv, WakeInv, Unmoved
<1>4. QED
  BY <1>2, <1>3

-----------------------------------------------------------------------------
(* What the invariant adds to the scheduler's, after a step. *)
Kept ==
    /\ TypeInv' /\ DataInv' /\ ConnInv' /\ OwnerInv' /\ RegInv'
    /\ \A t \in Ids : PlaceInv(t)' /\ WakeInv(t)'

AllPCs == AcceptorPCs \cup HandlerPCs \cup {"none"}

(* A step within the process moves a coroutine and nothing in the kernel. *)
LEMMA QuietFacts ==
  ASSUME IInv, UNCHANGED <<kernelVars, sock, accepted, cpc, count, received>>,
         pc' \in [Ids -> AllPCs]
  PROVE  TypeInv' /\ DataInv' /\ ConnInv' /\ OwnerInv'
<1> USE DEF kernelVars, connVars, epollVars
<1>1. TypeInv' /\ DataInv'
  BY DEF IInv, TypeInv, DataInv, AllPCs
<1>2. ConnInv'
  BY DEF IInv, ConnInv
<1>3. OwnerInv'
  BY DEF IInv, OwnerInv
<1>4. QED
  BY <1>1, <1>2, <1>3

(* The registrations stay right while the kernel's tables do not change. *)
LEMMA QuietRegInv ==
  ASSUME IInv, UNCHANGED <<kernelVars, sock>>,
         \A t \in Ids : Served(t)' => Served(t) /\ (pc'[t] = "write" <=> pc[t] = "write")
  PROVE  RegInv'
<1> USE DEF kernelVars, connVars, epollVars
<1>1. Registered' = Registered
  BY DEF Registered
<1>2. QED
  BY <1>1 DEF IInv, RegInv

(* Who slept before and still does is awake as before. *)
LEMMA QuietWake ==
  ASSUME IInv, UNCHANGED <<kernelVars, sock>>, NEW t \in Ids,
         UNCHANGED <<pc[t], status[t]>>
  PROVE  WakeInv(t)'
<1> USE DEF kernelVars, connVars, epollVars
<1>1. CASE Sleeps(t)
  <2>1. Unmoved(t)
    BY DEF Unmoved
  <2>2. QED
    BY <1>1, <2>1, StaysAwake
<1>2. CASE ~Sleeps(t)
  BY <1>2 DEF WakeInv, Sleeps
<1>3. QED
  BY <1>1, <1>2

(* The scheduler resumes a coroutine, which may find an exception there. *)
LEMMA SwitchKept ==
  ASSUME IInv, NEW u \in Ids, Switch(u)
  PROVE  Kept
<1>1. SchedInv
  BY SchedFacts DEF IInv
<1>2. /\ u \in MayRun /\ current = NoTask /\ current' = u
      /\ status' = [status EXCEPT ![u] = "RUNNING"]
      /\ exception' = [exception EXCEPT ![u] = @ /\ status[u] = "CREATED"]
      /\ pc' = IF status[u] # "CREATED" /\ exception[u]
               THEN [pc EXCEPT ![u] = "rethrown"] ELSE pc
      /\ UNCHANGED <<kernelVars, sock, accepted, cpc, count, received>>
  BY DEF Switch, Resume, clientVars
<1>3. pc \in [Ids -> AllPCs] /\ status \in [Ids -> Statuses] /\ exception \in [Ids -> BOOLEAN]
      /\ NoTask \notin Ids
  BY <1>1, Constants DEF IInv, TypeInv, AllPCs, SchedInv
<1>4. /\ pc' \in [Ids -> AllPCs]
      /\ \A t \in Ids : t # u => pc'[t] = pc[t] /\ status'[t] = status[t] /\ exception'[t] = exception[t]
  BY <1>2, <1>3 DEF AllPCs, HandlerPCs
<1>5. /\ status'[u] = "RUNNING" /\ exception'[u] = FALSE /\ status[u] \in {"CREATED", "RUNNING"}
      /\ pc'[u] = IF exception[u] THEN "rethrown" ELSE pc[u]
  <2>1. exception[u] => status[u] # "CREATED"
    BY <1>1 DEF SchedInv
  <2>2. QED
    BY <1>2, <1>3, <2>1 DEF MayRun
<1>6. exception[u] => pc[u] \in {"read", "write"} /\ u # Acceptor
  BY DEF IInv, PlaceInv, HandlerPCs
<1>7. TypeInv' /\ DataInv' /\ ConnInv' /\ OwnerInv'
  BY <1>2, <1>4, QuietFacts
<1>8. RegInv'
  <2>1. ASSUME NEW t \in Ids, Served(t)'
        PROVE  Served(t) /\ (pc'[t] = "write" <=> pc[t] = "write")
    BY <1>4, <1>5, <2>1 DEF Served
  <2>2. QED
    BY <1>2, <2>1, QuietRegInv
<1>9. ASSUME NEW t \in Ids PROVE PlaceInv(t)'
  <2>1. PlaceInv(t)
    BY DEF IInv
  <2>2. CASE t # u
    BY <1>2, <1>3, <1>4, <2>1, <2>2 DEF PlaceInv, HoldsSocket
  <2>3. CASE t = u
    BY <1>2, <1>5, <1>6, <2>1, <2>3 DEF PlaceInv, HoldsSocket, AcceptorPCs, HandlerPCs
  <2>4. QED
    BY <2>2, <2>3
<1>10. ASSUME NEW t \in Ids PROVE WakeInv(t)'
  <2>1. CASE t # u
    BY <1>2, <1>4, <2>1, QuietWake
  <2>2. CASE t = u
    BY <1>2, <1>5, <2>2 DEF IInv, WakeInv, kernelVars, epollVars
  <2>3. QED
    BY <2>1, <2>2
<1>11. QED
  BY <1>7, <1>8, <1>9, <1>10 DEF Kept

(* The end of a pass, or of the process. *)
LEMMA PhaseKept ==
  ASSUME IInv, UNCHANGED <<kernelVars, coroVars, clientVars, status, exception, current>>
  PROVE  Kept
<1>1. UNCHANGED <<kernelVars, sock, accepted, cpc, count, received>> /\ pc' = pc
  BY DEF coroVars, clientVars
<1>2. TypeInv' /\ DataInv' /\ ConnInv' /\ OwnerInv'
  <2>1. pc' \in [Ids -> AllPCs]
    BY <1>1 DEF IInv, TypeInv, AllPCs
  <2>2. QED
    BY <1>1, <2>1, QuietFacts
<1>3. RegInv'
  <2>1. \A t \in Ids : Served(t)' => Served(t) /\ (pc'[t] = "write" <=> pc[t] = "write")
    BY <1>1 DEF Served
  <2>2. QED
    BY <1>1, <2>1, QuietRegInv
<1>4. ASSUME NEW t \in Ids PROVE PlaceInv(t)' /\ WakeInv(t)'
  <2>1. WakeInv(t)'
    BY <1>1, QuietWake
  <2>2. PlaceInv(t)'
    BY <1>1 DEF IInv, PlaceInv, HoldsSocket
  <2>3. QED
    BY <2>1, <2>2
<1>5. QED
  BY <1>2, <1>3, <1>4 DEF Kept

(* A coroutine returns before it holds a socket, or with the one it holds. *)
LEMMA ThrowKept ==
  ASSUME IInv, NEW u \in Ids, Throw(u), pc[u] \in {"listen"} \cup HandlerPCs
  PROVE  Kept
<1>1. SchedInv
  BY SchedFacts DEF IInv
<1>2. /\ UNCHANGED <<kernelVars, sock, accepted, cpc, count, received>> /\ pc' = pc
      /\ status[u] = "RUNNING" /\ current = u /\ current' = u
      /\ status' = [status EXCEPT ![u] = "FINISHED"] /\ exception' = exception
  BY DEF Throw, Return, Executes, coroVars, clientVars
<1>3. /\ \A t \in Ids : t # u => status'[t] = status[t]
      /\ status'[u] = "FINISHED" /\ exception[u] = FALSE
  BY <1>1, <1>2 DEF SchedInv
<1>4. TypeInv' /\ DataInv' /\ ConnInv' /\ OwnerInv'
  <2>1. pc' \in [Ids -> AllPCs]
    BY <1>2 DEF IInv, TypeInv, AllPCs
  <2>2. QED
    BY <1>2, <2>1, QuietFacts
<1>5. RegInv'
  <2>1. \A t \in Ids : Served(t)' => Served(t) /\ (pc'[t] = "write" <=> pc[t] = "write")
    BY <1>2, <1>3 DEF Served
  <2>2. QED
    BY <1>2, <2>1, QuietRegInv
<1>6. ASSUME NEW t \in Ids PROVE PlaceInv(t)' /\ WakeInv(t)'
  <2>1. CASE t # u
    <3>1. WakeInv(t)'
      BY <1>2, <1>3, <2>1, QuietWake
    <3>2. PlaceInv(t)'
      BY <1>2, <1>3, <2>1 DEF IInv, PlaceInv, HoldsSocket
    <3>3. QED
      BY <3>1, <3>2
  <2>2. CASE t = u
    <3>1. WakeInv(t)'
      BY <1>2, <1>3, <2>2 DEF WakeInv, HandlerPCs
    <3>2. PlaceInv(t)'
      BY <1>2, <1>3, <2>2 DEF IInv, PlaceInv, HoldsSocket, HandlerPCs, AcceptorPCs
    <3>3. QED
      BY <3>1, <3>2
  <2>3. QED
    BY <2>1, <2>2
<1>7. QED
  BY <1>4, <1>5, <1>6 DEF Kept

(* A coroutine suspends itself when it has seen EAGAIN, and the acceptor    *)
(* when what it has not accepted is on the ready list.                      *)
LEMMA YieldKept ==
  ASSUME IInv, NEW u \in Ids, Yield(u),
         UNCHANGED <<kernelVars, sock, accepted, cpc, count, received>>,
         \/ pc[u] \in {"read", "write"} /\ pc' = pc
         \/ pc[u] = "spawn" /\ pc' = [pc EXCEPT ![u] = "accept"],
         CouldProceed(u)' => sock[u] \in ToSet(rdllist)
  PROVE  Kept
<1>1. SchedInv /\ NoTask \notin Ids
  BY SchedFacts, Constants DEF IInv
<1>2. /\ status[u] = "RUNNING" /\ current = u /\ current' = NoTask
      /\ status' = [status EXCEPT ![u] = "WAITING"] /\ exception' = exception
  BY DEF Yield, Executes
<1>3. pc \in [Ids -> AllPCs] /\ status \in [Ids -> Statuses]
  BY <1>1 DEF IInv, TypeInv, AllPCs, SchedInv
<1>4. /\ \A t \in Ids : t # u => status'[t] = status[t] /\ pc'[t] = pc[t]
      /\ status'[u] = "WAITING" /\ exception[u] = FALSE
      /\ IF pc[u] = "spawn" THEN pc'[u] = "accept" ELSE pc'[u] = pc[u] /\ pc[u] \in {"read", "write"}
  BY <1>1, <1>2, <1>3 DEF SchedInv
<1>5. TypeInv' /\ DataInv' /\ ConnInv' /\ OwnerInv'
  <2>1. pc' \in [Ids -> AllPCs]
    BY <1>3 DEF AllPCs, AcceptorPCs
  <2>2. QED
    BY <2>1, QuietFacts
<1>6. RegInv'
  <2>1. ASSUME NEW t \in Ids, Served(t)'
        PROVE  Served(t) /\ (pc'[t] = "write" <=> pc[t] = "write")
    BY <1>2, <1>4, <2>1 DEF Served
  <2>2. QED
    BY <2>1, QuietRegInv
<1>7. ASSUME NEW t \in Ids PROVE PlaceInv(t)'
  <2>1. PlaceInv(t)
    BY DEF IInv
  <2>2. CASE t # u
    BY <1>2, <1>4, <2>1, <2>2 DEF PlaceInv, HoldsSocket
  <2>3. CASE t = u
    BY <1>2, <1>4, <2>1, <2>3 DEF PlaceInv, HoldsSocket, AcceptorPCs, HandlerPCs, Suspendable
  <2>4. QED
    BY <2>2, <2>3
<1>8. ASSUME NEW t \in Ids PROVE WakeInv(t)'
  <2>1. CASE t # u
    BY <1>4, <2>1, QuietWake
  <2>2. CASE t = u
    BY <1>4, <2>2 DEF WakeInv, kernelVars, epollVars
  <2>3. QED
    BY <2>1, <2>2
<1>9. QED
  BY <1>5, <1>6, <1>7, <1>8 DEF Kept

(* EAGAIN: nothing has arrived, or there is no room.  The acceptor has had  *)
(* its event since it last looked at its backlog.                           *)
LEMMA AwaitKept ==
  ASSUME IInv, NEW u \in Ids, ReadAgain(u) \/ WriteAgain(u) \/ AwaitClients(u)
  PROVE  Kept
<1>1. /\ Yield(u) /\ UNCHANGED <<kernelVars, sock, accepted, cpc, count, received>>
      /\ \/ pc[u] \in {"read", "write"} /\ pc' = pc
         \/ pc[u] = "spawn" /\ pc' = [pc EXCEPT ![u] = "accept"]
  BY Zenon DEF ReadAgain, WriteAgain, Writes, AwaitClients, Await, coroVars, clientVars
<1>2. pc \in [Ids -> AllPCs] /\ sock[u] \in FDs
  BY <1>1 DEF IInv, TypeInv, AllPCs, PlaceInv, HoldsSocket, HandlerPCs, Yield, Executes
<1>3. UNCHANGED <<sock, file, backlog, peer, inbuf, outbuf>>
  BY <1>1 DEF kernelVars, connVars
<1>4. CASE ReadAgain(u)
  <2>1. pc[u] = "read" /\ pc' = pc /\ inbuf[file[sock[u]]] = 0 /\ peer[file[sock[u]]] = "up"
    BY <1>4 DEF ReadAgain, Client, Await, coroVars
  <2>2. file[sock[u]] # Listener
    BY <1>2, <2>1, SocketFacts, Constants DEF IInv, PlaceInv, HandlerPCs
  <2>3. ~(CouldProceed(u)')
    BY <1>3, <2>1, <2>2 DEF CouldProceed, Readable, Hangup
  <2>4. QED
    BY <1>1, <2>3, YieldKept
<1>5. CASE WriteAgain(u)
  <2>1. pc[u] = "write" /\ pc' = pc /\ outbuf[file[sock[u]]] = SndBuf
        /\ peer[file[sock[u]]] \in {"up", "fin"}
    BY <1>5 DEF WriteAgain, Writes, Client, Await, coroVars
  <2>2. ~(CouldProceed(u)')
    BY <1>3, <2>1, Constants DEF CouldProceed, Writable, Hangup
  <2>3. QED
    BY <1>1, <2>2, YieldKept
<1>6. CASE AwaitClients(u)
  <2>1. pc[u] = "spawn" /\ pc'[u] = "accept"
    BY <1>2, <1>6 DEF AwaitClients
  <2>2. file[sock[u]] = Listener
    BY <2>1, SleeperFacts DEF Sleeps
  <2>3. CouldProceed(u)' => backlog # <<>>
    BY <1>3, <2>1, <2>2, Constants DEF CouldProceed, Hangup
  <2>4. CouldProceed(u)' => sock[u] \in ToSet(rdllist)
    BY <2>1, <2>3 DEF IInv, WakeInv
  <2>5. QED
    BY <1>1, <2>4, YieldKept
<1>7. QED
  BY <1>4, <1>5, <1>6

(* The acceptor has emptied its backlog. *)
LEMMA NoneToAcceptKept ==
  ASSUME IInv, NEW u \in Ids, NoneToAccept(u)
  PROVE  Kept
<1>1. /\ UNCHANGED <<kernelVars, sock, accepted, cpc, count, received>>
      /\ UNCHANGED <<status, exception, current>>
      /\ pc' = [pc EXCEPT ![u] = "spawn"] /\ pc[u] = "accept" /\ status[u] = "RUNNING"
      /\ backlog = <<>> /\ backlog' = <<>> /\ current = u
  BY DEF NoneToAccept, Executes, schedVars, clientVars, kernelVars
<1>2. pc \in [Ids -> AllPCs] /\ exception[u] = FALSE
  BY <1>1, SchedFacts DEF IInv, TypeInv, AllPCs, SchedInv
<1>3. pc'[u] = "spawn" /\ \A t \in Ids : t # u => pc'[t] = pc[t]
  BY <1>1, <1>2
<1>4. TypeInv' /\ DataInv' /\ ConnInv' /\ OwnerInv'
  <2>1. pc' \in [Ids -> AllPCs]
    BY <1>1, <1>2 DEF AllPCs, AcceptorPCs
  <2>2. QED
    BY <1>1, <2>1, QuietFacts
<1>5. RegInv'
  <2>1. ASSUME NEW t \in Ids, Served(t)'
        PROVE  Served(t) /\ (pc'[t] = "write" <=> pc[t] = "write")
    BY <1>1, <1>3, <2>1 DEF Served
  <2>2. QED
    BY <1>1, <2>1, QuietRegInv
<1>6. ASSUME NEW t \in Ids PROVE PlaceInv(t)'
  <2>1. PlaceInv(t)
    BY DEF IInv
  <2>2. CASE t # u
    BY <1>1, <1>3, <2>1, <2>2 DEF PlaceInv, HoldsSocket
  <2>3. CASE t = u
    BY <1>1, <1>2, <1>3, <2>1, <2>3 DEF PlaceInv, HoldsSocket, AcceptorPCs, HandlerPCs, Suspendable
  <2>4. QED
    BY <2>2, <2>3
<1>7. ASSUME NEW t \in Ids PROVE WakeInv(t)'
  <2>1. CASE t # u
    BY <1>1, <1>3, <2>1, QuietWake
  <2>2. CASE t = u
    BY <1>1, <1>3, <2>2 DEF WakeInv
  <2>3. QED
    BY <2>1, <2>2
<1>8. QED
  BY <1>4, <1>5, <1>6, <1>7 DEF Kept

(* One batch: it wakes whom it takes from the ready list, and the            *)
(* descriptors it deletes are those whose coroutine gets the exception.      *)
LEMMA PollKept ==
  ASSUME IInv, Poll
  PROVE  Kept
<1> DEFINE ready  == {coro[f] : f \in Batch}
           errors == {coro[f] : f \in Failed}
<1>1. SchedInv /\ NoTask \notin Ids /\ phase = "events"
  BY SchedFacts, Constants DEF IInv, Poll, ProcessEvents
<1>2. /\ Batch \subseteq Registered /\ Failed \subseteq Batch
      /\ rdllist' \in Seq(FDs) /\ IsInjective(rdllist')
      /\ ToSet(rdllist') \subseteq ToSet(rdllist) \ Batch
      /\ \A f \in ToSet(rdllist) : HasEvent(f, out[f]) => f \in Batch \/ f \in ToSet(rdllist')
      /\ \A f \in FDs : coro'[f] = IF f \in Failed THEN NoCoro ELSE coro[f]
      /\ \A f \in FDs : f \notin Failed => out'[f] = out[f]
      /\ coro' \in [FDs -> Ids \cup {NoCoro}] /\ out' \in [FDs -> BOOLEAN]
      /\ UNCHANGED <<file, backlog, peer, inbuf, outbuf, wire>>
  BY PollFacts DEF IInv, Poll
<1>3. /\ UNCHANGED <<pc, sock, count, accepted, cpc, received>>
      /\ current = NoTask /\ current' = NoTask
  BY <1>1 DEF Poll, ProcessEvents, coroVars, clientVars, SchedInv
<1>4. /\ ready \subseteq Ids /\ errors \subseteq ready
      /\ \A t \in ready : status[t] \in {"WAITING", "RUNNING"}
  <2>1. \A f \in Registered : coro[f] \in Ids /\ status[coro[f]] \notin {"ABSENT", "CREATED"}
    BY <1>1, RegisteredFacts DEF SchedInv
  <2>2. \A t \in Ids : status[t] \in Statuses /\ status[t] # "FINISHED"
    BY <1>1, <1>3 DEF SchedInv
  <2>3. QED
    BY <1>2, <2>1, <2>2 DEF Statuses
<1>5. /\ \A t \in Ids : status'[t] = IF t \in ready THEN "RUNNING" ELSE status[t]
      /\ \A t \in Ids : exception'[t] = (exception[t] \/ t \in errors)
  <2> HIDE DEF ready, errors
  <2>1. ready \subseteq Live
    BY <1>4 DEF Live
  <2>2. ProcessEvents(ready, errors)
    BY DEF Poll, ready, errors
  <2>3. PICK done \in SUBSET (ready \cap Live) :
          /\ done = ready
          /\ status' = [t \in Ids |-> IF t \in done THEN "RUNNING" ELSE status[t]]
          /\ exception' = [t \in Ids |-> exception[t] \/ t \in done \cap errors]
    BY <2>1, <2>2 DEF ProcessEvents
  <2>4. QED
    BY <1>4, <2>3
<1>6. \A t \in ready : sock[t] \in Registered /\ sock[t] \in Batch /\ coro[sock[t]] = t
  BY <1>2, RegisteredFacts
<1>7. \A t \in errors : sock[t] \in Failed
  BY <1>2, RegisteredFacts
<1> HIDE DEF ready, errors
<1>8. \A t \in ready : pc[t] \in Suspendable
  BY <1>3, <1>4, <1>1 DEF IInv, PlaceInv
<1>9. \A t \in errors : pc[t] \in {"read", "write"}
  <2> SUFFICES ASSUME NEW t \in errors PROVE pc[t] \in {"read", "write"}
    OBVIOUS
  <2>1. Hangup(sock[t]) /\ sock[t] \in FDs /\ t \in Ids /\ pc[t] \in Suspendable
    BY <1>2, <1>4, <1>7, <1>8 DEF Failed, Registered
  <2>2. t # Acceptor
    BY <2>1, SocketFacts, Constants DEF Hangup
  <2>3. QED
    BY <2>1, <2>2 DEF IInv, PlaceInv, AcceptorPCs, Suspendable
<1>10. TypeInv' /\ DataInv'
  BY <1>2, <1>3 DEF IInv, TypeInv, DataInv
<1>11. ConnInv' /\ OwnerInv'
  <2>1. ConnInv'
    BY <1>2, <1>3 DEF IInv, ConnInv
  <2>2. OwnerInv'
    BY <1>2, <1>3 DEF IInv, OwnerInv
  <2>3. QED
    BY <2>1, <2>2
<1>12. RegInv'
  <2>1. Registered' = Registered \ Failed
    BY <1>2 DEF Registered
  <2>2. ToSet(rdllist') \subseteq Registered'
    BY <1>2, <2>1 DEF IInv, RegInv
  <2>3. \A f \in Registered' : sock'[coro'[f]] = f
    BY <1>2, <1>3, <2>1, RegisteredFacts DEF Registered
  <2>4. ASSUME NEW t \in Ids, Served(t)'
        PROVE  coro'[sock'[t]] = t /\ (out'[sock'[t]] <=> pc'[t] = "write")
    <3>1. Served(t)
      BY <1>3, <1>4, <1>5, <2>4 DEF Served
    <3>2. sock[t] \in Registered /\ sock[t] \in FDs /\ coro[sock[t]] = t
          /\ (out[sock[t]] <=> pc[t] = "write")
      BY <3>1, ServedIsWatched DEF IInv, RegInv, Registered
    <3>3. sock[t] \notin Failed
      <4>1. SUFFICES ASSUME sock[t] \in Failed PROVE FALSE
        OBVIOUS
      <4>2. t \in errors
        BY <3>2, <4>1 DEF errors
      <4>3. exception'[t] /\ pc'[t] \in {"read", "write"}
        BY <1>3, <1>5, <1>9, <4>2
      <4>4. QED
        BY <2>4, <4>3 DEF Served
    <3>4. QED
      BY <1>2, <1>3, <3>2, <3>3
  <2>5. QED
    BY <1>2, <2>2, <2>3, <2>4 DEF RegInv
<1>13. ASSUME NEW t \in Ids PROVE PlaceInv(t)'
  <2>1. PlaceInv(t)
    BY DEF IInv, PlaceInv
  <2>2. CASE t \in ready
    BY <1>3, <1>4, <1>5, <1>8, <1>9, <2>1, <2>2 DEF PlaceInv, HoldsSocket, Suspendable
  <2>3. CASE t \notin ready
    BY <1>3, <1>4, <1>5, <2>1, <2>3 DEF PlaceInv, HoldsSocket
  <2>4. QED
    BY <2>2, <2>3
<1>14. ASSUME NEW t \in Ids PROVE WakeInv(t)'
  <2>1. CASE Sleeps(t) /\ t \notin ready
    <3>1. UNCHANGED <<pc[t], sock[t], status[t], file[sock[t]], backlog>>
          /\ UNCHANGED <<peer[file[sock[t]]], inbuf[file[sock[t]]], outbuf[file[sock[t]]]>>
      BY <1>2, <1>3, <1>5, <2>1
    <3>2. CASE status[t] = "WAITING" /\ CouldProceed(t)
      <4>1. sock[t] \in ToSet(rdllist)
        BY <3>2 DEF IInv, WakeInv
      <4>2. /\ coro[sock[t]] = t /\ (out[sock[t]] <=> pc[t] = "write") /\ sock[t] \in Registered
            /\ IF t = Acceptor THEN file[sock[t]] = Listener ELSE file[sock[t]] \in Clients
            /\ pc[t] \in {"accept", "spawn"} <=> t = Acceptor
        BY <2>1, SleeperFacts
      <4>3. HasEvent(sock[t], out[sock[t]])
        BY <3>2, <4>2 DEF CouldProceed, HasEvent, Readable
      <4>4. sock[t] \notin Batch
        BY <2>1, <4>2 DEF ready
      <4>5. sock[t] \in ToSet(rdllist')
        BY <1>2, <4>1, <4>3, <4>4
      <4>6. QED
        BY <1>3, <4>5 DEF WakeInv
    <3>3. CASE pc[t] = "spawn"
      BY <1>1, <1>3, <3>3 DEF IInv, PlaceInv, Suspendable
    <3>4. CASE status[t] = "WAITING" /\ pc[t] # "spawn" /\ ~CouldProceed(t)
      <4>1. ~(CouldProceed(t)')
        BY <1>2, <1>3, <3>4 DEF CouldProceed, Hangup, Readable, Writable
      <4>2. QED
        BY <1>3, <3>4, <4>1 DEF WakeInv
    <3>5. QED
      BY <2>1, <3>2, <3>3, <3>4 DEF Sleeps
  <2>2. CASE t \in ready
    BY <1>3, <1>5, <1>8, <2>2 DEF WakeInv, Suspendable
  <2>3. CASE ~Sleeps(t) /\ t \notin ready
    BY <1>3, <1>5, <2>3 DEF WakeInv, Sleeps
  <2>4. QED
    BY <2>1, <2>2, <2>3
<1>15. QED
  BY <1>10, <1>11, <1>12, <1>13, <1>14 DEF Kept

(* EPOLL_CTL_ADD before the first wait, EPOLL_CTL_MOD around an answer: the *)
(* kernel polls the descriptor, so that an event the coroutine has come too *)
(* late for is on the ready list.                                           *)
LEMMA ControlKept ==
  ASSUME IInv, NEW u \in Ids, NEW mask \in BOOLEAN, Executes(u), UNCHANGED schedVars,
         Control(sock[u], u, mask), UNCHANGED <<sock, accepted, cpc, received>>,
         count' \in [Ids -> Nat], NEW place, pc' = [pc EXCEPT ![u] = place],
         \/ pc[u] = "register" /\ place = "spawn" /\ ~mask
         \/ pc[u] \in HandlerPCs /\ place = "read" /\ ~mask
         \/ pc[u] \in HandlerPCs /\ place = "write" /\ mask
  PROVE  Kept
<1>1. SchedInv /\ UNCHANGED <<status, exception, current>> /\ status[u] = "RUNNING" /\ current = u
  BY SchedFacts DEF IInv, Executes, schedVars
<1>2. pc \in [Ids -> AllPCs] /\ sock[u] \in FDs /\ exception[u] = FALSE
  BY <1>1 DEF IInv, TypeInv, AllPCs, PlaceInv, HoldsSocket, SchedInv
<1>3. pc'[u] = place /\ \A t \in Ids : t # u => pc'[t] = pc[t]
  BY <1>2
<1>4. /\ coro' \in [FDs -> Ids \cup {NoCoro}] /\ out' \in [FDs -> BOOLEAN]
      /\ coro'[sock[u]] = u /\ out'[sock[u]] = mask
      /\ \A g \in FDs : g # sock[u] => coro'[g] = coro[g] /\ out'[g] = out[g]
      /\ Registered' = Registered \cup {sock[u]}
      /\ rdllist' \in Seq(FDs) /\ (IsInjective(rdllist) => IsInjective(rdllist'))
      /\ ToSet(rdllist') = ToSet(rdllist) \cup (IF HasEvent(sock[u], mask) THEN {sock[u]} ELSE {})
      /\ UNCHANGED <<file, backlog, peer, inbuf, outbuf, wire>>
  BY <1>2, ControlFacts DEF IInv
<1>5. TypeInv' /\ DataInv'
  <2>1. pc' \in [Ids -> AllPCs]
    BY <1>2 DEF AllPCs, AcceptorPCs, HandlerPCs
  <2>2. QED
    BY <1>4, <2>1 DEF IInv, TypeInv, DataInv, AllPCs
<1>6. ConnInv'
  BY <1>4 DEF IInv, ConnInv
<1>7. OwnerInv'
  BY <1>4 DEF IInv, OwnerInv
<1>8. RegInv'
  <2>1. ToSet(rdllist') \subseteq Registered' /\ IsInjective(rdllist')
    BY <1>4 DEF IInv, RegInv
  <2>2. \A f \in Registered' : sock'[coro'[f]] = f
    BY <1>4, RegisteredFacts
  <2>3. ASSUME NEW t \in Ids, Served(t)'
        PROVE  coro'[sock'[t]] = t /\ (out'[sock'[t]] <=> pc'[t] = "write")
    <3>1. CASE t = u
      BY <1>3, <1>4, <3>1
    <3>2. CASE t # u
      <4>1. Served(t)
        BY <1>1, <1>3, <2>3, <3>2 DEF Served
      <4>2. sock[t] \in FDs /\ coro[sock[t]] = t /\ (out[sock[t]] <=> pc[t] = "write")
        BY <4>1, ServedIsWatched DEF IInv, RegInv, Registered
      <4>3. sock[t] # sock[u]
        BY <1>2, <3>2, SocketFacts
      <4>4. QED
        BY <1>3, <1>4, <3>2, <4>2, <4>3
    <3>3. QED
      BY <3>1, <3>2
  <2>4. QED
    BY <2>1, <2>2, <2>3 DEF RegInv
<1>9. ASSUME NEW t \in Ids PROVE PlaceInv(t)'
  <2>1. PlaceInv(t)
    BY DEF IInv
  <2>2. CASE t # u
    BY <1>1, <1>3, <2>1, <2>2 DEF PlaceInv, HoldsSocket
  <2>3. CASE t = u
    BY <1>1, <1>2, <1>3, <2>1, <2>3 DEF PlaceInv, HoldsSocket, AcceptorPCs, HandlerPCs, Suspendable
  <2>4. QED
    BY <2>2, <2>3
<1>10. ASSUME NEW t \in Ids PROVE WakeInv(t)'
  <2>1. CASE t # u
    <3>1. CASE Sleeps(t)
      <4>1. Unmoved(t)
        BY <1>1, <1>3, <1>4, <2>1 DEF Unmoved
      <4>2. QED
        BY <3>1, <4>1, StaysAwake
    <3>2. CASE ~Sleeps(t)
      BY <1>1, <1>3, <2>1, <3>2 DEF WakeInv, Sleeps
    <3>3. QED
      BY <3>1, <3>2
  <2>2. CASE t = u
    <3>1. ASSUME place = "spawn", backlog # <<>> PROVE sock[u] \in ToSet(rdllist')
      <4>1. u = Acceptor
        BY <3>1 DEF IInv, PlaceInv, AcceptorPCs
      <4>2. HasEvent(sock[u], mask)
        BY <1>2, <3>1, <4>1, SocketFacts DEF HasEvent, Readable
      <4>3. QED
        BY <1>4, <4>2
    <3>2. QED
      BY <1>1, <1>3, <1>4, <2>2, <3>1 DEF WakeInv
  <2>3. QED
    BY <2>1, <2>2
<1>11. QED
  BY <1>5, <1>6, <1>7, <1>8, <1>9, <1>10 DEF Kept

(* The calls that set the event mask, which poll the descriptor once. *)
LEMMA RegisterKept ==
  ASSUME IInv, NEW u \in Ids,
         AddAcceptEvent(u) \/ AddReadEvent(u) \/ Dispatch(u) \/ Answered(u)
  PROVE  Kept
<1>1. Executes(u) /\ UNCHANGED schedVars /\ UNCHANGED <<sock, accepted, cpc, received>>
  BY Zenon DEF AddAcceptEvent, AddReadEvent, Dispatch, Answered, clientVars
<1>2. count' \in [Ids -> Nat]
  <2>1. count' \in {count, [count EXCEPT ![u] = 0]}
    BY DEF AddAcceptEvent, AddReadEvent, Dispatch, Answered
  <2>2. QED
    BY <2>1 DEF IInv, DataInv
<1>3. CASE AddAcceptEvent(u)
  BY <1>1, <1>2, <1>3, ControlKept DEF AddAcceptEvent, AddEvent
<1>4. CASE AddReadEvent(u)
  BY <1>1, <1>2, <1>4, ControlKept DEF AddReadEvent, AddEvent, HandlerPCs
<1>5. CASE Dispatch(u)
  BY <1>1, <1>2, <1>5, ControlKept DEF Dispatch, AppendWriteEvent, HandlerPCs
<1>6. CASE Answered(u)
  BY <1>1, <1>2, <1>6, ControlKept DEF Answered, RemoveWriteEvent, HandlerPCs
<1>7. QED
  BY <1>3, <1>4, <1>5, <1>6

-----------------------------------------------------------------------------
(* A client or the network changes a connection, and wakes who waits for it. *)
LEMMA OutsideKept ==
  ASSUME IInv, UNCHANGED <<schedVars, coroVars, file, coro, out>>,
         rdllist' \in Seq(FDs), IsInjective(rdllist'), ToSet(rdllist') \subseteq Registered,
         \A t \in Ids : Sleeps(t) => Unmoved(t) \/ WakeInv(t)',
         TypeInv', DataInv', ConnInv'
  PROVE  Kept
<1> USE DEF schedVars, coroVars
<1>1. OwnerInv'
  BY DEF IInv, OwnerInv
<1>2. RegInv'
  <2>1. Registered' = Registered
    BY DEF Registered
  <2>2. QED
    BY <2>1 DEF IInv, RegInv, Served
<1>3. ASSUME NEW t \in Ids PROVE PlaceInv(t)'
  BY DEF IInv, PlaceInv, HoldsSocket
<1>4. ASSUME NEW t \in Ids PROVE WakeInv(t)'
  <2>1. CASE Sleeps(t) /\ Unmoved(t)
    BY <2>1, StaysAwake
  <2>2. CASE Sleeps(t) /\ WakeInv(t)'
    BY <2>2
  <2>3. CASE ~Sleeps(t)
    BY <2>3 DEF WakeInv, Sleeps
  <2>4. QED
    BY <2>1, <2>2, <2>3
<1>5. QED
  BY <1>1, <1>2, <1>3, <1>4 DEF Kept

(* What arrives for one socket is no concern of the others. *)
LEMMA ArrivalKept ==
  ASSUME IInv, UNCHANGED <<schedVars, coroVars, file, coro, out>>,
         NEW s \in Clients \cup {Listener}, Wake(s),
         s # Listener => backlog' = backlog,
         \A f \in FDs : file[f] \in Clients /\ file[f] # s =>
             UNCHANGED <<peer[file[f]], inbuf[file[f]], outbuf[file[f]]>>,
         TypeInv', DataInv', ConnInv'
  PROVE  Kept
<1>1. /\ rdllist' \in Seq(FDs) /\ IsInjective(rdllist')
      /\ ToSet(rdllist') = ToSet(rdllist) \cup {f \in Registered : file[f] = s}
  BY WakeFacts DEF IInv, RegInv
<1>2. ToSet(rdllist') \subseteq Registered
  BY <1>1 DEF IInv, RegInv
<1>3. ASSUME NEW t \in Ids, Sleeps(t) PROVE Unmoved(t) \/ WakeInv(t)'
  <2>1. /\ sock[t] \in FDs /\ sock[t] \in Registered
        /\ IF t = Acceptor THEN file[sock[t]] = Listener ELSE file[sock[t]] \in Clients
    BY <1>3, SleeperFacts
  <2>2. CASE file[sock[t]] = s
    BY <1>1, <2>1, <2>2 DEF WakeInv, coroVars
  <2>3. CASE file[sock[t]] # s
    BY <1>1, <2>1, <2>3 DEF Unmoved, schedVars, coroVars
  <2>4. QED
    BY <2>2, <2>3
<1>4. QED
  BY <1>1, <1>2, <1>3, OutsideKept

(* A kernel that does not change for whoever sleeps. *)
LEMMA AsideKept ==
  ASSUME IInv, UNCHANGED <<schedVars, coroVars, file, coro, out, rdllist, backlog>>,
         \A f \in FDs : file[f] \in Clients =>
             UNCHANGED <<peer[file[f]], inbuf[file[f]], outbuf[file[f]]>>,
         TypeInv', DataInv', ConnInv'
  PROVE  Kept
<1>1. rdllist' \in Seq(FDs) /\ IsInjective(rdllist') /\ ToSet(rdllist') \subseteq Registered
  BY DEF IInv, TypeInv, RegInv
<1>2. ASSUME NEW t \in Ids, Sleeps(t) PROVE Unmoved(t)
  <2>1. /\ sock[t] \in FDs
        /\ IF t = Acceptor THEN file[sock[t]] = Listener ELSE file[sock[t]] \in Clients
    BY <1>2, SleeperFacts
  <2>2. QED
    BY <2>1 DEF Unmoved, schedVars, coroVars
<1>3. QED
  BY <1>1, <1>2, OutsideKept

(* Numbers of units. *)
LEMMA FrameFacts ==
  ASSUME NEW command
  PROVE  Frame(command) \in Nat /\ Frame(command) >= HeaderUnits /\ Response(command) \in Nat
<1>1. ASSUME NEW text PROVE Frame(text) \in Nat /\ Frame(text) >= HeaderUnits
  <2> DEFINE n == IF text = "" THEN 0 ELSE TextUnits
  <2>1. n \in Nat /\ HeaderUnits \in Nat
    BY Constants
  <2>2. Frame(text) = HeaderUnits + n
    BY DEF Frame
  <2> HIDE DEF n
  <2>3. QED
    BY <2>1, <2>2
<1>2. Response(command) \in Nat
  BY <1>1 DEF Response
<1>3. QED
  BY <1>1, <1>2

(* A transfer that moves something moves no more than there is. *)
LEMMA LeastFacts ==
  ASSUME NEW a \in Int, NEW n \in Int, NEW total \in Int, Least(a, Rest(n, total)) > 0
  PROVE  Least(a, Rest(n, total)) \in 1..a /\ n + Least(a, Rest(n, total)) \in Int
<1> DEFINE r == Rest(n, total)
<1>1. r \in Int
  BY Constants DEF Rest
<1> HIDE DEF r
<1>2. Least(a, r) > 0 => Least(a, r) \in 1..a /\ n + Least(a, r) \in Int
  BY <1>1 DEF Least
<1>3. QED
  BY <1>2 DEF r

(* A client connects, to a listening socket or to none. *)
LEMMA ConnectKept ==
  ASSUME IInv, NEW c \in Clients, Connect(c)
  PROVE  Kept
<1>1. UNCHANGED <<schedVars, coroVars, file, coro, out, inbuf, outbuf, received, wire>>
      /\ cpc[c] = "new"
  BY DEF Connect, Handshake, kernelVars, connVars, epollVars
<1>2. peer[c] = "none" /\ c \notin ToSet(backlog) /\ \A f \in FDs : file[f] # c
  BY <1>1 DEF IInv, ConnInv, Connected
<1>3. UNCHANGED <<pc, sock, count, accepted>>
  BY <1>1 DEF coroVars
<1>4. CASE UNCHANGED kernelVars /\ cpc' = [cpc EXCEPT ![c] = "gone"]
  <2>1. UNCHANGED <<backlog, rdllist, peer>>
    BY <1>4 DEF kernelVars, connVars, epollVars
  <2>2. TypeInv' /\ DataInv'
    BY <1>1, <1>3, <1>4, <2>1 DEF IInv, TypeInv, DataInv
  <2>3. ConnInv'
    BY <1>1, <1>4, <2>1 DEF IInv, ConnInv, TypeInv
  <2>4. QED
    BY <1>1, <2>1, <2>2, <2>3, AsideKept
<1>5. CASE Handshake(c) /\ cpc' = [cpc EXCEPT ![c] = "idle"]
  <2>1. Wake(Listener) /\ backlog' = Append(backlog, c) /\ peer' = [peer EXCEPT ![c] = "up"]
    BY <1>5 DEF Handshake
  <2>2. /\ backlog' \in Seq(Clients) /\ ToSet(backlog') = ToSet(backlog) \cup {c}
        /\ IsInjective(backlog')
    BY <1>2, <2>1, AppendFacts DEF IInv, TypeInv, ConnInv
  <2>3. rdllist' \in Seq(FDs)
    BY <2>1, WakeFacts DEF IInv
  <2>4. TypeInv' /\ DataInv'
    BY <1>1, <1>3, <1>5, <2>1, <2>2, <2>3 DEF IInv, TypeInv, DataInv, PeerStates
  <2>5. /\ \A d \in Clients : d # c => peer'[d] = peer[d] /\ cpc'[d] = cpc[d]
        /\ peer'[c] = "up" /\ cpc'[c] = "idle"
    BY <1>5, <2>1 DEF IInv, TypeInv
  <2>6. \A d \in ToSet(backlog) : d \in Clients
    BY ElementOfSeq, LenProperties DEF IInv, TypeInv, ToSet
  <2>7. ConnInv'
    BY <1>1, <1>2, <2>2, <2>5, <2>6 DEF IInv, ConnInv, Connected
  <2>8. \A f \in FDs : file[f] \in Clients =>
            UNCHANGED <<peer[file[f]], inbuf[file[f]], outbuf[file[f]]>>
    BY <1>1, <1>2, <2>5
  <2>9. QED
    BY <1>1, <2>1, <2>4, <2>7, <2>8, ArrivalKept
<1>6. QED
  BY <1>4, <1>5 DEF Connect

(* The client's calls that change nothing for the server yet. *)
LEMMA SendKept ==
  ASSUME IInv, NEW c \in Clients, SendHeader(c) \/ SendText(c)
  PROVE  Kept
<1>1. /\ UNCHANGED <<schedVars, coroVars, file, backlog, peer, inbuf, outbuf, epollVars, received>>
      /\ cpc[c] # "new" /\ cpc' \in {[cpc EXCEPT ![c] = "text"], [cpc EXCEPT ![c] = "wait"]}
      /\ \E n \in Nat : wire' = [wire EXCEPT ![c] = @ + n]
  <2>1. CASE SendHeader(c)
    BY <2>1, Constants DEF SendHeader
  <2>2. CASE SendText(c)
    <3> DEFINE n == Frame(req[c]) - HeaderUnits
    <3>1. n \in Nat /\ Frame(req[c]) \in Nat /\ HeaderUnits \in Nat
      BY FrameFacts, Constants
    <3>2. wire' = [wire EXCEPT ![c] = wire[c] + Frame(req[c]) - HeaderUnits]
      BY <2>2 DEF SendText
    <3>3. wire[c] \in Nat
      BY DEF IInv, DataInv
    <3>4. wire[c] + Frame(req[c]) - HeaderUnits = wire[c] + n
      BY <3>1, <3>3
    <3> HIDE DEF n
    <3>5. \E k \in Nat : wire' = [wire EXCEPT ![c] = @ + k]
      BY <3>1, <3>2, <3>4
    <3>6. QED
      BY <2>2, <3>5 DEF SendText
  <2>3. QED
    BY <2>1, <2>2
<1>2. UNCHANGED <<coro, out, rdllist, pc, sock, count, accepted>>
  BY <1>1 DEF epollVars, coroVars
<1>3. TypeInv' /\ DataInv'
  <2>1. TypeInv'
    BY <1>1, <1>2 DEF IInv, TypeInv
  <2>2. wire' \in [Clients -> Nat]
    BY <1>1 DEF IInv, DataInv
  <2>3. QED
    BY <1>1, <1>2, <2>1, <2>2 DEF IInv, DataInv
<1>4. ConnInv'
  BY <1>1, <1>2 DEF IInv, ConnInv, TypeInv
<1>5. QED
  BY <1>1, <1>2, <1>3, <1>4, AsideKept

(* A client process ends, with its connection left to the network. *)
LEMMA LeaveKept ==
  ASSUME IInv, NEW c \in Clients, Quit(c) \/ Disconnected(c)
  PROVE  Kept
<1>1. PICK how \in {"gone", "aborted"} : Leave(c, how)
  BY DEF Quit, Disconnected
<1>2. UNCHANGED <<schedVars, coroVars, file, backlog, peer, inbuf, outbuf, wire,
                  coro, out, rdllist, pc, sock, count, accepted, received>>
      /\ cpc' = [cpc EXCEPT ![c] = how]
  BY <1>1 DEF Leave, kernelVars, connVars, epollVars, coroVars
<1>3. TypeInv' /\ DataInv'
  BY <1>2 DEF IInv, TypeInv, DataInv
<1>4. ConnInv'
  BY <1>2 DEF IInv, ConnInv, TypeInv
<1>5. QED
  BY <1>2, <1>3, <1>4, AsideKept

(* The next process of a client finds nothing of the connection before. *)
LEMMA RestartKept ==
  ASSUME IInv, NEW c \in Clients, Restart(c)
  PROVE  Kept
<1>1. /\ UNCHANGED <<schedVars, coroVars, file, backlog, inbuf, coro, out, rdllist,
                     pc, sock, count, accepted>>
      /\ peer[c] \in {"none", "closed"}
      /\ cpc' = [cpc EXCEPT ![c] = "new"] /\ peer' = [peer EXCEPT ![c] = "none"]
      /\ wire' = [wire EXCEPT ![c] = 0] /\ outbuf' = [outbuf EXCEPT ![c] = 0]
      /\ received' = [received EXCEPT ![c] = 0]
  BY DEF Restart, epollVars, coroVars
<1>2. c \notin ToSet(backlog) /\ \A f \in FDs : file[f] # c
  BY <1>1 DEF IInv, ConnInv, Connected
<1>3. TypeInv' /\ DataInv'
  <2>1. TypeInv'
    BY <1>1 DEF IInv, TypeInv, PeerStates
  <2>2. DataInv'
    BY <1>1, Constants DEF IInv, DataInv
  <2>3. QED
    BY <2>1, <2>2
<1>4. \A d \in Clients : d # c => peer'[d] = peer[d] /\ cpc'[d] = cpc[d] /\ outbuf'[d] = outbuf[d]
  BY <1>1 DEF IInv, TypeInv, DataInv
<1>5. \A d \in ToSet(backlog) : d \in Clients
  BY ElementOfSeq, LenProperties DEF IInv, TypeInv, ToSet
<1>6. peer'[c] = "none"
  BY <1>1 DEF IInv, TypeInv
<1>7. ConnInv'
  BY <1>1, <1>2, <1>4, <1>5, <1>6 DEF IInv, ConnInv
<1>8. \A f \in FDs : file[f] \in Clients =>
          UNCHANGED <<peer[file[f]], inbuf[file[f]], outbuf[file[f]]>>
  BY <1>1, <1>2, <1>4
<1>9. QED
  BY <1>1, <1>3, <1>7, <1>8, AsideKept

(* What the network brings. *)
LEMMA NetworkKept ==
  ASSUME IInv, NEW c \in Clients, Network(c)
  PROVE  Kept
<1>1. /\ UNCHANGED <<schedVars, coroVars, cpc, received, pc, sock, count, accepted>>
      /\ Deliver(c) \/ ArriveFin(c) \/ ArriveRst(c)
  BY DEF Network, clientVars, coroVars
<1>2. /\ UNCHANGED <<file, backlog, coro, out>> /\ Wake(c)
      /\ peer[c] \in {"up", "fin"} /\ peer' \in [Clients -> PeerStates]
      /\ peer'[c] \in Connected /\ \A d \in Clients : d # c => peer'[d] = peer[d]
  BY <1>1 DEF Deliver, ArriveFin, ArriveRst, IInv, TypeInv, PeerStates, Connected
<1>3. /\ wire' \in [Clients -> Nat] /\ inbuf' \in [Clients -> Nat]
      /\ outbuf' \in [Clients -> 0 .. SndBuf]
      /\ \A d \in Clients : d # c => inbuf'[d] = inbuf[d] /\ outbuf'[d] = outbuf[d]
  <2>1. CASE Deliver(c)
    BY <2>1 DEF Deliver, IInv, DataInv
  <2>2. CASE ArriveFin(c)
    BY <2>2 DEF ArriveFin, IInv, DataInv
  <2>3. CASE ArriveRst(c)
    BY <2>3, Constants DEF ArriveRst, IInv, DataInv
  <2>4. QED
    BY <1>1, <2>1, <2>2, <2>3
<1>4. rdllist' \in Seq(FDs)
  BY <1>2, WakeFacts DEF IInv
<1>5. TypeInv' /\ DataInv'
  BY <1>1, <1>2, <1>3, <1>4 DEF IInv, TypeInv, DataInv
<1>6. ConnInv'
  <2>1. \A d \in ToSet(backlog) : d \in Clients
    BY ElementOfSeq, LenProperties DEF IInv, TypeInv, ToSet
  <2>2. \A d \in Clients : peer[d] \in Connected => peer'[d] \in Connected
    BY <1>2
  <2>3. \A d \in Clients : peer[d] = "none" => peer'[d] = "none"
    BY <1>2
  <2>4. QED
    BY <1>1, <1>2, <2>1, <2>2, <2>3 DEF IInv, ConnInv
<1>7. \A f \in FDs : file[f] \in Clients /\ file[f] # c =>
          UNCHANGED <<peer[file[f]], inbuf[file[f]], outbuf[file[f]]>>
  BY <1>2, <1>3
<1>8. c # Listener
  BY Constants
<1>9. QED
  BY <1>1, <1>2, <1>5, <1>6, <1>7, <1>8, ArrivalKept

(* Room in the send buffer of a connection wakes its writer if there was   *)
(* none; if there was some, the writer has not been waiting for it.        *)
LEMMA ReceiveKept ==
  ASSUME IInv, NEW c \in Clients, Receive(c)
  PROVE  Kept
<1> DEFINE n == Least(outbuf[c], Rest(received[c], Frame(answer[c])))
<1>1. /\ UNCHANGED <<schedVars, coroVars, file, backlog, peer, wire, inbuf, coro, out,
                     pc, sock, count, accepted>>
      /\ outbuf' = [outbuf EXCEPT ![c] = @ - n]
      /\ IF outbuf[c] = SndBuf THEN WakeWriter(c) ELSE UNCHANGED rdllist
      /\ cpc' \in {cpc, [cpc EXCEPT ![c] = "idle"]}
      /\ received' \in {[received EXCEPT ![c] = 0], [received EXCEPT ![c] = @ + n]}
      /\ n > 0 /\ cpc[c] = "wait"
  BY DEF Receive, coroVars
<1>2. outbuf[c] \in 0 .. SndBuf /\ received[c] \in Nat /\ SndBuf \in Nat
  BY Constants DEF IInv, DataInv
<1>3. n \in 1 .. outbuf[c]
  BY <1>1, <1>2, FrameFacts, LeastFacts
<1> HIDE DEF n
<1>4. DataInv'
  <2>1. outbuf[c] - n \in 0 .. SndBuf /\ received[c] + n \in Nat
    BY <1>2, <1>3
  <2>2. outbuf' \in [Clients -> 0 .. SndBuf] /\ received' \in [Clients -> Nat]
    BY <1>1, <2>1 DEF IInv, DataInv
  <2>3. QED
    BY <1>1, <2>2 DEF IInv, DataInv
<1>5. \A d \in Clients : d # c => outbuf'[d] = outbuf[d]
  BY <1>1 DEF IInv, DataInv
<1>6. /\ rdllist' \in Seq(FDs) /\ IsInjective(rdllist')
      /\ ToSet(rdllist) \subseteq ToSet(rdllist') /\ ToSet(rdllist') \subseteq Registered
      /\ outbuf[c] = SndBuf => \A f \in Registered : file[f] = c /\ out[f] => f \in ToSet(rdllist')
  <2>1. CASE Wake(c)
    BY <2>1, WakeFacts DEF IInv, RegInv
  <2>2. CASE UNCHANGED rdllist /\ (outbuf[c] = SndBuf => ~(\E f \in FDsOf(c) \cap Registered : out[f]))
    BY <2>2 DEF IInv, TypeInv, RegInv, FDsOf, Registered
  <2>3. QED
    BY <1>1, <2>1, <2>2 DEF WakeWriter
<1>7. TypeInv'
  BY <1>1, <1>6 DEF IInv, TypeInv
<1>8. ConnInv'
  BY <1>1 DEF IInv, TypeInv, ConnInv
<1>9. ASSUME NEW t \in Ids, Sleeps(t) PROVE Unmoved(t) \/ WakeInv(t)'
  <2>1. /\ sock[t] \in FDs /\ sock[t] \in Registered
        /\ IF t = Acceptor THEN file[sock[t]] = Listener ELSE file[sock[t]] \in Clients
        /\ pc[t] \in Suspendable \cup {"spawn"} /\ (pc[t] \in {"accept", "spawn"} <=> t = Acceptor)
        /\ (out[sock[t]] <=> pc[t] = "write")
    BY <1>9, SleeperFacts
  <2>2. CASE file[sock[t]] # c
    BY <1>1, <1>5, <1>6, <2>1, <2>2 DEF Unmoved, schedVars
  <2>3. CASE file[sock[t]] = c
    <3>1. pc[t] \in {"read", "write"} /\ status[t] = "WAITING"
      BY <1>9, <2>1, <2>3, Constants DEF Suspendable, Sleeps
    <3>2. CASE pc[t] = "write" /\ outbuf[c] = SndBuf
      BY <1>1, <1>6, <2>1, <2>3, <3>2 DEF WakeInv
    <3>3. CASE pc[t] = "write" /\ outbuf[c] # SndBuf
      <4>1. CouldProceed(t)
        BY <1>2, <2>3, <3>3 DEF CouldProceed, Writable
      <4>2. sock[t] \in ToSet(rdllist')
        BY <1>6, <3>1, <4>1 DEF IInv, WakeInv
      <4>3. QED
        BY <1>1, <4>2 DEF WakeInv
    <3>4. CASE pc[t] = "read"
      <4>1. CouldProceed(t)' => CouldProceed(t)
        BY <1>1, <3>4 DEF CouldProceed, Readable, Hangup
      <4>2. QED
        BY <1>1, <1>6, <3>1, <3>4, <4>1 DEF IInv, WakeInv
    <3>5. QED
      BY <3>1, <3>2, <3>3, <3>4
  <2>4. QED
    BY <2>2, <2>3
<1>10. QED
  BY <1>1, <1>4, <1>6, <1>7, <1>8, <1>9, OutsideKept

-----------------------------------------------------------------------------
(* Closing descriptors is felt by their owners only. *)
LEMMA CloseUnmoved ==
  ASSUME IInv, NEW fds \in SUBSET FDs, Close(fds), NEW t \in Ids, Sleeps(t),
         sock[t] \notin fds, UNCHANGED <<pc[t], sock[t], status[t]>>,
         t = Acceptor => \A f \in fds : file[f] # Listener
  PROVE  Unmoved(t)
<1>1. sock[t] \in FDs /\ IF t = Acceptor THEN file[sock[t]] = Listener ELSE file[sock[t]] \in Clients
  BY SleeperFacts
<1>2. file'[sock[t]] = file[sock[t]] /\ ToSet(rdllist') = ToSet(rdllist) \ fds /\ outbuf' = outbuf
  BY <1>1, CloseTables DEF IInv
<1>3. t = Acceptor => backlog' = backlog
  BY CloseTables DEF IInv
<1>4. t # Acceptor => peer'[file[sock[t]]] = peer[file[sock[t]]]
                      /\ inbuf'[file[sock[t]]] = inbuf[file[sock[t]]]
  BY <1>1, CloseConn DEF IInv
<1>5. QED
  BY <1>2, <1>3, <1>4 DEF Unmoved

(* Closing other descriptors loses no wakeup. *)
LEMMA CloseWake ==
  ASSUME IInv, NEW fds \in SUBSET FDs, Close(fds), NEW t \in Ids,
         sock[t] \notin fds, UNCHANGED <<pc[t], sock[t], status[t]>>,
         t = Acceptor => \A f \in fds : file[f] # Listener
  PROVE  WakeInv(t)'
<1>1. CASE Sleeps(t)
  BY <1>1, CloseUnmoved, StaysAwake
<1>2. CASE ~Sleeps(t)
  BY <1>2 DEF WakeInv, Sleeps
<1>3. QED
  BY <1>1, <1>2

(* What is closed leaves the epoll instance, and nothing else does. *)
LEMMA CloseRegInv ==
  ASSUME IInv, NEW fds \in SUBSET FDs, Close(fds),
         \A t \in Ids : Served(t)' =>
             /\ Served(t) /\ (pc'[t] = "write" <=> pc[t] = "write")
             /\ sock'[t] = sock[t] /\ sock[t] \notin fds,
         \A t \in Ids : sock[t] \in FDs /\ sock[t] \notin fds => sock'[t] = sock[t]
  PROVE  RegInv'
<1>1. /\ \A f \in FDs : coro'[f] = IF f \in fds THEN NoCoro ELSE coro[f]
      /\ \A f \in FDs : f \notin fds => out'[f] = out[f]
      /\ ToSet(rdllist') = ToSet(rdllist) \ fds
      /\ IsInjective(rdllist')
  BY CloseTables DEF IInv, RegInv
<1>2. Registered' = Registered \ fds
  BY <1>1 DEF Registered
<1>3. ToSet(rdllist') \subseteq Registered'
  BY <1>1, <1>2 DEF IInv, RegInv
<1>4. \A f \in Registered' : sock'[coro'[f]] = f
  BY <1>1, <1>2, RegisteredFacts
<1>5. ASSUME NEW t \in Ids, Served(t)'
      PROVE  coro'[sock'[t]] = t /\ (out'[sock'[t]] <=> pc'[t] = "write")
  <2>1. sock[t] \in FDs /\ coro[sock[t]] = t /\ (out[sock[t]] <=> pc[t] = "write")
    BY <1>5, ServedIsWatched DEF IInv, RegInv, Registered
  <2>2. QED
    BY <1>1, <1>5, <2>1
<1>6. QED
  BY <1>1, <1>3, <1>4, <1>5 DEF RegInv

(* inbuf is emptied for those that go down. *)
LEMMA CloseDataInv ==
  ASSUME IInv, NEW fds \in SUBSET FDs, Close(fds), count' \in [Ids -> Nat], UNCHANGED received
  PROVE  DataInv'
<1>1. inbuf' \in [Clients -> Nat]
  BY DEF Close, IInv, DataInv
<1>2. QED
  BY <1>1, CloseTables DEF IInv, DataInv

(* A finished coroutine goes, and its connection with it. *)
LEMMA DestroyKept ==
  ASSUME IInv, NEW u \in Ids, Destroy(u)
  PROVE  Kept
<1> DEFINE fds == {sock[u]} \cap FDs
<1>1. SchedInv /\ NoTask \notin Ids /\ NoFD \notin FDs
  BY SchedFacts, Constants DEF IInv
<1>2. /\ Close(fds) /\ status[u] = "FINISHED" /\ current = u /\ current' = NoTask
      /\ status' = [status EXCEPT ![u] = "ABSENT"]
      /\ exception' = [exception EXCEPT ![u] = FALSE]
      /\ pc' = [pc EXCEPT ![u] = "none"] /\ sock' = [sock EXCEPT ![u] = NoFD]
      /\ count' = [count EXCEPT ![u] = 0]
      /\ UNCHANGED <<accepted, cpc, received>>
  BY Zenon DEF Destroy, Erase, clientVars
<1>3. fds \in SUBSET FDs /\ (\A f \in fds : f = sock[u] /\ f \in FDs)
      /\ (sock[u] \in FDs => sock[u] \in fds)
  BY Zenon
<1> HIDE DEF fds
<1>4. /\ \A t \in Ids : t # u => /\ status'[t] = status[t] /\ exception'[t] = exception[t]
                                 /\ pc'[t] = pc[t] /\ sock'[t] = sock[t]
      /\ status'[u] = "ABSENT" /\ exception'[u] = FALSE /\ pc'[u] = "none" /\ sock'[u] = NoFD
  BY <1>1, <1>2 DEF IInv, TypeInv, SchedInv
<1>5. \A f \in fds : file[f] \in Clients /\ f \notin ToSet(accepted)
                     /\ \A t \in Ids : sock[t] = f => t = u
  <2> SUFFICES ASSUME sock[u] \in FDs
               PROVE  file[sock[u]] \in Clients /\ sock[u] \notin ToSet(accepted)
                      /\ \A t \in Ids : sock[t] = sock[u] => t = u
    BY <1>3
  <2>1. pc[u] \in HandlerPCs /\ u # Acceptor
    BY <1>2 DEF IInv, PlaceInv, HoldsSocket
  <2>2. QED
    BY <2>1, SocketFacts
<1>6. \A f \in fds : file[f] # Listener
  BY <1>5, Constants
<1>7. TypeInv'
  <2>1. pc' \in [Ids -> AllPCs] /\ sock' \in [Ids -> FDs \cup {NoFD}]
    BY <1>2 DEF IInv, TypeInv, AllPCs
  <2>2. /\ file' \in [FDs -> Clients \cup {Free, Listener}] /\ backlog' \in Seq(Clients)
        /\ coro' \in [FDs -> Ids \cup {NoCoro}] /\ out' \in [FDs -> BOOLEAN]
        /\ peer' \in [Clients -> PeerStates] /\ rdllist' \in Seq(FDs)
    BY <1>2, <1>3, CloseTables DEF IInv
  <2>3. QED
    BY <1>2, <2>1, <2>2 DEF IInv, TypeInv, AllPCs
<1>8. DataInv'
  <2>1. count' \in [Ids -> Nat]
    BY <1>2 DEF IInv, DataInv
  <2>2. QED
    BY <1>2, <1>3, <2>1, CloseDataInv
<1>9. ConnInv'
  BY <1>2, <1>3, CloseConn DEF IInv
<1>10. OwnerInv'
  <2>1. \A f \in FDs : file'[f] = IF f \in fds THEN Free ELSE file[f]
    BY <1>2, <1>3, CloseTables DEF IInv
  <2>2. \A f \in ToSet(accepted) : f \in FDs /\ f \notin fds /\ file'[f] \in Clients
    BY <1>5, <2>1, AcceptedFacts
  <2>3. ASSUME NEW f \in FDs, file'[f] # Free
        PROVE  f \in ToSet(accepted) \/ \E t \in Ids : sock'[t] = f
    BY <1>3, <1>4, <2>1, <2>3 DEF IInv, OwnerInv
  <2>4. ASSUME NEW t \in Ids, sock'[t] \in FDs
        PROVE  /\ file'[sock'[t]] # Free /\ sock'[t] \notin ToSet(accepted)
               /\ file'[sock'[t]] = Listener <=> t = Acceptor
    <3>1. t # u /\ sock'[t] = sock[t] /\ sock[t] \in FDs /\ sock[t] \notin fds
      BY <1>1, <1>4, <1>5, <2>4
    <3>2. file'[sock[t]] = file[sock[t]]
      BY <2>1, <3>1
    <3>3. QED
      BY <3>1, <3>2 DEF IInv, OwnerInv
  <2>5. \A t, v \in Ids : sock'[t] = sock'[v] /\ sock'[t] # NoFD => t = v
    BY <1>4 DEF IInv, OwnerInv
  <2>6. QED
    BY <1>2, <2>2, <2>3, <2>4, <2>5 DEF IInv, OwnerInv
<1>11. RegInv'
  <2>1. \A t \in Ids : Served(t)' =>
             /\ Served(t) /\ (pc'[t] = "write" <=> pc[t] = "write")
             /\ sock'[t] = sock[t] /\ sock[t] \notin fds
    BY <1>4, <1>5 DEF Served
  <2>2. \A t \in Ids : sock[t] \in FDs /\ sock[t] \notin fds => sock'[t] = sock[t]
    BY <1>3, <1>4
  <2>3. QED
    BY <1>2, <1>3, <2>1, <2>2, CloseRegInv
<1>12. ASSUME NEW t \in Ids PROVE PlaceInv(t)' /\ WakeInv(t)'
  <2>1. CASE t # u
    <3>1. PlaceInv(t)'
      BY <1>2, <1>4, <2>1 DEF IInv, PlaceInv, HoldsSocket
    <3>2. WakeInv(t)'
      BY <1>2, <1>3, <1>4, <1>5, <1>6, <2>1, CloseWake
    <3>3. QED
      BY <3>1, <3>2
  <2>2. CASE t = u
    BY <1>1, <1>4, <2>2 DEF PlaceInv, WakeInv, HoldsSocket, AcceptorPCs, HandlerPCs
  <2>3. QED
    BY <2>1, <2>2
<1>13. QED
  BY <1>7, <1>8, <1>9, <1>10, <1>11, <1>12 DEF Kept

(* Without descriptors the acceptor closes all it has, and returns. *)
LEMMA AcceptFailsKept ==
  ASSUME IInv, NEW u \in Ids, AcceptFails(u)
  PROVE  Kept
<1> DEFINE fds == ToSet(accepted) \cup {sock[u]}
<1>1. SchedInv /\ NoFD \notin FDs
  BY SchedFacts, Constants DEF IInv
<1>2. /\ Close(fds) /\ status[u] = "RUNNING" /\ current = u /\ pc[u] = "accept"
      /\ status' = [status EXCEPT ![u] = "FINISHED"]
      /\ sock' = [sock EXCEPT ![u] = NoFD] /\ accepted' = <<>>
      /\ UNCHANGED <<pc, count, cpc, received, exception, current>>
  BY Zenon DEF AcceptFails, Return, Executes, clientVars
<1>3. u = Acceptor /\ sock[u] \in FDs
  BY <1>2 DEF IInv, PlaceInv, AcceptorPCs, HoldsSocket
<1>4. fds \in SUBSET FDs
  BY <1>3, AcceptedFacts
<1>5. \A f \in FDs : f \in fds <=> f \in ToSet(accepted) \/ f = sock[u]
  OBVIOUS
<1> HIDE DEF fds
<1>6. /\ \A t \in Ids : t # u => status'[t] = status[t] /\ sock'[t] = sock[t]
      /\ status'[u] = "FINISHED" /\ sock'[u] = NoFD
  BY <1>1, <1>2 DEF IInv, TypeInv, SchedInv
<1>7. \A t \in Ids : t # u => sock[t] \notin fds
  BY <1>3, <1>4, <1>5, SocketFacts
<1>8. TypeInv' /\ DataInv'
  <2>1. sock' \in [Ids -> FDs \cup {NoFD}] /\ accepted' \in Seq(FDs) /\ count' \in [Ids -> Nat]
    BY <1>2 DEF IInv, TypeInv, DataInv
  <2>2. /\ file' \in [FDs -> Clients \cup {Free, Listener}] /\ backlog' \in Seq(Clients)
        /\ coro' \in [FDs -> Ids \cup {NoCoro}] /\ out' \in [FDs -> BOOLEAN]
        /\ peer' \in [Clients -> PeerStates] /\ rdllist' \in Seq(FDs)
    BY <1>2, <1>4, CloseTables DEF IInv
  <2>3. TypeInv'
    BY <1>2, <2>1, <2>2 DEF IInv, TypeInv
  <2>4. QED
    BY <1>2, <1>4, <2>1, <2>3, CloseDataInv
<1>9. ConnInv'
  BY <1>2, <1>4, CloseConn DEF IInv
<1>10. OwnerInv'
  <2>1. \A f \in FDs : file'[f] = IF f \in fds THEN Free ELSE file[f]
    BY <1>2, <1>4, CloseTables DEF IInv
  <2>2. IsInjective(accepted') /\ ToSet(accepted') = {}
    BY <1>2 DEF IsInjective, ToSet
  <2>3. ASSUME NEW f \in FDs, file'[f] # Free
        PROVE  \E t \in Ids : sock'[t] = f
    BY <1>5, <1>6, <2>1, <2>3 DEF IInv, OwnerInv
  <2>4. ASSUME NEW t \in Ids, sock'[t] \in FDs
        PROVE  /\ file'[sock'[t]] # Free
               /\ file'[sock'[t]] = Listener <=> t = Acceptor
    <3>1. t # u /\ sock'[t] = sock[t] /\ sock[t] \in FDs /\ sock[t] \notin fds
      BY <1>1, <1>6, <1>7, <2>4
    <3>2. file'[sock[t]] = file[sock[t]]
      BY <2>1, <3>1
    <3>3. QED
      BY <3>1, <3>2 DEF IInv, OwnerInv
  <2>5. \A t, v \in Ids : sock'[t] = sock'[v] /\ sock'[t] # NoFD => t = v
    BY <1>6 DEF IInv, OwnerInv
  <2>6. QED
    BY <2>2, <2>3, <2>4, <2>5 DEF OwnerInv
<1>11. RegInv'
  <2>1. \A t \in Ids : Served(t)' =>
             /\ Served(t) /\ (pc'[t] = "write" <=> pc[t] = "write")
             /\ sock'[t] = sock[t] /\ sock[t] \notin fds
    BY <1>2, <1>6, <1>7 DEF Served
  <2>2. \A t \in Ids : sock[t] \in FDs /\ sock[t] \notin fds => sock'[t] = sock[t]
    BY <1>5, <1>6
  <2>3. QED
    BY <1>2, <1>4, <2>1, <2>2, CloseRegInv
<1>12. ASSUME NEW t \in Ids PROVE PlaceInv(t)' /\ WakeInv(t)'
  <2>1. CASE t # u
    <3>1. PlaceInv(t)'
      BY <1>2, <1>6, <2>1 DEF IInv, PlaceInv, HoldsSocket
    <3>2. WakeInv(t)'
      BY <1>2, <1>3, <1>4, <1>6, <1>7, <2>1, CloseWake
    <3>3. QED
      BY <3>1, <3>2
  <2>2. CASE t = u
    <3>1. PlaceInv(t)
      BY DEF IInv
    <3>2. exception[u] = FALSE
      BY <1>1, <1>2 DEF SchedInv
    <3>3. PlaceInv(t)'
      BY <1>1, <1>2, <1>6, <2>2, <3>1, <3>2 DEF PlaceInv, HoldsSocket, AcceptorPCs, HandlerPCs
    <3>4. WakeInv(t)'
      BY <1>2, <1>6, <2>2 DEF WakeInv
    <3>5. QED
      BY <3>3, <3>4
  <2>3. QED
    BY <2>1, <2>2
<1>13. QED
  BY <1>8, <1>9, <1>10, <1>11, <1>12 DEF Kept

(* A socket passes from the vector of AsyncAccept to a new coroutine. *)
LEMMA SpawnKept ==
  ASSUME IInv, NEW u \in Ids, Spawn(u), status[id] = "ABSENT"
  PROVE  Kept
<1>1. SchedInv /\ NoFD \notin FDs
  BY SchedFacts, Constants DEF IInv
<1>2. /\ status[u] = "RUNNING" /\ current = u /\ pc[u] = "spawn" /\ accepted # <<>>
      /\ status' = [status EXCEPT ![id] = "CREATED"]
      /\ sock' = [sock EXCEPT ![id] = Head(accepted)] /\ accepted' = Tail(accepted)
      /\ pc' = [pc EXCEPT ![id] = "start"]
      /\ UNCHANGED <<kernelVars, count, cpc, received, exception, current>>
  BY DEF Spawn, CreateTask, Executes, clientVars
<1>3. /\ UNCHANGED <<file, backlog, peer, wire, inbuf, outbuf, coro, out, rdllist>>
      /\ id \in Ids
  BY <1>1, <1>2 DEF kernelVars, connVars, epollVars, SchedInv
<1>4. /\ u = Acceptor /\ id # u /\ exception[id] = FALSE /\ pc[id] = "none"
      /\ sock[id] \notin FDs
  BY <1>1, <1>2, <1>3 DEF IInv, PlaceInv, AcceptorPCs, HandlerPCs, HoldsSocket, SchedInv
<1> DEFINE f0 == Head(accepted)
<1>5. /\ f0 \in ToSet(accepted) /\ accepted' \in Seq(FDs) /\ IsInjective(accepted')
      /\ ToSet(accepted) = {f0} \cup ToSet(accepted') /\ f0 \notin ToSet(accepted')
  BY <1>2, TailFacts DEF IInv, TypeInv, OwnerInv
<1>6. f0 \in FDs /\ f0 \notin Registered /\ file[f0] \in Clients
  BY <1>5, AcceptedFacts
<1> HIDE DEF f0
<1>7. sock' = [sock EXCEPT ![id] = f0]
  BY <1>2 DEF f0
<1>8. /\ \A t \in Ids : t # id => status'[t] = status[t] /\ sock'[t] = sock[t] /\ pc'[t] = pc[t]
      /\ status'[id] = "CREATED" /\ sock'[id] = f0 /\ pc'[id] = "start"
  BY <1>1, <1>2, <1>3, <1>7 DEF IInv, TypeInv, SchedInv
<1>9. TypeInv' /\ DataInv'
  <2>1. sock' \in [Ids -> FDs \cup {NoFD}] /\ pc' \in [Ids -> AllPCs]
    BY <1>2, <1>6, <1>7 DEF IInv, TypeInv, AllPCs, HandlerPCs
  <2>2. QED
    BY <1>2, <1>3, <1>5, <2>1 DEF IInv, TypeInv, DataInv, AllPCs
<1>10. ConnInv'
  BY <1>2, <1>3 DEF IInv, ConnInv
<1>11. OwnerInv'
  <2>1. ASSUME NEW f \in FDs, file'[f] # Free
        PROVE  f \in ToSet(accepted') \/ \E t \in Ids : sock'[t] = f
    BY <1>3, <1>4, <1>5, <1>8, <2>1 DEF IInv, OwnerInv
  <2>2. ASSUME NEW t \in Ids, sock'[t] \in FDs
        PROVE  /\ file'[sock'[t]] # Free /\ sock'[t] \notin ToSet(accepted')
               /\ file'[sock'[t]] = Listener <=> t = Acceptor
    <3>1. CASE t = id
      BY <1>3, <1>4, <1>5, <1>6, <1>8, <3>1, Constants
    <3>2. CASE t # id
      BY <1>3, <1>5, <1>8, <2>2, <3>2 DEF IInv, OwnerInv
    <3>3. QED
      BY <3>1, <3>2
  <2>3. \A t \in Ids : sock[t] # f0
    BY <1>5, <1>6 DEF IInv, OwnerInv
  <2>4. \A t, v \in Ids : sock'[t] = sock'[v] /\ sock'[t] # NoFD => t = v
    BY <1>8, <2>3 DEF IInv, OwnerInv
  <2>5. QED
    BY <1>3, <1>5, <2>1, <2>2, <2>4 DEF IInv, OwnerInv
<1>12. RegInv'
  <2>1. Registered' = Registered
    BY <1>3 DEF Registered
  <2>2. \A f \in Registered : sock'[coro[f]] = f
    BY <1>4, <1>8, RegisteredFacts
  <2>3. ASSUME NEW t \in Ids, Served(t)'
        PROVE  coro[sock'[t]] = t /\ (out[sock'[t]] <=> pc'[t] = "write")
    <3>1. t # id /\ Served(t)
      BY <1>2, <1>8, <2>3 DEF Served
    <3>2. QED
      BY <1>8, <3>1 DEF IInv, RegInv
  <2>4. QED
    BY <1>3, <2>1, <2>2, <2>3 DEF IInv, RegInv
<1>13. ASSUME NEW t \in Ids PROVE PlaceInv(t)' /\ WakeInv(t)'
  <2>1. CASE t # id
    <3>1. PlaceInv(t)'
      BY <1>2, <1>8, <2>1 DEF IInv, PlaceInv, HoldsSocket
    <3>2. CASE Sleeps(t)
      <4>1. Unmoved(t)
        BY <1>3, <1>8, <2>1 DEF Unmoved
      <4>2. QED
        BY <3>1, <3>2, <4>1, StaysAwake
    <3>3. CASE ~Sleeps(t)
      BY <1>8, <2>1, <3>1, <3>3 DEF WakeInv, Sleeps
    <3>4. QED
      BY <3>2, <3>3
  <2>2. CASE t = id
    <3>1. PlaceInv(t)'
      BY <1>2, <1>4, <1>6, <1>8, <2>2 DEF PlaceInv, HoldsSocket, AcceptorPCs, HandlerPCs
    <3>2. WakeInv(t)'
      BY <1>8, <2>2 DEF WakeInv
    <3>3. QED
      BY <3>1, <3>2
  <2>3. QED
    BY <2>1, <2>2
<1>14. QED
  BY <1>9, <1>10, <1>11, <1>12, <1>13 DEF Kept

(* A socket whose coroutine would have an id still in use is closed. *)
LEMMA SpawnDropsKept ==
  ASSUME IInv, NEW u \in Ids, Spawn(u), status[id] # "ABSENT"
  PROVE  Kept
<1> DEFINE fds == {Head(accepted)}
<1>1. SchedInv /\ NoFD \notin FDs
  BY SchedFacts, Constants DEF IInv
<1>2. /\ Close(fds) /\ accepted # <<>> /\ accepted' = Tail(accepted)
      /\ UNCHANGED <<status, sock, pc, count, cpc, received, exception, current>>
  BY DEF Spawn, CreateTask, clientVars
<1>3. /\ Head(accepted) \in ToSet(accepted) /\ accepted' \in Seq(FDs) /\ IsInjective(accepted')
      /\ ToSet(accepted) = {Head(accepted)} \cup ToSet(accepted')
      /\ Head(accepted) \notin ToSet(accepted')
  BY <1>2, TailFacts DEF IInv, TypeInv, OwnerInv
<1>4. Head(accepted) \in FDs /\ file[Head(accepted)] \in Clients
  BY <1>3, AcceptedFacts
<1>5. /\ fds \in SUBSET FDs /\ fds \subseteq ToSet(accepted)
      /\ ToSet(accepted') = ToSet(accepted) \ fds
      /\ \A f \in fds : file[f] # Listener
  BY <1>3, <1>4, Constants
<1> HIDE DEF fds
<1>6. \A t \in Ids : sock[t] \notin fds
  BY <1>5, SocketFacts
<1>7. TypeInv' /\ DataInv'
  <2>1. count' \in [Ids -> Nat]
    BY <1>2 DEF IInv, DataInv
  <2>2. /\ file' \in [FDs -> Clients \cup {Free, Listener}] /\ backlog' \in Seq(Clients)
        /\ coro' \in [FDs -> Ids \cup {NoCoro}] /\ out' \in [FDs -> BOOLEAN]
        /\ peer' \in [Clients -> PeerStates] /\ rdllist' \in Seq(FDs)
    BY <1>2, <1>5, CloseTables DEF IInv
  <2>3. TypeInv'
    BY <1>2, <1>3, <2>2 DEF IInv, TypeInv
  <2>4. QED
    BY <1>2, <1>5, <2>1, <2>3, CloseDataInv
<1>8. ConnInv'
  BY <1>2, <1>5, CloseConn DEF IInv
<1>9. OwnerInv'
  <2>1. \A f \in FDs : file'[f] = IF f \in fds THEN Free ELSE file[f]
    BY <1>2, <1>5, CloseTables DEF IInv
  <2>2. \A f \in ToSet(accepted') : f \in FDs /\ file'[f] = file[f] /\ file[f] \in Clients
    BY <1>5, <2>1, AcceptedFacts
  <2>3. \A f \in FDs : file'[f] # Free =>
            f \in ToSet(accepted') \/ \E t \in Ids : sock[t] = f
    BY <1>5, <2>1 DEF IInv, OwnerInv
  <2>4. \A t \in Ids : sock[t] \in FDs => file'[sock[t]] = file[sock[t]]
    BY <1>6, <2>1
  <2>5. QED
    BY <1>2, <1>3, <1>5, <2>2, <2>3, <2>4 DEF IInv, OwnerInv
<1>10. RegInv'
  <2>1. \A t \in Ids : Served(t)' =>
             /\ Served(t) /\ (pc'[t] = "write" <=> pc[t] = "write")
             /\ sock'[t] = sock[t] /\ sock[t] \notin fds
    BY <1>2, <1>6 DEF Served
  <2>2. QED
    BY <1>2, <1>5, <2>1, CloseRegInv
<1>11. ASSUME NEW t \in Ids PROVE PlaceInv(t)' /\ WakeInv(t)'
  <2>1. PlaceInv(t)'
    BY <1>2 DEF IInv, PlaceInv, HoldsSocket
  <2>2. WakeInv(t)'
    BY <1>2, <1>5, <1>6, CloseWake
  <2>3. QED
    BY <2>1, <2>2
<1>12. QED
  BY <1>7, <1>8, <1>9, <1>10, <1>11 DEF Kept

(* A descriptor that is not open is nobody's. *)
LEMMA FreeFacts ==
  ASSUME IInv, FreeFDs # {}
  PROVE  /\ NextFD \in FDs /\ file[NextFD] = Free /\ NextFD \notin ToSet(accepted)
         /\ NextFD \notin Registered /\ \A t \in Ids : sock[t] # NextFD
<1>1. NextFD \in FDs /\ file[NextFD] = Free
  BY NextIsFree DEF FreeFDs
<1>2. NextFD \notin ToSet(accepted)
  BY <1>1, Constants DEF IInv, OwnerInv
<1>3. \A t \in Ids : sock[t] # NextFD
  BY <1>1 DEF IInv, OwnerInv
<1>4. NextFD \notin Registered
  BY <1>3, RegisteredFacts
<1>5. QED
  BY <1>1, <1>2, <1>3, <1>4

(* Nobody listens but the acceptor, and it listens once. *)
LEMMA ListenKept ==
  ASSUME IInv, NEW u \in Ids, Listen(u)
  PROVE  Kept
<1> DEFINE f0 == NextFD
<1>1. SchedInv /\ NoFD \notin FDs
  BY SchedFacts, Constants DEF IInv
<1>2. /\ status[u] = "RUNNING" /\ current = u /\ pc[u] = "listen"
      /\ file' = [file EXCEPT ![f0] = Listener]
      /\ sock' = [sock EXCEPT ![u] = f0] /\ pc' = [pc EXCEPT ![u] = "register"]
      /\ UNCHANGED <<status, exception, current, backlog, peer, wire, inbuf, outbuf,
                     coro, out, rdllist, count, accepted, cpc, received>>
  BY DEF Listen, Executes, schedVars, connVars, epollVars, clientVars
<1>3. /\ f0 \in FDs /\ file[f0] = Free /\ f0 \notin ToSet(accepted)
      /\ f0 \notin Registered /\ \A t \in Ids : sock[t] # f0
  BY FreeFacts DEF Listen
<1> HIDE DEF f0
<1>4. u = Acceptor /\ sock[u] \notin FDs /\ exception[u] = FALSE
  BY <1>1, <1>2 DEF IInv, PlaceInv, AcceptorPCs, HandlerPCs, HoldsSocket, SchedInv
<1>5. \A f \in FDs : file[f] # Listener
  <2> SUFFICES ASSUME NEW f \in FDs, file[f] = Listener PROVE FALSE
    OBVIOUS
  <2>1. f \notin ToSet(accepted)
    BY Constants DEF IInv, OwnerInv
  <2>2. PICK t \in Ids : sock[t] = f
    BY <2>1, Constants DEF IInv, OwnerInv
  <2>3. t = Acceptor
    BY <2>2 DEF IInv, OwnerInv
  <2>4. QED
    BY <1>4, <2>2, <2>3
<1>6. /\ \A t \in Ids : t # u => sock'[t] = sock[t] /\ pc'[t] = pc[t]
      /\ sock'[u] = f0 /\ pc'[u] = "register"
      /\ \A f \in FDs : f # f0 => file'[f] = file[f]
      /\ file'[f0] = Listener
  BY <1>2, <1>3 DEF IInv, TypeInv
<1>7. TypeInv' /\ DataInv'
  <2>1. /\ sock' \in [Ids -> FDs \cup {NoFD}] /\ pc' \in [Ids -> AllPCs]
        /\ file' \in [FDs -> Clients \cup {Free, Listener}]
    BY <1>2, <1>3 DEF IInv, TypeInv, AllPCs, AcceptorPCs
  <2>2. QED
    BY <1>2, <2>1 DEF IInv, TypeInv, DataInv, AllPCs
<1>8. ConnInv'
  <2>1. \A f \in FDs : file'[f] \in Clients => file'[f] = file[f]
    BY <1>6, Constants
  <2>2. \A f, g \in FDs : file'[f] = file'[g] /\ file'[f] # Free => f = g
    BY <1>5, <1>6 DEF IInv, ConnInv
  <2>3. QED
    BY <1>2, <2>1, <2>2 DEF IInv, ConnInv
<1>9. OwnerInv'
  <2>1. \A f \in ToSet(accepted) : f \in FDs /\ file'[f] \in Clients
    BY <1>3, <1>6, AcceptedFacts
  <2>2. ASSUME NEW f \in FDs, file'[f] # Free
        PROVE  f \in ToSet(accepted) \/ \E t \in Ids : sock'[t] = f
    BY <1>4, <1>6, <2>2 DEF IInv, OwnerInv
  <2>3. ASSUME NEW t \in Ids, sock'[t] \in FDs
        PROVE  /\ file'[sock'[t]] # Free /\ sock'[t] \notin ToSet(accepted)
               /\ file'[sock'[t]] = Listener <=> t = Acceptor
    <3>1. CASE t = u
      BY <1>3, <1>4, <1>6, <3>1, Constants
    <3>2. CASE t # u
      BY <1>3, <1>6, <2>3, <3>2 DEF IInv, OwnerInv
    <3>3. QED
      BY <3>1, <3>2
  <2>4. \A t, v \in Ids : sock'[t] = sock'[v] /\ sock'[t] # NoFD => t = v
    BY <1>3, <1>6 DEF IInv, OwnerInv
  <2>5. QED
    BY <1>2, <2>1, <2>2, <2>3, <2>4 DEF IInv, OwnerInv
<1>10. RegInv'
  <2>1. Registered' = Registered
    BY <1>2 DEF Registered
  <2>2. \A f \in Registered : sock'[coro[f]] = f
    BY <1>4, <1>6, RegisteredFacts
  <2>3. ASSUME NEW t \in Ids, Served(t)'
        PROVE  coro[sock'[t]] = t /\ (out[sock'[t]] <=> pc'[t] = "write")
    <3>1. t # u /\ Served(t)
      BY <1>2, <1>6, <2>3 DEF Served
    <3>2. QED
      BY <1>6, <3>1 DEF IInv, RegInv
  <2>4. QED
    BY <1>2, <2>1, <2>2, <2>3 DEF IInv, RegInv
<1>11. ASSUME NEW t \in Ids PROVE PlaceInv(t)' /\ WakeInv(t)'
  <2>1. PlaceInv(t)
    BY DEF IInv
  <2>2. CASE t # u
    <3>1. PlaceInv(t)'
      BY <1>2, <1>6, <2>1, <2>2 DEF PlaceInv, HoldsSocket
    <3>2. CASE Sleeps(t)
      <4>1. sock[t] \in FDs /\ sock[t] # f0
        BY <1>3, <3>2, SleeperFacts
      <4>2. Unmoved(t)
        BY <1>2, <1>6, <2>2, <4>1 DEF Unmoved
      <4>3. QED
        BY <3>1, <3>2, <4>2, StaysAwake
    <3>3. CASE ~Sleeps(t)
      BY <1>2, <1>6, <2>2, <3>1, <3>3 DEF WakeInv, Sleeps
    <3>4. QED
      BY <3>2, <3>3
  <2>3. CASE t = u
    <3>1. PlaceInv(t)'
      BY <1>2, <1>3, <1>4, <1>6, <2>1, <2>3 DEF PlaceInv, HoldsSocket, AcceptorPCs, HandlerPCs
    <3>2. WakeInv(t)'
      BY <1>2, <1>6, <2>3 DEF WakeInv
    <3>3. QED
      BY <3>1, <3>2
  <2>4. QED
    BY <2>2, <2>3
<1>12. QED
  BY <1>7, <1>8, <1>9, <1>10, <1>11 DEF Kept

(* A connection passes from the backlog to the vector of AsyncAccept. *)
LEMMA AcceptKept ==
  ASSUME IInv, NEW u \in Ids, Accept(u)
  PROVE  Kept
<1> DEFINE f0 == NextFD
           c  == Head(backlog)
<1>1. SchedInv /\ NoFD \notin FDs
  BY SchedFacts, Constants DEF IInv
<1>2. /\ status[u] = "RUNNING" /\ current = u /\ pc[u] = "accept" /\ backlog # <<>>
      /\ file' = [file EXCEPT ![f0] = c]
      /\ backlog' = Tail(backlog) /\ accepted' = Append(accepted, f0)
      /\ UNCHANGED <<status, exception, current, peer, wire, inbuf, outbuf,
                     coro, out, rdllist, pc, sock, count, cpc, received>>
  BY DEF Accept, Executes, schedVars, connVars, epollVars, clientVars
<1>3. /\ f0 \in FDs /\ file[f0] = Free /\ f0 \notin ToSet(accepted)
      /\ f0 \notin Registered /\ \A t \in Ids : sock[t] # f0
  BY FreeFacts DEF Accept
<1>4. /\ c \in Clients /\ c \in ToSet(backlog) /\ backlog' \in Seq(Clients)
      /\ ToSet(backlog) = {c} \cup ToSet(backlog') /\ IsInjective(backlog')
      /\ c \notin ToSet(backlog')
  BY <1>2, TailFacts DEF IInv, TypeInv, ConnInv
<1> HIDE DEF f0, c
<1>5. peer[c] \in Connected /\ \A f \in FDs : file[f] # c
  BY <1>4 DEF IInv, ConnInv
<1>6. /\ accepted' \in Seq(FDs) /\ ToSet(accepted') = ToSet(accepted) \cup {f0}
      /\ IsInjective(accepted')
  BY <1>2, <1>3, AppendFacts DEF IInv, TypeInv, OwnerInv
<1>7. (\A f \in FDs : f # f0 => file'[f] = file[f]) /\ file'[f0] = c
  BY <1>2, <1>3 DEF IInv, TypeInv
<1>8. TypeInv' /\ DataInv'
  <2>1. file' \in [FDs -> Clients \cup {Free, Listener}]
    BY <1>2, <1>4 DEF IInv, TypeInv
  <2>2. QED
    BY <1>2, <1>4, <1>6, <2>1 DEF IInv, TypeInv, DataInv
<1>9. ConnInv'
  <2>1. \A d \in ToSet(backlog') : peer'[d] \in Connected
    BY <1>2, <1>4 DEF IInv, ConnInv
  <2>2. \A f \in FDs : file'[f] \in Clients =>
            peer'[file'[f]] \in Connected /\ file'[f] \notin ToSet(backlog')
    BY <1>2, <1>4, <1>5, <1>7 DEF IInv, ConnInv
  <2>3. \A f, g \in FDs : file'[f] = file'[g] /\ file'[f] # Free => f = g
    BY <1>5, <1>7 DEF IInv, ConnInv
  <2>4. QED
    BY <1>2, <1>4, <2>1, <2>2, <2>3 DEF IInv, ConnInv
<1>10. OwnerInv'
  <2>1. \A f \in ToSet(accepted') : file'[f] \in Clients
    BY <1>3, <1>4, <1>6, <1>7, AcceptedFacts
  <2>2. \A f \in FDs : file'[f] # Free =>
            f \in ToSet(accepted') \/ \E t \in Ids : sock[t] = f
    BY <1>6, <1>7 DEF IInv, OwnerInv
  <2>3. \A t \in Ids : sock[t] \in FDs =>
            file'[sock[t]] = file[sock[t]] /\ (sock[t] \in ToSet(accepted') => sock[t] \in ToSet(accepted))
    BY <1>3, <1>6, <1>7
  <2>4. QED
    BY <1>2, <1>6, <2>1, <2>2, <2>3 DEF IInv, OwnerInv
<1>11. RegInv'
  <2>1. Registered' = Registered
    BY <1>2 DEF Registered
  <2>2. QED
    BY <1>2, <2>1 DEF IInv, RegInv, Served
<1>12. ASSUME NEW t \in Ids PROVE PlaceInv(t)' /\ WakeInv(t)'
  <2>1. PlaceInv(t)'
    BY <1>2 DEF IInv, PlaceInv, HoldsSocket
  <2>2. u = Acceptor
    BY <1>2 DEF IInv, PlaceInv, AcceptorPCs
  <2>3. CASE Sleeps(t) /\ t # u
    <3>1. sock[t] \in FDs /\ sock[t] # f0
      BY <1>3, <2>3, SleeperFacts
    <3>2. Unmoved(t)
      BY <1>2, <1>7, <2>2, <2>3, <3>1 DEF Unmoved
    <3>3. QED
      BY <2>1, <2>3, <3>2, StaysAwake
  <2>4. CASE ~Sleeps(t) \/ t = u
    BY <1>2, <2>1, <2>4 DEF WakeInv, Sleeps
  <2>5. QED
    BY <2>3, <2>4
<1>13. QED
  BY <1>8, <1>9, <1>10, <1>11, <1>12 DEF Kept

(* A transfer concerns the connection of the coroutine that makes it. *)
LEMMA TransferKept ==
  ASSUME IInv, NEW u \in Ids, Read(u) \/ Write(u)
  PROVE  Kept
<1> DEFINE c == file[sock[u]]
<1>1. SchedInv
  BY SchedFacts DEF IInv
<1>2. /\ status[u] = "RUNNING" /\ current = u /\ pc[u] \in {"read", "write"}
      /\ UNCHANGED <<status, exception, current, file, backlog, peer, wire,
                     coro, out, rdllist, sock, accepted, cpc, received>>
      /\ pc' \in {pc, [pc EXCEPT ![u] = "dispatch"]} /\ (pc[u] = "write" => pc' = pc)
  BY DEF Read, Write, Writes, Executes, schedVars, epollVars, clientVars
<1>3. sock[u] \in FDs /\ c \in Clients
  <2>1. u # Acceptor /\ sock[u] \in FDs
    BY <1>2 DEF IInv, PlaceInv, HandlerPCs, HoldsSocket
  <2>2. QED
    BY <2>1, SocketFacts
<1>4. /\ count' \in [Ids -> Nat] /\ inbuf' \in [Clients -> Nat]
      /\ outbuf' \in [Clients -> 0 .. SndBuf]
      /\ \A d \in Clients : d # c => inbuf'[d] = inbuf[d] /\ outbuf'[d] = outbuf[d]
  <2>1. /\ inbuf[c] \in Nat /\ count[u] \in Nat /\ outbuf[c] \in 0 .. SndBuf /\ SndBuf \in Nat
        /\ inbuf \in [Clients -> Nat] /\ outbuf \in [Clients -> 0 .. SndBuf]
        /\ count \in [Ids -> Nat]
    BY <1>3, Constants DEF IInv, DataInv
  <2>2. CASE Read(u)
    <3> DEFINE n == Least(inbuf[c], Rest(count[u], Frame(req[c])))
    <3>1. n > 0 /\ inbuf' = [inbuf EXCEPT ![c] = @ - n] /\ count' = [count EXCEPT ![u] = @ + n]
          /\ outbuf' = outbuf
      BY <2>2 DEF Read, Client
    <3>2. n \in 1 .. inbuf[c]
      BY <2>1, <3>1, FrameFacts, LeastFacts
    <3> HIDE DEF n
    <3>3. inbuf[c] - n \in Nat /\ count[u] + n \in Nat
      BY <2>1, <3>2
    <3>4. QED
      BY <2>1, <3>1, <3>3
  <2>3. CASE Write(u)
    <3> DEFINE n == Least(SndBuf - outbuf[c], Rest(count[u], Response(input[u])))
    <3>1. n > 0 /\ outbuf' = [outbuf EXCEPT ![c] = @ + n] /\ count' = [count EXCEPT ![u] = @ + n]
          /\ inbuf' = inbuf
      BY <2>3 DEF Write, Client
    <3>2. n \in 1 .. (SndBuf - outbuf[c])
      BY <2>1, <3>1, FrameFacts, LeastFacts
    <3> HIDE DEF n
    <3>3. outbuf[c] + n \in 0 .. SndBuf /\ count[u] + n \in Nat
      BY <2>1, <3>2
    <3>4. QED
      BY <2>1, <3>1, <3>3
  <2>4. QED
    BY <2>2, <2>3
<1>5. /\ pc' \in [Ids -> AllPCs]
      /\ \A t \in Ids : t # u => pc'[t] = pc[t]
      /\ pc'[u] \in {pc[u], "dispatch"} /\ (pc[u] = "write" => pc'[u] = pc[u])
  BY <1>2 DEF IInv, TypeInv, AllPCs, HandlerPCs
<1>6. TypeInv' /\ DataInv'
  BY <1>2, <1>4, <1>5 DEF IInv, TypeInv, DataInv, AllPCs
<1>7. ConnInv'
  BY <1>2 DEF IInv, ConnInv
<1>8. OwnerInv'
  BY <1>2 DEF IInv, OwnerInv
<1>9. RegInv'
  <2>1. Registered' = Registered
    BY <1>2 DEF Registered
  <2>2. \A t \in Ids : Served(t)' => Served(t) /\ (pc'[t] = "write" <=> pc[t] = "write")
    BY <1>2, <1>5 DEF Served
  <2>3. QED
    BY <1>2, <2>1, <2>2 DEF IInv, RegInv
<1>10. exception[u] = FALSE
  BY <1>1, <1>2 DEF SchedInv
<1>11. ASSUME NEW t \in Ids PROVE PlaceInv(t)' /\ WakeInv(t)'
  <2>1. PlaceInv(t)
    BY DEF IInv
  <2>2. CASE t # u
    <3>1. PlaceInv(t)'
      BY <1>2, <1>5, <2>1, <2>2 DEF PlaceInv, HoldsSocket
    <3>2. CASE Sleeps(t)
      <4>1. sock[t] \in FDs /\ sock[t] # sock[u]
        BY <1>3, <2>2, <3>2, SleeperFacts, SocketFacts
      <4>2. file[sock[t]] # c
        BY <1>3, <4>1, Constants DEF IInv, ConnInv
      <4>3. IF t = Acceptor THEN file[sock[t]] = Listener ELSE file[sock[t]] \in Clients
        BY <3>2, SleeperFacts
      <4>4. Unmoved(t)
        BY <1>2, <1>4, <1>5, <2>2, <4>2, <4>3 DEF Unmoved
      <4>5. QED
        BY <3>1, <3>2, <4>4, StaysAwake
    <3>3. CASE ~Sleeps(t)
      BY <1>2, <1>5, <2>2, <3>1, <3>3 DEF WakeInv, Sleeps
    <3>4. QED
      BY <3>2, <3>3
  <2>3. CASE t = u
    <3>1. PlaceInv(t)'
      BY <1>2, <1>5, <1>10, <2>1, <2>3 DEF PlaceInv, HoldsSocket, AcceptorPCs, HandlerPCs
    <3>2. WakeInv(t)'
      BY <1>2, <1>5, <2>3 DEF WakeInv
    <3>3. QED
      BY <3>1, <3>2
  <2>4. QED
    BY <2>2, <2>3
<1>12. QED
  BY <1>6, <1>7, <1>8, <1>9, <1>11 DEF Kept

-----------------------------------------------------------------------------
(* Every step of the coroutines' own keeps the invariant. *)
LEMMA CoroutineKept ==
  ASSUME IInv, NEW u \in Ids, AcceptorStep(u) \/ HandlerStep(u)
  PROVE  Kept
<1>1. CASE BindFails(u) \/ ReadFails(u) \/ EmptyInput(u) \/ WriteFails(u) \/ Rethrown(u)
  <2>1. Throw(u) /\ pc[u] \in {"listen", "read", "dispatch", "write", "rethrown"}
    BY <1>1, Zenon DEF BindFails, ReadFails, EmptyInput, WriteFails, Rethrown, Writes
  <2>2. pc[u] \in {"listen"} \cup HandlerPCs
    BY <2>1 DEF HandlerPCs
  <2>3. QED
    BY <2>1, <2>2, ThrowKept
<1>2. CASE SigPipe(u)
  <2>1. UNCHANGED <<kernelVars, coroVars, clientVars, status, exception, current>>
    BY <1>2 DEF SigPipe, Kill
  <2>2. QED
    BY <2>1, PhaseKept
<1>3. CASE Spawn(u)
  BY <1>3, SpawnKept, SpawnDropsKept
<1>4. CASE AwaitClients(u) \/ ReadAgain(u) \/ WriteAgain(u)
  BY <1>4, AwaitKept
<1>5. CASE AddAcceptEvent(u) \/ AddReadEvent(u) \/ Dispatch(u) \/ Answered(u)
  BY <1>5, RegisterKept
<1>6. CASE Listen(u) \/ Accept(u) \/ NoneToAccept(u) \/ AcceptFails(u)
  BY <1>6, ListenKept, AcceptKept, NoneToAcceptKept, AcceptFailsKept
<1>7. CASE Read(u) \/ Write(u)
  BY <1>7, TransferKept
<1>8. QED
  BY <1>1, <1>2, <1>3, <1>4, <1>5, <1>6, <1>7 DEF AcceptorStep, HandlerStep

(* Every step. *)
LEMMA StepKept ==
  ASSUME IInv, [Next]_vars
  PROVE  Kept
<1>1. CASE Server
  <2>1. ASSUME NEW t \in Ids, \/ Switch(t) \/ Destroy(t)
                              \/ AcceptorStep(t) \/ HandlerStep(t)
        PROVE  Kept
    BY <2>1, SwitchKept, DestroyKept, CoroutineKept
  <2>2. CASE IteratorEnds
    <3>1. UNCHANGED <<kernelVars, coroVars, clientVars, status, exception, current>>
      BY <2>2 DEF IteratorEnds, EndPass, clientVars
    <3>2. QED
      BY <3>1, PhaseKept
  <2>3. CASE Poll
    BY <2>3, PollKept
  <2>4. QED
    BY <1>1, <2>1, <2>2, <2>3 DEF Server
<1>2. ASSUME NEW c \in Clients, \/ Connect(c) \/ SendHeader(c) \/ ClientStep(c)
                                \/ Quit(c) \/ Restart(c) \/ Network(c)
      PROVE  Kept
  BY <1>2, ConnectKept, SendKept, ReceiveKept, LeaveKept, RestartKept, NetworkKept
     DEF ClientStep
<1>3. CASE UNCHANGED vars
  <2>1. UNCHANGED <<kernelVars, coroVars, clientVars, status, exception, current>>
    BY <1>3 DEF vars, schedVars
  <2>2. QED
    BY <2>1, PhaseKept
<1>4. QED
  BY <1>1, <1>2, <1>3 DEF Next

(* The inductive step of IInv. *)
LEMMA NextIInv == IInv /\ [Next]_vars => IInv'
<1> SUFFICES ASSUME IInv, [Next]_vars PROVE IInv'
  OBVIOUS
<1>1. LoopProofs!IInv'
  BY Refines, KeepsIInv DEF IInv
<1>2. Kept
  BY StepKept
<1>3. QED
  BY <1>1, <1>2 DEF IInv, Kept

(* The server before its first step, and the clients before they connect. *)
LEMMA InitLoop == Init => LoopProofs!Init
<1> SUFFICES ASSUME Init PROVE LoopProofs!Init
  OBVIOUS
<1>1. Watched = {}
  BY DEF Init, KernelInit, Watched, Registered
<1>2. LoopProofs!SchedInit
  BY DEF Init, SchedInit, LoopProofs!SchedInit, Ids, LoopProofs!Ids
<1>3. QED
  BY <1>1, <1>2 DEF LoopProofs!Init

(* Its first state. *)
LEMMA InitIInv == Init => IInv
<1> SUFFICES ASSUME Init PROVE IInv
  OBVIOUS
<1>1. LoopProofs!IInv
  <2>1. LoopProofs!SchedulerConstants /\ LoopProofs!CreatorsAreIds
    BY SchedulerConstants, Constants
       DEF LoopProofs!SchedulerConstants, LoopProofs!CreatorsAreIds, LoopProofs!Ids, Ids
  <2>2. QED
    BY <2>1, InitLoop, LoopProofs!InitIInv
       DEF LoopProofs!SchedulerConstants, LoopProofs!CreatorsAreIds, LoopProofs!Ids
<1>2. /\ \A f \in FDs : file[f] = Free /\ coro[f] = NoCoro
      /\ backlog = <<>> /\ rdllist = <<>> /\ accepted = <<>>
      /\ \A c \in Clients : peer[c] = "none"
      /\ \A t \in Ids : pc[t] = IF t = Acceptor THEN "listen" ELSE "none"
      /\ \A t \in Ids : sock[t] = NoFD /\ exception[t] = FALSE
      /\ \A t \in Ids : status[t] = IF t = Acceptor THEN "CREATED" ELSE "ABSENT"
  BY DEF Init, KernelInit, SchedInit, Acceptor
<1>3. TypeInv
  <2>1. <<>> \in Seq(FDs) /\ <<>> \in Seq(Clients)
    OBVIOUS
  <2>2. /\ file \in [FDs -> Clients \cup {Free, Listener}] /\ coro \in [FDs -> Ids \cup {NoCoro}]
        /\ out \in [FDs -> BOOLEAN] /\ peer \in [Clients -> PeerStates]
    BY DEF Init, KernelInit, PeerStates
  <2>3. pc \in [Ids -> AcceptorPCs \cup HandlerPCs \cup {"none"}]
    BY DEF Init, AcceptorPCs, HandlerPCs
  <2>4. sock \in [Ids -> FDs \cup {NoFD}]
    BY DEF Init
  <2>5. cpc \in [Clients -> {"new", "idle", "text", "wait", "gone", "aborted"}]
    BY DEF Init
  <2>6. QED
    BY <1>2, <2>1, <2>2, <2>3, <2>4, <2>5 DEF TypeInv
<1>4. DataInv
  <2>1. 0 \in Nat /\ 0 \in 0 .. SndBuf
    BY Constants
  <2>2. QED
    BY <2>1 DEF Init, KernelInit, DataInv
<1>5. ToSet(<<>>) = {} /\ IsInjective(<<>>)
  BY DEF ToSet, IsInjective
<1>6. ConnInv
  BY <1>2, <1>5, Constants DEF ConnInv
<1>7. OwnerInv
  BY <1>2, <1>5, Constants DEF OwnerInv
<1>8. RegInv
  BY <1>2, <1>5 DEF RegInv, Registered, Served
<1>9. ASSUME NEW t \in Ids PROVE PlaceInv(t) /\ WakeInv(t)
  <2>1. CASE t = Acceptor
    BY <1>2, <2>1, Constants DEF PlaceInv, WakeInv, HoldsSocket, AcceptorPCs, HandlerPCs
  <2>2. CASE t # Acceptor
    BY <1>2, <2>2, Constants DEF PlaceInv, WakeInv, HoldsSocket, AcceptorPCs, HandlerPCs
  <2>3. QED
    BY <2>1, <2>2
<1>10. QED
  BY <1>1, <1>3, <1>4, <1>6, <1>7, <1>8, <1>9 DEF IInv

(* IInv holds always; all that follows on descriptors rests on it. *)
LEMMA Invariance == Spec => []IInv
<1>1. QED
  BY InitIInv, NextIInv, PTL DEF Spec

-----------------------------------------------------------------------------
(* The module of the proofs has PollLoop's next-state relation. *)
LEMMA SameNext == LoopProofs!Next => Loop!Next
<1> USE DEF LoopProofs!Executes, Loop!Executes, LoopProofs!schedVars, Loop!schedVars,
            LoopProofs!Ids, Loop!Ids, LoopProofs!MayRun, Loop!MayRun,
            LoopProofs!Live, Loop!Live
<1>1. ASSUME NEW t \in Ids, LoopProofs!Create(t) PROVE Loop!Create(t)
  <2>1. \A S : LoopProofs!Cardinality(S) = Loop!Cardinality(S)
    BY DEF LoopProofs!Cardinality, Loop!Cardinality
  <2>2. QED
    BY <1>1, <2>1 DEF LoopProofs!Create, Loop!Create, LoopProofs!CreateTask, Loop!CreateTask,
                      LoopProofs!Relink, Loop!Relink
<1>2. ASSUME NEW t \in Ids, LoopProofs!Watch(t) PROVE Loop!Watch(t)
  BY <1>2 DEF LoopProofs!Watch, Loop!Watch
<1>3. ASSUME NEW t \in Ids, LoopProofs!Switch(t) PROVE Loop!Switch(t)
  BY <1>3 DEF LoopProofs!Switch, Loop!Switch, LoopProofs!Resume, Loop!Resume
<1>4. ASSUME NEW t \in Ids, LoopProofs!Suspend(t) PROVE Loop!Suspend(t)
  BY <1>4 DEF LoopProofs!Suspend, Loop!Suspend, LoopProofs!Yield, Loop!Yield
<1>5. ASSUME NEW t \in Ids, LoopProofs!Finish(t) PROVE Loop!Finish(t)
  BY <1>5 DEF LoopProofs!Finish, Loop!Finish, LoopProofs!Return, Loop!Return
<1>6. ASSUME NEW t \in Ids, LoopProofs!Destroy(t) PROVE Loop!Destroy(t)
  BY <1>6 DEF LoopProofs!Destroy, Loop!Destroy, LoopProofs!Erase, Loop!Erase
<1>7. ASSUME NEW t \in Ids, LoopProofs!Die(t) PROVE Loop!Die(t)
  BY <1>7 DEF LoopProofs!Die, Loop!Die, LoopProofs!Kill, Loop!Kill
<1>8. ASSUME LoopProofs!EndPass PROVE Loop!EndPass
  BY <1>8 DEF LoopProofs!EndPass, Loop!EndPass
<1>9. ASSUME LoopProofs!Poll PROVE Loop!Poll
  BY <1>9 DEF LoopProofs!Poll, Loop!Poll, LoopProofs!ProcessEvents, Loop!ProcessEvents
<1>10. LoopProofs!Ids = Ids /\ Loop!Ids = Ids
  BY DEF Ids
<1> HIDE DEF LoopProofs!Ids, Loop!Ids
<1>11. QED
  BY <1>1, <1>2, <1>3, <1>4, <1>5, <1>6, <1>7, <1>8, <1>9, <1>10 DEF LoopProofs!Next, Loop!Next

(* The server is a scheduler of the kind PollLoop specifies: whatever is    *)
(* proved of that holds of this server with its sockets and its clients.    *)
THEOREM ImplementsLoop == Spec => LoopSpec
<1>1. Init => Loop!Init
  BY InitLoop DEF Loop!Init, LoopProofs!Init, Loop!SchedInit, LoopProofs!SchedInit, Loop!Ids,
                  LoopProofs!Ids
<1>2. IInv /\ [Next]_vars => [Loop!Next]_(Loop!vars)
  <2>1. IInv /\ [Next]_vars => RefStep
    BY Refines
  <2>2. RefStep => [Loop!Next]_(Loop!vars)
    BY SameNext DEF RefStep, LoopProofs!vars, Loop!vars, LoopProofs!schedVars, Loop!schedVars
  <2>3. QED
    BY <2>1, <2>2
<1>3. QED
  BY <1>1, <1>2, Invariance, PTL DEF Spec, LoopSpec, Loop!Spec

-----------------------------------------------------------------------------
(* A descriptor has one owner at most, and none when it is not open. *)
LEMMA OwnersAre ==
  ASSUME IInv, NEW f \in FDs
  PROVE  LET owners == {t \in Live : sock[t] = f}
         IN  /\ Cardinality(owners) = IF file[f] = Free \/ f \in ToSet(accepted) THEN 0 ELSE 1
             /\ coro[f] # NoCoro => owners = {coro[f]}
<1> DEFINE owners == {t \in Live : sock[t] = f}
<1>1. f # NoFD
  BY Constants
<1>2. \A t \in Ids : sock[t] = f => t \in Live
  BY DEF IInv, PlaceInv, HoldsSocket, HandlerPCs, Live
<1>3. \A t, u \in Ids : sock[t] = f /\ sock[u] = f => t = u
  BY <1>1 DEF IInv, OwnerInv
<1>4. Live \subseteq Ids
  BY DEF Live
<1>5. ASSUME NEW t \in Ids, sock[t] = f PROVE owners = {t}
  BY <1>2, <1>3, <1>4, <1>5
<1>6. CASE file[f] = Free \/ f \in ToSet(accepted)
  <2>1. \A t \in Ids : sock[t] # f
    BY <1>6 DEF IInv, OwnerInv
  <2>2. owners = {}
    BY <2>1, <1>4
  <2>3. coro[f] = NoCoro
    BY <2>1 DEF IInv, TypeInv, RegInv, Registered
  <2>4. QED
    BY <1>6, <2>2, <2>3, FS_EmptySet
<1>7. CASE ~(file[f] = Free \/ f \in ToSet(accepted))
  <2>1. PICK t \in Ids : sock[t] = f
    BY <1>7 DEF IInv, OwnerInv
  <2>2. Cardinality({t}) = 1
    BY FS_Singleton
  <2>3. coro[f] # NoCoro => coro[f] \in Ids /\ sock[coro[f]] = f
    BY DEF IInv, TypeInv, RegInv, Registered
  <2>4. QED
    BY <1>5, <1>7, <2>1, <2>2, <2>3
<1>8. QED
  BY <1>6, <1>7

(* Every open connection has exactly one owner, and no coroutine holds a   *)
(* descriptor that is closed or another's: what AsyncAccept collects and   *)
(* AcceptClients captures is neither lost nor shared, whatever throws.     *)
THEOREM NoDescriptorLeaks == Spec => []DescriptorsAreOwned
<1>1. IInv => DescriptorsAreOwned
  <2> SUFFICES ASSUME IInv PROVE DescriptorsAreOwned
    OBVIOUS
  <2>1. ASSUME NEW c \in Clients PROVE Cardinality(FDsOf(c)) <= 1
    <3>1. \A f, g \in FDsOf(c) : f = g
      BY Constants DEF IInv, ConnInv, FDsOf
    <3>2. CASE FDsOf(c) = {}
      BY <3>2, FS_EmptySet
    <3>3. CASE FDsOf(c) # {}
      <4>1. PICK f \in FDsOf(c) : FDsOf(c) = {f}
        BY <3>1, <3>3
      <4>2. QED
        BY <4>1, FS_Singleton
    <3>4. QED
      BY <3>2, <3>3
  <2>2. IsInjective(accepted) /\ \A f \in ToSet(accepted) : file[f] \in Clients
    BY DEF IInv, OwnerInv
  <2>3. QED
    BY <2>1, <2>2, OwnersAre DEF DescriptorsAreOwned
<1>2. QED
  BY <1>1, Invariance, PTL

(* The calls that change the epoll mask never meet a descriptor that Poll  *)
(* has deleted, and what is registered for writing is what writes.         *)
THEOREM ServingIsRegistered == Spec => []RegisteredWhileServing
<1>1. IInv => RegisteredWhileServing
  <2> SUFFICES ASSUME IInv, NEW t \in Handlers,
                      pc[t] \in {"read", "dispatch", "write"}, ~exception[t]
               PROVE  coro[sock[t]] = t /\ (out[sock[t]] <=> pc[t] = "write")
    BY DEF RegisteredWhileServing
  <2>1. t \in Ids /\ Served(t)
    BY DEF Handlers, Live, Served
  <2>2. QED
    BY <2>1 DEF IInv, RegInv
<1>2. QED
  BY <1>1, Invariance, PTL

(* No coroutine sleeps for ever on an event that has already come: the     *)
(* edge-triggered registrations and the order of the calls lose none.      *)
THEOREM NoWakeupIsLost == Spec => []NoLostWakeup
<1>1. IInv => NoLostWakeup
  <2> SUFFICES ASSUME IInv, NEW t \in Ids, status[t] = "WAITING", CouldProceed(t)
               PROVE  /\ sock[t] \in ToSet(rdllist) /\ coro[sock[t]] = t
                      /\ HasEvent(sock[t], out[sock[t]])
    BY DEF NoLostWakeup
  <2>1. sock[t] \in ToSet(rdllist)
    BY DEF IInv, WakeInv
  <2>2. Sleeps(t)
    BY DEF Sleeps
  <2>3. /\ coro[sock[t]] = t /\ (out[sock[t]] <=> pc[t] = "write")
        /\ pc[t] = "accept" => file[sock[t]] = Listener
    BY <2>2, SleeperFacts
  <2>4. HasEvent(sock[t], out[sock[t]])
    BY <2>3 DEF CouldProceed, HasEvent, Readable
  <2>5. QED
    BY <2>1, <2>3, <2>4
<1>2. QED
  BY <1>1, Invariance, PTL

-----------------------------------------------------------------------------
(* With a descriptor to spare, one is free while the acceptor listens: the *)
(* others are connections of different clients.                            *)
LEMMA RoomToAccept ==
  ASSUME IInv, NEW f \in FDs, file[f] = Listener,
         Cardinality(FDs) >= Cardinality(Clients) + 2
  PROVE  FreeFDs # {}
<1> SUFFICES ASSUME \A g \in FDs : file[g] # Free PROVE FALSE
  BY DEF FreeFDs
<1> DEFINE rest == FDs \ {f}
           client == [g \in rest |-> file[g]]
<1>1. IsFiniteSet(FDs) /\ IsFiniteSet(Clients)
  BY EPollerConstants
<1>2. IsFiniteSet(rest) /\ Cardinality(rest) = Cardinality(FDs) - 1
  BY <1>1, FS_RemoveElement
<1>3. \A g \in rest : file[g] \in Clients
  BY DEF IInv, TypeInv, ConnInv
<1>4. client \in Injection(rest, Clients)
  <2>1. client \in [rest -> Clients]
    BY <1>3
  <2>2. \A g, h \in rest : client[g] = client[h] => g = h
    BY DEF IInv, ConnInv
  <2>3. QED
    BY <2>1, <2>2 DEF Injection, IsInjective
<1>5. Cardinality(rest) <= Cardinality(Clients)
  BY <1>1, <1>4, FS_Injection
<1>6. QED
  BY <1>1, <1>2, <1>5, FS_CardinalityType

(* Only the exception that leaves AsyncAccept closes a listening socket. *)
LEMMA ListenerKept ==
  ASSUME IInv, [Next]_vars, NEW f \in FDs, file[f] = Listener,
         \A t \in Ids : ~AcceptFails(t)
  PROVE  file'[f] = Listener
<1>1. \A g \in FDs : file \in [FDs -> Clients \cup {Free, Listener}] /\ Free # Listener
  BY Constants DEF IInv, TypeInv
<1>2. ASSUME NEW t \in Ids, Listen(t) \/ Accept(t) PROVE file'[f] = Listener
  <2>1. FreeFDs # {} /\ \E s : file' = [file EXCEPT ![NextFD] = s]
    BY <1>2, Zenon DEF Listen, Accept
  <2>2. NextFD # f
    BY <1>1, <2>1, NextIsFree DEF FreeFDs
  <2>3. QED
    BY <1>1, <2>1, <2>2
<1>3. ASSUME NEW t \in Ids, Destroy(t) PROVE file'[f] = Listener
  <2> DEFINE fds == {sock[t]} \cap FDs
  <2>1. Close(fds) /\ status[t] = "FINISHED"
    BY <1>3, Zenon DEF Destroy, Erase
  <2>2. fds \in SUBSET FDs /\ (f \in fds => sock[t] = f)
    BY Zenon
  <2>3. sock[t] # f
    <3> SUFFICES ASSUME sock[t] = f PROVE FALSE
      OBVIOUS
    <3>1. t = Acceptor
      BY DEF IInv, OwnerInv
    <3>2. QED
      BY <2>1, <3>1 DEF IInv, PlaceInv, HoldsSocket
  <2> HIDE DEF fds
  <2>4. QED
    BY <2>1, <2>2, <2>3, CloseTables DEF IInv
<1>4. ASSUME NEW t \in Ids, Spawn(t) PROVE file'[f] = Listener
  <2>1. CASE status[id] = "ABSENT"
    BY <1>4, <2>1 DEF Spawn, kernelVars
  <2>2. CASE status[id] # "ABSENT"
    <3>1. Close({Head(accepted)}) /\ accepted # <<>>
      BY <1>4, <2>2 DEF Spawn
    <3>2. Head(accepted) \in ToSet(accepted)
      BY <3>1, TailFacts DEF IInv, TypeInv
    <3>3. Head(accepted) \in FDs /\ Head(accepted) # f
      BY <3>2, AcceptedFacts, Constants
    <3>4. QED
      BY <3>1, <3>3, CloseTables DEF IInv
  <2>3. QED
    BY <2>1, <2>2
<1>5. ASSUME NEW t \in Ids, AcceptorStep(t) \/ HandlerStep(t) PROVE file'[f] = Listener
  <2>1. CASE BindFails(t) \/ ReadFails(t) \/ EmptyInput(t) \/ WriteFails(t) \/ Rethrown(t)
    <3>1. Throw(t)
      BY <2>1, Zenon DEF BindFails, ReadFails, EmptyInput, WriteFails, Rethrown
    <3>2. QED
      BY <3>1 DEF Throw, kernelVars
  <2>2. CASE AwaitClients(t) \/ ReadAgain(t) \/ WriteAgain(t) \/ SigPipe(t) \/ NoneToAccept(t)
    <3>1. UNCHANGED kernelVars
      BY <2>2, Zenon DEF AwaitClients, ReadAgain, WriteAgain, Await, SigPipe, NoneToAccept
    <3>2. QED
      BY <3>1 DEF kernelVars
  <2>3. CASE AddAcceptEvent(t) \/ AddReadEvent(t) \/ Dispatch(t) \/ Answered(t)
    BY <2>3, Zenon DEF AddAcceptEvent, AddReadEvent, Dispatch, Answered, AddEvent,
                       AppendWriteEvent, RemoveWriteEvent, Control
  <2>4. CASE Read(t) \/ Write(t)
    BY <2>4 DEF Read, Write
  <2>5. QED
    BY <1>2, <1>4, <1>5, <2>1, <2>2, <2>3, <2>4, Zenon DEF AcceptorStep, HandlerStep
<1>6. ASSUME NEW t \in Ids, Switch(t) PROVE file'[f] = Listener
  BY <1>6, Zenon DEF Switch, kernelVars
<1>7. ASSUME IteratorEnds \/ Poll PROVE file'[f] = Listener
  BY <1>7, Zenon DEF IteratorEnds, Poll, PollEvents, kernelVars
<1>8. ASSUME NEW c \in Clients, \/ Connect(c) \/ SendHeader(c) \/ ClientStep(c)
                                \/ Quit(c) \/ Restart(c) \/ Network(c)
      PROVE  file'[f] = Listener
  <2>1. UNCHANGED file
    BY <1>8, Zenon DEF Connect, Handshake, SendHeader, ClientStep, SendText, Receive, Disconnected,
                       Quit, Leave, Restart, Network, Deliver, ArriveFin, ArriveRst, kernelVars
  <2>2. QED
    BY <2>1
<1>9. CASE UNCHANGED vars
  BY <1>9 DEF vars, kernelVars
<1>10. QED
  BY <1>3, <1>5, <1>6, <1>7, <1>8, <1>9, Zenon DEF Next, Server

(* A server with one descriptor more than it can have connections goes on  *)
(* listening, whatever clients do: accept, which reports a lack of         *)
(* descriptors before a lack of connections, always finds one.             *)
THEOREM ListensForGood == Spec => ListenerStays
<1> DEFINE Stays == Cardinality(FDs) >= Cardinality(Clients) + 2 =>
                       (FDsOf(Listener) # {} => FDsOf(Listener)' # {})
<1>1. IInv /\ [Next]_vars => Stays
  <2> SUFFICES ASSUME IInv, [Next]_vars, NEW f \in FDs, file[f] = Listener,
                      Cardinality(FDs) >= Cardinality(Clients) + 2
               PROVE  FDsOf(Listener)' # {}
    BY DEF FDsOf
  <2>1. FreeFDs # {}
    BY RoomToAccept
  <2>2. file'[f] = Listener
    BY <2>1, ListenerKept DEF AcceptFails
  <2>3. QED
    BY <2>2 DEF FDsOf
<1>2. QED
  BY <1>1, Invariance, PTL DEF Spec, ListenerStays

-----------------------------------------------------------------------------
(* The streams.  What IInv leaves out: how many units of which message are *)
(* where, and which handler has them.                                      *)
Active(c)   == cpc[c] \in {"idle", "text", "wait"}
Serves(t,c) == pc[t] \in HandlerPCs /\ Client(t) = c
Unread(c)   == inbuf[c] + wire[c]
Coming(c)   == received[c] + outbuf[c]
Longest     == HeaderUnits + TextUnits
NoText      == ""

(* The request is on its way, read, or about to be answered; the answer is *)
(* being written, was written, or was read before the handler knows that   *)
(* it has written all of it.                                               *)
Requesting(t, c) ==
    /\ pc[t] \in {"start", "read", "dispatch"}
    /\ count[t] + Unread(c) = Sent(c) /\ Coming(c) = 0
    /\ pc[t] = "start" => count[t] = 0
    /\ pc[t] = "dispatch" => count[t] = Frame(req[c]) /\ input[t] = req[c]

Answering(t, c) ==
    /\ pc[t] = "write" /\ cpc[c] = "wait" /\ input[t] = req[c]
    /\ Unread(c) = 0 /\ Coming(c) = count[t]

Written(t, c) ==
    /\ pc[t] = "read" /\ count[t] = 0 /\ cpc[c] = "wait"
    /\ Unread(c) = 0 /\ Coming(c) = Response(req[c])

ReadFirst(t, c) ==
    /\ pc[t] = "write" /\ count[t] = Response(input[t])
    /\ Unread(c) = Sent(c) /\ Coming(c) = 0

Exchange(t, c) ==
    Requesting(t, c) \/ Answering(t, c) \/ Written(t, c) \/ ReadFirst(t, c)

(* A connection that nobody serves yet, and one that the server has closed. *)
Untouched(c) == Unread(c) = Sent(c) /\ Coming(c) = 0
Abandoned(c) == wire[c] <= Sent(c) /\ Coming(c) = 0

UnitsInv(c) ==
    /\ Unread(c) <= Longest /\ received[c] <= Longest
    /\ peer[c] \in {"none", "closed"} => inbuf[c] = 0
    /\ cpc[c] = "new" => Unread(c) = 0 /\ Coming(c) = 0
    /\ Active(c) /\ Coming(c) # 0 => answer[c] = Reply(req[c])

TrafficInv(c) ==
    Active(c) =>
      \/ /\ peer[c] = "up"
         /\ \A t \in Ids : Serves(t, c) => Exchange(t, c)
         /\ (\A t \in Ids : ~Serves(t, c)) => Untouched(c)
      \/ peer[c] = "closed" /\ Abandoned(c)

StreamInv(c) == UnitsInv(c) /\ TrafficInv(c)

HandlerInv(t) ==
    /\ count[t] <= Longest
    /\ pc[t] = "none" => count[t] = 0
    /\ pc[t] = "write" => input[t] # NoText /\ count[t] <= Response(input[t])
    /\ exception[t] \/ pc[t] = "rethrown" => peer[Client(t)] \in {"rst", "finrst"}
    /\ pc[t] \in HandlerPCs /\ status[t] = "FINISHED" =>
          pc[t] = "dispatch" \/ peer[Client(t)] # "up"

TextInv ==
    /\ input \in [Ids -> Commands \cup {NoText}]
    /\ req \in [Clients -> Commands \cup {NoText}]
    /\ answer \in [Clients -> {Reply(command) : command \in Commands} \cup {NoText}]

(* The inductive invariant of the streams, which needs IInv: each unit of  *)
(* an exchange is in one place, and its handler is at the place that goes  *)
(* with it.                                                                *)
FrameInv ==
    /\ TextInv
    /\ \A c \in Clients : StreamInv(c)
    /\ \A t \in Ids : HandlerInv(t)

(* The sizes of messages and answers. *)
LEMMA SizeFacts ==
  ASSUME NEW x
  PROVE  /\ HeaderUnits \in Nat \ {0} /\ TextUnits \in Nat \ {0}
         /\ Longest = HeaderUnits + TextUnits
         /\ Frame(x) = IF x = NoText THEN HeaderUnits ELSE Longest
         /\ Response(x) \in {0, Longest}
         /\ Response(x) # 0 => Frame(Reply(x)) = Response(x)
<1>1. HeaderUnits \in Nat \ {0} /\ TextUnits \in Nat \ {0}
  BY Constants
<1>2. ASSUME NEW y PROVE Frame(y) = IF y = NoText THEN HeaderUnits ELSE Longest
  <2> DEFINE n == IF y = NoText THEN 0 ELSE TextUnits
  <2>1. Frame(y) = HeaderUnits + n
    BY Zenon DEF Frame, NoText
  <2>2. HeaderUnits + n = IF y = NoText THEN HeaderUnits ELSE Longest
    BY <1>1 DEF Longest
  <2>3. QED
    BY <2>1, <2>2
<1>3. Response(x) = IF Reply(x) = NoText THEN 0 ELSE Longest
  <2>1. Response(x) = IF Reply(x) = NoText THEN 0 ELSE Frame(Reply(x))
    BY Zenon DEF Response, NoText
  <2>2. QED
    BY <1>2, <2>1
<1>4. Longest # 0
  BY <1>1 DEF Longest
<1>5. Response(x) # 0 => Frame(Reply(x)) = Response(x)
  BY <1>2, <1>3
<1>6. QED
  BY <1>1, <1>2, <1>3, <1>5 DEF Longest

(* What a client has sent of its request, by where it is. *)
LEMMA SentFacts ==
  ASSUME NEW c
  PROVE  /\ cpc[c] = "text" => Sent(c) = HeaderUnits
         /\ cpc[c] = "wait" => Sent(c) = Frame(req[c])
         /\ cpc[c] \notin {"text", "wait"} => Sent(c) = 0
         /\ Sent(c) \in 0 .. Longest
<1>1. /\ cpc[c] = "text" => Sent(c) = HeaderUnits
      /\ cpc[c] = "wait" => Sent(c) = Frame(req[c])
      /\ cpc[c] \notin {"text", "wait"} => Sent(c) = 0
  BY DEF Sent
<1>2. /\ HeaderUnits \in Nat /\ TextUnits \in Nat /\ Longest = HeaderUnits + TextUnits
      /\ Frame(req[c]) \in {HeaderUnits, Longest}
  BY SizeFacts
<1>3. HeaderUnits \in 0 .. Longest /\ Frame(req[c]) \in 0 .. Longest /\ 0 \in 0 .. Longest
  BY <1>2
<1>4. QED
  BY <1>1, <1>3

(* A transfer moves what there is and stops at the end of the message. *)
LEMMA TransferBound ==
  ASSUME NEW a \in Nat, NEW n \in Nat, NEW total \in Nat, total >= HeaderUnits,
         Least(a, Rest(n, total)) > 0
  PROVE  Least(a, Rest(n, total)) \in 1 .. a /\ n + Least(a, Rest(n, total)) \in 1 .. total
<1> DEFINE r == Rest(n, total)
<1>1. HeaderUnits \in Nat
  BY Constants
<1>2. r \in Int /\ n + r <= total
  BY <1>1 DEF Rest
<1> HIDE DEF r
<1>3. Least(a, r) > 0 => Least(a, r) \in 1..a /\ n + Least(a, r) \in 1..total
  BY <1>2 DEF Least
<1>4. QED
  BY <1>3 DEF r

(* A handler serves one client, and nobody else serves that. *)
OnlyHandler(u) ==
    /\ sock[u] \in FDs /\ Client(u) \in Clients /\ peer[Client(u)] \in Connected
    /\ u # Acceptor /\ sock[u] \notin ToSet(accepted) /\ Client(u) \notin ToSet(backlog)
    /\ \A t \in Ids : Serves(t, Client(u)) <=> t = u
    /\ \A f \in FDs : file[f] = Client(u) => f = sock[u]

(* A handler serves one client alone. *)
LEMMA HandlerFacts == \A u \in Ids : IInv /\ pc[u] \in HandlerPCs => OnlyHandler(u)
<1> SUFFICES ASSUME NEW u \in Ids, IInv, pc[u] \in HandlerPCs PROVE OnlyHandler(u)
  OBVIOUS
<1>1. sock[u] \in FDs /\ u # Acceptor
  BY DEF IInv, PlaceInv, HoldsSocket
<1>2. Client(u) \in Clients /\ sock[u] \notin ToSet(accepted)
  BY <1>1, SocketFacts DEF Client
<1>3. peer[Client(u)] \in Connected /\ Client(u) \notin ToSet(backlog)
  BY <1>1, <1>2 DEF IInv, ConnInv, Client
<1>4. \A f \in FDs : file[f] = Client(u) => f = sock[u]
  BY <1>1, <1>2, Constants DEF IInv, ConnInv, Client
<1>5. ASSUME NEW t \in Ids, Serves(t, Client(u)) PROVE t = u
  <2>1. sock[t] \in FDs /\ file[sock[t]] = Client(u)
    BY <1>5 DEF IInv, PlaceInv, HoldsSocket, Serves, Client
  <2>2. sock[t] = sock[u] /\ sock[u] # NoFD
    BY <1>1, <1>4, <2>1, Constants
  <2>3. QED
    BY <2>2 DEF IInv, OwnerInv
<1>6. Serves(u, Client(u))
  BY DEF Serves
<1>7. QED
  BY <1>1, <1>2, <1>3, <1>4, <1>5, <1>6 DEF OnlyHandler

(* The same, after a step. *)
LEMMA HandlerFactsAfter == \A u \in Ids : IInv' /\ pc'[u] \in HandlerPCs => OnlyHandler(u)'
<1>1. (\A u \in Ids : IInv /\ pc[u] \in HandlerPCs => OnlyHandler(u))'
  BY HandlerFacts, PTL
<1>2. QED
  BY <1>1

(* Units are counted in natural numbers. *)
LEMMA UnitFacts ==
  ASSUME IInv, NEW c \in Clients
  PROVE  /\ inbuf[c] \in Nat /\ wire[c] \in Nat /\ outbuf[c] \in Nat /\ received[c] \in Nat
         /\ outbuf[c] <= SndBuf /\ \A t \in Ids : count[t] \in Nat
  BY Constants DEF IInv, DataInv

(* A client's stream does not depend on what happens to others. *)
Same(c) ==
    /\ inbuf'[c] = inbuf[c] /\ wire'[c] = wire[c]
    /\ outbuf'[c] = outbuf[c] /\ received'[c] = received[c]
    /\ cpc'[c] = cpc[c] /\ req'[c] = req[c] /\ answer'[c] = answer[c]

SameHandler(t) ==
    /\ pc'[t] \in HandlerPCs <=> pc[t] \in HandlerPCs
    /\ pc[t] \in HandlerPCs =>
          pc'[t] = pc[t] /\ count'[t] = count[t] /\ input'[t] = input[t] /\ Client(t)' = Client(t)

(* The sums over a stream that did not move. *)
LEMMA SameUnits ==
  ASSUME NEW c, Same(c)
  PROVE  /\ Unread(c)' = Unread(c) /\ Coming(c)' = Coming(c)
         /\ Sent(c)' = Sent(c) /\ Active(c)' = Active(c)
<1>1. Sent(c)' = Sent(c)
  BY DEF Same, Sent, Frame
<1>2. QED
  BY <1>1 DEF Same, Unread, Coming, Active

(* The state of an exchange that did not move. *)
LEMMA SameExchange ==
  ASSUME NEW c, Same(c), NEW t, Exchange(t, c),
         pc'[t] = pc[t], count'[t] = count[t], input'[t] = input[t]
  PROVE  Exchange(t, c)'
<1>1. Unread(c)' = Unread(c) /\ Coming(c)' = Coming(c) /\ Sent(c)' = Sent(c)
  BY SameUnits
<1>2. Frame(req[c])' = Frame(req[c]) /\ Response(req[c])' = Response(req[c])
      /\ Response(input[t])' = Response(input[t])
  BY DEF Same
<1>3. QED
  BY <1>1, <1>2 DEF Exchange, Requesting, Answering, Written, ReadFirst, Same

(* A stream that moved neither by its client nor by its handler. *)
LEMMA StreamKept ==
  ASSUME NEW c, StreamInv(c), Same(c), peer'[c] = peer[c],
         Active(c) => \A t \in Ids : Serves(t, c) \/ Serves(t, c)' => SameHandler(t)
  PROVE  StreamInv(c)'
<1>1. Unread(c)' = Unread(c) /\ Coming(c)' = Coming(c) /\ Sent(c)' = Sent(c)
      /\ Active(c)' = Active(c)
  BY SameUnits
<1>2. UnitsInv(c)'
  <2>1. Reply(req[c])' = Reply(req[c])
    BY DEF Same
  <2>2. QED
    BY <1>1, <2>1 DEF StreamInv, UnitsInv, Same
<1>3. TrafficInv(c)'
  <2> SUFFICES ASSUME Active(c) PROVE TrafficInv(c)'
    BY <1>1 DEF TrafficInv
  <2>1. Untouched(c)' = Untouched(c) /\ Abandoned(c)' = Abandoned(c)
    BY <1>1 DEF Untouched, Abandoned, Same
  <2>2. \A t \in Ids : Serves(t, c)' <=> Serves(t, c)
    BY DEF SameHandler, Serves
  <2>3. ASSUME NEW t \in Ids, Serves(t, c), Exchange(t, c) PROVE Exchange(t, c)'
    BY <2>3, SameExchange DEF SameHandler, Serves
  <2>4. QED
    BY <2>1, <2>2, <2>3 DEF StreamInv, TrafficInv
<1>4. QED
  BY <1>2, <1>3 DEF StreamInv

(* What a handler must not lose while others go on. *)
LEMMA HandlerKept ==
  ASSUME NEW t \in Ids, HandlerInv(t), PlaceInv(t), PlaceInv(t)',
         pc'[t] = pc[t], count'[t] = count[t], input'[t] = input[t],
         exception'[t] => exception[t], status'[t] = "FINISHED" => status[t] = "FINISHED",
         pc[t] \in HandlerPCs =>
            /\ Client(t)' = Client(t)
            /\ peer[Client(t)] # "up" => peer'[Client(t)] # "up"
            /\ peer[Client(t)] \in {"rst", "finrst"} => peer'[Client(t)] = peer[Client(t)]
  PROVE  HandlerInv(t)'
<1>1. Response(input[t])' = Response(input[t])
  OBVIOUS
<1>2. exception'[t] \/ pc[t] = "rethrown" => pc[t] \in HandlerPCs
  BY DEF PlaceInv, HandlerPCs
<1>3. QED
  BY <1>1, <1>2 DEF HandlerInv

(* Steps that move no unit and no handler. *)
LEMMA StillKept ==
  ASSUME IInv, IInv', FrameInv, UNCHANGED <<connVars, clientVars, count, input>>,
         \A f \in FDs : file[f] \in Clients => file'[f] = file[f],
         \A t \in Ids : /\ pc'[t] \in HandlerPCs <=> pc[t] \in HandlerPCs
                        /\ pc[t] \in HandlerPCs => pc'[t] = pc[t] /\ sock'[t] = sock[t]
                        /\ pc'[t] = "none" => pc[t] = "none"
                        /\ exception'[t] => exception[t] \/ Hangup(sock[t])
                        /\ status'[t] = "FINISHED" =>
                              \/ status[t] = "FINISHED"
                              \/ pc[t] \in HandlerPCs =>
                                    pc[t] = "dispatch" \/ peer[Client(t)] # "up"
  PROVE  FrameInv'
<1>1. UNCHANGED <<peer, wire, inbuf, outbuf, cpc, req, answer, received>>
  BY DEF connVars, clientVars
<1>2. ASSUME NEW t \in Ids, pc[t] \in HandlerPCs
      PROVE  Client(t)' = Client(t) /\ Client(t) = file[sock[t]]
  <2>1. sock[t] \in FDs /\ file[sock[t]] \in Clients
    BY <1>2, HandlerFacts DEF OnlyHandler, Client
  <2>2. file'[sock[t]] = file[sock[t]] /\ sock'[t] = sock[t]
    BY <1>2, <2>1
  <2>3. QED
    BY <2>2 DEF Client
<1>3. \A t \in Ids : SameHandler(t)
  BY <1>2 DEF SameHandler
<1>4. \A c \in Clients : StreamInv(c)'
  BY <1>1, <1>3, StreamKept DEF Same, FrameInv
<1>5. ASSUME NEW t \in Ids PROVE HandlerInv(t)'
  <2>1. HandlerInv(t) /\ PlaceInv(t)'
    BY DEF FrameInv, IInv
  <2>2. /\ Response(input[t])' = Response(input[t])
        /\ exception'[t] \/ pc'[t] = "rethrown" => pc[t] \in HandlerPCs
        /\ pc'[t] = "write" => pc[t] = "write"
    BY <2>1 DEF PlaceInv, HandlerPCs
  <2>3. exception'[t] \/ pc'[t] = "rethrown" => peer'[Client(t)'] \in {"rst", "finrst"}
    <3>1. CASE exception'[t] /\ ~exception[t]
      <4>1. Hangup(sock[t]) /\ pc[t] \in HandlerPCs
        BY <2>2, <3>1
      <4>2. QED
        BY <1>1, <1>2, <4>1 DEF Hangup
    <3>2. CASE exception[t] \/ pc'[t] = "rethrown"
      BY <1>1, <1>2, <2>1, <2>2, <3>2 DEF HandlerInv, HandlerPCs, PlaceInv, IInv
    <3>3. QED
      BY <3>1, <3>2
  <2>4. pc'[t] \in HandlerPCs /\ status'[t] = "FINISHED" =>
           pc'[t] = "dispatch" \/ peer'[Client(t)'] # "up"
    BY <1>1, <1>2, <2>1 DEF HandlerInv
  <2>5. QED
    BY <2>1, <2>2, <2>3, <2>4 DEF HandlerInv
<1>6. TextInv'
  BY <1>1 DEF FrameInv, TextInv
<1>7. QED
  BY <1>4, <1>5, <1>6 DEF FrameInv

(* A handler goes on, and changes at most the stream of its own client. *)
LEMMA HandlerMoves ==
  ASSUME IInv, IInv', FrameInv, NEW u \in Ids, pc[u] \in HandlerPCs, pc'[u] \in HandlerPCs,
         UNCHANGED <<file, sock, peer>>,
         \A t \in Ids : /\ t # u => pc'[t] = pc[t] /\ count'[t] = count[t] /\ input'[t] = input[t]
                        /\ exception'[t] => exception[t]
                        /\ status'[t] = "FINISHED" => status[t] = "FINISHED",
         \A c \in Clients : c # Client(u) => Same(c),
         UnitsInv(Client(u))',
         Active(Client(u))' => peer[Client(u)] = "up" /\ Exchange(u, Client(u))',
         HandlerInv(u)', TextInv'
  PROVE  FrameInv'
<1>1. \A t \in Ids : Client(t)' = Client(t)
  BY DEF Client
<1>2. Client(u) \in Clients /\ \A t \in Ids : Serves(t, Client(u)) <=> t = u
  BY HandlerFacts DEF OnlyHandler
<1>3. \A t \in Ids : Serves(t, Client(u))' <=> t = u
  BY <1>1, HandlerFactsAfter DEF OnlyHandler, Serves
<1>4. StreamInv(Client(u))'
  BY <1>1, <1>2, <1>3 DEF StreamInv, TrafficInv
<1>5. ASSUME NEW c \in Clients, c # Client(u) PROVE StreamInv(c)'
  <2>1. \A t \in Ids : Serves(t, c) \/ Serves(t, c)' => t # u
    BY <1>1, <1>5 DEF Serves
  <2>2. \A t \in Ids : t # u => SameHandler(t)
    BY <1>1 DEF SameHandler
  <2>3. QED
    BY <1>5, <2>1, <2>2, StreamKept DEF FrameInv
<1>6. ASSUME NEW t \in Ids, t # u PROVE HandlerInv(t)'
  BY <1>1, <1>6, HandlerKept DEF FrameInv, IInv
<1>7. \A c \in Clients : StreamInv(c)'
  BY <1>1, <1>4, <1>5
<1>8. QED
  BY <1>6, <1>7 DEF FrameInv

(* The scheduler's own steps, and those of the coroutines that only        *)
(* suspend, end or place their caller.                                     *)
LEMMA SwitchFlows ==
  ASSUME IInv, IInv', FrameInv, NEW u \in Ids, Switch(u)
  PROVE  FrameInv'
<1>1. SchedInv /\ TypeInv /\ PlaceInv(u) /\ HandlerInv(u)
  BY SchedFacts DEF IInv, FrameInv
<1>2. /\ status' = [status EXCEPT ![u] = "RUNNING"]
      /\ exception' = [exception EXCEPT ![u] = @ /\ status[u] = "CREATED"]
      /\ UNCHANGED <<kernelVars, sock, count, input, accepted, clientVars>>
      /\ pc' = IF status[u] # "CREATED" /\ exception[u]
               THEN [pc EXCEPT ![u] = "rethrown"] ELSE pc
  BY DEF Switch, Resume
<1>3. \A t \in Ids : /\ exception'[t] => exception[t]
                     /\ status'[t] = "FINISHED" => status[t] = "FINISHED"
                     /\ t # u => pc'[t] = pc[t]
  BY <1>1, <1>2 DEF SchedInv, TypeInv
<1>4. UNCHANGED <<file, peer, wire, inbuf, outbuf, connVars, cpc, req, answer, received>>
  BY <1>2 DEF kernelVars, connVars, clientVars
<1>5. CASE status[u] # "CREATED" /\ exception[u]
  <2>1. pc[u] \in HandlerPCs /\ pc'[u] = "rethrown" /\ pc'[u] \in HandlerPCs /\ status'[u] # "FINISHED"
    BY <1>1, <1>2, <1>5 DEF PlaceInv, HandlerPCs, TypeInv, SchedInv
  <2> PICK c0 \in {Client(u)} : TRUE
    OBVIOUS
  <2>2. Client(u)' = c0 /\ c0 \in Clients /\ peer[c0] \in {"rst", "finrst"}
    BY <1>1, <1>2, <1>4, <1>5, <2>1, HandlerFacts DEF Client, OnlyHandler, HandlerInv
  <2>3. \A c \in Clients : Same(c)
    BY <1>4 DEF Same
  <2>4. UnitsInv(c0) /\ ~Active(c0)
    BY <2>2 DEF FrameInv, StreamInv, TrafficInv
  <2>5. Unread(c0)' = Unread(c0) /\ Coming(c0)' = Coming(c0) /\ ~Active(c0)'
    BY <2>2, <2>3, <2>4, SameUnits
  <2>6. UnitsInv(c0)'
    BY <1>4, <2>4, <2>5 DEF UnitsInv
  <2>7. HandlerInv(u)'
    BY <1>1, <1>2, <1>4, <2>1, <2>2 DEF HandlerInv
  <2>8. UnitsInv(Client(u))' /\ ~Active(Client(u))'
    BY <2>2, <2>5, <2>6 DEF UnitsInv, Active, Unread, Coming
  <2>9. \A t \in Ids : t # u => pc'[t] = pc[t] /\ count'[t] = count[t] /\ input'[t] = input[t]
    BY <1>2, <1>3
  <2>10. TextInv'
    BY <1>2, <1>4 DEF FrameInv, TextInv
  <2>11. QED
    BY <1>2, <1>3, <1>4, <2>1, <2>3, <2>7, <2>8, <2>9, <2>10, HandlerMoves
<1>6. CASE ~(status[u] # "CREATED" /\ exception[u])
  BY <1>2, <1>3, <1>4, <1>6, StillKept
<1>7. QED
  BY <1>5, <1>6

(* Poll throws into the coroutines of connections that were reset only. *)
LEMMA PollFlows ==
  ASSUME IInv, IInv', FrameInv, Poll
  PROVE  FrameInv'
<1> DEFINE failed == {coro[f] : f \in Failed}
<1>1. SchedInv
  BY SchedFacts DEF IInv
<1>2. ProcessEvents({coro[f] : f \in Batch}, failed) /\ PollEvents
      /\ UNCHANGED <<coroVars, clientVars>>
  BY DEF Poll
<1>3. \A t \in failed : Hangup(sock[t])
  <2>1. Failed \subseteq Registered
    BY <1>2, PollFacts DEF IInv
  <2>2. QED
    BY <2>1 DEF IInv, RegInv, Failed
<1> HIDE DEF failed
<1>4. \A t \in Ids : exception'[t] => exception[t] \/ t \in failed
  BY <1>2 DEF ProcessEvents
<1>5. \A t \in Ids : status'[t] = "FINISHED" => status[t] = "FINISHED"
  BY <1>1, <1>2 DEF ProcessEvents, SchedInv
<1>6. UNCHANGED <<file, connVars, clientVars, pc, sock, count, input>>
  BY <1>2 DEF PollEvents, coroVars
<1>7. QED
  BY <1>3, <1>4, <1>5, <1>6, StillKept

(* A coroutine ends; a handler only when its connection is down or its     *)
(* input is empty.                                                         *)
LEMMA EndFlows ==
  ASSUME IInv, IInv', FrameInv, NEW u \in Ids, Throw(u),
         pc[u] \in HandlerPCs => pc[u] = "dispatch" \/ peer[Client(u)] # "up"
  PROVE  FrameInv'
<1>1. SchedInv
  BY SchedFacts DEF IInv
<1>2. /\ status' = [status EXCEPT ![u] = "FINISHED"] /\ exception' = exception
      /\ UNCHANGED <<kernelVars, coroVars, clientVars>>
  BY DEF Throw, Return
<1>3. UNCHANGED <<file, connVars, clientVars, pc, sock, count, input>>
  BY <1>2 DEF kernelVars, coroVars
<1>4. \A t \in Ids : status'[t] = "FINISHED" => status[t] = "FINISHED" \/ t = u
  BY <1>1, <1>2 DEF SchedInv
<1>5. QED
  BY <1>2, <1>3, <1>4, StillKept

(* The steps that change neither a stream nor a handler. *)
LEMMA StillFlows ==
  ASSUME IInv, IInv', FrameInv,
         \/ IteratorEnds
         \/ \E u \in Ids : Await(u) \/ SigPipe(u)
         \/ UNCHANGED vars
  PROVE  FrameInv'
<1>1. SchedInv
  BY SchedFacts DEF IInv
<1>2. UNCHANGED <<kernelVars, coroVars, clientVars, exception>>
  BY Zenon DEF IteratorEnds, EndPass, Await, Yield, SigPipe, Kill, vars, schedVars
<1>3. \A t \in Ids : status'[t] = "FINISHED" => status[t] = "FINISHED"
  BY <1>1 DEF IteratorEnds, EndPass, Await, Yield, SigPipe, Kill, vars, schedVars, SchedInv
<1>4. UNCHANGED <<file, connVars, clientVars, pc, sock, count, input>>
  BY <1>2 DEF kernelVars, coroVars
<1>5. QED
  BY <1>2, <1>3, <1>4, StillKept

(* The acceptor, which touches no handler and no unit. *)
LEMMA AcceptorFlows ==
  ASSUME IInv, IInv', FrameInv, NEW u \in Ids,
         Listen(u) \/ AddAcceptEvent(u) \/ AwaitClients(u) \/ Accept(u) \/ NoneToAccept(u)
  PROVE  FrameInv'
<1>1. SchedInv /\ TypeInv
  BY SchedFacts DEF IInv
<1>2. /\ UNCHANGED <<connVars, clientVars, count, input, exception>>
      /\ pc[u] \in AcceptorPCs /\ \E p \in AcceptorPCs : pc' = [pc EXCEPT ![u] = p]
  <2>1. CASE Listen(u)
    BY <2>1, Zenon DEF Listen, schedVars, AcceptorPCs
  <2>2. CASE AddAcceptEvent(u)
    BY <2>2, Zenon DEF AddAcceptEvent, AddEvent, Control, schedVars, AcceptorPCs
  <2>3. CASE AwaitClients(u)
    BY <2>3, Zenon DEF AwaitClients, Yield, kernelVars, AcceptorPCs
  <2>4. CASE Accept(u)
    <3>1. pc' = [pc EXCEPT ![u] = "accept"]
      BY <1>1, <2>4 DEF Accept, TypeInv
    <3>2. QED
      BY <2>4, <3>1 DEF Accept, schedVars, AcceptorPCs
  <2>5. CASE NoneToAccept(u)
    BY <2>5, Zenon DEF NoneToAccept, schedVars, kernelVars, AcceptorPCs
  <2>6. QED
    BY <2>1, <2>2, <2>3, <2>4, <2>5
<1>3. \A t \in Ids : t # u => sock'[t] = sock[t]
  BY <1>1, Zenon DEF Listen, AddAcceptEvent, AwaitClients, Accept, NoneToAccept, TypeInv
<1>4. \A t \in Ids : status'[t] = "FINISHED" => status[t] = "FINISHED"
  BY <1>1 DEF Listen, AddAcceptEvent, AwaitClients, Accept, NoneToAccept, Yield, schedVars, SchedInv
<1>5. ASSUME NEW f \in FDs, file[f] \in Clients PROVE file'[f] = file[f]
  <2>1. CASE Listen(u) \/ Accept(u)
    <3>1. NextFD # f /\ \E s : file' = [file EXCEPT ![NextFD] = s]
      BY <1>5, <2>1, NextIsFree, Constants DEF Listen, Accept, FreeFDs
    <3>2. QED
      BY <1>1, <3>1 DEF TypeInv
  <2>2. CASE AddAcceptEvent(u) \/ AwaitClients(u) \/ NoneToAccept(u)
    BY <2>2, Zenon DEF AddAcceptEvent, AddEvent, Control, AwaitClients, NoneToAccept, kernelVars
  <2>3. QED
    BY <2>1, <2>2
<1>6. \A t \in Ids : /\ pc'[t] \in HandlerPCs <=> pc[t] \in HandlerPCs
                     /\ pc[t] \in HandlerPCs => t # u /\ pc'[t] = pc[t]
                     /\ pc'[t] = "none" => pc[t] = "none"
  BY <1>1, <1>2 DEF TypeInv, AcceptorPCs, HandlerPCs
<1>7. QED
  BY <1>2, <1>3, <1>4, <1>5, <1>6, StillKept

(* The client of a handler. *)
LEMMA HandlerStream ==
  ASSUME IInv, FrameInv, NEW u \in Ids, pc[u] \in HandlerPCs
  PROVE  /\ Client(u) \in Clients /\ UnitsInv(Client(u)) /\ HandlerInv(u)
         /\ Active(Client(u)) => peer[Client(u)] = "up" /\ Exchange(u, Client(u))
<1>1. Client(u) \in Clients /\ Serves(u, Client(u)) /\ peer[Client(u)] # "closed"
  BY HandlerFacts DEF OnlyHandler, Connected
<1>2. QED
  BY <1>1 DEF FrameInv, StreamInv, TrafficInv

(* The bounds of a stream that did not move. *)
LEMMA UnitsKept ==
  ASSUME NEW c, UnitsInv(c), Same(c), peer'[c] = peer[c]
  PROVE  UnitsInv(c)'
<1>1. Unread(c)' = Unread(c) /\ Coming(c)' = Coming(c) /\ Active(c)' = Active(c)
  BY SameUnits
<1>2. Reply(req[c])' = Reply(req[c])
  BY DEF Same
<1>3. QED
  BY <1>1, <1>2 DEF UnitsInv, Same

(* A handler registers, begins to answer, and waits for the next request. *)
LEMMA MaskFlows ==
  ASSUME IInv, IInv', FrameInv, NEW u \in Ids, AddReadEvent(u) \/ Dispatch(u) \/ Answered(u)
  PROVE  FrameInv'
<1>1. SchedInv /\ TypeInv
  BY SchedFacts DEF IInv
<1>2. /\ UNCHANGED <<schedVars, sock, accepted, clientVars>>
      /\ status[u] = "RUNNING" /\ UNCHANGED <<file, backlog, connVars>>
  BY Zenon DEF AddReadEvent, Dispatch, Answered, Executes, AddEvent, AppendWriteEvent,
               RemoveWriteEvent, Control
<1>3. /\ UNCHANGED <<peer, wire, inbuf, outbuf, cpc, req, answer, received, status, exception>>
  BY <1>2 DEF connVars, clientVars, schedVars
<1>4. \/ /\ pc[u] = "start" /\ pc' = [pc EXCEPT ![u] = "read"] /\ UNCHANGED <<count, input>>
      \/ /\ pc[u] = "dispatch" /\ input[u] # NoText /\ pc' = [pc EXCEPT ![u] = "write"]
         /\ count' = [count EXCEPT ![u] = 0] /\ UNCHANGED input
      \/ /\ pc[u] = "write" /\ count[u] = Response(input[u]) /\ pc' = [pc EXCEPT ![u] = "read"]
         /\ count' = [count EXCEPT ![u] = 0] /\ input' = [input EXCEPT ![u] = NoText]
  <2>1. CASE AddReadEvent(u)
    BY <2>1, Zenon DEF AddReadEvent
  <2>2. CASE Dispatch(u)
    BY <2>2, Zenon DEF Dispatch, NoText
  <2>3. CASE Answered(u)
    BY <2>3, Zenon DEF Answered, NoText
  <2>4. QED
    BY <2>1, <2>2, <2>3
<1>5. count \in [Ids -> Nat] /\ input \in [Ids -> Commands \cup {NoText}]
  BY DEF FrameInv, TextInv, IInv, DataInv
<1>6. pc[u] \in HandlerPCs /\ pc'[u] \in HandlerPCs
      /\ pc'[u] = (IF pc[u] = "dispatch" THEN "write" ELSE "read")
      /\ \A t \in Ids : t # u => pc'[t] = pc[t] /\ count'[t] = count[t] /\ input'[t] = input[t]
  BY <1>1, <1>4, <1>5 DEF TypeInv, HandlerPCs
<1>7. PICK c0 \in {Client(u)} : TRUE
  OBVIOUS
<1>8. /\ c0 \in Clients /\ UnitsInv(c0) /\ HandlerInv(u) /\ Client(u)' = c0 /\ Client(u) = c0
      /\ Active(c0) => peer[c0] = "up" /\ Exchange(u, c0)
  BY <1>2, <1>3, <1>6, <1>7, HandlerStream DEF Client
<1>9. \A c \in Clients : Same(c)
  BY <1>3 DEF Same
<1>10. /\ UnitsInv(c0)' /\ Active(c0)' = Active(c0) /\ Sent(c0)' = Sent(c0)
      /\ Unread(c0)' = Unread(c0) /\ Coming(c0)' = Coming(c0)
      /\ Unread(c0) \in Nat /\ Sent(c0) \in Nat /\ count[u] \in Nat
  BY <1>3, <1>8, <1>9, SameUnits, UnitsKept, UnitFacts, SentFacts DEF Unread
<1>11. ASSUME Active(c0) PROVE Exchange(u, c0)'
  <2>1. CASE pc[u] = "start"
    <3>1. Requesting(u, c0) /\ count'[u] = 0 /\ count[u] = 0 /\ pc'[u] = "read"
      BY <1>4, <1>6, <1>8, <1>11, <2>1 DEF Exchange, Requesting, Answering, Written, ReadFirst
    <3>2. Requesting(u, c0)'
      BY <1>10, <3>1 DEF Requesting
    <3>3. QED
      BY <3>2 DEF Exchange
  <2>2. CASE pc[u] = "dispatch"
    <3>1. Requesting(u, c0) /\ count'[u] = 0 /\ pc'[u] = "write" /\ input'[u] = input[u]
          /\ input[u] # NoText
      BY <1>4, <1>6, <1>8, <1>5, <1>11, <2>2 DEF Exchange, Requesting, Answering, Written, ReadFirst
    <3>2. input[u] = req[c0] /\ count[u] = Longest /\ count[u] + Unread(c0) = Sent(c0)
      BY <2>2, <3>1, SizeFacts DEF Requesting
    <3>3. /\ HeaderUnits \in Nat \ {0} /\ TextUnits \in Nat \ {0}
          /\ Longest = HeaderUnits + TextUnits
          /\ cpc[c0] = "text" => Sent(c0) = HeaderUnits
          /\ cpc[c0] \notin {"text", "wait"} => Sent(c0) = 0
          /\ Sent(c0) <= Longest
      BY <1>10, SizeFacts, SentFacts
    <3>4. cpc[c0] = "wait" /\ Unread(c0) = 0
      BY <1>10, <3>2, <3>3
    <3>5. Answering(u, c0)'
      BY <1>3, <1>10, <3>1, <3>2, <3>4 DEF Answering, Requesting
    <3>6. QED
      BY <3>5 DEF Exchange
  <2>3. CASE pc[u] = "write"
    <3>1. count'[u] = 0 /\ pc'[u] = "read" /\ count[u] = Response(input[u])
      BY <1>4, <1>6, <1>5, <2>3
    <3>2. CASE Answering(u, c0)
      <4>1. Response(req[c0])' = Response(req[c0])
        BY <1>3
      <4>2. Written(u, c0)'
        BY <1>3, <1>10, <3>1, <3>2, <4>1 DEF Answering, Written
      <4>3. QED
        BY <4>2 DEF Exchange
    <3>3. CASE ReadFirst(u, c0)
      <4>1. Requesting(u, c0)'
        BY <1>10, <3>1, <3>3 DEF ReadFirst, Requesting
      <4>2. QED
        BY <4>1 DEF Exchange
    <3>4. QED
      BY <1>8, <1>11, <2>3, <3>2, <3>3 DEF Exchange, Requesting, Written
  <2>4. QED
    BY <1>4, <2>1, <2>2, <2>3
<1>12. HandlerInv(u)'
  <2>1. count'[u] <= Longest
    BY <1>4, <1>5, <1>8, SizeFacts DEF HandlerInv
  <2>2. pc'[u] = "write" => input'[u] # NoText /\ count'[u] = 0
    BY <1>4, <1>6, <1>5
  <2>3. count'[u] = 0 => count'[u] <= Response(input[u])'
    BY SizeFacts
  <2>4. exception'[u] => peer'[Client(u)'] \in {"rst", "finrst"}
    BY <1>3, <1>8 DEF HandlerInv
  <2>5. status'[u] # "FINISHED" /\ pc'[u] \in {"read", "write"}
    BY <1>2, <1>3, <1>6
  <2>6. QED
    BY <2>1, <2>2, <2>3, <2>4, <2>5 DEF HandlerInv
<1>13. Active(Client(u))' => peer[Client(u)] = "up" /\ Exchange(u, Client(u))'
  BY <1>8, <1>10, <1>11 DEF Active, Exchange, Requesting, Answering, Written, ReadFirst
<1>14. TextInv'
  BY <1>2, <1>3, <1>4 DEF FrameInv, TextInv
<1>15. UnitsInv(Client(u))'
  BY <1>8, <1>10 DEF UnitsInv
<1>16. QED
  BY <1>2, <1>3, <1>6, <1>9, <1>12, <1>13, <1>14, <1>15, HandlerMoves

(* A handler reads a part of its client's request. *)
LEMMA ReadFlows ==
  ASSUME IInv, IInv', FrameInv, NEW u \in Ids, Read(u)
  PROVE  FrameInv'
<1> DEFINE n == Least(inbuf[Client(u)], Rest(count[u], Frame(req[Client(u)])))
<1>1. /\ pc[u] = "read" /\ n > 0 /\ Executes(u)
      /\ inbuf' = [inbuf EXCEPT ![Client(u)] = @ - n]
      /\ count' = [count EXCEPT ![u] = @ + n]
      /\ \/ /\ count[u] + n = Frame(req[Client(u)])
            /\ pc' = [pc EXCEPT ![u] = "dispatch"]
            /\ input' = [input EXCEPT ![u] = req[Client(u)]]
         \/ UNCHANGED <<pc, input>>
      /\ UNCHANGED <<schedVars, file, backlog, peer, wire, outbuf, epollVars,
                     sock, accepted, clientVars>>
  BY DEF Read
<1>2. PICK c0 \in {Client(u)} : TRUE
  OBVIOUS
<1>3. /\ c0 \in Clients /\ UnitsInv(c0) /\ HandlerInv(u) /\ Client(u)' = c0 /\ Client(u) = c0
      /\ Active(c0) => peer[c0] = "up" /\ Exchange(u, c0)
      /\ peer[c0] \in Connected
  BY <1>1, <1>2, HandlerStream, HandlerFacts DEF Client, HandlerPCs, OnlyHandler
<1>4. /\ inbuf \in [Clients -> Nat] /\ wire[c0] \in Nat /\ inbuf[c0] \in Nat
      /\ count \in [Ids -> Nat] /\ count[u] \in Nat /\ TextInv
      /\ pc \in [Ids -> AcceptorPCs \cup HandlerPCs \cup {"none"}]
  BY <1>3 DEF IInv, DataInv, TypeInv, FrameInv
<1>5. /\ HeaderUnits \in Nat /\ Longest \in Nat /\ Frame(req[c0]) \in Nat
      /\ HeaderUnits <= Frame(req[c0]) /\ Frame(req[c0]) <= Longest
  <2>1. /\ HeaderUnits \in Nat /\ TextUnits \in Nat /\ Longest = HeaderUnits + TextUnits
        /\ Frame(req[c0]) \in {HeaderUnits, Longest}
    BY SizeFacts
  <2>2. QED
    BY <2>1
<1>6. n \in 1 .. inbuf[c0] /\ count[u] + n <= Frame(req[c0])
  BY <1>1, <1>3, <1>4, <1>5, TransferBound
<1> HIDE DEF n
<1>7. UNCHANGED <<wire, outbuf, cpc, req, answer, received, status, exception>>
  BY <1>1 DEF clientVars, schedVars
<1>8. /\ inbuf'[c0] = inbuf[c0] - n /\ \A c \in Clients : c # c0 => Same(c)
  BY <1>1, <1>3, <1>4, <1>7 DEF Same
<1>9. /\ count'[u] = count[u] + n /\ pc'[u] \in {"read", "dispatch"}
      /\ pc'[u] = "dispatch" => count'[u] = Frame(req[c0]) /\ input'[u] = req[c0]
      /\ \A t \in Ids : t # u => pc'[t] = pc[t] /\ count'[t] = count[t] /\ input'[t] = input[t]
      /\ TextInv'
  BY <1>1, <1>3, <1>4, <1>7 DEF TextInv
<1>10. /\ Unread(c0)' = Unread(c0) - n /\ Unread(c0) \in Nat /\ n \in 1 .. Unread(c0)
       /\ Coming(c0)' = Coming(c0) /\ Sent(c0)' = Sent(c0) /\ Active(c0)' = Active(c0)
       /\ Frame(req[c0])' = Frame(req[c0])
  <2>1. Frame(req[c0])' = Frame(req[c0])
    BY <1>7
  <2>2. Sent(c0)' = Sent(c0)
    BY <1>7, <2>1 DEF Sent
  <2>3. QED
    BY <1>4, <1>6, <1>7, <1>8, <2>1, <2>2 DEF Unread, Coming, Active
<1>11. UnitsInv(c0)'
  <2>1. cpc[c0] # "new"
    BY <1>3 DEF IInv, ConnInv, Connected
  <2>2. Unread(c0)' <= Longest
    BY <1>3, <1>5, <1>10 DEF UnitsInv
  <2>3. Reply(req[c0])' = Reply(req[c0])
    BY <1>7
  <2>4. QED
    BY <1>1, <1>3, <1>7, <1>10, <2>1, <2>2, <2>3 DEF UnitsInv, Connected
<1>12. ASSUME Active(c0) PROVE Exchange(u, c0)'
  <2>1. Requesting(u, c0)
    BY <1>1, <1>3, <1>10, <1>12 DEF Exchange, Answering, Written, ReadFirst
  <2>2. count'[u] + Unread(c0)' = count[u] + Unread(c0)
    BY <1>4, <1>6, <1>9, <1>10
  <2>3. Requesting(u, c0)'
    BY <1>7, <1>9, <1>10, <2>1, <2>2 DEF Requesting
  <2>4. QED
    BY <2>3 DEF Exchange
<1>13. HandlerInv(u)'
  <2>1. count'[u] <= Longest
    BY <1>4, <1>5, <1>6, <1>9
  <2>2. exception'[u] => peer'[Client(u)'] \in {"rst", "finrst"}
    BY <1>1, <1>3, <1>7 DEF HandlerInv
  <2>3. status'[u] # "FINISHED"
    BY <1>1, <1>7 DEF Executes
  <2>4. QED
    BY <1>9, <2>1, <2>2, <2>3 DEF HandlerInv
<1>14. Active(Client(u))' => peer[Client(u)] = "up" /\ Exchange(u, Client(u))'
  BY <1>3, <1>10, <1>12 DEF Active, Exchange, Requesting, Answering, Written, ReadFirst
<1>15. UnitsInv(Client(u))'
  BY <1>3, <1>11 DEF UnitsInv
<1>16. pc[u] \in HandlerPCs /\ pc'[u] \in HandlerPCs
  BY <1>1, <1>9 DEF HandlerPCs
<1>17. QED
  BY <1>1, <1>3, <1>7, <1>8, <1>9, <1>13, <1>14, <1>15, <1>16, HandlerMoves

(* A handler writes a part of its answer. *)
LEMMA WriteFlows ==
  ASSUME IInv, IInv', FrameInv, NEW u \in Ids, Write(u)
  PROVE  FrameInv'
<1> DEFINE n == Least(SndBuf - outbuf[Client(u)], Rest(count[u], Response(input[u])))
<1>1. /\ pc[u] = "write" /\ count[u] < Response(input[u]) /\ n > 0 /\ Executes(u)
      /\ outbuf' = [outbuf EXCEPT ![Client(u)] = @ + n]
      /\ count' = [count EXCEPT ![u] = @ + n]
      /\ answer' = [answer EXCEPT ![Client(u)] = Reply(input[u])]
      /\ UNCHANGED <<schedVars, file, backlog, peer, wire, inbuf, epollVars,
                     pc, sock, input, accepted, cpc, req, received>>
  BY DEF Write, Writes
<1>2. PICK c0 \in {Client(u)} : TRUE
  OBVIOUS
<1>3. /\ c0 \in Clients /\ UnitsInv(c0) /\ HandlerInv(u) /\ Client(u)' = c0 /\ Client(u) = c0
      /\ Active(c0) => peer[c0] = "up" /\ Exchange(u, c0)
      /\ peer[c0] \in Connected
  BY <1>1, <1>2, HandlerStream, HandlerFacts DEF Client, HandlerPCs, OnlyHandler
<1>4. /\ outbuf \in [Clients -> 0 .. SndBuf] /\ outbuf[c0] \in Nat /\ received[c0] \in Nat
      /\ SndBuf - outbuf[c0] \in Nat
      /\ count \in [Ids -> Nat] /\ count[u] \in Nat /\ TextInv
  BY <1>3, Constants DEF IInv, DataInv, FrameInv
<1>5. /\ HeaderUnits \in Nat /\ Response(input[u]) \in Nat /\ Longest \in Nat
      /\ HeaderUnits <= Response(input[u]) /\ Response(input[u]) <= Longest
  <2>1. /\ HeaderUnits \in Nat /\ TextUnits \in Nat /\ Longest = HeaderUnits + TextUnits
        /\ Response(input[u]) \in {0, Longest}
    BY SizeFacts
  <2>2. QED
    BY <1>1, <1>4, <2>1
<1>6. n \in Nat \ {0} /\ count[u] + n <= Response(input[u])
  <2>1. n \in 1 .. SndBuf - outbuf[c0] /\ count[u] + n \in 1 .. Response(input[u])
    BY <1>1, <1>3, <1>4, <1>5, TransferBound
  <2> HIDE DEF n
  <2>2. QED
    BY <2>1
<1> HIDE DEF n
<1>7. UNCHANGED <<peer, wire, inbuf, cpc, req, received, status, exception>>
  BY <1>1 DEF schedVars
<1>8. /\ outbuf'[c0] = outbuf[c0] + n /\ \A c \in Clients : c # c0 => Same(c)
      /\ answer'[c0] = Reply(input[u])
  BY <1>1, <1>3, <1>4, <1>7 DEF Same, TextInv
<1>9. /\ count'[u] = count[u] + n /\ pc'[u] = "write"
      /\ \A t \in Ids : t # u => pc'[t] = pc[t] /\ count'[t] = count[t] /\ input'[t] = input[t]
  BY <1>1, <1>3, <1>4, <1>7
<1>10. TextInv'
  <2>1. input[u] \in Commands
    BY <1>1, <1>3, <1>4 DEF TextInv, HandlerInv
  <2>2. QED
    BY <1>1, <1>3, <1>4, <2>1 DEF TextInv
<1>11. /\ Coming(c0)' = Coming(c0) + n /\ Coming(c0) \in Nat
       /\ Unread(c0)' = Unread(c0) /\ Sent(c0)' = Sent(c0) /\ Active(c0)' = Active(c0)
  <2>1. Sent(c0)' = Sent(c0)
    BY <1>7 DEF Sent
  <2>2. QED
    BY <1>4, <1>6, <1>7, <1>8, <2>1 DEF Unread, Coming, Active
<1>12. ASSUME Active(c0) PROVE Exchange(u, c0)' /\ input[u] = req[c0]
  <2>1. Answering(u, c0)
    BY <1>1, <1>3, <1>4, <1>5, <1>12 DEF Exchange, Requesting, Written, ReadFirst
  <2>2. Answering(u, c0)'
    BY <1>1, <1>9, <1>11, <2>1 DEF Answering
  <2>3. QED
    BY <2>1, <2>2 DEF Exchange, Answering
<1>13. UnitsInv(c0)'
  <2>1. cpc[c0] # "new"
    BY <1>3 DEF IInv, ConnInv, Connected
  <2>2. Reply(req[c0])' = Reply(req[c0])
    BY <1>7
  <2>3. QED
    BY <1>3, <1>7, <1>8, <1>11, <1>12, <2>1, <2>2 DEF UnitsInv, Connected
<1>14. HandlerInv(u)'
  <2>1. count'[u] <= Longest /\ count'[u] <= Response(input[u])
    BY <1>4, <1>5, <1>6, <1>9
  <2>2. exception'[u] => peer'[Client(u)'] \in {"rst", "finrst"}
    BY <1>1, <1>3, <1>7 DEF HandlerInv
  <2>3. status'[u] # "FINISHED"
    BY <1>1, <1>7 DEF Executes
  <2>4. input'[u] = input[u] /\ Response(input[u])' = Response(input[u]) /\ input[u] # NoText
    BY <1>1, <1>3 DEF HandlerInv
  <2>5. QED
    BY <1>9, <2>1, <2>2, <2>3, <2>4 DEF HandlerInv
<1>15. Active(Client(u))' => peer[Client(u)] = "up" /\ Exchange(u, Client(u))'
  BY <1>3, <1>11, <1>12 DEF Active, Exchange, Requesting, Answering, Written, ReadFirst
<1>16. UnitsInv(Client(u))'
  BY <1>3, <1>13 DEF UnitsInv
<1>17. pc[u] \in HandlerPCs /\ pc'[u] \in HandlerPCs
  BY <1>1, <1>9 DEF HandlerPCs
<1>18. QED
  BY <1>1, <1>3, <1>7, <1>8, <1>9, <1>10, <1>14, <1>15, <1>16, <1>17, HandlerMoves

(* A connection that the server closes has nothing left to read, and the   *)
(* others do not notice.                                                   *)
Closes(fds, c) ==
    \/ \E f \in fds : file[f] = c
    \/ c \in ToSet(backlog) /\ \E f \in fds : file[f] = Listener

(* The stream of a connection that is closed is abandoned. *)
LEMMA CloseStream ==
  ASSUME IInv, FrameInv, NEW fds \in SUBSET FDs, Close(fds), NEW c \in Clients,
         UNCHANGED <<cpc, req, answer, received>>,
         Active(c) /\ peer[c] = "up" /\ Closes(fds, c) => Abandoned(c),
         Active(c) /\ ~Closes(fds, c) =>
            \A t \in Ids : Serves(t, c) \/ Serves(t, c)' => SameHandler(t)
  PROVE  StreamInv(c)'
<1>1. UNCHANGED <<wire, outbuf>> /\ StreamInv(c) /\ inbuf \in [Clients -> Nat]
      /\ peer \in [Clients -> PeerStates] /\ wire[c] \in Nat
  BY DEF Close, FrameInv, IInv, DataInv, TypeInv
<1>2. CASE ~Closes(fds, c)
  <2>1. peer'[c] = peer[c] /\ inbuf'[c] = inbuf[c]
    BY <1>2 DEF Close, Closes, FDsOf
  <2>2. Same(c)
    BY <1>1, <2>1 DEF Same
  <2>3. QED
    BY <1>1, <1>2, <2>1, <2>2, StreamKept
<1>3. CASE Closes(fds, c)
  <2>1. peer'[c] = "closed" /\ inbuf'[c] = 0
    BY <1>3 DEF Close, Closes, FDsOf
  <2>2. /\ Coming(c)' = Coming(c) /\ Active(c)' = Active(c) /\ Sent(c)' = Sent(c)
        /\ Reply(req[c])' = Reply(req[c])
    <3>1. Sent(c)' = Sent(c)
      BY DEF Sent
    <3>2. QED
      BY <1>1, <3>1 DEF Coming, Active
  <2>3. Unread(c)' <= Unread(c) /\ (Unread(c) = 0 => Unread(c)' = 0) /\ Unread(c)' \in Nat /\ Unread(c) \in Nat
    BY <1>1, <2>1 DEF Unread
  <2>4. UnitsInv(c)'
    <3>1. Longest \in Nat
      BY Constants DEF Longest
    <3>2. QED
      BY <1>1, <2>1, <2>2, <2>3, <3>1 DEF StreamInv, UnitsInv
  <2>5. Active(c) => Abandoned(c)
    BY <1>1, <1>3 DEF StreamInv, TrafficInv
  <2>6. TrafficInv(c)'
    BY <1>1, <2>1, <2>2, <2>5 DEF TrafficInv, Abandoned
  <2>7. QED
    BY <2>4, <2>6 DEF StreamInv
<1>4. QED
  BY <1>2, <1>3

(* Of a connection nobody serves, nothing has been read or answered. *)
LEMMA UnservedIsAbandoned ==
  ASSUME IInv, FrameInv, NEW c \in Clients, Active(c), peer[c] = "up",
         \A t \in Ids : ~Serves(t, c)
  PROVE  Untouched(c) /\ Abandoned(c)
<1>1. inbuf[c] \in Nat /\ wire[c] \in Nat
  BY UnitFacts
<1>2. Untouched(c)
  BY DEF FrameInv, StreamInv, TrafficInv
<1>3. QED
  BY <1>1, <1>2 DEF Untouched, Abandoned, Unread

(* While descriptors without a handler are closed, handlers stay. *)
LEMMA CloseHandler ==
  ASSUME IInv, NEW fds \in SUBSET FDs, Close(fds), NEW t \in Ids, pc[t] \in HandlerPCs,
         sock[t] \notin fds, sock'[t] = sock[t]
  PROVE  /\ Client(t)' = Client(t) /\ peer'[Client(t)] = peer[Client(t)]
         /\ ~Closes(fds, Client(t))
<1>1. /\ sock[t] \in FDs /\ Client(t) \in Clients /\ Client(t) \notin ToSet(backlog)
      /\ \A f \in FDs : file[f] = Client(t) => f = sock[t]
  BY HandlerFacts DEF OnlyHandler
<1>2. file'[sock[t]] = file[sock[t]]
  BY <1>1, CloseTables DEF IInv
<1>3. peer'[file[sock[t]]] = peer[file[sock[t]]]
  BY <1>1, CloseConn DEF IInv, Client
<1>4. QED
  BY <1>1, <1>2, <1>3 DEF Client, Closes

(* A finished handler is destroyed and closes its connection: by then the  *)
(* client has nothing to wait for, or is gone.                             *)
LEMMA DestroyFlows ==
  ASSUME IInv, IInv', FrameInv, NEW u \in Ids, Destroy(u)
  PROVE  FrameInv'
<1> DEFINE fds == {sock[u]} \cap FDs
<1>1. SchedInv /\ TypeInv /\ PlaceInv(u) /\ HandlerInv(u) /\ NoFD \notin FDs
  BY SchedFacts, Constants DEF IInv, FrameInv
<1>2. /\ Close(fds) /\ status[u] = "FINISHED"
      /\ status' = [status EXCEPT ![u] = "ABSENT"]
      /\ exception' = [exception EXCEPT ![u] = FALSE]
      /\ pc' = [pc EXCEPT ![u] = "none"] /\ sock' = [sock EXCEPT ![u] = NoFD]
      /\ count' = [count EXCEPT ![u] = 0] /\ input' = [input EXCEPT ![u] = NoText]
      /\ UNCHANGED <<accepted, cpc, req, answer, received>>
  BY Zenon DEF Destroy, Erase, clientVars, NoText
<1>3. fds \in SUBSET FDs /\ \A f \in fds : f = sock[u] /\ f \in FDs
  BY Zenon
<1>4. sock[u] \in FDs => sock[u] \in fds
  BY Zenon
<1> HIDE DEF fds
<1>5. count \in [Ids -> Nat] /\ TextInv
  BY DEF IInv, DataInv, FrameInv
<1>6. /\ \A t \in Ids : t # u => /\ status'[t] = status[t] /\ exception'[t] = exception[t]
                                 /\ pc'[t] = pc[t] /\ sock'[t] = sock[t]
                                 /\ count'[t] = count[t] /\ input'[t] = input[t]
      /\ exception'[u] = FALSE /\ pc'[u] = "none" /\ count'[u] = 0
  BY <1>1, <1>2, <1>5 DEF TypeInv, SchedInv, TextInv
<1>7. ASSUME NEW t \in Ids, t # u, pc[t] \in HandlerPCs
      PROVE  /\ SameHandler(t) /\ Client(t)' = Client(t)
             /\ peer'[Client(t)] = peer[Client(t)] /\ ~Closes(fds, Client(t))
  <2>1. sock[t] \notin fds
    BY <1>3, <1>7, Constants DEF IInv, OwnerInv
  <2>2. /\ Client(t)' = Client(t) /\ peer'[Client(t)] = peer[Client(t)]
        /\ ~Closes(fds, Client(t))
    BY <1>2, <1>3, <1>6, <1>7, <2>1, CloseHandler
  <2>3. QED
    BY <1>6, <1>7, <2>2 DEF SameHandler
<1>8. ASSUME NEW c \in Clients PROVE StreamInv(c)'
  <2>1. ASSUME Active(c), peer[c] = "up", Closes(fds, c) PROVE Abandoned(c)
    <3>1. sock[u] \in FDs /\ (file[sock[u]] = c \/ file[sock[u]] = Listener)
      BY <1>3, <2>1 DEF Closes
    <3>2. pc[u] \in HandlerPCs
      BY <1>1, <1>2, <3>1 DEF PlaceInv, HoldsSocket
    <3>3. Client(u) = c
      BY <3>1, <3>2, HandlerFacts, Constants DEF OnlyHandler, Client
    <3>4. Exchange(u, c) /\ pc[u] = "dispatch"
      BY <1>1, <1>2, <2>1, <3>2, <3>3, HandlerStream DEF HandlerInv
    <3>5. count[u] + Unread(c) = Sent(c) /\ Coming(c) = 0
      BY <3>4 DEF Exchange, Requesting, Answering, Written, ReadFirst
    <3>6. count[u] \in Nat /\ inbuf[c] \in Nat /\ wire[c] \in Nat
      BY UnitFacts
    <3>7. QED
      BY <3>5, <3>6 DEF Abandoned, Unread
  <2>2. ASSUME ~Closes(fds, c), NEW t \in Ids, Serves(t, c) \/ Serves(t, c)'
        PROVE  SameHandler(t)
    <3>1. CASE t = u
      <4>1. pc[u] \in HandlerPCs /\ file[sock[u]] = c
        BY <1>6, <2>2, <3>1 DEF Serves, Client, HandlerPCs
      <4>2. sock[u] \in fds
        BY <1>4, <4>1, HandlerFacts DEF OnlyHandler
      <4>3. QED
        BY <2>2, <4>1, <4>2 DEF Closes
    <3>2. CASE t # u
      BY <1>6, <1>7, <2>2, <3>2 DEF Serves
    <3>3. QED
      BY <3>1, <3>2
  <2>3. QED
    BY <1>2, <1>3, <2>1, <2>2, CloseStream
<1>9. ASSUME NEW t \in Ids PROVE HandlerInv(t)'
  <2>1. CASE t = u
    BY <1>6, <2>1, SizeFacts DEF HandlerInv, HandlerPCs
  <2>2. CASE t # u
    BY <1>6, <1>7, <2>2, HandlerKept DEF FrameInv, IInv
  <2>3. QED
    BY <2>1, <2>2
<1>10. TextInv'
  BY <1>2, <1>5 DEF TextInv
<1>11. QED
  BY <1>8, <1>9, <1>10 DEF FrameInv

(* Sockets without a handler are closed. *)
LEMMA DropFlows ==
  ASSUME IInv, IInv', FrameInv, NEW fds \in SUBSET FDs, Close(fds),
         UNCHANGED <<pc, count, input, cpc, req, answer, received, exception>>,
         \A t \in Ids : pc[t] \in HandlerPCs =>
            /\ sock[t] \notin fds /\ sock'[t] = sock[t]
            /\ status'[t] = "FINISHED" => status[t] = "FINISHED"
  PROVE  FrameInv'
<1>1. ASSUME NEW t \in Ids, pc[t] \in HandlerPCs
      PROVE  /\ SameHandler(t) /\ Client(t)' = Client(t)
             /\ peer'[Client(t)] = peer[Client(t)] /\ ~Closes(fds, Client(t))
  <2>1. /\ Client(t)' = Client(t) /\ peer'[Client(t)] = peer[Client(t)]
        /\ ~Closes(fds, Client(t))
    BY <1>1, CloseHandler
  <2>2. QED
    BY <1>1, <2>1 DEF SameHandler
<1>2. ASSUME NEW c \in Clients PROVE StreamInv(c)'
  <2>1. ASSUME Active(c), peer[c] = "up", Closes(fds, c) PROVE Abandoned(c)
    <3>1. \A t \in Ids : ~Serves(t, c)
      BY <1>1, <2>1 DEF Serves
    <3>2. QED
      BY <2>1, <3>1, UnservedIsAbandoned
  <2>2. \A t \in Ids : Serves(t, c) \/ Serves(t, c)' => SameHandler(t)
    BY <1>1 DEF Serves
  <2>3. QED
    BY <2>1, <2>2, CloseStream
<1>3. ASSUME NEW t \in Ids PROVE HandlerInv(t)'
  <2>1. HandlerInv(t) /\ PlaceInv(t) /\ PlaceInv(t)'
    BY DEF FrameInv, IInv
  <2>2. CASE pc[t] \in HandlerPCs
    BY <1>1, <2>1, <2>2, HandlerKept
  <2>3. CASE pc[t] \notin HandlerPCs
    BY <2>1, <2>3 DEF HandlerInv, PlaceInv, HandlerPCs
  <2>4. QED
    BY <2>2, <2>3
<1>4. TextInv'
  BY DEF FrameInv, TextInv
<1>5. QED
  BY <1>2, <1>3, <1>4 DEF FrameInv

(* AsyncAccept throws: nobody has read a unit of what it drops. *)
LEMMA AcceptFailsFlows ==
  ASSUME IInv, IInv', FrameInv, NEW u \in Ids, AcceptFails(u)
  PROVE  FrameInv'
<1> DEFINE fds == ToSet(accepted) \cup {sock[u]}
<1>1. SchedInv /\ TypeInv
  BY SchedFacts DEF IInv
<1>2. /\ Close(fds) /\ pc[u] = "accept" /\ status[u] = "RUNNING"
      /\ status' = [status EXCEPT ![u] = "FINISHED"] /\ sock' = [sock EXCEPT ![u] = NoFD]
      /\ UNCHANGED <<pc, count, input, cpc, req, answer, received, exception>>
  BY Zenon DEF AcceptFails, Return, Executes, clientVars
<1>3. sock[u] \in FDs /\ pc[u] \notin HandlerPCs
  BY <1>2 DEF IInv, PlaceInv, HoldsSocket, HandlerPCs
<1>4. fds \in SUBSET FDs
  BY <1>3, AcceptedFacts
<1>5. ASSUME NEW t \in Ids, pc[t] \in HandlerPCs
      PROVE  /\ sock[t] \notin fds /\ sock'[t] = sock[t]
             /\ status'[t] = "FINISHED" => status[t] = "FINISHED"
  <2>1. t # u /\ sock[t] \in FDs /\ sock[t] \notin ToSet(accepted)
    BY <1>3, <1>5, HandlerFacts DEF OnlyHandler
  <2>2. sock[t] # sock[u]
    BY <2>1, Constants DEF IInv, OwnerInv
  <2>3. QED
    BY <1>1, <1>2, <2>1, <2>2 DEF TypeInv, SchedInv
<1> HIDE DEF fds
<1>6. QED
  BY <1>2, <1>4, <1>5, DropFlows

(* A socket is closed with the coroutine that found its id in use. *)
LEMMA SpawnDropsFlows ==
  ASSUME IInv, IInv', FrameInv, NEW u \in Ids, Spawn(u), status[id] # "ABSENT"
  PROVE  FrameInv'
<1>1. /\ Close({Head(accepted)}) /\ accepted # <<>>
      /\ UNCHANGED <<status, sock, pc, count, input, cpc, req, answer, received, exception>>
  BY DEF Spawn, CreateTask, clientVars
<1>2. Head(accepted) \in ToSet(accepted)
  BY <1>1, TailFacts DEF IInv, TypeInv
<1>3. {Head(accepted)} \in SUBSET FDs
  BY <1>2, AcceptedFacts
<1>4. \A t \in Ids : pc[t] \in HandlerPCs => sock[t] \notin {Head(accepted)}
  BY <1>2, HandlerFacts DEF OnlyHandler
<1>5. QED
  BY <1>1, <1>3, <1>4, DropFlows

(* An accepted connection gets its handler, and no unit moves. *)
LEMMA SpawnFlows ==
  ASSUME IInv, IInv', FrameInv, NEW u \in Ids, Spawn(u), status[id] = "ABSENT"
  PROVE  FrameInv'
<1>1. SchedInv /\ TypeInv
  BY SchedFacts DEF IInv
<1>2. PICK n \in Ids : n = id
  BY <1>1 DEF SchedInv
<1>3. PICK f0 \in {Head(accepted)} : TRUE
  OBVIOUS
<1>4. /\ accepted # <<>> /\ status' = [status EXCEPT ![n] = "CREATED"]
      /\ sock' = [sock EXCEPT ![n] = f0] /\ pc' = [pc EXCEPT ![n] = "start"]
      /\ status[n] = "ABSENT"
      /\ UNCHANGED <<kernelVars, count, input, cpc, req, answer, received, exception>>
  BY <1>2, <1>3 DEF Spawn, CreateTask, clientVars
<1>5. UNCHANGED <<file, peer, wire, inbuf, outbuf>>
  BY <1>4 DEF kernelVars, connVars
<1>6. f0 \in ToSet(accepted) /\ f0 \in FDs /\ file[f0] \in Clients
  BY <1>3, <1>4, TailFacts, AcceptedFacts DEF IInv, TypeInv
<1>7. pc[n] = "none" /\ exception[n] = FALSE /\ count[n] = 0
  BY <1>4 DEF IInv, PlaceInv, FrameInv, HandlerInv
<1>8. /\ sock'[n] = f0 /\ pc'[n] = "start" /\ status'[n] = "CREATED"
      /\ \A t \in Ids : t # n =>
            sock'[t] = sock[t] /\ pc'[t] = pc[t] /\ status'[t] = status[t]
  BY <1>1, <1>4 DEF TypeInv, SchedInv
<1>9. Client(n)' = file[f0] /\ \A t \in Ids : t # n => Client(t)' = Client(t) /\ SameHandler(t)
  BY <1>4, <1>5, <1>8 DEF Client, SameHandler
<1>10. ASSUME NEW t \in Ids, pc[t] \in HandlerPCs PROVE Client(t) # file[f0] /\ t # n
  BY <1>6, <1>7, <1>10, HandlerFacts DEF OnlyHandler, HandlerPCs
<1>11. \A c \in Clients : Same(c)
  BY <1>4, <1>5 DEF Same
<1>12. ASSUME NEW c \in Clients, c # file[f0] PROVE StreamInv(c)'
  <2>1. \A t \in Ids : Serves(t, c) \/ Serves(t, c)' => t # n
    BY <1>9, <1>10, <1>12 DEF Serves
  <2>2. QED
    BY <1>5, <1>9, <1>11, <2>1, StreamKept DEF FrameInv
<1>13. PICK c0 \in Clients : c0 = file[f0]
  BY <1>6
<1>14. StreamInv(c0)'
  <2>1. UnitsInv(c0)'
    BY <1>5, <1>11, UnitsKept DEF FrameInv, StreamInv
  <2>2. /\ Unread(c0)' = Unread(c0) /\ Coming(c0)' = Coming(c0)
        /\ Sent(c0)' = Sent(c0) /\ Active(c0)' = Active(c0)
    BY <1>11, SameUnits
  <2>3. \A t \in Ids : ~Serves(t, c0)
    BY <1>10, <1>13 DEF Serves
  <2>4. \A t \in Ids : Serves(t, c0)' => t = n
    BY <1>9, <1>10, <1>13 DEF Serves, SameHandler
  <2>5. Serves(n, c0)'
    BY <1>8, <1>9, <1>13 DEF Serves, HandlerPCs
  <2>6. ASSUME Active(c0) PROVE peer'[c0] = "up" /\ Exchange(n, c0)'
    <3>1. peer[c0] = "up"
      BY <1>6, <1>13, <2>6 DEF FrameInv, StreamInv, TrafficInv, IInv, ConnInv, Connected
    <3>2. Untouched(c0)
      BY <2>3, <2>6, <3>1, UnservedIsAbandoned
    <3>3. count'[n] + Unread(c0)' = Sent(c0)'
      BY <1>4, <1>7, <2>2, <3>2, UnitFacts, SentFacts DEF Untouched, Unread
    <3>4. Requesting(n, c0)'
      BY <1>4, <1>7, <1>8, <2>2, <3>2, <3>3 DEF Requesting, Untouched
    <3>5. QED
      BY <1>5, <3>1, <3>4 DEF Exchange
  <2>7. TrafficInv(c0)'
    BY <2>2, <2>4, <2>5, <2>6 DEF TrafficInv
  <2>8. QED
    BY <2>1, <2>7 DEF StreamInv
<1>15. ASSUME NEW t \in Ids PROVE HandlerInv(t)'
  <2>1. CASE t = n
    BY <1>4, <1>7, <1>8, <2>1, SizeFacts DEF HandlerInv, FrameInv
  <2>2. CASE t # n
    BY <1>4, <1>5, <1>8, <1>9, <2>2, HandlerKept DEF FrameInv, IInv
  <2>3. QED
    BY <2>1, <2>2
<1>16. TextInv'
  BY <1>4 DEF FrameInv, TextInv
<1>17. QED
  BY <1>12, <1>13, <1>14, <1>15, <1>16 DEF FrameInv

(* The steps of the coroutines. *)
LEMMA CoroutineFlows ==
  ASSUME IInv, IInv', FrameInv, NEW u \in Ids, AcceptorStep(u) \/ HandlerStep(u)
  PROVE  FrameInv'
<1>1. CASE BindFails(u) \/ ReadFails(u) \/ EmptyInput(u) \/ WriteFails(u) \/ Rethrown(u)
  <2>1. Throw(u)
    BY <1>1, Zenon DEF BindFails, ReadFails, EmptyInput, WriteFails, Rethrown
  <2>2. \/ pc[u] \in {"listen", "dispatch", "rethrown"}
        \/ peer[Client(u)] # "up"
    BY <1>1, Zenon DEF BindFails, ReadFails, EmptyInput, WriteFails, Rethrown
  <2>3. pc[u] = "rethrown" => peer[Client(u)] # "up"
    BY DEF FrameInv, HandlerInv
  <2>4. pc[u] \in HandlerPCs => pc[u] = "dispatch" \/ peer[Client(u)] # "up"
    BY <2>2, <2>3 DEF HandlerPCs
  <2>5. QED
    BY <2>1, <2>4, EndFlows
<1>2. CASE ReadAgain(u) \/ WriteAgain(u) \/ SigPipe(u)
  <2>1. Await(u) \/ SigPipe(u)
    BY <1>2, Zenon DEF ReadAgain, WriteAgain
  <2>2. QED
    BY <2>1, StillFlows
<1>3. CASE Spawn(u)
  BY <1>3, SpawnFlows, SpawnDropsFlows
<1>4. CASE Listen(u) \/ AddAcceptEvent(u) \/ AwaitClients(u) \/ Accept(u) \/ NoneToAccept(u)
  BY <1>4, AcceptorFlows
<1>5. CASE AcceptFails(u)
  BY <1>5, AcceptFailsFlows
<1>6. CASE AddReadEvent(u) \/ Dispatch(u) \/ Answered(u)
  BY <1>6, MaskFlows
<1>7. CASE Read(u) \/ Write(u)
  BY <1>7, ReadFlows, WriteFlows
<1>8. QED
  BY <1>1, <1>2, <1>3, <1>4, <1>5, <1>6, <1>7, Zenon DEF AcceptorStep, HandlerStep

-----------------------------------------------------------------------------
(* The clients and the network: a step is about the stream of one client. *)
LEMMA ClientMoves ==
  ASSUME IInv, IInv', FrameInv, NEW c \in Clients,
         UNCHANGED <<schedVars, coroVars, file>>,
         \A d \in Clients : d # c => Same(d) /\ peer'[d] = peer[d],
         peer[c] \in Connected =>
            \/ peer'[c] = peer[c]
            \/ peer[c] \in {"up", "fin"} /\ peer'[c] # "up",
         StreamInv(c)', TextInv'
  PROVE  FrameInv'
<1>1. UNCHANGED <<pc, sock, count, input, status, exception>>
  BY DEF coroVars, schedVars
<1>2. \A t \in Ids : Client(t)' = Client(t) /\ SameHandler(t)
  BY <1>1 DEF Client, SameHandler
<1>3. ASSUME NEW d \in Clients PROVE StreamInv(d)'
  <2>1. CASE d = c
    BY <2>1
  <2>2. CASE d # c
    BY <1>2, <2>2, StreamKept DEF FrameInv
  <2>3. QED
    BY <2>1, <2>2
<1>4. ASSUME NEW t \in Ids PROVE HandlerInv(t)'
  <2>1. pc[t] \in HandlerPCs => Client(t) \in Clients /\ peer[Client(t)] \in Connected
    BY HandlerFacts DEF OnlyHandler
  <2>2. pc[t] \in HandlerPCs =>
            /\ peer[Client(t)] # "up" => peer'[Client(t)] # "up"
            /\ peer[Client(t)] \in {"rst", "finrst"} => peer'[Client(t)] = peer[Client(t)]
    BY <2>1
  <2>3. QED
    BY <1>1, <1>2, <2>2, HandlerKept DEF FrameInv, IInv
<1>5. QED
  BY <1>3, <1>4 DEF FrameInv

(* An exchange in which units moved from one place to the next. *)
LEMMA SameTotals ==
  ASSUME NEW c, NEW t, Exchange(t, c), UNCHANGED <<pc, count, input, cpc, req>>,
         Unread(c)' = Unread(c), Coming(c)' = Coming(c)
  PROVE  Exchange(t, c)'
<1>1. Sent(c)' = Sent(c)
  BY DEF Sent
<1>2. Frame(req[c])' = Frame(req[c]) /\ Response(req[c])' = Response(req[c])
      /\ Response(input[t])' = Response(input[t])
  OBVIOUS
<1>3. QED
  BY <1>1, <1>2 DEF Exchange, Requesting, Answering, Written, ReadFirst

(* A client that has left, or a connection of one. *)
LEMMA LeftFlows ==
  ASSUME IInv, IInv', FrameInv, NEW c \in Clients,
         UNCHANGED <<schedVars, coroVars, file, wire, inbuf, req, answer, received>>,
         \A d \in Clients : d # c => Same(d) /\ peer'[d] = peer[d],
         cpc'[c] \in {"gone", "aborted"},
         \/ peer'[c] = peer[c]
         \/ peer[c] \in {"up", "fin"} /\ peer'[c] \in {"fin", "rst", "finrst"}
  PROVE  FrameInv'
<1>1. UnitsInv(c)'
  <2>1. Unread(c)' = Unread(c)
    BY DEF Unread
  <2>2. ~Active(c)' /\ cpc'[c] # "new"
    BY DEF Active
  <2>3. UnitsInv(c)
    BY DEF FrameInv, StreamInv
  <2>4. peer'[c] \in {"none", "closed"} => inbuf'[c] = 0
    BY <2>3 DEF UnitsInv
  <2>5. QED
    BY <2>1, <2>2, <2>3, <2>4 DEF UnitsInv
<1>2. TrafficInv(c)'
  BY DEF TrafficInv, Active
<1>3. TextInv'
  BY DEF FrameInv, TextInv, coroVars
<1>4. /\ StreamInv(c)'
      /\ \/ peer'[c] = peer[c]
         \/ peer[c] \in {"up", "fin"} /\ peer'[c] # "up"
  BY <1>1, <1>2 DEF StreamInv
<1>5. QED
  BY <1>3, <1>4, ClientMoves

(* A client leaves. *)
LEMMA LeaveFlows ==
  ASSUME IInv, IInv', FrameInv, NEW c \in Clients, Quit(c) \/ Disconnected(c)
  PROVE  FrameInv'
<1>1. \E how \in {"gone", "aborted"} : Leave(c, how)
  BY Zenon DEF Quit, Disconnected
<1>2. /\ UNCHANGED <<schedVars, coroVars, file, peer, wire, inbuf, outbuf, req, answer, received>>
      /\ \E how \in {"gone", "aborted"} : cpc' = [cpc EXCEPT ![c] = how]
  BY <1>1, Zenon DEF Leave, kernelVars, connVars
<1>3. cpc'[c] \in {"gone", "aborted"} /\ \A d \in Clients : d # c => cpc'[d] = cpc[d]
  BY <1>2 DEF IInv, TypeInv
<1>4. \A d \in Clients : d # c => Same(d)
  BY <1>2, <1>3 DEF Same
<1>5. QED
  BY <1>2, <1>3, <1>4, LeftFlows

(* A unit arrives, or the end of the stream, or a reset. *)
LEMMA NetworkFlows ==
  ASSUME IInv, IInv', FrameInv, NEW c \in Clients, Network(c)
  PROVE  FrameInv'
<1>1. /\ {wire, inbuf} \subseteq [Clients -> Nat] /\ outbuf \in [Clients -> 0 .. SndBuf]
      /\ peer \in [Clients -> PeerStates]
      /\ UNCHANGED <<schedVars, coroVars, clientVars, file>>
  <2>1. UNCHANGED <<schedVars, coroVars, clientVars, file>>
    BY Zenon DEF Network, Deliver, ArriveFin, ArriveRst
  <2>2. QED
    BY <2>1 DEF IInv, DataInv, TypeInv
<1>2. UNCHANGED <<pc, count, input, cpc, req, answer, received>>
  BY <1>1 DEF clientVars, coroVars
<1>3. UnitsInv(c) /\ TrafficInv(c) /\ TextInv'
  BY <1>2 DEF FrameInv, StreamInv, TextInv
<1>4. CASE Deliver(c)
  <2>1. /\ peer' = peer /\ outbuf' = outbuf /\ wire'[c] = wire[c] - 1 /\ inbuf'[c] = inbuf[c] + 1
        /\ \A d \in Clients : d # c => wire'[d] = wire[d] /\ inbuf'[d] = inbuf[d]
        /\ peer[c] = "up" /\ wire[c] \in Nat /\ inbuf[c] \in Nat
    BY <1>1, <1>4 DEF Deliver
  <2>2. /\ Unread(c)' = Unread(c) /\ Coming(c)' = Coming(c) /\ Active(c)' = Active(c)
        /\ Reply(req[c])' = Reply(req[c])
    BY <1>2, <2>1 DEF Unread, Coming, Active
  <2>3. Sent(c)' = Sent(c)
    BY <1>2 DEF Sent
  <2>4. UnitsInv(c)'
    BY <1>2, <1>3, <2>1, <2>2 DEF UnitsInv
  <2>5. \A t \in Ids : Serves(t, c)' <=> Serves(t, c)
    BY <1>1, <1>2 DEF Serves, Client, coroVars
  <2>6. Untouched(c)' <=> Untouched(c)
    BY <2>2, <2>3 DEF Untouched
  <2>7. \A t \in Ids : Exchange(t, c) => Exchange(t, c)'
    BY <1>2, <2>2, SameTotals
  <2>8. TrafficInv(c)'
    <3> SUFFICES ASSUME Active(c) PROVE TrafficInv(c)'
      BY <2>2 DEF TrafficInv
    <3>1. peer'[c] = "up" /\ peer[c] = "up"
      BY <2>1
    <3>2. \A t \in Ids : Serves(t, c) => Exchange(t, c)
      BY <1>3, <3>1 DEF TrafficInv
    <3>3. (\A t \in Ids : ~Serves(t, c)) => Untouched(c)
      BY <1>3, <3>1 DEF TrafficInv
    <3>4. \A t \in Ids : Serves(t, c)' => Exchange(t, c)'
      BY <2>5, <2>7, <3>2
    <3>5. (\A t \in Ids : ~Serves(t, c)') => Untouched(c)'
      BY <2>5, <2>6, <3>3
    <3>6. QED
      BY <3>1, <3>4, <3>5 DEF TrafficInv
  <2>9. \A d \in Clients : d # c => Same(d) /\ peer'[d] = peer[d]
    BY <1>2, <2>1 DEF Same
  <2>10. QED
    BY <1>1, <1>3, <2>1, <2>4, <2>8, <2>9, ClientMoves DEF StreamInv
<1>5. CASE ~Deliver(c)
  <2>1. \/ cpc[c] = "gone" /\ ArriveFin(c)
        \/ cpc[c] = (IF peer[c] = "up" THEN "aborted" ELSE "gone") /\ ArriveRst(c)
    BY <1>5 DEF Network
  <2>2. /\ cpc'[c] \in {"gone", "aborted"} /\ UNCHANGED <<wire, inbuf>>
        /\ peer[c] \in {"up", "fin"} /\ peer'[c] \in {"fin", "rst", "finrst"}
        /\ \A d \in Clients : d # c => peer'[d] = peer[d] /\ outbuf'[d] = outbuf[d]
    BY <1>1, <1>2, <2>1 DEF ArriveFin, ArriveRst
  <2>3. \A d \in Clients : d # c => Same(d)
    BY <1>2, <2>2 DEF Same
  <2>4. QED
    BY <1>1, <1>2, <2>2, <2>3, LeftFlows
<1>6. QED
  BY <1>4, <1>5

(* A process that starts, and its connection. *)
LEMMA RestartFlows ==
  ASSUME IInv, IInv', FrameInv, NEW c \in Clients, Restart(c)
  PROVE  FrameInv'
<1>1. /\ {wire, received} \subseteq [Clients -> Nat] /\ outbuf \in [Clients -> 0 .. SndBuf]
      /\ peer \in [Clients -> PeerStates] /\ TextInv /\ UnitsInv(c)
      /\ cpc \in [Clients -> {"new", "idle", "text", "wait", "gone", "aborted"}]
  BY DEF IInv, DataInv, TypeInv, FrameInv, StreamInv
<1>2. /\ UNCHANGED <<schedVars, coroVars, file, inbuf>> /\ peer[c] \in {"none", "closed"}
      /\ cpc' = [cpc EXCEPT ![c] = "new"] /\ peer' = [peer EXCEPT ![c] = "none"]
      /\ wire' = [wire EXCEPT ![c] = 0] /\ outbuf' = [outbuf EXCEPT ![c] = 0]
      /\ req' = [req EXCEPT ![c] = NoText] /\ answer' = [answer EXCEPT ![c] = NoText]
      /\ received' = [received EXCEPT ![c] = 0]
  BY Zenon DEF Restart, NoText
<1>3. /\ cpc'[c] = "new" /\ wire'[c] = 0 /\ outbuf'[c] = 0 /\ received'[c] = 0
      /\ inbuf'[c] = 0 /\ peer'[c] = "none"
      /\ \A d \in Clients : d # c => Same(d) /\ peer'[d] = peer[d]
  BY <1>1, <1>2 DEF Same, TextInv, UnitsInv
<1>4. UnitsInv(c)'
  BY <1>3, SizeFacts DEF UnitsInv, Unread, Coming, Active
<1>5. TrafficInv(c)'
  BY <1>3 DEF TrafficInv, Active
<1>6. TextInv'
  BY <1>1, <1>2 DEF TextInv, coroVars
<1>7. peer[c] \notin Connected
  BY <1>2 DEF Connected
<1>8. QED
  BY <1>2, <1>3, <1>4, <1>5, <1>6, <1>7, ClientMoves DEF StreamInv

(* A new connection, with nothing in it. *)
LEMMA ConnectFlows ==
  ASSUME IInv, IInv', FrameInv, NEW c \in Clients, Connect(c)
  PROVE  FrameInv'
<1>1. /\ UNCHANGED <<schedVars, coroVars, file, wire, inbuf, outbuf, req, answer, received>>
      /\ cpc[c] = "new"
      /\ \/ cpc' = [cpc EXCEPT ![c] = "gone"] /\ peer' = peer
         \/ cpc' = [cpc EXCEPT ![c] = "idle"] /\ peer' = [peer EXCEPT ![c] = "up"]
  BY DEF Connect, Handshake, kernelVars, connVars
<1>2. /\ peer \in [Clients -> PeerStates] /\ UnitsInv(c) /\ peer[c] = "none" /\ TextInv
      /\ cpc \in [Clients -> {"new", "idle", "text", "wait", "gone", "aborted"}]
  BY <1>1 DEF IInv, TypeInv, ConnInv, FrameInv, StreamInv
<1>3. /\ \A d \in Clients : d # c => Same(d) /\ peer'[d] = peer[d]
      /\ \/ cpc'[c] = "gone" /\ peer'[c] = peer[c]
         \/ cpc'[c] = "idle" /\ peer'[c] = "up"
  BY <1>1, <1>2 DEF Same
<1>4. CASE cpc'[c] = "gone" /\ peer'[c] = peer[c]
  BY <1>1, <1>3, <1>4, LeftFlows
<1>5. CASE cpc'[c] = "idle" /\ peer'[c] = "up"
  <2>1. Unread(c)' = 0 /\ Coming(c)' = 0 /\ Sent(c)' = 0
    <3>1. Unread(c)' = Unread(c) /\ Coming(c)' = Coming(c) /\ Unread(c) = 0 /\ Coming(c) = 0
      BY <1>1, <1>2 DEF Unread, Coming, UnitsInv
    <3>2. Sent(c)' = 0
      BY <1>5 DEF Sent
    <3>3. QED
      BY <3>1, <3>2
  <2>2. UnitsInv(c)'
    BY <1>1, <1>2, <1>5, <2>1, SizeFacts DEF UnitsInv
  <2>3. \A t \in Ids : ~Serves(t, c)'
    <3>1. \A t \in Ids : ~Serves(t, c)
      BY <1>2, HandlerFacts DEF Serves, OnlyHandler, Connected
    <3>2. QED
      BY <1>1, <3>1 DEF Serves, Client, coroVars
  <2>4. TrafficInv(c)'
    BY <1>5, <2>1, <2>3 DEF TrafficInv, Untouched
  <2>5. TextInv'
    BY <1>1, <1>2 DEF TextInv, coroVars
  <2>6. QED
    BY <1>1, <1>2, <1>3, <2>2, <2>4, <2>5, ClientMoves DEF StreamInv, Connected
<1>6. QED
  BY <1>3, <1>4, <1>5

(* The client sends the length of a line, and then the line. *)
LEMMA SendHeaderFlows ==
  ASSUME IInv, IInv', FrameInv, NEW c \in Clients, SendHeader(c)
  PROVE  FrameInv'
<1>1. PICK command \in Commands : req' = [req EXCEPT ![c] = command]
  BY DEF SendHeader
<1>2. /\ UNCHANGED <<schedVars, coroVars, file, peer, inbuf, outbuf, answer, received>>
      /\ cpc[c] = "idle" /\ cpc' = [cpc EXCEPT ![c] = "text"]
      /\ wire' = [wire EXCEPT ![c] = @ + HeaderUnits]
  BY Zenon DEF SendHeader
<1>3. /\ wire \in [Clients -> Nat] /\ wire[c] \in Nat /\ inbuf[c] \in Nat /\ TextInv
      /\ cpc \in [Clients -> {"new", "idle", "text", "wait", "gone", "aborted"}]
      /\ UnitsInv(c) /\ TrafficInv(c) /\ Active(c) /\ \A t \in Ids : count[t] \in Nat
  BY <1>2 DEF IInv, DataInv, TypeInv, FrameInv, StreamInv, Active
<1>4. /\ cpc'[c] = "text" /\ wire'[c] = wire[c] + HeaderUnits
      /\ \A d \in Clients : d # c => Same(d)
  BY <1>1, <1>2, <1>3 DEF Same, TextInv
<1>5. TextInv'
  BY <1>1, <1>2, <1>3 DEF TextInv, coroVars
<1>6. HeaderUnits \in Nat \ {0} /\ HeaderUnits <= Longest /\ Sent(c) = 0
  <2>1. HeaderUnits \in Nat \ {0} /\ TextUnits \in Nat /\ Longest = HeaderUnits + TextUnits
    BY SizeFacts
  <2>2. QED
    BY <1>2, <2>1, SentFacts
<1>7. /\ Sent(c)' = HeaderUnits /\ Coming(c)' = Coming(c)
      /\ Unread(c)' = Unread(c) + HeaderUnits /\ Unread(c) \in Nat
  <2>1. Sent(c)' = HeaderUnits
    BY <1>4 DEF Sent
  <2>2. QED
    BY <1>2, <1>3, <1>4, <1>6, <2>1 DEF Coming, Unread
<1>8. UNCHANGED <<pc, sock, count, input>>
  BY <1>2 DEF coroVars
<1>9. \A t \in Ids : /\ Serves(t, c)' <=> Serves(t, c)
                     /\ Frame(req[c]) >= HeaderUnits
  BY <1>2, <1>8, FrameFacts DEF Serves, Client
<1>10. ASSUME NEW t \in Ids, Exchange(t, c)
       PROVE  Exchange(t, c)' /\ Coming(c) = 0 /\ Unread(c) = 0
  <2>1. CASE Requesting(t, c)
    <3>1. count[t] = 0 /\ Unread(c) = 0 /\ Coming(c) = 0 /\ pc[t] # "dispatch"
      BY <1>3, <1>6, <1>7, <1>9, <1>10, <2>1 DEF Requesting
    <3>2. count'[t] + Unread(c)' = Sent(c)'
      BY <1>6, <1>7, <1>8, <3>1
    <3>3. Requesting(t, c)'
      BY <1>7, <1>8, <2>1, <3>1, <3>2 DEF Requesting
    <3>4. QED
      BY <3>1, <3>3 DEF Exchange
  <2>2. CASE ReadFirst(t, c)
    <3>1. Unread(c) = 0 /\ Coming(c) = 0
      BY <1>6, <2>2 DEF ReadFirst
    <3>2. Response(input[t])' = Response(input[t]) /\ Unread(c)' = Sent(c)'
      BY <1>6, <1>7, <1>8, <3>1
    <3>3. ReadFirst(t, c)'
      BY <1>7, <1>8, <2>2, <3>1, <3>2 DEF ReadFirst
    <3>4. QED
      BY <3>1, <3>3 DEF Exchange
  <2>3. QED
    BY <1>2, <1>10, <2>1, <2>2 DEF Exchange, Answering, Written
<1>11. Untouched(c) => Untouched(c)' /\ Coming(c) = 0 /\ Unread(c) = 0
  BY <1>6, <1>7 DEF Untouched
<1>12. peer'[c] = peer[c]
  BY <1>2
<1>13. TrafficInv(c)' /\ Coming(c) = 0 /\ Unread(c) <= 0
  <2>1. CASE peer[c] = "up"
    <3>1. /\ \A t \in Ids : Serves(t, c) => Exchange(t, c)
          /\ (\A t \in Ids : ~Serves(t, c)) => Untouched(c)
      BY <1>3, <2>1 DEF TrafficInv
    <3>2. Coming(c) = 0 /\ Unread(c) = 0
      BY <1>10, <1>11, <3>1
    <3>3. TrafficInv(c)'
      BY <1>9, <1>10, <1>11, <1>12, <2>1, <3>1 DEF TrafficInv
    <3>4. QED
      BY <3>2, <3>3
  <2>2. CASE peer[c] # "up"
    <3>1. peer[c] = "closed" /\ Abandoned(c)
      BY <1>3, <2>2 DEF TrafficInv
    <3>2. inbuf[c] = 0 /\ wire[c] = 0 /\ Coming(c) = 0
      BY <1>3, <1>6, <3>1 DEF Abandoned, UnitsInv
    <3>3. Abandoned(c)'
      BY <1>4, <1>6, <1>7, <3>2 DEF Abandoned
    <3>4. QED
      BY <1>12, <3>1, <3>2, <3>3 DEF TrafficInv, Unread
  <2>3. QED
    BY <2>1, <2>2
<1>14. UnitsInv(c)'
  BY <1>2, <1>3, <1>4, <1>6, <1>7, <1>13 DEF UnitsInv
<1>15. QED
  BY <1>2, <1>4, <1>5, <1>12, <1>13, <1>14, ClientMoves DEF StreamInv

(* The rest of the message. *)
LEMMA SendTextFlows ==
  ASSUME IInv, IInv', FrameInv, NEW c \in Clients, SendText(c)
  PROVE  FrameInv'
<1> DEFINE more == Frame(req[c]) - HeaderUnits
<1>1. /\ UNCHANGED <<schedVars, coroVars, file, peer, inbuf, outbuf, req, answer, received>>
      /\ cpc[c] = "text" /\ cpc' = [cpc EXCEPT ![c] = "wait"]
      /\ wire' = [wire EXCEPT ![c] = @ + Frame(req[c]) - HeaderUnits]
  BY Zenon DEF SendText
<1>2. /\ wire \in [Clients -> Nat] /\ wire[c] \in Nat /\ inbuf[c] \in Nat /\ TextInv
      /\ cpc \in [Clients -> {"new", "idle", "text", "wait", "gone", "aborted"}]
      /\ UnitsInv(c) /\ TrafficInv(c) /\ Active(c) /\ \A t \in Ids : count[t] \in Nat
  BY <1>1 DEF IInv, DataInv, TypeInv, FrameInv, StreamInv, Active
<1>3. HeaderUnits \in Nat /\ more \in Nat /\ Frame(req[c]) = HeaderUnits + more
      /\ Frame(req[c]) <= Longest
  <2>1. /\ HeaderUnits \in Nat /\ TextUnits \in Nat /\ Longest = HeaderUnits + TextUnits
        /\ Frame(req[c]) \in {HeaderUnits, Longest}
    BY SizeFacts
  <2>2. QED
    BY <2>1
<1>4. wire'[c] = wire[c] + more
  <2>1. wire'[c] = wire[c] + Frame(req[c]) - HeaderUnits
    BY <1>1, <1>2
  <2>2. QED
    BY <1>2, <1>3, <2>1
<1>5. Frame(req[c])' = Frame(req[c])
  BY <1>1
<1>6. Sent(c) = HeaderUnits /\ Sent(c)' = Frame(req[c])
  <2>1. cpc'[c] = "wait"
    BY <1>1, <1>2
  <2>2. QED
    BY <1>1, <1>5, <2>1 DEF Sent
<1> HIDE DEF more
<1>7. cpc'[c] = "wait" /\ \A d \in Clients : d # c => Same(d)
  BY <1>1, <1>2 DEF Same
<1>8. TextInv'
  BY <1>1, <1>2 DEF TextInv, coroVars
<1>9. Coming(c)' = Coming(c) /\ Unread(c)' = Unread(c) + more /\ Unread(c) \in Nat
  BY <1>1, <1>2, <1>3, <1>4 DEF Coming, Unread
<1>10. UNCHANGED <<pc, sock, count, input>> /\ peer'[c] = peer[c]
  BY <1>1 DEF coroVars
<1>11. \A t \in Ids : Serves(t, c)' <=> Serves(t, c)
  BY <1>1, <1>10 DEF Serves, Client
<1>12. ASSUME NEW t \in Ids, Exchange(t, c)
       PROVE  Exchange(t, c)' /\ Coming(c) = 0 /\ Unread(c) <= HeaderUnits
  <2>1. CASE Requesting(t, c)
    <3>1. Unread(c) <= HeaderUnits /\ Coming(c) = 0 /\ count[t] + Unread(c) = HeaderUnits
      BY <1>2, <1>3, <1>6, <1>9, <2>1 DEF Requesting
    <3>2. count'[t] + Unread(c)' = Sent(c)'
      BY <1>2, <1>3, <1>6, <1>9, <1>10, <3>1
    <3>3. Requesting(t, c)'
      BY <1>1, <1>5, <1>9, <1>10, <2>1, <3>1, <3>2 DEF Requesting
    <3>4. QED
      BY <3>1, <3>3 DEF Exchange
  <2>2. CASE ReadFirst(t, c)
    <3>1. Unread(c) = HeaderUnits /\ Coming(c) = 0
      BY <1>6, <2>2 DEF ReadFirst
    <3>2. Response(input[t])' = Response(input[t]) /\ Unread(c)' = Sent(c)'
      BY <1>3, <1>6, <1>9, <1>10, <3>1
    <3>3. ReadFirst(t, c)'
      BY <1>9, <1>10, <2>2, <3>1, <3>2 DEF ReadFirst
    <3>4. QED
      BY <1>3, <3>1, <3>3 DEF Exchange
  <2>3. QED
    BY <1>1, <1>12, <2>1, <2>2 DEF Exchange, Answering, Written
<1>13. Untouched(c) => Untouched(c)' /\ Coming(c) = 0 /\ Unread(c) <= HeaderUnits
  BY <1>3, <1>6, <1>9 DEF Untouched
<1>14. TrafficInv(c)' /\ Coming(c) = 0 /\ Unread(c) <= HeaderUnits
  <2>1. CASE peer[c] = "up"
    <3>1. /\ \A t \in Ids : Serves(t, c) => Exchange(t, c)
          /\ (\A t \in Ids : ~Serves(t, c)) => Untouched(c)
      BY <1>2, <2>1 DEF TrafficInv
    <3>2. Coming(c) = 0 /\ Unread(c) <= HeaderUnits
      BY <1>12, <1>13, <3>1
    <3>3. TrafficInv(c)'
      BY <1>10, <1>11, <1>12, <1>13, <2>1, <3>1 DEF TrafficInv
    <3>4. QED
      BY <3>2, <3>3
  <2>2. CASE peer[c] # "up"
    <3>1. peer[c] = "closed" /\ Abandoned(c)
      BY <1>2, <2>2 DEF TrafficInv
    <3>2. inbuf[c] = 0 /\ wire[c] <= HeaderUnits /\ Coming(c) = 0
      BY <1>2, <1>6, <3>1 DEF Abandoned, UnitsInv
    <3>3. Abandoned(c)'
      BY <1>2, <1>3, <1>4, <1>6, <1>9, <3>2 DEF Abandoned
    <3>4. QED
      BY <1>2, <1>3, <1>10, <3>1, <3>2, <3>3 DEF TrafficInv, Unread
  <2>3. QED
    BY <2>1, <2>2
<1>15. UnitsInv(c)'
  <2>1. Unread(c)' <= Longest
    BY <1>3, <1>9, <1>14, SizeFacts
  <2>2. QED
    BY <1>1, <1>2, <1>7, <1>9, <1>14, <2>1 DEF UnitsInv
<1>16. QED
  BY <1>1, <1>7, <1>8, <1>10, <1>14, <1>15, ClientMoves DEF StreamInv

(* What a client reads is the answer to the request it has sent, and no    *)
(* more than the whole of it is on the way.                                *)
LEMMA AnswerComing ==
  ASSUME IInv, FrameInv, NEW c \in Clients, cpc[c] = "wait", outbuf[c] > 0
  PROVE  /\ answer[c] = Reply(req[c]) /\ peer[c] = "up" /\ Coming(c) \in Nat
         /\ \E t \in Ids : Serves(t, c)
         /\ \A t \in Ids : Serves(t, c) => Answering(t, c) \/ Written(t, c)
         /\ Coming(c) <= Frame(answer[c]) /\ Frame(answer[c]) = Response(req[c])
<1>1. /\ received[c] \in Nat /\ outbuf[c] \in Nat /\ UnitsInv(c) /\ TrafficInv(c) /\ Active(c)
      /\ \A t \in Ids : count[t] \in Nat
  BY UnitFacts DEF FrameInv, StreamInv, Active
<1>2. Coming(c) \in Nat \ {0}
  BY <1>1 DEF Coming
<1>3. answer[c] = Reply(req[c])
  BY <1>1, <1>2 DEF UnitsInv
<1>4. /\ peer[c] = "up" /\ \E t \in Ids : Serves(t, c)
      /\ \A t \in Ids : Serves(t, c) => Exchange(t, c)
  BY <1>1, <1>2 DEF TrafficInv, Untouched, Abandoned
<1>5. \A t \in Ids : Serves(t, c) => Answering(t, c) \/ Written(t, c)
  BY <1>2, <1>4 DEF Exchange, Requesting, ReadFirst
<1>6. PICK t \in Ids : Serves(t, c)
  BY <1>4
<1>7. Coming(c) <= Response(req[c])
  <2>1. CASE Answering(t, c)
    <3>1. HandlerInv(t) /\ input[t] = req[c] /\ pc[t] = "write" /\ Coming(c) = count[t]
      BY <2>1 DEF Answering, FrameInv
    <3>2. count[t] <= Response(input[t])
      BY <3>1 DEF HandlerInv
    <3>3. QED
      BY <3>1, <3>2
  <2>2. CASE Written(t, c)
    BY <1>2, <2>2 DEF Written
  <2>3. QED
    BY <1>5, <1>6, <2>1, <2>2
<1>8. Response(req[c]) \in Nat /\ (Response(req[c]) # 0 => Frame(Reply(req[c])) = Response(req[c]))
  BY SizeFacts, FrameFacts
<1>9. Response(req[c]) # 0
  BY <1>2, <1>7, <1>8
<1>10. Frame(answer[c]) = Response(req[c])
  BY <1>3, <1>8, <1>9
<1>11. QED
  BY <1>2, <1>3, <1>4, <1>5, <1>7, <1>10

(* The client reads a part of its answer, and types on after the last. *)
LEMMA ReceiveFlows ==
  ASSUME IInv, IInv', FrameInv, NEW c \in Clients, Receive(c)
  PROVE  FrameInv'
<1> DEFINE n == Least(outbuf[c], Rest(received[c], Frame(answer[c])))
<1>1. /\ cpc[c] = "wait" /\ n > 0
      /\ outbuf' = [outbuf EXCEPT ![c] = @ - n]
      /\ \/ /\ received[c] + n = Frame(answer[c])
            /\ received' = [received EXCEPT ![c] = 0]
            /\ cpc' = [cpc EXCEPT ![c] = "idle"]
         \/ /\ received' = [received EXCEPT ![c] = @ + n]
            /\ UNCHANGED cpc
      /\ UNCHANGED <<schedVars, coroVars, file, peer, wire, inbuf, req, answer>>
  BY DEF Receive
<1>2. /\ {wire, inbuf, received} \subseteq [Clients -> Nat] /\ outbuf \in [Clients -> 0 .. SndBuf]
      /\ outbuf[c] \in Nat /\ received[c] \in Nat /\ TextInv
      /\ cpc \in [Clients -> {"new", "idle", "text", "wait", "gone", "aborted"}]
      /\ UnitsInv(c) /\ TrafficInv(c) /\ Active(c)
  BY <1>1, UnitFacts DEF IInv, DataInv, TypeInv, FrameInv, StreamInv, Active
<1>3. /\ {HeaderUnits, Longest, Frame(answer[c])} \subseteq Nat
      /\ HeaderUnits <= Frame(answer[c]) /\ Frame(answer[c]) <= Longest
  <2>1. /\ HeaderUnits \in Nat /\ TextUnits \in Nat /\ Longest = HeaderUnits + TextUnits
        /\ Frame(answer[c]) \in {HeaderUnits, Longest}
    BY SizeFacts
  <2>2. QED
    BY <2>1
<1>4. n \in 1 .. outbuf[c] /\ received[c] + n \in 1 .. Frame(answer[c])
  BY <1>1, <1>2, <1>3, TransferBound
<1> HIDE DEF n
<1>5. /\ answer[c] = Reply(req[c]) /\ peer[c] = "up" /\ Coming(c) \in Nat
      /\ \E t \in Ids : Serves(t, c)
      /\ \A t \in Ids : Serves(t, c) => Answering(t, c) \/ Written(t, c)
      /\ Coming(c) <= Frame(answer[c]) /\ Frame(answer[c]) = Response(req[c])
  <2>1. outbuf[c] > 0
    BY <1>2, <1>4
  <2>2. QED
    BY <1>1, <2>1, AnswerComing
<1>6. /\ UNCHANGED <<pc, sock, count, input>> /\ peer'[c] = peer[c] /\ TextInv'
      /\ \A t \in Ids : Serves(t, c)' <=> Serves(t, c)
  BY <1>1, <1>2 DEF coroVars, TextInv, Serves, Client
<1>7. Unread(c)' = Unread(c) /\ outbuf'[c] = outbuf[c] - n
      /\ \A d \in Clients : d # c => Same(d) /\ peer'[d] = peer[d]
  BY <1>1, <1>2 DEF Unread, Same
<1>8. CASE /\ received[c] + n = Frame(answer[c])
           /\ received' = [received EXCEPT ![c] = 0] /\ cpc' = [cpc EXCEPT ![c] = "idle"]
  <2>1. received'[c] = 0 /\ cpc'[c] = "idle" /\ Active(c)'
    BY <1>2, <1>8 DEF Active
  <2>2. outbuf[c] = n /\ Coming(c) = Response(req[c])
    BY <1>2, <1>3, <1>4, <1>5, <1>8 DEF Coming
  <2>3. Coming(c)' = 0
    BY <1>2, <1>7, <2>1, <2>2 DEF Coming
  <2>4. Sent(c)' = 0
    BY <2>1 DEF Sent
  <2>5. ASSUME NEW t \in Ids, Serves(t, c) PROVE Exchange(t, c)'
    <3>1. CASE Answering(t, c)
      <4>1. pc'[t] = "write" /\ Unread(c)' = 0 /\ count'[t] = Response(req[c])
            /\ input'[t] = input[t] /\ input[t] = req[c]
        BY <1>6, <1>7, <2>2, <3>1 DEF Answering
      <4>2. Response(input[t])' = Response(req[c])
        BY <4>1
      <4>3. ReadFirst(t, c)'
        BY <2>3, <2>4, <4>1, <4>2 DEF ReadFirst
      <4>4. QED
        BY <4>3 DEF Exchange
    <3>2. CASE Written(t, c)
      <4>1. Requesting(t, c)'
        BY <1>6, <1>7, <2>3, <2>4, <3>2 DEF Written, Requesting
      <4>2. QED
        BY <4>1 DEF Exchange
    <3>3. QED
      BY <1>5, <2>5, <3>1, <3>2
  <2>6. TrafficInv(c)'
    BY <1>5, <1>6, <2>5 DEF TrafficInv
  <2>7. UnitsInv(c)'
    BY <1>1, <1>2, <1>6, <1>7, <2>1, <2>3, SizeFacts DEF UnitsInv
  <2>8. QED
    BY <1>1, <1>6, <1>7, <2>6, <2>7, ClientMoves DEF StreamInv
<1>9. CASE received' = [received EXCEPT ![c] = @ + n] /\ UNCHANGED cpc
  <2>1. received'[c] = received[c] + n /\ received'[c] <= Longest
    <3>1. received'[c] = received[c] + n
      BY <1>2, <1>9
    <3>2. QED
      BY <1>2, <1>3, <1>4, <3>1
  <2>2. Coming(c)' = Coming(c)
    BY <1>2, <1>4, <1>7, <2>1 DEF Coming
  <2>3. \A t \in Ids : Serves(t, c) => Exchange(t, c)'
    <3> SUFFICES ASSUME NEW t \in Ids, Serves(t, c) PROVE Exchange(t, c)'
      OBVIOUS
    <3>1. Exchange(t, c)
      BY <1>5 DEF Exchange
    <3>2. UNCHANGED <<pc, count, input, cpc, req>>
      BY <1>1, <1>6, <1>9
    <3>3. QED
      BY <1>7, <2>2, <3>1, <3>2, SameTotals
  <2>4. TrafficInv(c)'
    BY <1>5, <1>6, <2>3 DEF TrafficInv
  <2>5. Reply(req[c])' = Reply(req[c]) /\ Active(c)' = Active(c)
    BY <1>1, <1>9 DEF Active
  <2>6. UnitsInv(c)'
    BY <1>1, <1>2, <1>7, <1>9, <2>1, <2>2, <2>5 DEF UnitsInv
  <2>7. QED
    BY <1>1, <1>6, <1>7, <2>4, <2>6, ClientMoves DEF StreamInv
<1>10. QED
  BY <1>1, <1>8, <1>9

(* No stream has a unit at first. *)
LEMMA InitFrameInv == Init => FrameInv
<1> SUFFICES ASSUME Init PROVE FrameInv
  OBVIOUS
<1>1. /\ input = [t \in Ids |-> NoText] /\ req = [c \in Clients |-> NoText]
      /\ answer = [c \in Clients |-> NoText]
  BY Zenon DEF Init, NoText
<1>2. /\ \A c \in Clients : /\ inbuf[c] = 0 /\ wire[c] = 0 /\ outbuf[c] = 0 /\ received[c] = 0
                            /\ cpc[c] = "new" /\ peer[c] = "none"
      /\ \A t \in Ids : /\ count[t] = 0 /\ exception[t] = FALSE
                        /\ pc[t] = IF t = Acceptor THEN "listen" ELSE "none"
  BY DEF Init, KernelInit, SchedInit
<1>3. TextInv
  BY <1>1 DEF TextInv
<1>4. Longest \in Nat
  BY SizeFacts
<1>5. ASSUME NEW c \in Clients PROVE StreamInv(c)
  BY <1>2, <1>4, <1>5 DEF StreamInv, UnitsInv, TrafficInv, Active, Unread, Coming
<1>6. ASSUME NEW t \in Ids PROVE HandlerInv(t)
  BY <1>2, <1>4, <1>6 DEF HandlerInv, HandlerPCs
<1>7. QED
  BY <1>3, <1>5, <1>6 DEF FrameInv

(* The inductive step of FrameInv, relative to IInv before and after it. *)
LEMMA NextFrameInv == IInv /\ IInv' /\ FrameInv /\ [Next]_vars => FrameInv'
<1> SUFFICES ASSUME IInv, IInv', FrameInv, [Next]_vars PROVE FrameInv'
  OBVIOUS
<1>1. ASSUME NEW u \in Ids, Switch(u) \/ Destroy(u) PROVE FrameInv'
  BY <1>1, SwitchFlows, DestroyFlows
<1>2. ASSUME NEW u \in Ids, AcceptorStep(u) \/ HandlerStep(u) PROVE FrameInv'
  BY <1>2, CoroutineFlows
<1>3. ASSUME IteratorEnds \/ Poll \/ UNCHANGED vars PROVE FrameInv'
  BY <1>3, StillFlows, PollFlows
<1>4. ASSUME NEW c \in Clients, SendText(c) \/ Receive(c) \/ Disconnected(c) \/ Quit(c)
      PROVE  FrameInv'
  BY <1>4, SendTextFlows, ReceiveFlows, LeaveFlows
<1>5. ASSUME NEW c \in Clients, Connect(c) \/ SendHeader(c) \/ Restart(c) \/ Network(c)
      PROVE  FrameInv'
  BY <1>5, ConnectFlows, SendHeaderFlows, RestartFlows, NetworkFlows
<1>6. QED
  BY <1>1, <1>2, <1>3, <1>4, <1>5, Zenon DEF Next, Server, ClientStep

(* Both invariants hold always. *)
LEMMA FrameInvariance == Spec => [](IInv /\ FrameInv)
<1>1. (IInv /\ FrameInv) /\ [Next]_vars => (IInv /\ FrameInv)'
  BY NextIInv, NextFrameInv
<1>2. QED
  BY <1>1, InitIInv, InitFrameInv, PTL DEF Spec

-----------------------------------------------------------------------------
(* No message is cut, skipped or read twice, however the reads and writes  *)
(* of the server, of the clients and of the network split it.              *)
THEOREM NoFrameIsCut == Spec => []FramesAreWhole
<1>1. IInv /\ FrameInv => FramesAreWhole
  <2> SUFFICES ASSUME IInv, FrameInv, NEW c \in Clients, NEW t \in Serving(c),
                      peer[c] = "up", cpc[c] \in {"idle", "text", "wait"}
               PROVE  LET unread == inbuf[c] + wire[c]
                          coming == received[c] + outbuf[c]
                      IN  \/ pc[t] # "write" /\ count[t] + unread = Sent(c) /\ coming = 0
                          \/ pc[t] = "write" /\ cpc[c] = "wait"
                             /\ unread = 0 /\ coming = count[t]
                          \/ pc[t] = "read" /\ cpc[c] = "wait" /\ count[t] = 0
                             /\ unread = 0 /\ coming = Response(req[c])
                          \/ pc[t] = "write" /\ count[t] = Response(input[t])
                             /\ unread = Sent(c) /\ coming = 0
    BY DEF FramesAreWhole
  <2>1. t \in Ids /\ Serves(t, c) /\ Active(c)
    BY DEF Serving, Handlers, Live, FDsOf, Serves, Client, Active
  <2>2. Exchange(t, c)
    BY <2>1 DEF FrameInv, StreamInv, TrafficInv
  <2>3. QED
    BY <2>2 DEF Exchange, Requesting, Answering, Written, ReadFirst, Unread, Coming
<1>2. QED
  BY <1>1, FrameInvariance, PTL

(* Only a read that completes a message ends the wait of a client that     *)
(* goes on.                                                                *)
LEMMA ReceiveEndsWait ==
  ASSUME IInv, [Next]_vars, NEW c \in Clients, cpc[c] = "wait", cpc'[c] = "idle"
  PROVE  Receive(c)
<1>1. cpc \in [Clients -> {"new", "idle", "text", "wait", "gone", "aborted"}]
  BY DEF IInv, TypeInv
<1>2. cpc' # cpc
  OBVIOUS
<1>3. ASSUME NEW t \in Ids, Switch(t) \/ Destroy(t) \/ AcceptorStep(t) \/ HandlerStep(t)
      PROVE  cpc' = cpc
  <2>1. CASE Switch(t) \/ Destroy(t)
    BY <2>1, Zenon DEF Switch, Destroy, clientVars
  <2>2. CASE AcceptorStep(t)
    BY <2>2, Zenon DEF AcceptorStep, Listen, BindFails, Throw, AddAcceptEvent, AwaitClients,
                       Accept, NoneToAccept, AcceptFails, Spawn, clientVars
  <2>3. CASE HandlerStep(t)
    BY <2>3, Zenon DEF HandlerStep, AddReadEvent, Read, ReadAgain, ReadFails, EmptyInput, Dispatch,
                       Write, WriteAgain, WriteFails, SigPipe, Answered, Rethrown, Throw, Await,
                       clientVars
  <2>4. QED
    BY <1>3, <2>1, <2>2, <2>3
<1>4. ASSUME IteratorEnds \/ Poll \/ UNCHANGED vars PROVE cpc' = cpc
  BY <1>4, Zenon DEF IteratorEnds, Poll, vars, clientVars
<1>5. ASSUME NEW d \in Clients, \/ Connect(d) \/ SendHeader(d) \/ SendText(d) \/ Disconnected(d)
                                \/ Quit(d) \/ Restart(d) \/ Network(d)
      PROVE  FALSE
  <2>1. \/ UNCHANGED cpc
        \/ cpc[d] \in {"new", "idle"}
        \/ \E p \in {"new", "wait", "gone", "aborted"} : cpc' = [cpc EXCEPT ![d] = p]
    BY <1>5, Zenon DEF Connect, SendHeader, SendText, Disconnected, Quit, Leave, Restart, Network,
                       clientVars
  <2>2. \E p : cpc' = [cpc EXCEPT ![d] = p]
    BY <1>2, <1>5, Zenon DEF Connect, SendHeader, SendText, Disconnected, Quit, Leave, Restart,
                             Network, clientVars
  <2>3. QED
    BY <1>1, <1>2, <2>1, <2>2
<1>6. ASSUME NEW d \in Clients, Receive(d) PROVE d = c
  <2>1. UNCHANGED cpc \/ cpc' = [cpc EXCEPT ![d] = "idle"]
    BY <1>6 DEF Receive
  <2>2. QED
    BY <1>1, <1>2, <2>1
<1>7. QED
  BY <1>2, <1>3, <1>4, <1>5, <1>6, Zenon DEF Next, Server, ClientStep

(* The answer a client reads to its end is that of the request it sent,    *)
(* not of an earlier one and not of another client's.                      *)
THEOREM AnswersAreRight == Spec => AnswersMatch
<1> DEFINE Match == \A c \in Clients : cpc[c] = "wait" /\ cpc'[c] = "idle" =>
                       answer[c] = Reply(req[c])
<1>1. IInv /\ FrameInv /\ [Next]_vars => Match
  <2> SUFFICES ASSUME IInv, FrameInv, [Next]_vars,
                      NEW c \in Clients, cpc[c] = "wait", cpc'[c] = "idle"
               PROVE  answer[c] = Reply(req[c])
    OBVIOUS
  <2>1. Least(outbuf[c], Rest(received[c], Frame(answer[c]))) > 0
    BY ReceiveEndsWait DEF Receive
  <2>2. outbuf[c] \in Nat /\ received[c] \in Nat /\ Frame(answer[c]) \in Nat
    BY UnitFacts, FrameFacts
  <2>3. outbuf[c] > 0
    BY <2>1, <2>2, LeastFacts
  <2>4. QED
    BY <2>3, AnswerComing
<1>2. QED
  BY <1>1, FrameInvariance, PTL DEF Spec, AnswersMatch

(* The kernel's backlog, which Connect fills and AsyncAccept empties. *)
LEMMA BacklogBound ==
  ASSUME IInv, [Next]_vars, Len(backlog) <= Backlog
  PROVE  Len(backlog') <= Backlog
<1>1. backlog \in Seq(Clients) /\ Backlog \in Nat /\ Len(backlog) \in Nat
  BY EPollerConstants, LenProperties DEF IInv, TypeInv
<1>2. ASSUME NEW fds, Close(fds) PROVE Len(backlog') <= Backlog
  <2>1. backlog' = backlog \/ backlog' = <<>>
    BY <1>2, Zenon DEF Close
  <2>2. Len(<<>>) = 0
    OBVIOUS
  <2>3. QED
    BY <1>1, <2>1, <2>2
<1>3. ASSUME NEW t \in Ids, Switch(t) \/ Destroy(t) \/ AcceptorStep(t) \/ HandlerStep(t)
      PROVE  \/ backlog' = backlog
             \/ \E fds : Close(fds)
             \/ backlog # <<>> /\ backlog' = Tail(backlog)
  <2>1. CASE Switch(t) \/ Destroy(t)
    BY <2>1, Zenon DEF Switch, Destroy, kernelVars
  <2>2. CASE AcceptorStep(t)
    BY <2>2, Zenon DEF AcceptorStep, Listen, BindFails, Throw, AddAcceptEvent, AddEvent, Control,
                       AwaitClients, Accept, NoneToAccept, AcceptFails, Spawn, kernelVars
  <2>3. CASE HandlerStep(t)
    BY <2>3, Zenon DEF HandlerStep, AddReadEvent, AddEvent, Control, Read, ReadAgain, ReadFails,
                       EmptyInput, Dispatch, AppendWriteEvent, Write, WriteAgain, WriteFails,
                       SigPipe, Answered, RemoveWriteEvent, Rethrown, Throw, Await, kernelVars
  <2>4. QED
    BY <1>3, <2>1, <2>2, <2>3
<1>4. ASSUME IteratorEnds \/ Poll \/ UNCHANGED vars PROVE backlog' = backlog
  BY <1>4, Zenon DEF IteratorEnds, Poll, PollEvents, vars, kernelVars
<1>5. ASSUME NEW c \in Clients, \/ Connect(c) \/ SendHeader(c) \/ ClientStep(c)
                                \/ Quit(c) \/ Restart(c) \/ Network(c)
      PROVE  \/ backlog' = backlog
             \/ Len(backlog) < Backlog /\ backlog' = Append(backlog, c)
  BY <1>5, Zenon DEF Connect, Handshake, SendHeader, ClientStep, SendText, Receive, Disconnected,
                     Quit, Leave, Restart, Network, Deliver, ArriveFin, ArriveRst, kernelVars
<1>6. CASE backlog # <<>> /\ backlog' = Tail(backlog)
  <2>1. Len(backlog') = Len(backlog) - 1
    BY <1>1, <1>6, HeadTailProperties
  <2>2. QED
    BY <1>1, <2>1
<1>7. CASE \E c \in Clients : Len(backlog) < Backlog /\ backlog' = Append(backlog, c)
  <2>1. Len(backlog') = Len(backlog) + 1 /\ Len(backlog) < Backlog
    BY <1>1, <1>7, AppendProperties
  <2>2. QED
    BY <1>1, <2>1
<1>8. CASE backlog' = backlog
  BY <1>8
<1>9. \/ backlog' = backlog \/ \E fds : Close(fds)
      \/ backlog # <<>> /\ backlog' = Tail(backlog)
      \/ \E c \in Clients : Len(backlog) < Backlog /\ backlog' = Append(backlog, c)
  BY <1>3, <1>4, <1>5, Zenon DEF Next, Server
<1>10. QED
  BY <1>2, <1>6, <1>7, <1>8, <1>9

(* Every variable keeps its type, and the numbers their bounds: there is   *)
(* never more of a connection's traffic than one request and one answer.   *)
THEOREM TypeCorrect == Spec => []TypeOK
<1>1. ASSUME IInv, FrameInv, Len(backlog) <= Backlog PROVE TypeOK
  <2>1. TypeInv /\ DataInv /\ TextInv /\ IsInjective(rdllist)
    BY <1>1 DEF IInv, RegInv, FrameInv
  <2>2. /\ HeaderUnits + TextUnits = Longest /\ Longest \in Nat
    BY SizeFacts
  <2>3. rdllist \in Seq(Registered)
    <3>1. rdllist \in [1 .. Len(rdllist) -> FDs] /\ Len(rdllist) \in Nat
      BY <2>1, LenProperties DEF TypeInv
    <3>2. \A i \in 1 .. Len(rdllist) : rdllist[i] \in Registered
      BY <1>1, <3>1 DEF IInv, RegInv, ToSet
    <3>3. rdllist \in [1 .. Len(rdllist) -> Registered]
      BY <3>1, <3>2
    <3>4. QED
      BY <3>1, <3>3
  <2>4. /\ wire \in [Clients -> 0 .. Longest] /\ inbuf \in [Clients -> 0 .. Longest]
        /\ received \in [Clients -> 0 .. Longest]
    <3>1. ASSUME NEW c \in Clients
          PROVE  /\ wire[c] \in 0 .. Longest /\ inbuf[c] \in 0 .. Longest
                 /\ received[c] \in 0 .. Longest
      BY <1>1, <2>1, <2>2 DEF DataInv, FrameInv, StreamInv, UnitsInv, Unread
    <3>2. QED
      BY <2>1, <3>1 DEF DataInv
  <2>5. count \in [Ids -> 0 .. Longest]
    <3>1. ASSUME NEW t \in Ids PROVE count[t] \in 0 .. Longest
      BY <1>1, <2>1, <2>2 DEF DataInv, FrameInv, HandlerInv
    <3>2. QED
      BY <2>1, <3>1 DEF DataInv
  <2>6. /\ input \in [Ids -> Commands \cup {""}] /\ req \in [Clients -> Commands \cup {""}]
        /\ answer \in [Clients -> {Reply(command) : command \in Commands} \cup {""}]
    BY <2>1, Zenon DEF TextInv, NoText
  <2>7. /\ wire \in [Clients -> 0 .. HeaderUnits + TextUnits]
        /\ inbuf \in [Clients -> 0 .. HeaderUnits + TextUnits]
        /\ received \in [Clients -> 0 .. HeaderUnits + TextUnits]
        /\ count \in [Ids -> 0 .. HeaderUnits + TextUnits]
    BY <2>2, <2>4, <2>5
  <2>8. outbuf \in [Clients -> 0 .. SndBuf]
    BY <2>1 DEF DataInv
  <2>9. QED
    BY <1>1, <2>1, <2>3, <2>6, <2>7, <2>8, Zenon DEF TypeOK, TypeInv
<1>2. Init => Len(backlog) <= Backlog
  <2>1. Init => backlog = <<>>
    BY DEF Init, KernelInit
  <2>2. QED
    BY <2>1, EPollerConstants
<1> DEFINE All == IInv /\ FrameInv /\ Len(backlog) <= Backlog
<1>3. Init => All
  BY <1>2, InitIInv, InitFrameInv
<1>4. All /\ [Next]_vars => All'
  BY NextIInv, NextFrameInv, BacklogBound
<1>5. All => TypeOK
  BY <1>1
<1>6. QED
  BY <1>3, <1>4, <1>5, PTL DEF Spec
=============================================================================
