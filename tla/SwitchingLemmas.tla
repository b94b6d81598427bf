-------------------------- MODULE SwitchingLemmas --------------------------
(***************************************************************************)
(* What the instructions of Switching do to a machine: the stack           *)
(* operations of compiled code, and the ways of saving one continuation    *)
(* and going on with another.                                              *)
(***************************************************************************)
EXTENDS Switching, SequenceTheorems, TLAPS

(* A machine has its five parts, all registers, and all words of all stacks.   *)
Shape(m) ==
    /\ m = [reg |-> m.reg, rax |-> m.rax, rip |-> m.rip, mem |-> m.mem, cont |-> m.cont]
    /\ m.reg = [r \in Registers |-> m.reg[r]]
    /\ m.mem = [s \in Stacks |-> m.mem[s]]
    /\ \A s \in Stacks : m.mem[s] = [d \in 1..Words |-> m.mem[s][d]]
    /\ m.cont = [s \in Stacks |-> m.cont[s]]

(* A word that no measure of the stack takes for an unused one.                *)
Unpainted(w) == \A p \in Patterns : w # <<p>>

(* From m to n only words of the stack s above its word d were written,        *)
Kept(m, n, s, d) ==
    /\ \A u \in Stacks : u # s => n.mem[u] = m.mem[u]
    /\ \A e \in 1..Words : e <= d => n.mem[s][e] = m.mem[s][e]

(* and none of them was painted.                                               *)
Above(m, n, s, d) ==
    /\ Kept(m, n, s, d)
    /\ \A e \in 1..Words : n.mem[s][e] = m.mem[s][e] \/ Unpainted(n.mem[s][e])

(* Only registers and words of memory differ.                                  *)
SameRest(m, n) == n.rax = m.rax /\ n.cont = m.cont

(* What a continuation of a build loads into a register. *)
Saved(b, cont, r) ==
    IF b = "asm" THEN cont[Field(AsmStored, r)]
    ELSE IF b = "jump" THEN cont[Field(JumpLayout, r)] ELSE cont[r]

(* The registers with other pointers into the stack. *)
Pointers(reg, sp, bp) ==
    [r \in Registers |-> IF r = "rsp" THEN sp ELSE IF r = "rbp" THEN bp ELSE reg[r]]

(* m with other pointers into the stack, at another place. *)
Moved(m, sp, bp, place) ==
    [reg |-> Pointers(m.reg, sp, bp), rax |-> m.rax, rip |-> place,
     mem |-> m.mem, cont |-> m.cont]

(* Registers with other pointers: what they hold, and that the last pointers count. *)
LEMMA PointersAre ==
  ASSUME NEW reg, NEW sp, NEW bp
  PROVE  /\ Pointers(reg, sp, bp) = [r \in Registers |-> Pointers(reg, sp, bp)[r]]
         /\ Pointers(reg, sp, bp)["rsp"] = sp /\ Pointers(reg, sp, bp)["rbp"] = bp
         /\ \A r \in Registers \ {"rsp", "rbp"} : Pointers(reg, sp, bp)[r] = reg[r]
         /\ \A a, b : Pointers(Pointers(reg, sp, bp), a, b) = Pointers(reg, a, b)
  BY DEF Pointers, Registers, CalleeSaved

(* Registers with the pointers they have.                                      *)
LEMMA PointersOf ==
  ASSUME NEW m, Shape(m)
  PROVE  Pointers(m.reg, m.reg["rsp"], m.reg["rbp"]) = m.reg
  BY DEF Pointers, Shape

(* A moved machine keeps its shape and all but its pointers and its place.     *)
LEMMA MovedIs ==
  ASSUME NEW m, Shape(m), NEW sp, NEW bp, NEW p
  PROVE  /\ Shape(Moved(m, sp, bp, p)) /\ SameRest(m, Moved(m, sp, bp, p))
         /\ Moved(m, sp, bp, p).mem = m.mem /\ Moved(m, sp, bp, p).rip = p
         /\ Moved(m, sp, bp, p).reg = Pointers(m.reg, sp, bp)
  BY DEF Moved, Pointers, Shape, SameRest

(* An assignment to the stack or the frame pointer moves the machine.          *)
LEMMA PointerSet ==
  ASSUME NEW m, Shape(m), NEW a
  PROVE  /\ [m EXCEPT !.reg["rsp"] = a] = Moved(m, a, m.reg["rbp"], m.rip)
         /\ [m EXCEPT !.reg["rbp"] = a] = Moved(m, m.reg["rsp"], a, m.rip)
<1>1. {"rsp", "rbp"} \subseteq Registers
  BY DEF Registers, CalleeSaved
<1>2. /\ [m.reg EXCEPT !["rsp"] = a] = Pointers(m.reg, a, m.reg["rbp"])
      /\ [m.reg EXCEPT !["rbp"] = a] = Pointers(m.reg, m.reg["rsp"], a)
  BY <1>1 DEF Shape, Pointers
<1>3. \A r \in {"rsp", "rbp"} :
         [m EXCEPT !.reg[r] = a] = [reg |-> [m.reg EXCEPT ![r] = a], rax |-> m.rax,
                                    rip |-> m.rip, mem |-> m.mem, cont |-> m.cont]
  BY DEF Shape
<1>4. QED
  BY <1>2, <1>3 DEF Moved

(* What is written above a deeper word is written above a higher one.          *)
LEMMA AboveTwice ==
  ASSUME NEW m, NEW n, NEW o, NEW s \in Stacks, NEW d \in Nat, NEW e \in Nat, d <= e,
         Above(m, n, s, d), Above(n, o, s, e)
  PROVE  Above(m, o, s, d)
  BY DEF Above, Kept

(* The places of the code, the addresses and the values of registers are none  *)
(* of the patterns.                                                            *)
LEMMA PlainWords ==
  /\ \A p \in Places : Unpainted(<<p>>)
  /\ \A s, d : Unpainted(<<s, d>>)
  /\ \A r, o, v : Unpainted(<<r, o, v>>)
  /\ Unpainted(Junk)
  BY DEF Unpainted, Patterns, Places, LoopPlaces, TaskPlaces, Junk

(* A push writes the next word and moves the stack pointer to it.              *)
LEMMA PushIs ==
  ASSUME NEW m, Shape(m), NEW s \in Stacks, NEW d \in 0..(Words - 1),
         m.reg["rsp"] = <<s, d>>, NEW w
  PROVE  /\ Shape(Push(m, w)) /\ SameRest(m, Push(m, w)) /\ Push(m, w).rip = m.rip
         /\ Push(m, w).reg = Pointers(m.reg, <<s, d + 1>>, m.reg["rbp"])
         /\ Push(m, w).mem[s][d + 1] = w
         /\ Kept(m, Push(m, w), s, d)
         /\ (Unpainted(w) => Above(m, Push(m, w), s, d))
<1> DEFINE n == Push(m, w)
<1>1. m.reg["rsp"][1] = s /\ m.reg["rsp"][2] = d
  OBVIOUS
<1>2. n = [m EXCEPT !.reg["rsp"] = <<s, d + 1>>, !.mem[s][d + 1] = w]
  BY <1>1 DEF Push
<1>3. "rsp" \in Registers /\ d + 1 \in 1..Words
  BY WordsAssumption DEF Registers
<1>4. n = [reg |-> [m.reg EXCEPT !["rsp"] = <<s, d + 1>>], rax |-> m.rax, rip |-> m.rip,
           mem |-> [m.mem EXCEPT ![s] = [@ EXCEPT ![d + 1] = w]], cont |-> m.cont]
  BY <1>2, <1>3 DEF Shape
<1> HIDE DEF n
<1>5. n.mem[s] = [m.mem[s] EXCEPT ![d + 1] = w] /\ \A u \in Stacks : u # s => n.mem[u] = m.mem[u]
  BY <1>3, <1>4 DEF Shape
<1>6. Shape(n)
  BY <1>3, <1>4, <1>5 DEF Shape
<1>7. n.mem[s][d + 1] = w /\ \A e \in 1..Words : e # d + 1 => n.mem[s][e] = m.mem[s][e]
  BY <1>3, <1>5 DEF Shape
<1>8. Kept(m, n, s, d) /\ (Unpainted(w) => Above(m, n, s, d))
  BY <1>3, <1>5, <1>7 DEF Above, Kept
<1>9. n.reg = Pointers(m.reg, <<s, d + 1>>, m.reg["rbp"])
  BY <1>3, <1>4 DEF Shape, Pointers
<1>10. QED
  BY <1>4, <1>6, <1>7, <1>8, <1>9 DEF n, SameRest

(* A call pushes the address it returns to.                                    *)
LEMMA CallIs ==
  ASSUME NEW m, Shape(m), NEW s \in Stacks, NEW d \in 0..(Words - 1),
         m.reg["rsp"] = <<s, d>>, NEW p \in Places
  PROVE  /\ Shape(Call(m, p)) /\ SameRest(m, Call(m, p)) /\ Call(m, p).rip = m.rip
         /\ Call(m, p).reg = Pointers(m.reg, <<s, d + 1>>, m.reg["rbp"])
         /\ Call(m, p).mem[s][d + 1] = <<p>>
         /\ Above(m, Call(m, p), s, d)
  BY PushIs, PlainWords DEF Call

(* A compiled function saves the frame pointer and sets it to the saved one.   *)
LEMMA PrologueIs ==
  ASSUME NEW m, Shape(m), NEW s \in Stacks, NEW d \in 0..(Words - 1),
         m.reg["rsp"] = <<s, d>>, Unpainted(m.reg["rbp"])
  PROVE  /\ Shape(Prologue(m)) /\ SameRest(m, Prologue(m)) /\ Prologue(m).rip = m.rip
         /\ Prologue(m).reg = Pointers(m.reg, <<s, d + 1>>, <<s, d + 1>>)
         /\ Prologue(m).mem[s][d + 1] = m.reg["rbp"]
         /\ Above(m, Prologue(m), s, d)
<1> DEFINE p == Push(m, m.reg["rbp"])
<1>1. /\ Shape(p) /\ SameRest(m, p) /\ p.rip = m.rip
      /\ p.reg = Pointers(m.reg, <<s, d + 1>>, m.reg["rbp"])
      /\ p.mem[s][d + 1] = m.reg["rbp"] /\ Above(m, p, s, d)
  BY PushIs
<1>2. Prologue(m) = [p EXCEPT !.reg["rbp"] = p.reg["rsp"]]
  BY DEF Prologue
<1> HIDE DEF p
<1>3. p.reg["rsp"] = <<s, d + 1>>
  BY <1>1, PointersAre
<1>4. Prologue(m) = Moved(p, <<s, d + 1>>, <<s, d + 1>>, m.rip)
  BY <1>1, <1>2, <1>3, PointerSet
<1>5. QED
  BY <1>1, <1>4, MovedIs, PointersAre DEF SameRest, Above, Kept

(* An address with another word of the same stack.                             *)
LEMMA Pair == \A s, d, x : [<<s, d>> EXCEPT ![2] = x] = <<s, x>>
  OBVIOUS

(* The stack pointer goes back by a word.                                      *)
LEMMA DropIs ==
  ASSUME NEW m, Shape(m), NEW s, NEW d, m.reg["rsp"] = <<s, d>>
  PROVE  Drop(m) = Moved(m, <<s, d - 1>>, m.reg["rbp"], m.rip)
<1>1. "rsp" \in Registers
  BY DEF Registers
<1>2. [m.reg["rsp"] EXCEPT ![2] = @ - 1] = <<s, d - 1>>
  BY Pair
<1>3. [m.reg EXCEPT !["rsp"] = <<s, d - 1>>] = Pointers(m.reg, <<s, d - 1>>, m.reg["rbp"])
  BY <1>1 DEF Shape, Pointers
<1>4. QED
  BY <1>1, <1>2, <1>3 DEF Drop, Shape, Moved

(* A return goes on at the address on the top of the stack.                    *)
LEMMA RetIs ==
  ASSUME NEW m, Shape(m), NEW s \in Stacks, NEW d \in 1..Words, m.reg["rsp"] = <<s, d>>
  PROVE  Ret(m) = Moved(m, <<s, d - 1>>, m.reg["rbp"], m.mem[s][d][1])
<1>1. Word(m) = m.mem[s][d]
  BY DEF Word
<1>2. QED
  BY <1>1, DropIs DEF Ret, Moved

(* A machine at another place.                                                 *)
LEMMA GotoIs ==
  ASSUME NEW m, Shape(m), NEW p
  PROVE  Goto(m, p) = Moved(m, m.reg["rsp"], m.reg["rbp"], p)
  BY PointersOf DEF Goto, Moved, Shape

(* leave and ret: the frame pointer finds the caller's and the return address. *)
LEMMA EpilogueIs ==
  ASSUME NEW m, Shape(m), NEW s \in Stacks, NEW d \in 2..Words, m.reg["rbp"] = <<s, d>>
  PROVE  Epilogue(m) = Moved(m, <<s, d - 2>>, m.mem[s][d], m.mem[s][d - 1][1])
<1> DEFINE p == [m EXCEPT !.reg["rsp"] = m.reg["rbp"]]
           o == [p EXCEPT !.reg["rbp"] = Word(p)]
<1>1. p = Moved(m, <<s, d>>, <<s, d>>, m.rip)
  BY PointerSet
<1> HIDE DEF p
<1>2. Word(p) = m.mem[s][d] /\ Shape(p) /\ p.reg["rsp"] = <<s, d>>
  BY <1>1, MovedIs, PointersAre DEF Word
<1>3. o = Moved(p, <<s, d>>, m.mem[s][d], p.rip)
  BY <1>2, PointerSet
<1>4. o = Moved(m, <<s, d>>, m.mem[s][d], m.rip)
  BY <1>1, <1>3, PointersAre DEF Moved
<1>5. Epilogue(m) = Ret(Drop(o))
  BY DEF Epilogue, p
<1> HIDE DEF o
<1>6. Shape(o) /\ o.mem = m.mem /\ o.reg["rsp"] = <<s, d>> /\ o.reg["rbp"] = m.mem[s][d]
  BY <1>4, MovedIs, PointersAre
<1>7. Drop(o) = Moved(m, <<s, d - 1>>, m.mem[s][d], m.rip)
  BY <1>4, <1>6, DropIs, PointersAre DEF Moved
<1>8. /\ Shape(Drop(o)) /\ Drop(o).mem = m.mem
      /\ Drop(o).reg["rsp"] = <<s, d - 1>> /\ Drop(o).reg["rbp"] = m.mem[s][d]
  BY <1>7, MovedIs, PointersAre
<1>9. d - 1 \in 1..Words /\ (d - 1) - 1 = d - 2
  BY WordsAssumption
<1>10. Ret(Drop(o)) = Moved(Drop(o), <<s, d - 2>>, m.mem[s][d], m.mem[s][d - 1][1])
  BY <1>8, <1>9, RetIs
<1>11. QED
  BY <1>5, <1>7, <1>10, PointersAre DEF Moved

(* Every register has its field in either layout. *)
LEMMA Fields ==
  /\ AsmLoaded = AsmStored /\ DOMAIN AsmStored = 1..7 /\ DOMAIN JumpLayout = 1..7
  /\ \A r \in Registers : Field(AsmStored, r) \in 1..7 /\ AsmStored[Field(AsmStored, r)] = r
  /\ \A r \in Registers : Field(JumpLayout, r) \in 1..7 /\ JumpLayout[Field(JumpLayout, r)] = r
<1>1. AsmLoaded = AsmStored /\ DOMAIN AsmStored = 1..7 /\ DOMAIN JumpLayout = 1..7
  BY DEF AsmLoaded, AsmStored, JumpLayout
<1>2. ASSUME NEW r \in Registers
      PROVE  /\ \E i \in 1..7 : AsmStored[i] = r
             /\ \E i \in 1..7 : JumpLayout[i] = r
  BY DEF AsmStored, JumpLayout, Registers, CalleeSaved
<1>3. ASSUME NEW r \in Registers
      PROVE  /\ Field(AsmStored, r) \in 1..7 /\ AsmStored[Field(AsmStored, r)] = r
             /\ Field(JumpLayout, r) \in 1..7 /\ JumpLayout[Field(JumpLayout, r)] = r
  BY <1>1, <1>2 DEF Field
<1>4. QED
  BY <1>1, <1>3

(* A machine with some of its parts replaced. *)
LEMMA Replaced ==
  ASSUME NEW m, Shape(m), NEW u, NEW c, NEW x
  PROVE  /\ [m EXCEPT !.cont[u] = c] =
              [reg |-> m.reg, rax |-> m.rax, rip |-> m.rip, mem |-> m.mem,
               cont |-> [m.cont EXCEPT ![u] = c]]
         /\ [m EXCEPT !.cont[u] = c, !.rax = x] =
              [reg |-> m.reg, rax |-> x, rip |-> m.rip, mem |-> m.mem,
               cont |-> [m.cont EXCEPT ![u] = c]]
         /\ [m EXCEPT !.cont = c, !.reg = x] =
              [reg |-> x, rax |-> m.rax, rip |-> m.rip, mem |-> m.mem, cont |-> c]
<1>1. [m EXCEPT !.cont[u] = c] =
         [reg |-> m.reg, rax |-> m.rax, rip |-> m.rip, mem |-> m.mem,
               cont |-> [m.cont EXCEPT ![u] = c]]
  <2> DEFINE n == [m EXCEPT !.cont[u] = c]
  <2>1. DOMAIN n = {"reg", "rax", "rip", "mem", "cont"}
    BY DEF Shape
  <2>2. n.cont = [m.cont EXCEPT ![u] = c] /\ n.reg = m.reg /\ n.rax = m.rax /\ n.rip = m.rip /\ n.mem = m.mem
    BY DEF Shape
  <2>3. n = [f \in DOMAIN n |-> n[f]]
    OBVIOUS
  <2> HIDE DEF n
  <2>4. n = [reg |-> m.reg, rax |-> m.rax, rip |-> m.rip, mem |-> m.mem,
               cont |-> [m.cont EXCEPT ![u] = c]]
    BY <2>1, <2>2, <2>3
  <2>5. QED
    BY <2>4 DEF n
<1>2. [m EXCEPT !.cont[u] = c, !.rax = x] =
         [reg |-> m.reg, rax |-> x, rip |-> m.rip, mem |-> m.mem,
               cont |-> [m.cont EXCEPT ![u] = c]]
  <2> DEFINE n == [m EXCEPT !.cont[u] = c, !.rax = x]
  <2>1. DOMAIN n = {"reg", "rax", "rip", "mem", "cont"}
    BY DEF Shape
  <2>2. n.cont = [m.cont EXCEPT ![u] = c] /\ n.reg = m.reg /\ n.rax = x /\ n.rip = m.rip /\ n.mem = m.mem
    BY DEF Shape
  <2>3. n = [f \in DOMAIN n |-> n[f]]
    OBVIOUS
  <2> HIDE DEF n
  <2>4. n = [reg |-> m.reg, rax |-> x, rip |-> m.rip, mem |-> m.mem,
               cont |-> [m.cont EXCEPT ![u] = c]]
    BY <2>1, <2>2, <2>3
  <2>5. QED
    BY <2>4 DEF n
<1>3. [m EXCEPT !.cont = c, !.reg = x] =
         [reg |-> x, rax |-> m.rax, rip |-> m.rip, mem |-> m.mem, cont |-> c]
  <2> DEFINE n == [m EXCEPT !.cont = c, !.reg = x]
  <2>1. DOMAIN n = {"reg", "rax", "rip", "mem", "cont"}
    BY DEF Shape
  <2>2. n.cont = c /\ n.reg = x /\ n.rax = m.rax /\ n.rip = m.rip /\ n.mem = m.mem
    BY DEF Shape
  <2>3. n = [f \in DOMAIN n |-> n[f]]
    OBVIOUS
  <2> HIDE DEF n
  <2>4. n = [reg |-> x, rax |-> m.rax, rip |-> m.rip, mem |-> m.mem, cont |-> c]
    BY <2>1, <2>2, <2>3
  <2>5. QED
    BY <2>4 DEF n
<1>4. QED
  BY <1>1, <1>2, <1>3

(* contextswitch: the stack pointer is saved before the return, and the new    *)
(* continuation goes on at the address on the top of its stack.                *)
LEMMA ContextswitchIs ==
  ASSUME NEW m, Shape(m), NEW old \in Stacks, NEW new \in Stacks, old # new,
         NEW s \in Stacks, NEW d \in 1..Words, Saved("asm", m.cont[new], "rsp") = <<s, d>>
  PROVE  LET n == contextswitch(m, old, new)
         IN  /\ Shape(n) /\ n.mem = m.mem /\ n.rax = m.rax
             /\ n.rip = m.mem[s][d][1]
             /\ \A r \in Registers : n.reg[r] = IF r = "rsp" THEN <<s, d - 1>> ELSE Saved("asm", m.cont[new], r)
             /\ \A u \in Stacks : u # old => n.cont[u] = m.cont[u]
             /\ \A r \in Registers : Saved("asm", n.cont[old], r) = m.reg[r]
<1> DEFINE saved == [i \in DOMAIN AsmStored |-> m.reg[AsmStored[i]]]
           cont == [m.cont EXCEPT ![old] = saved]
           loaded == [r \in Registers |-> cont[new][Field(AsmLoaded, r)]]
           o == [m EXCEPT !.cont = cont, !.reg = loaded]
           n == contextswitch(m, old, new)
<1>1. n = Ret(o)
  BY DEF contextswitch
<1>2. cont[old] = saved /\ (\A u \in Stacks : u # old => cont[u] = m.cont[u])
      /\ cont = [u \in Stacks |-> cont[u]]
  BY DEF Shape
<1> HIDE DEF cont
<1>3. \A r \in Registers : cont[new][Field(AsmLoaded, r)] = Saved("asm", m.cont[new], r)
  BY <1>2, Fields DEF Saved
<1>4. \A r \in Registers : loaded[r] = Saved("asm", m.cont[new], r)
  BY <1>3
<1>5. loaded = [r \in Registers |-> loaded[r]]
  OBVIOUS
<1> HIDE DEF loaded
<1>6. o = [reg |-> loaded, rax |-> m.rax, rip |-> m.rip, mem |-> m.mem, cont |-> cont]
  BY Replaced
<1> HIDE DEF o
<1>7. Shape(o)
  BY <1>2, <1>5, <1>6 DEF Shape
<1>8. o.reg["rsp"] = <<s, d>>
  BY <1>4, <1>6 DEF Registers
<1>9. n = Moved(o, <<s, d - 1>>, o.reg["rbp"], m.mem[s][d][1])
  BY <1>1, <1>7, <1>8, <1>6, RetIs
<1> HIDE DEF n
<1>10. /\ Shape(n) /\ n.mem = m.mem /\ n.rax = m.rax /\ n.cont = cont
      /\ n.rip = m.mem[s][d][1] /\ n.reg = Pointers(o.reg, <<s, d - 1>>, o.reg["rbp"])
  BY <1>7, <1>9, <1>6, MovedIs DEF SameRest
<1>11. \A r \in Registers : n.reg[r] = IF r = "rsp" THEN <<s, d - 1>> ELSE Saved("asm", m.cont[new], r)
  BY <1>4, <1>10, <1>6 DEF Pointers
<1>12. \A r \in Registers : Saved("asm", n.cont[old], r) = m.reg[r]
  BY <1>2, <1>10, Fields DEF Saved
<1>13. QED
  BY <1>2, <1>10, <1>11, <1>12 DEF n

(* setcontext: all registers and the place come from the context.              *)
LEMMA SetcontextIs ==
  ASSUME NEW m, Shape(m), NEW new \in Stacks
  PROVE  /\ Shape(setcontext(m, new)) /\ setcontext(m, new).mem = m.mem
         /\ setcontext(m, new).rax = m.rax /\ setcontext(m, new).cont = m.cont
         /\ setcontext(m, new).rip = m.cont[new]["rip"][1]
         /\ \A r \in Registers : setcontext(m, new).reg[r] = Saved("context", m.cont[new], r)
<1> DEFINE loaded == [r \in Registers |-> m.cont[new][r]]
<1>1. \A r \in Registers : loaded[r] = Saved("context", m.cont[new], r)
  BY DEF Saved
<1>2. setcontext(m, new) = [m EXCEPT !.reg = loaded, !.rip = m.cont[new]["rip"][1]]
  BY DEF setcontext
<1>3. loaded = [r \in Registers |-> loaded[r]]
  OBVIOUS
<1> HIDE DEF loaded
<1>4. setcontext(m, new) = [reg |-> loaded, rax |-> m.rax, rip |-> m.cont[new]["rip"][1],
                            mem |-> m.mem, cont |-> m.cont]
  BY <1>2 DEF Shape
<1>5. QED
  BY <1>1, <1>3, <1>4 DEF Shape

(* swapcontext: the stack pointer is saved as it will be after the return.     *)
LEMMA SwapcontextIs ==
  ASSUME NEW m, Shape(m), NEW old \in Stacks, NEW new \in Stacks, old # new,
         NEW s \in Stacks, NEW d \in 1..Words, m.reg["rsp"] = <<s, d>>
  PROVE  LET n == swapcontext(m, old, new)
         IN  /\ Shape(n) /\ n.mem = m.mem /\ n.rax = m.rax
             /\ n.rip = m.cont[new]["rip"][1]
             /\ \A r \in Registers : n.reg[r] = Saved("context", m.cont[new], r)
             /\ \A u \in Stacks : u # old => n.cont[u] = m.cont[u]
             /\ n.cont[old]["rip"] = m.mem[s][d]
             /\ \A r \in Registers : Saved("context", n.cont[old], r) = IF r = "rsp" THEN <<s, d - 1>> ELSE m.reg[r]
<1> DEFINE saved == [r \in Registers \cup {"rip"} |->
                        IF r = "rip" THEN Word(m) ELSE Drop(m).reg[r]]
           o == [m EXCEPT !.cont[old] = saved]
           n == swapcontext(m, old, new)
<1>1. n = setcontext(o, new)
  BY DEF swapcontext
<1>2. Word(m) = m.mem[s][d] /\ Drop(m).reg = Pointers(m.reg, <<s, d - 1>>, m.reg["rbp"])
  BY DropIs, MovedIs DEF Word
<1>3. saved["rip"] = m.mem[s][d]
      /\ \A r \in Registers : saved[r] = IF r = "rsp" THEN <<s, d - 1>> ELSE m.reg[r]
  BY <1>2 DEF Pointers, Registers, CalleeSaved
<1> HIDE DEF saved
<1>4. o = [reg |-> m.reg, rax |-> m.rax, rip |-> m.rip, mem |-> m.mem,
           cont |-> [m.cont EXCEPT ![old] = saved]]
  BY DEF Shape
<1>5. Shape(o) /\ o.cont[old] = saved /\ \A u \in Stacks : u # old => o.cont[u] = m.cont[u]
  BY <1>4 DEF Shape
<1> HIDE DEF o
<1>6. /\ Shape(n) /\ n.mem = m.mem /\ n.rax = m.rax /\ n.cont = o.cont
      /\ n.rip = o.cont[new]["rip"][1]
      /\ \A r \in Registers : n.reg[r] = Saved("context", o.cont[new], r)
  <2>1. Shape(n)
    BY <1>1, <1>5, SetcontextIs
  <2>2. n.mem = o.mem /\ n.rax = o.rax /\ n.cont = o.cont
    BY <1>1, <1>5, SetcontextIs
  <2>3. n.rip = o.cont[new]["rip"][1]
    BY <1>1, <1>5, SetcontextIs
  <2>4. \A r \in Registers : n.reg[r] = Saved("context", o.cont[new], r)
    BY <1>1, <1>5, SetcontextIs
  <2>5. QED
    BY <1>4, <2>1, <2>2, <2>3, <2>4
<1> HIDE DEF n
<1>7. \A r \in Registers : /\ Saved("context", o.cont[new], r) = Saved("context", m.cont[new], r)
                           /\ Saved("context", n.cont[old], r) = saved[r]
  BY <1>5, <1>6 DEF Saved
<1>8. \A r \in Registers : n.reg[r] = Saved("context", m.cont[new], r)
  BY <1>6, <1>7
<1>9. QED
  BY <1>3, <1>5, <1>6, <1>7, <1>8 DEF n

(* my_setjmp: saves what its caller will have after the return, and returns 0. *)
LEMMA SetjmpIs ==
  ASSUME NEW m, Shape(m), NEW env \in Stacks,
         NEW s \in Stacks, NEW d \in 1..Words, m.reg["rsp"] = <<s, d>>
  PROVE  LET n == my_setjmp(m, env)
         IN  /\ Shape(n) /\ n.mem = m.mem /\ n.rax = 0
             /\ n.rip = m.mem[s][d][1]
             /\ n.reg = Pointers(m.reg, <<s, d - 1>>, m.reg["rbp"])
             /\ \A u \in Stacks : u # env => n.cont[u] = m.cont[u]
             /\ n.cont[env][8] = m.mem[s][d]
             /\ \A r \in Registers : Saved("jump", n.cont[env], r) = IF r = "rsp" THEN <<s, d - 1>> ELSE m.reg[r]
<1> DEFINE stored == [i \in DOMAIN JumpLayout |-> Drop(m).reg[JumpLayout[i]]]
           buffer == Append(stored, Word(m))
           o == [m EXCEPT !.cont[env] = buffer, !.rax = 0]
           n == my_setjmp(m, env)
           All == {stored[i] : i \in 1..7} \cup {Word(m)}
<1>1. n = Ret(o)
  BY DEF my_setjmp
<1>2. Word(m) = m.mem[s][d] /\ Drop(m).reg = Pointers(m.reg, <<s, d - 1>>, m.reg["rbp"])
  BY DropIs, MovedIs DEF Word
<1>3. stored \in Seq(All) /\ Len(stored) = 7
  BY Fields
<1>4. buffer[8] = m.mem[s][d] /\ \A i \in 1..7 : buffer[i] = stored[i]
  BY <1>2, <1>3, AppendProperties
<1>5. ASSUME NEW r \in Registers
      PROVE  buffer[Field(JumpLayout, r)] = IF r = "rsp" THEN <<s, d - 1>> ELSE m.reg[r]
  <2>1. buffer[Field(JumpLayout, r)] = Drop(m).reg[r]
    BY <1>4, Fields
  <2>2. QED
    BY <1>2, <2>1 DEF Pointers
<1> HIDE DEF buffer
<1>6. o = [reg |-> m.reg, rax |-> 0, rip |-> m.rip, mem |-> m.mem,
           cont |-> [m.cont EXCEPT ![env] = buffer]]
  <2>1. o.reg = m.reg /\ o.rax = 0 /\ o.rip = m.rip /\ o.mem = m.mem
        /\ o.cont = [m.cont EXCEPT ![env] = buffer]
    BY DEF Shape
  <2>2. DOMAIN o = {"reg", "rax", "rip", "mem", "cont"}
    BY DEF Shape
  <2>3. o = [f \in DOMAIN o |-> o[f]]
    OBVIOUS
  <2> HIDE DEF o
  <2>4. QED
    BY <2>1, <2>2, <2>3
<1>7. Shape(o) /\ o.cont[env] = buffer /\ \A u \in Stacks : u # env => o.cont[u] = m.cont[u]
  BY <1>6 DEF Shape
<1> HIDE DEF o
<1>8. n = Moved(o, <<s, d - 1>>, m.reg["rbp"], m.mem[s][d][1])
  BY <1>1, <1>6, <1>7, RetIs
<1> HIDE DEF n
<1>9. /\ Shape(n) /\ n.mem = m.mem /\ n.rax = 0 /\ n.cont = o.cont
      /\ n.rip = m.mem[s][d][1] /\ n.reg = Pointers(m.reg, <<s, d - 1>>, m.reg["rbp"])
  BY <1>6, <1>7, <1>8, MovedIs DEF SameRest
<1>10. \A r \in Registers : Saved("jump", n.cont[env], r) = buffer[Field(JumpLayout, r)]
  BY <1>7, <1>9 DEF Saved
<1>11. QED
  BY <1>4, <1>5, <1>7, <1>9, <1>10 DEF n

(* my_longjmp: all registers and the place come from the buffer.               *)
LEMMA LongjmpIs ==
  ASSUME NEW m, Shape(m), NEW env \in Stacks
  PROVE  /\ Shape(my_longjmp(m, env, 1)) /\ my_longjmp(m, env, 1).mem = m.mem
         /\ my_longjmp(m, env, 1).rax = 1 /\ my_longjmp(m, env, 1).cont = m.cont
         /\ my_longjmp(m, env, 1).rip = m.cont[env][8][1]
         /\ \A r \in Registers : my_longjmp(m, env, 1).reg[r] = Saved("jump", m.cont[env], r)
<1> DEFINE loaded == [r \in Registers |-> m.cont[env][Field(JumpLayout, r)]]
<1>1. \A r \in Registers : loaded[r] = Saved("jump", m.cont[env], r)
  BY DEF Saved
<1>2. my_longjmp(m, env, 1) = [m EXCEPT !.reg = loaded, !.rax = 1, !.rip = m.cont[env][8][1]]
  BY DEF my_longjmp
<1>3. loaded = [r \in Registers |-> loaded[r]]
  OBVIOUS
<1> HIDE DEF loaded
<1>4. my_longjmp(m, env, 1) = [reg |-> loaded, rax |-> 1, rip |-> m.cont[env][8][1],
                               mem |-> m.mem, cont |-> m.cont]
  BY <1>2 DEF Shape
<1>5. QED
  BY <1>1, <1>3, <1>4 DEF Shape
============================================================================
