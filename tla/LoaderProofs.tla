---------------------------- MODULE LoaderProofs ----------------------------
(***************************************************************************)
(* Whatever is recorded, whenever a program is killed and however often it *)
(* is run again: what a database holds of a trace is a whole number of     *)
(* batches, and a program that ends by itself leaves the whole trace;      *)
(* every variable is where the order of a trace puts it, whichever load    *)
(* has stored it; so every index of a row has one name, and no two         *)
(* instructions share the variable of a syscall.                           *)
(***************************************************************************)
EXTENDS Loader, FiniteSetTheorems, SequenceTheorems, WellFoundedInduction, TLAPS

(* v is what the registers and the first n syscalls make of a VState: the  *)
(* last of the states that it went through.                                *)
Grown(name, n, v) ==
  \E h : /\ h[0] = init_reg_state(GranuOf(name)) /\ h[n] = v
         /\ \A k \in 1..n : h[k] = append(h[k - 1], k + SyscallBase, 1)

(* v is the VState of a trace.                                             *)
Complete(name, v) ==
  \E u : /\ Grown(name, Len(SyscallsOf(name)), u)
         /\ v = WithMemory(u, MemRefsOf(name))

Kinds ==
  /\ trace \in Traces
  /\ pc \in Stopped \cup {"syscalls", "vstate", "rules"}
  /\ target \in Names
  /\ syscall_list \in Seq(Syscall)
  /\ instr_id \in Nat \ {0} /\ instr_id <= Len(InstrsOf(target)) + 1
  /\ tables = [n \in Names |-> [sys |-> tables[n].sys, vstate |-> tables[n].vstate,
                                rows |-> tables[n].rows]]

(* The table of syscalls is a prefix of those recorded, which a load never *)
(* has read more of than it has stored.                                    *)
IsPrefixOf(s, t) ==
  s \in Seq(Syscall) /\ Len(s) <= Len(t) /\ \A i \in 1..Len(s) : s[i] = t[i]

SyscallsStored ==
  /\ \A n \in Names : IsPrefixOf(tables[n].sys, SyscallsOf(n))
  /\ pc = "syscalls" => Len(syscall_list) <= Len(tables[target].sys)
  /\ pc \in {"vstate", "rules", "done"} => Len(tables[target].sys) = Len(SyscallsOf(target))

(* Every load of a trace finds the same variables.                         *)
VariablesStored ==
  /\ pc = "syscalls" => Grown(target, Len(syscall_list), vstate)
  /\ pc \in {"vstate", "rules", "done"} => Complete(target, vstate)
  /\ \A n \in Names : \/ DOMAIN tables[n].vstate = {}
                      \/ \E v : /\ Complete(n, v)
                                /\ DOMAIN tables[n].vstate = DOMAIN v.offset2id
  /\ pc \in {"rules", "done"} => DOMAIN tables[target].vstate = DOMAIN vstate.offset2id

(* A batch ends before this instruction.                                   *)
EndsBatch(i) == i % Batch = 0

WholeUpTo(name, last) ==
  /\ Rowed(name) = 1..last
  /\ last \in {0, Len(trace.instrs)} \/ EndsBatch(last + 1)

(* What precedes the current instruction is in the table or is pending.    *)
RowsStored ==
  /\ \A name \in {"trace", "trace_bit"} : \E last \in 0..Len(trace.instrs) : WholeUpTo(name, last)
  /\ Rowed("forged") \subseteq 1..3
  /\ pc \in {"syscalls", "vstate"} => pending = <<>> /\ instr_id = 1
  /\ pc = "rules" /\ target # "forged" =>
       /\ DOMAIN pending \subseteq 1..instr_id - 1
       /\ 1..instr_id - 1 \subseteq (DOMAIN pending) \cup Rowed(target)
  /\ pc = "rules" /\ target = "forged" => instr_id <= 3 /\ 1..instr_id - 1 \subseteq Rowed("forged")
  /\ pc = "done" => Rowed(target) = DOMAIN InstrsOf(target)

IInv == Kinds /\ SyscallsStored /\ VariablesStored /\ RowsStored

-----------------------------------------------------------------------------
(* The variables of a trace *)

LEMMA SmallestOf ==
  ASSUME NEW S \in SUBSET Nat, S # {}
  PROVE  \E m \in S : \A x \in S : m <= x
<1>1. PICK m \in S : \A x \in S : <<x, m>> \notin OpToRel(<, Nat)
  BY NatLessThanWellFounded, WFMin
<1>2. \A x \in S : ~(x < m)
  BY <1>1 DEF OpToRel
<1> QED
  BY <1>2

(* The registers are there before the first syscall.                       *)
LEMMA GrownFromRegisters ==
  ASSUME NEW name
  PROVE  Grown(name, 0, init_reg_state(GranuOf(name)))
<1> DEFINE h == [k \in {0} |-> init_reg_state(GranuOf(name))]
<1>1. h[0] = init_reg_state(GranuOf(name))
  OBVIOUS
<1> HIDE DEF h
<1> QED
  BY <1>1 DEF Grown

LEMMA GrownByOne ==
  ASSUME NEW name, NEW n \in Nat, NEW v, Grown(name, n, v)
  PROVE  Grown(name, n + 1, append(v, n + 1 + SyscallBase, 1))
<1>1. PICK h : /\ h[0] = init_reg_state(GranuOf(name)) /\ h[n] = v
               /\ \A k \in 1..n : h[k] = append(h[k - 1], k + SyscallBase, 1)
  BY DEF Grown
<1> DEFINE last == append(v, n + 1 + SyscallBase, 1)
           g == [k \in 0..n + 1 |-> IF k = n + 1 THEN last ELSE h[k]]
<1> HIDE DEF last
<1>2. g[0] = h[0] /\ g[n + 1] = last /\ \A k \in 0..n : g[k] = h[k]
  OBVIOUS
<1> HIDE DEF g
<1>3. ASSUME NEW k \in 1..n + 1
      PROVE  g[k] = append(g[k - 1], k + SyscallBase, 1)
  <2>1. CASE k = n + 1
    <3>1. g[k - 1] = v /\ g[k] = last
      BY <1>1, <1>2, <2>1
    <3> QED
      BY <2>1, <3>1 DEF last
  <2>2. CASE k \in 1..n
    <3>1. g[k - 1] = h[k - 1] /\ g[k] = h[k]
      BY <1>2, <2>2
    <3> QED
      BY <1>1, <2>2, <3>1
  <2> QED
    BY <2>1, <2>2
<1> QED
  BY <1>1, <1>2, <1>3 DEF Grown, last

(* The number of syscalls decides what it is.                              *)
LEMMA GrownIsUnique ==
  ASSUME NEW name, NEW n \in Nat, NEW v, NEW w, Grown(name, n, v), Grown(name, n, w)
  PROVE  v = w
<1>1. PICK h : /\ h[0] = init_reg_state(GranuOf(name)) /\ h[n] = v
               /\ \A k \in 1..n : h[k] = append(h[k - 1], k + SyscallBase, 1)
  BY DEF Grown
<1>2. PICK g : /\ g[0] = init_reg_state(GranuOf(name)) /\ g[n] = w
               /\ \A k \in 1..n : g[k] = append(g[k - 1], k + SyscallBase, 1)
  BY DEF Grown
<1> DEFINE D == {k \in 0..n : h[k] # g[k]}
<1>3. ASSUME D # {}
      PROVE  FALSE
  <2>1. PICK m \in D : \A x \in D : m <= x
    <3>1. D \in SUBSET Nat
      OBVIOUS
    <3> HIDE DEF D
    <3> QED
      BY <1>3, <3>1, SmallestOf
  <2>2. m \in 1..n /\ m - 1 \notin D /\ m - 1 \in 0..n
    BY <1>1, <1>2, <2>1
  <2>3. h[m - 1] = g[m - 1]
    BY <2>2
  <2>4. h[m] = append(h[m - 1], m + SyscallBase, 1) /\ g[m] = append(g[m - 1], m + SyscallBase, 1)
    BY <1>1, <1>2, <2>2
  <2> QED
    BY <2>3, <2>4
<1>4. n \notin D
  BY <1>3
<1> QED
  BY <1>1, <1>2, <1>4

LEMMA CompleteIsUnique ==
  ASSUME NEW name, Len(SyscallsOf(name)) \in Nat, NEW v, NEW w,
         Complete(name, v), Complete(name, w)
  PROVE  v = w
<1>1. PICK a : Grown(name, Len(SyscallsOf(name)), a) /\ v = WithMemory(a, MemRefsOf(name))
  BY DEF Complete
<1>2. PICK b : Grown(name, Len(SyscallsOf(name)), b) /\ w = WithMemory(b, MemRefsOf(name))
  BY DEF Complete
<1>3. a = b
  BY <1>1, <1>2, GrownIsUnique
<1> QED
  BY <1>1, <1>2, <1>3

-----------------------------------------------------------------------------
(* Traces and tables *)

(* What a program reads from the files of a trace.                         *)
LEMMA TraceIs ==
  ASSUME Kinds
  PROVE  /\ Len(trace.instrs) \in Nat \ {0} /\ DOMAIN trace.instrs = 1..Len(trace.instrs)
         /\ \A n \in Names : /\ SyscallsOf(n) \in Seq(Syscall)
                             /\ Len(SyscallsOf(n)) \in Nat
                             /\ Len(InstrsOf(n)) \in Nat \ {0}
                             /\ DOMAIN InstrsOf(n) = 1..Len(InstrsOf(n))
                             /\ \A j, k \in 1..Len(SyscallsOf(n)) :
                                  j < k => SyscallsOf(n)[j].instr_id < SyscallsOf(n)[k].instr_id
         /\ Len(forgeInstr) = 3
<1>1. trace \in Trace /\ Len(trace.instrs) > 0
  BY LoaderAssumption DEF Kinds
<1>2. /\ trace.instrs \in Seq(Instr) /\ trace.syscalls \in Seq(Syscall)
      /\ \A j, k \in DOMAIN trace.syscalls :
           j < k => trace.syscalls[j].instr_id < trace.syscalls[k].instr_id
  BY <1>1, LoaderAssumption DEF Kinds, Trace
<1>3. Len(trace.instrs) \in Nat \ {0} /\ DOMAIN trace.instrs = 1..Len(trace.instrs)
  BY <1>1, <1>2
<1>4. Len(forgeInstr) = 3 /\ DOMAIN forgeInstr = 1..3
  <2> DEFINE e(i) == [raw |-> <<"xor rdx, rdx", "mov rbx, rdx", "mov rcx, rbx">>[i],
                      mem_ref_addr |-> <<>>]
             f == [i \in 1..3 |-> e(i)]
             T == {e(i) : i \in 1..3}
  <2>1. forgeInstr = f
    BY DEF forgeInstr
  <2>2. \A i \in 1..3 : e(i) \in T
    OBVIOUS
  <2> HIDE DEF e, T
  <2>3. f \in Seq(T)
    BY <2>2
  <2>4. DOMAIN f = 1..3 /\ DOMAIN f = 1..Len(f) /\ Len(f) \in Nat
    BY <2>3
  <2> HIDE DEF f
  <2> QED
    BY <2>1, <2>4
<1>5. \A n \in Names : /\ InstrsOf(n) = IF n = "forged" THEN forgeInstr ELSE trace.instrs
                       /\ SyscallsOf(n) = IF n = "forged" THEN <<>> ELSE trace.syscalls
  BY DEF InstrsOf, SyscallsOf
<1>6. <<>> \in Seq(Syscall) /\ Len(<<>>) = 0
  OBVIOUS
<1>7. ASSUME NEW n \in Names
      PROVE  /\ SyscallsOf(n) \in Seq(Syscall)
             /\ Len(SyscallsOf(n)) \in Nat
             /\ Len(InstrsOf(n)) \in Nat \ {0}
             /\ DOMAIN InstrsOf(n) = 1..Len(InstrsOf(n))
             /\ \A j, k \in 1..Len(SyscallsOf(n)) :
                  j < k => SyscallsOf(n)[j].instr_id < SyscallsOf(n)[k].instr_id
  <2>1. CASE n = "forged"
    <3>1. InstrsOf(n) = forgeInstr /\ SyscallsOf(n) = <<>>
      BY <1>5, <2>1
    <3>2. Len(InstrsOf(n)) = 3 /\ DOMAIN InstrsOf(n) = 1..3
      BY <1>4, <3>1
    <3>3. SyscallsOf(n) \in Seq(Syscall) /\ Len(SyscallsOf(n)) = 0
      BY <1>6, <3>1
    <3> QED
      BY <3>2, <3>3
  <2>2. CASE n # "forged"
    BY <1>2, <1>3, <1>5, <2>2
  <2> QED
    BY <2>1, <2>2
<1> QED
  BY <1>3, <1>4, <1>7

-----------------------------------------------------------------------------
(* Variables one after another *)

(* The maps of a VState are each other's inverses, within its size.        *)
Sound(v) ==
  /\ v = [granu |-> v.granu, size |-> v.size, id2offset |-> v.id2offset,
          offset2id |-> v.offset2id]
  /\ v.size \in Nat
  /\ \A id \in DOMAIN v.id2offset : /\ v.id2offset[id] \in 0..v.size - 1
                                    /\ v.id2offset[id] \in DOMAIN v.offset2id
                                    /\ v.offset2id[v.id2offset[id]] = id
  /\ \A offset \in DOMAIN v.offset2id : /\ v.offset2id[offset] \in DOMAIN v.id2offset
                                        /\ v.id2offset[v.offset2id[offset]] = offset

(* What append adds to the size.                                           *)
Width(bits, granu) ==
  LET s == GetSizeWithinGranu(bits, granu) IN IF s > 1 THEN s ELSE 1

LEMMA AppendKeeps ==
  ASSUME NEW v, Sound(v), NEW id, id \notin DOMAIN v.id2offset, NEW bits,
         Width(bits, v.granu) \in Nat \ {0}
  PROVE  /\ Sound(append(v, id, bits))
         /\ append(v, id, bits).granu = v.granu
         /\ append(v, id, bits).size = v.size + Width(bits, v.granu)
         /\ DOMAIN append(v, id, bits).id2offset = (DOMAIN v.id2offset) \cup {id}
         /\ append(v, id, bits).id2offset[id] = v.size
         /\ \A x \in DOMAIN v.id2offset : append(v, id, bits).id2offset[x] = v.id2offset[x]
<1> DEFINE w == append(v, id, bits)
           step == Width(bits, v.granu)
<1>1. w = [granu |-> v.granu, size |-> v.size + step,
           id2offset |-> Override(v.id2offset, id, v.size),
           offset2id |-> Override(v.offset2id, v.size, id)]
  <2> DEFINE there == Override(v.id2offset, id, v.size)
             back == Override(v.offset2id, v.size, id)
             total == v.size + step
  <2>1. w = [v EXCEPT !.id2offset = there, !.offset2id = back, !.size = total]
    BY DEF append, Width
  <2>2. v = [granu |-> v.granu, size |-> v.size, id2offset |-> v.id2offset,
             offset2id |-> v.offset2id]
    BY DEF Sound
  <2> HIDE DEF w, there, back, total
  <2>3. ASSUME NEW a, NEW b, NEW c, NEW d,
               v = [granu |-> a, size |-> b, id2offset |-> c, offset2id |-> d]
        PROVE  w = [granu |-> a, size |-> total, id2offset |-> there, offset2id |-> back]
    BY <2>1, <2>3
  <2>4. w = [granu |-> v.granu, size |-> total, id2offset |-> there, offset2id |-> back]
    BY <2>2, <2>3
  <2> QED
    BY <2>4 DEF there, back, total
<1>2. v.size \in Nat /\ v.size \notin DOMAIN v.offset2id
  BY DEF Sound
<1> HIDE DEF w, step
<1>3. /\ w.granu = v.granu /\ w.size = v.size + step
      /\ w.id2offset = Override(v.id2offset, id, v.size)
      /\ w.offset2id = Override(v.offset2id, v.size, id)
  BY <1>1
<1>4. /\ DOMAIN w.id2offset = (DOMAIN v.id2offset) \cup {id}
      /\ w.id2offset[id] = v.size
      /\ \A x \in DOMAIN v.id2offset : w.id2offset[x] = v.id2offset[x]
  BY <1>3 DEF Override
<1>5. /\ DOMAIN w.offset2id = (DOMAIN v.offset2id) \cup {v.size}
      /\ w.offset2id[v.size] = id
      /\ \A x \in DOMAIN v.offset2id : w.offset2id[x] = v.offset2id[x]
  BY <1>2, <1>3 DEF Override
<1>6. w.size \in Nat /\ v.size < w.size
  BY <1>2, <1>3 DEF step
<1>7. \A x \in DOMAIN w.id2offset : /\ w.id2offset[x] \in 0..w.size - 1
                                    /\ w.id2offset[x] \in DOMAIN w.offset2id
                                    /\ w.offset2id[w.id2offset[x]] = x
  BY <1>2, <1>4, <1>5, <1>6 DEF Sound
<1>8. \A x \in DOMAIN w.offset2id : /\ w.offset2id[x] \in DOMAIN w.id2offset
                                    /\ w.id2offset[w.offset2id[x]] = x
  BY <1>2, <1>4, <1>5 DEF Sound
<1>9. w = [granu |-> w.granu, size |-> w.size, id2offset |-> w.id2offset,
           offset2id |-> w.offset2id]
  BY <1>1, <1>3
<1>10. Sound(w)
  BY <1>6, <1>7, <1>8, <1>9 DEF Sound
<1> QED
  BY <1>3, <1>4, <1>10 DEF w, step

(* The states that a VState goes through while ids are appended to it.     *)
Chain(h, ids, sizes, n) == \A k \in 1..n : h[k] = append(h[k - 1], ids[k], sizes[k])

LEMMA AppendAllChain ==
  ASSUME NEW v, NEW ids, NEW sizes, Len(ids) \in Nat
  PROVE  \E h : h[0] = v /\ h[Len(ids)] = appendAll(v, ids, sizes)
                /\ Chain(h, ids, sizes, Len(ids))
<1> DEFINE L == Len(ids)
           Step(g, n) == IF n = 0 THEN v ELSE append(g[n - 1], ids[n], sizes[n])
           Solves(g, k) == g = [n \in 0..k |-> Step(g, n)]
           D == {k \in 0..L : \A g : ~Solves(g, k)}
<1>1. \A k \in 0..L : \E g : Solves(g, k)
  <2> SUFFICES ASSUME D # {}
               PROVE  FALSE
    OBVIOUS
  <2>1. PICK k \in D : \A x \in D : k <= x
    <3>1. D \in SUBSET Nat
      OBVIOUS
    <3> HIDE DEF D
    <3> QED
      BY <3>1, SmallestOf
  <2>2. k \in 0..L /\ \A g : ~Solves(g, k)
    OBVIOUS
  <2>3. CASE k = 0
    <3> DEFINE g == [n \in {0} |-> v]
    <3>1. \A n \in 0..k : n = 0
      BY <2>3
    <3>2. 0..k = {0}
      BY <2>3
    <3>3. g = [n \in 0..k |-> Step(g, n)]
      BY <3>1, <3>2
    <3> QED
      BY <2>2, <3>3
  <2>4. CASE k # 0
    <3>1. k - 1 \in 0..L /\ k - 1 \notin D
      BY <2>1, <2>4
    <3>2. PICK f : Solves(f, k - 1)
      BY <3>1
    <3> DEFINE last == append(f[k - 1], ids[k], sizes[k])
               g == [n \in 0..k |-> IF n = k THEN last ELSE f[n]]
    <3>3. \A n \in 0..k - 1 : f[n] = Step(f, n)
      <4>1. f = [n \in 0..k - 1 |-> Step(f, n)]
        BY <3>2
      <4> HIDE DEF Next
      <4> QED
        BY <4>1
    <3> HIDE DEF last
    <3>4. g = [n \in 0..k |-> g[n]] /\ g[k] = last /\ \A n \in 0..k - 1 : g[n] = f[n]
      BY <2>2
    <3> HIDE DEF g
    <3>5. ASSUME NEW n \in 0..k
          PROVE  g[n] = Step(g, n)
      <4>1. CASE n = k
        <5>1. n - 1 \in 0..k - 1 /\ n # 0 /\ n - 1 = k - 1
          BY <2>2, <2>4, <4>1
        <5> QED
          BY <3>4, <4>1, <5>1 DEF last
      <4>2. CASE n = 0
        <5>1. n \in 0..k - 1
          BY <2>2, <2>4, <4>2
        <5> QED
          BY <3>3, <3>4, <4>2, <5>1
      <4>3. CASE n # 0 /\ n # k
        <5>1. n \in 0..k - 1 /\ n - 1 \in 0..k - 1
          BY <2>2, <4>3
        <5> QED
          BY <3>3, <3>4, <4>3, <5>1
      <4> QED
        BY <4>1, <4>2, <4>3
    <3>6. [n \in 0..k |-> g[n]] = [n \in 0..k |-> Step(g, n)]
      <4> HIDE DEF Next
      <4> QED
        BY <3>5
    <3> QED
      BY <2>2, <3>4, <3>6
  <2> QED
    BY <2>3, <2>4
<1> DEFINE h == CHOOSE g : Solves(g, L)
<1>2. Solves(h, L)
  <2>1. L \in 0..L
    OBVIOUS
  <2>2. \E g : Solves(g, L)
    BY <1>1, <2>1
  <2> HIDE DEF Solves
  <2> QED
    BY <2>2
<1>3. appendAll(v, ids, sizes) = h[L]
  BY DEF appendAll
<1> HIDE DEF h
<1>4. \A n \in 0..L : h[n] = Step(h, n)
  <2>1. h = [n \in 0..L |-> Step(h, n)]
    BY <1>2
  <2> HIDE DEF Next
  <2> QED
    BY <2>1
<1>5. h[0] = v /\ \A k \in 1..L : h[k] = append(h[k - 1], ids[k], sizes[k])
  BY <1>4
<1> QED
  BY <1>3, <1>5 DEF Chain

(* v is u with the first n of ids, each of which takes w indices.          *)
Appended(u, v, ids, n, w) ==
  /\ Sound(v) /\ v.granu = u.granu
  /\ v.size = u.size + n * w
  /\ DOMAIN v.id2offset = (DOMAIN u.id2offset) \cup {ids[j] : j \in 1..n}
  /\ \A id \in DOMAIN u.id2offset : v.id2offset[id] = u.id2offset[id]
  /\ \A j \in 1..n : v.id2offset[ids[j]] = u.size + (j - 1) * w

LEMMA AppendedOneMore ==
  ASSUME NEW u, NEW v, NEW ids, NEW k \in Nat, NEW w \in {1, 8, 64}, NEW bits,
         u.size \in Nat, Appended(u, v, ids, k, w),
         ids[k + 1] \notin DOMAIN u.id2offset, \A j \in 1..k : ids[j] # ids[k + 1],
         Width(bits, u.granu) = w
  PROVE  Appended(u, append(v, ids[k + 1], bits), ids, k + 1, w)
<1> DEFINE id == ids[k + 1]
           x == append(v, id, bits)
<1>1. Sound(v) /\ v.granu = u.granu /\ id \notin DOMAIN v.id2offset
  BY DEF Appended
<1>2. /\ Sound(x) /\ x.granu = v.granu /\ x.size = v.size + w
      /\ DOMAIN x.id2offset = (DOMAIN v.id2offset) \cup {id}
      /\ x.id2offset[id] = v.size
      /\ \A y \in DOMAIN v.id2offset : x.id2offset[y] = v.id2offset[y]
  <2>1. Width(bits, v.granu) = w /\ w \in Nat \ {0}
    BY <1>1
  <2> HIDE DEF id
  <2> QED
    BY <1>1, <2>1, AppendKeeps
<1> HIDE DEF x
<1>3. x.size = u.size + (k + 1) * w /\ v.size = u.size + ((k + 1) - 1) * w
  <2>1. v.size = u.size + k * w /\ x.size = v.size + w
    BY <1>2 DEF Appended
  <2>2. k * w \in Nat /\ (k + 1) * w = k * w + w /\ (k + 1) - 1 = k
    <3>1. CASE w = 1
      BY <3>1
    <3>2. CASE w = 8
      BY <3>2
    <3>3. CASE w = 64
      BY <3>3
    <3> QED
      BY <3>1, <3>2, <3>3
  <2>3. w \in Nat
    OBVIOUS
  <2> QED
    BY <2>1, <2>2, <2>3
<1>4. DOMAIN x.id2offset = (DOMAIN u.id2offset) \cup {ids[j] : j \in 1..k + 1}
  <2>1. 1..k + 1 = (1..k) \cup {k + 1}
    OBVIOUS
  <2>2. {ids[j] : j \in 1..k + 1} = {ids[j] : j \in 1..k} \cup {id}
    BY <2>1
  <2>3. DOMAIN v.id2offset = (DOMAIN u.id2offset) \cup {ids[j] : j \in 1..k}
    BY DEF Appended
  <2> QED
    BY <1>2, <2>2, <2>3
<1>5. \A y \in DOMAIN u.id2offset : x.id2offset[y] = u.id2offset[y]
  BY <1>2 DEF Appended
<1>6. ASSUME NEW j \in 1..k + 1
      PROVE  x.id2offset[ids[j]] = u.size + (j - 1) * w
  <2>1. CASE j = k + 1
    BY <1>2, <1>3, <2>1
  <2>2. CASE j \in 1..k
    <3>1. ids[j] \in DOMAIN v.id2offset /\ v.id2offset[ids[j]] = u.size + (j - 1) * w
      BY <2>2 DEF Appended
    <3> QED
      BY <1>2, <3>1
  <2> QED
    BY <2>1, <2>2
<1> QED
  BY <1>1, <1>2, <1>3, <1>4, <1>5, <1>6 DEF Appended, x

LEMMA ChainAppends ==
  ASSUME NEW h, NEW n \in Nat, NEW ids, NEW sizes, NEW w \in {1, 8, 64},
         Sound(h[0]), Chain(h, ids, sizes, n),
         \A j, k \in 1..n : j < k => ids[j] # ids[k],
         \A j \in 1..n : ids[j] \notin DOMAIN h[0].id2offset,
         \A j \in 1..n : Width(sizes[j], h[0].granu) = w
  PROVE  Appended(h[0], h[n], ids, n, w)
<1> DEFINE D == {k \in 0..n : ~Appended(h[0], h[k], ids, k, w)}
<1>1. ASSUME D # {}
      PROVE  FALSE
  <2>1. PICK k \in D : \A x \in D : k <= x
    <3>1. D \in SUBSET Nat
      OBVIOUS
    <3> HIDE DEF D
    <3> QED
      BY <1>1, <3>1, SmallestOf
  <2>2. k \in 0..n /\ ~Appended(h[0], h[k], ids, k, w)
    OBVIOUS
  <2>3. k # 0
    <3>1. h[0].size + 0 * w = h[0].size /\ 1..0 = {}
      <4>1. h[0].size \in Nat /\ 0 * w = 0
        BY DEF Sound
      <4> QED
        BY <4>1
    <3>2. {ids[j] : j \in 1..0} = {}
      BY <3>1
    <3>3. Appended(h[0], h[0], ids, 0, w)
      BY <3>1, <3>2 DEF Appended
    <3> QED
      BY <2>2, <3>3
  <2>4. k - 1 \in Nat /\ (k - 1) + 1 = k /\ k \in 1..n /\ k - 1 \in 0..n
    BY <2>2, <2>3
  <2>5. Appended(h[0], h[k - 1], ids, k - 1, w)
    BY <2>1, <2>4
  <2>6. h[k] = append(h[k - 1], ids[k], sizes[k])
    BY <2>4 DEF Chain
  <2>7. h[0].size \in Nat /\ \A j \in 1..k - 1 : ids[j] # ids[k]
    BY <2>4 DEF Sound
  <2> DEFINE c == k - 1
  <2>8. c \in Nat /\ c + 1 = k
    BY <2>4
  <2>9. Appended(h[0], append(h[c], ids[c + 1], sizes[k]), ids, c + 1, w)
    <3>1. Appended(h[0], h[c], ids, c, w)
      BY <2>5
    <3>2. ids[c + 1] \notin DOMAIN h[0].id2offset /\ Width(sizes[k], h[0].granu) = w
      BY <2>4, <2>8
    <3>3. \A j \in 1..c : ids[j] # ids[c + 1]
      BY <2>7, <2>8
    <3> HIDE DEF c
    <3> QED
      BY <2>7, <2>8, <3>1, <3>2, <3>3, AppendedOneMore, ZenonT(30)
  <2> QED
    BY <2>2, <2>6, <2>8, <2>9
<1>2. n \notin D
  BY <1>1
<1> QED
  BY <1>2

-----------------------------------------------------------------------------
(* Registers *)

RegisterIds == {39, 40, 41, 42, 43, 44, 47, 48, 98, 99}

LEMMA NamesAre ==
  /\ DOMAIN getRegName = {1, 2, 15, 23, 39, 40, 41, 42, 43, 44, 47, 48, 98, 99}
  /\ getRegName[1] = "AH" /\ getRegName[2] = "AL" /\ getRegName[15] = "AX"
  /\ getRegName[23] = "EAX" /\ getRegName[39] = "RAX" /\ getRegName[40] = "RBP"
  /\ getRegName[41] = "RBX" /\ getRegName[42] = "RCX" /\ getRegName[43] = "RDI"
  /\ getRegName[44] = "RDX" /\ getRegName[47] = "RSI" /\ getRegName[48] = "RSP"
  /\ getRegName[98] = "R8" /\ getRegName[99] = "R9"
  BY DEF getRegName

LEMMA IdOf ==
  ASSUME NEW id \in RegisterIds
  PROVE  getRegId[getRegName[id]] = id
<1>1. \A x \in DOMAIN getRegName : getRegName[x] = getRegName[id] => x = id
  BY NamesAre DEF RegisterIds
<1>2. id \in DOMAIN getRegName
  BY NamesAre DEF RegisterIds
<1> DEFINE name == getRegName[id]
<1>3. name \in Range(getRegName)
  BY <1>2 DEF Range
<1>4. getRegId[name] = CHOOSE x \in DOMAIN getRegName : getRegName[x] = name
  BY <1>3 DEF getRegId
<1> HIDE DEF name
<1>5. (CHOOSE x \in DOMAIN getRegName : getRegName[x] = name) = id
  BY <1>1, <1>2 DEF name
<1> QED
  BY <1>4, <1>5 DEF name

LEMMA RegistersAre ==
  /\ Len(gpr_strs) = 10 /\ DOMAIN gpr_ids = 1..10 /\ Len(gpr_ids) = 10
  /\ gpr_ids[1] = 39 /\ gpr_ids[2] = 41 /\ gpr_ids[3] = 42 /\ gpr_ids[4] = 44
  /\ gpr_ids[5] = 43 /\ gpr_ids[6] = 47 /\ gpr_ids[7] = 48 /\ gpr_ids[8] = 40
  /\ gpr_ids[9] = 98 /\ gpr_ids[10] = 99
<1>1. /\ Len(gpr_strs) = 10
      /\ gpr_strs[1] = "RAX" /\ gpr_strs[2] = "RBX" /\ gpr_strs[3] = "RCX"
      /\ gpr_strs[4] = "RDX" /\ gpr_strs[5] = "RDI" /\ gpr_strs[6] = "RSI"
      /\ gpr_strs[7] = "RSP" /\ gpr_strs[8] = "RBP" /\ gpr_strs[9] = "R8"
      /\ gpr_strs[10] = "R9"
  BY DEF gpr_strs
<1>2. gpr_ids = [i \in 1..10 |-> getRegId[gpr_strs[i]]]
  BY <1>1 DEF gpr_ids
<1>3. \A i \in 1..10 : gpr_ids[i] = getRegId[gpr_strs[i]]
  BY <1>2
<1>4. /\ getRegId["RAX"] = 39 /\ getRegId["RBX"] = 41 /\ getRegId["RCX"] = 42
      /\ getRegId["RDX"] = 44 /\ getRegId["RDI"] = 43 /\ getRegId["RSI"] = 47
      /\ getRegId["RSP"] = 48 /\ getRegId["RBP"] = 40 /\ getRegId["R8"] = 98
      /\ getRegId["R9"] = 99
  BY NamesAre, IdOf DEF RegisterIds
<1>5. DOMAIN gpr_ids = 1..10 /\ Len(gpr_ids) = 10
  <2>1. gpr_ids \in Seq({gpr_ids[i] : i \in 1..10})
    BY <1>2
  <2> QED
    BY <1>2, <2>1
<1> QED
  BY <1>1, <1>3, <1>4, <1>5

(* How many indices a register takes, and a byte of memory.                *)
RegisterWidth(granu) == IF granu = "bit" THEN 64 ELSE 8
ByteWidth(granu) == IF granu = "bit" THEN 8 ELSE 1

LEMMA WidthsAre ==
  ASSUME NEW granu \in FMGranularity
  PROVE  /\ Width(64, granu) = RegisterWidth(granu)
         /\ Width(8, granu) = ByteWidth(granu)
         /\ Width(1, granu) = 1
         /\ \A id \in RegisterIds : getRegSize[id] = 64
         /\ \A id \in DOMAIN getEncloseReg : getEncloseReg[id] \in RegisterIds
         /\ DOMAIN getEncloseReg = DOMAIN getRegSize
         /\ \A id \in DOMAIN getRegSize : getRegSize[id] \in Nat
<1>1. Width(64, granu) = RegisterWidth(granu)
  BY DEF Width, GetSizeWithinGranu, RegisterWidth, FMGranularity
<1>2. Width(8, granu) = ByteWidth(granu)
  BY DEF Width, GetSizeWithinGranu, ByteWidth, FMGranularity
<1>3. Width(1, granu) = 1
  BY DEF Width, GetSizeWithinGranu, FMGranularity
<1>4. \A id \in RegisterIds : getRegSize[id] = 64
  BY NamesAre DEF getRegSize, RegisterIds
<1>5. \A id \in DOMAIN getEncloseReg : getEncloseReg[id] \in RegisterIds
  BY NamesAre DEF getEncloseReg, RegisterIds
<1>6. DOMAIN getEncloseReg = DOMAIN getRegSize
  BY DEF getEncloseReg, getRegSize
<1>7. \A id \in DOMAIN getRegSize : getRegSize[id] \in Nat
  BY NamesAre DEF getRegSize
<1> QED
  BY <1>1, <1>2, <1>3, <1>4, <1>5, <1>6, <1>7

NoRegisters(granu) == [granu |-> granu, size |-> 0, id2offset |-> <<>>, offset2id |-> <<>>]

LEMMA InitialRegisters ==
  ASSUME NEW granu \in FMGranularity
  PROVE  LET v == init_reg_state(granu)
         IN  /\ Appended(NoRegisters(granu), v, gpr_ids, 10, RegisterWidth(granu))
             /\ DOMAIN v.id2offset = RegisterIds
<1> DEFINE u == NoRegisters(granu)
           v == init_reg_state(granu)
           sizes == [i \in 1..Len(gpr_strs) |-> getRegSize[gpr_ids[i]]]
           w == RegisterWidth(granu)
<1>1. v = appendAll(u, gpr_ids, sizes)
  BY DEF init_reg_state, NoRegisters
<1>2. /\ Len(gpr_ids) = 10 /\ 10 \in Nat
      /\ \A i \in 1..10 : gpr_ids[i] \in RegisterIds /\ sizes[i] = 64
  <2>1. /\ Len(gpr_ids) = 10 /\ Len(gpr_strs) = 10
        /\ \A i \in 1..10 : gpr_ids[i] \in RegisterIds
    BY RegistersAre DEF RegisterIds
  <2>2. \A i \in 1..10 : sizes[i] = getRegSize[gpr_ids[i]]
    BY <2>1
  <2> QED
    BY <2>1, <2>2, WidthsAre
<1>3. \A j, k \in 1..10 : j < k => gpr_ids[j] # gpr_ids[k]
  BY RegistersAre
<1>4. u = [granu |-> granu, size |-> 0, id2offset |-> <<>>, offset2id |-> <<>>]
  BY DEF NoRegisters
<1>5. DOMAIN <<>> = {}
  OBVIOUS
<1> HIDE DEF u, v, sizes, w
<1>6. u.size = 0 /\ u.granu = granu /\ DOMAIN u.id2offset = {} /\ DOMAIN u.offset2id = {}
  BY <1>4, <1>5
<1>7. Sound(u)
  <2>1. u = [granu |-> u.granu, size |-> u.size, id2offset |-> u.id2offset,
             offset2id |-> u.offset2id]
    BY <1>4
  <2> QED
    BY <1>6, <2>1 DEF Sound
<1>8. PICK h : h[0] = u /\ h[10] = v /\ Chain(h, gpr_ids, sizes, 10)
  <2>1. \E f : /\ f[0] = u /\ f[Len(gpr_ids)] = appendAll(u, gpr_ids, sizes)
              /\ Chain(f, gpr_ids, sizes, Len(gpr_ids))
    <3>1. Len(gpr_ids) \in Nat
      BY <1>2
    <3> QED
      BY <3>1, AppendAllChain
  <2> QED
    BY <1>1, <1>2, <2>1
<1>9. w \in {1, 8, 64} /\ Width(64, granu) = w
  BY WidthsAre DEF w, RegisterWidth
<1>10. Appended(u, v, gpr_ids, 10, w)
  <2>1. \A j \in 1..10 : Width(sizes[j], h[0].granu) = w
    BY <1>2, <1>6, <1>8, <1>9
  <2>2. \A j \in 1..10 : gpr_ids[j] \notin DOMAIN h[0].id2offset
    BY <1>6, <1>8
  <2>3. Sound(h[0]) /\ 10 \in Nat
    BY <1>7, <1>8
  <2> QED
    BY <1>3, <1>8, <1>9, <2>1, <2>2, <2>3, ChainAppends
<1>11. DOMAIN v.id2offset = RegisterIds
  <2>1. DOMAIN v.id2offset = {gpr_ids[j] : j \in 1..10}
    BY <1>6, <1>10 DEF Appended
  <2>2. \A id \in RegisterIds : \E j \in 1..10 : gpr_ids[j] = id
    BY RegistersAre DEF RegisterIds
  <2> QED
    BY <1>2, <2>1, <2>2
<1> QED
  BY <1>10, <1>11 DEF u, v, w

-----------------------------------------------------------------------------
(* The variables of a trace, in their places *)

(* Where the variables of syscalls start, after ten registers, and those   *)
(* of memory.                                                              *)
SyscallsAt(granu) == IF granu = "bit" THEN 640 ELSE 80
MemoryAt(name) == SyscallsAt(GranuOf(name)) + Len(SyscallsOf(name))

(* v has the registers and the first n syscalls in their places.           *)
InPlace(name, n, v) ==
  /\ Sound(v) /\ v.granu = GranuOf(name) /\ 0 \in DOMAIN v.offset2id
  /\ \A id \in RegisterIds :
       /\ id \in DOMAIN v.id2offset
       /\ v.id2offset[id] + RegisterWidth(v.granu) <= SyscallsAt(v.granu)
  /\ \A j \in 1..n : /\ SyscallBase + j \in DOMAIN v.id2offset
                     /\ v.id2offset[SyscallBase + j] = SyscallsAt(v.granu) + j - 1

OnlySyscalls(name, n, v) ==
  /\ InPlace(name, n, v)
  /\ v.size = SyscallsAt(v.granu) + n
  /\ DOMAIN v.id2offset = RegisterIds \cup {SyscallBase + j : j \in 1..n}

AllInPlace(name, v) ==
  LET M == MemRefsOf(name)
  IN  /\ InPlace(name, Len(SyscallsOf(name)), v)
      /\ v.size = MemoryAt(name) + Len(M) * ByteWidth(v.granu)
      /\ DOMAIN v.id2offset = RegisterIds \cup {SyscallBase + j : j \in 1..Len(SyscallsOf(name))}
                                \cup {M[p] : p \in 1..Len(M)}
      /\ \A p \in 1..Len(M) : v.id2offset[M[p]] = MemoryAt(name) + (p - 1) * ByteWidth(v.granu)

LEMMA RegistersInPlace ==
  ASSUME NEW name \in Names
  PROVE  OnlySyscalls(name, 0, init_reg_state(GranuOf(name)))
<1> DEFINE granu == GranuOf(name)
           u == NoRegisters(granu)
           v == init_reg_state(granu)
           w == RegisterWidth(granu)
<1>1. granu \in FMGranularity
  BY DEF GranuOf, FMGranularity
<1>2. Appended(u, v, gpr_ids, 10, w) /\ DOMAIN v.id2offset = RegisterIds
  BY <1>1, InitialRegisters
<1>3. u.granu = granu /\ u.size = 0
  BY DEF NoRegisters
<1>4. w \in {8, 64} /\ 10 * w = SyscallsAt(granu)
  BY DEF RegisterWidth, SyscallsAt
<1> HIDE DEF granu, u, v, w
<1>5. Sound(v) /\ v.granu = granu /\ v.size = SyscallsAt(granu) + 0
  <2>1. v.size = 0 + 10 * w /\ 10 * w \in Nat
    BY <1>2, <1>3, <1>4 DEF Appended
  <2> QED
    BY <1>2, <1>3, <1>4, <2>1 DEF Appended
<1>6. \A j \in 1..10 : v.id2offset[gpr_ids[j]] = (j - 1) * w
  <2>1. \A j \in 1..10 : v.id2offset[gpr_ids[j]] = 0 + (j - 1) * w
    BY <1>2, <1>3 DEF Appended
  <2>2. \A j \in 1..10 : (j - 1) * w \in Int
    BY <1>4
  <2> QED
    BY <2>1, <2>2
<1>7. ASSUME NEW id \in RegisterIds
      PROVE  v.id2offset[id] + w <= SyscallsAt(granu)
  <2>1. PICK j \in 1..10 : gpr_ids[j] = id
    BY RegistersAre DEF RegisterIds
  <2>2. v.id2offset[id] = (j - 1) * w
    BY <1>6, <2>1
  <2>3. CASE w = 8
    BY <1>4, <2>2, <2>3
  <2>4. CASE w = 64
    BY <1>4, <2>2, <2>4
  <2> QED
    BY <1>4, <2>3, <2>4
<1>8. 0 \in DOMAIN v.offset2id
  <2>1. gpr_ids[1] = 39 /\ 1 \in 1..10
    BY RegistersAre
  <2>2. v.id2offset[39] = 0
    BY <1>4, <1>6, <2>1
  <2> QED
    BY <1>2, <1>5, <2>2 DEF Sound, RegisterIds
<1>9. {SyscallBase + j : j \in 1..0} = {} /\ \A j \in 1..0 : FALSE
  OBVIOUS
<1>10. v.granu = GranuOf(name) /\ w = RegisterWidth(v.granu)
  BY <1>5 DEF granu, w
<1> QED
  BY <1>2, <1>5, <1>7, <1>8, <1>9, <1>10 DEF OnlySyscalls, InPlace, granu, v

LEMMA SyscallsInPlace ==
  ASSUME NEW name \in Names, NEW n \in Nat, NEW v, Grown(name, n, v)
  PROVE  OnlySyscalls(name, n, v)
<1>1. PICK h : /\ h[0] = init_reg_state(GranuOf(name)) /\ h[n] = v
               /\ \A k \in 1..n : h[k] = append(h[k - 1], k + SyscallBase, 1)
  BY DEF Grown
<1> DEFINE ids == [j \in 1..n |-> j + SyscallBase]
           sizes == [j \in 1..n |-> 1]
           u == h[0]
<1>2. OnlySyscalls(name, 0, u)
  BY <1>1, RegistersInPlace
<1>3. /\ Sound(u) /\ u.granu = GranuOf(name) /\ u.size = SyscallsAt(u.granu)
      /\ DOMAIN u.id2offset = RegisterIds
  <2>1. {SyscallBase + j : j \in 1..0} = {}
    OBVIOUS
  <2>2. SyscallsAt(u.granu) \in Nat
    BY DEF SyscallsAt
  <2> QED
    BY <1>2, <2>1, <2>2 DEF OnlySyscalls, InPlace
<1>4. \A j \in 1..n : ids[j] = j + SyscallBase /\ sizes[j] = 1
  OBVIOUS
<1> HIDE DEF ids, sizes, u
<1>5. Appended(u, v, ids, n, 1)
  <2>1. Chain(h, ids, sizes, n)
    BY <1>1, <1>4 DEF Chain
  <2>2. \A j, k \in 1..n : j < k => ids[j] # ids[k]
    BY <1>4 DEF SyscallBase
  <2>3. \A j \in 1..n : ids[j] \notin DOMAIN h[0].id2offset
    BY <1>3, <1>4 DEF SyscallBase, RegisterIds, u
  <2>4. \A j \in 1..n : Width(sizes[j], h[0].granu) = 1
    <3>1. GranuOf(name) \in FMGranularity
      BY DEF GranuOf, FMGranularity
    <3> QED
      BY <1>3, <1>4, <3>1, WidthsAre DEF u
  <2>5. Sound(h[0]) /\ 1 \in {1, 8, 64}
    BY <1>3 DEF u
  <2> QED
    BY <1>1, <2>1, <2>2, <2>3, <2>4, <2>5, ChainAppends DEF u
<1>6. \A id \in DOMAIN u.id2offset : /\ id \in DOMAIN v.id2offset
                                     /\ v.id2offset[id] = u.id2offset[id]
  BY <1>5 DEF Appended
<1>7. Sound(v) /\ v.granu = u.granu /\ v.size = SyscallsAt(u.granu) + n
  <2>1. SyscallsAt(u.granu) \in Nat
    BY DEF SyscallsAt
  <2> QED
    BY <1>3, <1>5, <2>1 DEF Appended
<1>8. DOMAIN v.id2offset = RegisterIds \cup {SyscallBase + j : j \in 1..n}
  <2>1. {ids[j] : j \in 1..n} = {SyscallBase + j : j \in 1..n}
    BY <1>4 DEF SyscallBase
  <2> QED
    BY <1>3, <1>5, <2>1 DEF Appended
<1>9. ASSUME NEW j \in 1..n
      PROVE  /\ SyscallBase + j \in DOMAIN v.id2offset
             /\ v.id2offset[SyscallBase + j] = SyscallsAt(v.granu) + j - 1
  <2>1. v.id2offset[ids[j]] = u.size + (j - 1) * 1
    BY <1>5 DEF Appended
  <2>2. ids[j] = SyscallBase + j /\ SyscallsAt(v.granu) \in Nat
    BY <1>4 DEF SyscallBase, SyscallsAt
  <2> QED
    BY <1>3, <1>7, <1>8, <2>1, <2>2
<1>10. 0 \in DOMAIN v.offset2id
  <2>1. 0 \in DOMAIN u.offset2id
    BY <1>2 DEF OnlySyscalls, InPlace
  <2>2. PICK id \in DOMAIN u.id2offset : u.id2offset[id] = 0
    BY <1>3, <2>1 DEF Sound
  <2> QED
    BY <1>6, <1>7, <2>2 DEF Sound
<1>11. \A id \in RegisterIds :
         /\ id \in DOMAIN v.id2offset
         /\ v.id2offset[id] + RegisterWidth(v.granu) <= SyscallsAt(v.granu)
  BY <1>2, <1>3, <1>6, <1>7 DEF OnlySyscalls, InPlace
<1> QED
  BY <1>3, <1>7, <1>8, <1>9, <1>10, <1>11 DEF OnlySyscalls, InPlace

LEMMA Ascending ==
  ASSUME NEW M \in Seq(Nat), \A i \in 1..Len(M) - 1 : M[i] < M[i + 1]
  PROVE  \A j, k \in 1..Len(M) : j < k => M[j] < M[k]
<1> SUFFICES ASSUME NEW j \in 1..Len(M)
             PROVE  \A k \in 1..Len(M) : j < k => M[j] < M[k]
  OBVIOUS
<1> DEFINE D == {k \in 1..Len(M) : j < k /\ ~(M[j] < M[k])}
<1>1. ASSUME D # {}
      PROVE  FALSE
  <2>1. PICK k \in D : \A x \in D : k <= x
    <3>1. D \in SUBSET Nat
      OBVIOUS
    <3> HIDE DEF D
    <3> QED
      BY <1>1, <3>1, SmallestOf
  <2>2. k \in 1..Len(M) /\ j < k /\ ~(M[j] < M[k])
    OBVIOUS
  <2>3. k - 1 \in 1..Len(M) - 1 /\ k - 1 \in 1..Len(M) /\ (k - 1) + 1 = k /\ k - 1 \notin D
    BY <2>1, <2>2
  <2>4. M[k - 1] < M[k] /\ M[k - 1] \in Nat /\ M[k] \in Nat /\ M[j] \in Nat
    BY <2>2, <2>3
  <2>5. CASE k - 1 = j
    BY <2>2, <2>4, <2>5
  <2>6. CASE k - 1 # j
    <3>1. M[j] < M[k - 1]
      BY <2>2, <2>3, <2>6
    <3> QED
      BY <2>2, <2>4, <3>1
  <2> QED
    BY <2>5, <2>6
<1> QED
  BY <1>1

(* Addresses are in order, above the ids of syscalls.                      *)
LEMMA MemoryIs ==
  ASSUME Kinds, NEW name \in Names
  PROVE  /\ MemRefsOf(name) \in Seq(Nat) /\ Len(MemRefsOf(name)) \in Nat
         /\ \A j, k \in 1..Len(MemRefsOf(name)) :
              j < k => MemRefsOf(name)[j] < MemRefsOf(name)[k]
         /\ \A p \in 1..Len(MemRefsOf(name)) :
              /\ MemRefsOf(name)[p] > SyscallBase + Len(SyscallsOf(name))
              /\ MemRefsOf(name)[p] > SyscallBase + Len(SyscallsOf(name)) + 1
<1>1. CASE name = "forged"
  <2>1. MemRefsOf(name) = <<>>
    BY <1>1 DEF MemRefsOf
  <2>2. <<>> \in Seq(Nat) /\ Len(<<>>) = 0
    OBVIOUS
  <2> QED
    BY <2>1, <2>2
<1>2. CASE name # "forged"
  <2>1. MemRefsOf(name) = trace.mem_refs /\ SyscallsOf(name) = trace.syscalls
    BY <1>2 DEF MemRefsOf, SyscallsOf
  <2>2. trace \in Traces /\ trace \in Trace
    BY LoaderAssumption DEF Kinds
  <2>3. trace.mem_refs \in Seq(Nat)
    BY <2>2 DEF Trace
  <2>4. /\ \A i \in 1..Len(trace.mem_refs) - 1 : trace.mem_refs[i] < trace.mem_refs[i + 1]
        /\ \A i \in DOMAIN trace.mem_refs :
             trace.mem_refs[i] > SyscallBase + Len(trace.syscalls) + 1
    BY <2>2, LoaderAssumption
  <2> DEFINE M == trace.mem_refs
  <2>5. \A j, k \in 1..Len(M) : j < k => M[j] < M[k]
    BY <2>3, <2>4, Ascending
  <2>6. ASSUME NEW p \in 1..Len(M)
        PROVE  M[p] > SyscallBase + Len(trace.syscalls)
    <3>1. M[p] \in Nat /\ M[p] > SyscallBase + Len(trace.syscalls) + 1
      BY <2>3, <2>4
    <3>2. Len(trace.syscalls) \in Nat
      BY <2>1, TraceIs
    <3> QED
      BY <3>1, <3>2 DEF SyscallBase
  <2> QED
    BY <2>1, <2>3, <2>4, <2>5, <2>6
<1> QED
  BY <1>1, <1>2

LEMMA EveryVariableInPlace ==
  ASSUME Kinds, NEW name \in Names, NEW v, Complete(name, v)
  PROVE  AllInPlace(name, v)
<1> DEFINE k == Len(SyscallsOf(name))
           M == MemRefsOf(name)
           L == Len(M)
           sizes == [i \in 1..L |-> 8]
<1>1. PICK u : Grown(name, k, u) /\ v = appendAll(u, M, sizes)
  BY DEF Complete, WithMemory
<1>2. k \in Nat /\ L \in Nat /\ M \in Seq(Nat)
  BY TraceIs, MemoryIs
<1>3. OnlySyscalls(name, k, u)
  BY <1>1, <1>2, SyscallsInPlace
<1>4. /\ \A j \in 1..L : sizes[j] = 8 /\ M[j] \in Nat
      /\ \A i, j \in 1..L : i < j => M[i] # M[j]
      /\ \A j \in 1..L : M[j] > SyscallBase + k
  BY <1>2, MemoryIs
<1> DEFINE granu == u.granu
           w == ByteWidth(granu)
<1>5. granu \in FMGranularity /\ granu = GranuOf(name) /\ Width(8, granu) = w
  <2>1. granu = GranuOf(name)
    BY <1>3 DEF OnlySyscalls, InPlace
  <2>2. granu \in FMGranularity
    BY <2>1 DEF GranuOf, FMGranularity
  <2> HIDE DEF granu
  <2> QED
    BY <2>1, <2>2, WidthsAre
<1>6. w \in {1, 8} /\ SyscallsAt(granu) \in Nat
  BY DEF ByteWidth, SyscallsAt
<1>7. /\ Sound(u) /\ u.size = SyscallsAt(granu) + k
      /\ DOMAIN u.id2offset = RegisterIds \cup {SyscallBase + j : j \in 1..k}
  BY <1>3 DEF OnlySyscalls, InPlace
<1>8. \E h : h[0] = u /\ h[L] = v /\ Chain(h, M, sizes, L)
  <2> HIDE DEF M, sizes
  <2>1. Len(M) \in Nat
    BY <1>2
  <2> QED
    BY <1>1, <2>1, AppendAllChain
<1> HIDE DEF k, M, L, sizes, granu, w
<1>9. PICK h : h[0] = u /\ h[L] = v /\ Chain(h, M, sizes, L)
  BY <1>8
<1>10. Appended(u, v, M, L, w)
  <2>1. \A j \in 1..L : M[j] \notin DOMAIN h[0].id2offset
    <3>1. \A id \in RegisterIds : id \in Nat /\ id <= SyscallBase + k
      BY <1>2 DEF SyscallBase, RegisterIds
    <3>2. \A j \in 1..k : SyscallBase + j \in Nat /\ SyscallBase + j <= SyscallBase + k
      BY <1>2 DEF SyscallBase
    <3>3. \A id \in DOMAIN u.id2offset : id \in Nat /\ id <= SyscallBase + k
      BY <1>7, <3>1, <3>2
    <3>4. SyscallBase + k \in Nat
      BY <1>2 DEF SyscallBase
    <3> QED
      BY <1>4, <1>9, <3>3, <3>4
  <2>2. \A j \in 1..L : Width(sizes[j], h[0].granu) = w
    BY <1>4, <1>5, <1>9 DEF granu
  <2>3. w \in {1, 8, 64} /\ Sound(h[0])
    BY <1>6, <1>7, <1>9
  <2> QED
    BY <1>2, <1>4, <1>9, <2>1, <2>2, <2>3, ChainAppends, SMTT(30)
<1>11. \A id \in DOMAIN u.id2offset : /\ id \in DOMAIN v.id2offset
                                      /\ v.id2offset[id] = u.id2offset[id]
  BY <1>10 DEF Appended
<1>12. Sound(v) /\ v.granu = granu
  BY <1>10 DEF Appended, granu
<1>13. InPlace(name, k, v)
  <2>1. InPlace(name, k, u)
    BY <1>3 DEF OnlySyscalls
  <2>2. 0 \in DOMAIN v.offset2id
    <3>1. 0 \in DOMAIN u.offset2id
      BY <2>1 DEF InPlace
    <3>2. PICK id \in DOMAIN u.id2offset : u.id2offset[id] = 0
      BY <1>7, <3>1 DEF Sound
    <3> QED
      BY <1>11, <1>12, <3>2 DEF Sound
  <2>3. v.granu = u.granu
    BY <1>12 DEF granu
  <2> QED
    BY <1>11, <1>12, <2>1, <2>2, <2>3 DEF InPlace
<1>14. v.size = MemoryAt(name) + L * w
  BY <1>5, <1>7, <1>10 DEF Appended, MemoryAt, k
<1>15. DOMAIN v.id2offset = RegisterIds \cup {SyscallBase + j : j \in 1..k}
                              \cup {M[p] : p \in 1..L}
  BY <1>7, <1>10 DEF Appended
<1>16. \A p \in 1..L : v.id2offset[M[p]] = MemoryAt(name) + (p - 1) * w
  BY <1>5, <1>7, <1>10 DEF Appended, MemoryAt, k
<1> QED
  BY <1>12, <1>13, <1>14, <1>15, <1>16 DEF AllInPlace, k, M, L, w

-----------------------------------------------------------------------------
(* The names of indices *)

LEMMA SmallestIs ==
  ASSUME NEW S \in SUBSET Nat, S # {}
  PROVE  Min(S) \in S /\ \A x \in S : Min(S) <= x
<1>1. PICK m \in S : \A x \in S : m <= x
  BY SmallestOf
<1> QED
  BY <1>1 DEF Min

LEMMA StartsAre ==
  ASSUME NEW v, Sound(v)
  PROVE  /\ v.size \in Nat
         /\ \A start \in DOMAIN v.offset2id : start \in Nat /\ start < v.size
  BY DEF Sound

LEMMA SizeAtIs ==
  ASSUME NEW v, Sound(v), NEW start \in DOMAIN v.offset2id
  PROVE  /\ SizeAt(v, start) \in Nat \ {0}
         /\ start + SizeAt(v, start) <= v.size
         /\ \A o \in DOMAIN v.offset2id : start < o => start + SizeAt(v, start) <= o
<1> DEFINE later == {o \in DOMAIN v.offset2id : o > start}
<1>1. v.size \in Nat /\ start \in Nat /\ start < v.size
  BY StartsAre
<1>2. later \in SUBSET Nat /\ \A o \in later : start < o /\ o < v.size
  BY StartsAre
<1>3. SizeAt(v, start) = (IF later = {} THEN v.size ELSE Min(later)) - start
  BY DEF SizeAt
<1>4. \A o \in DOMAIN v.offset2id : start < o => o \in later
  BY <1>1, StartsAre
<1> HIDE DEF later
<1>5. CASE later = {}
  BY <1>1, <1>3, <1>4, <1>5
<1>6. CASE later # {}
  <2>1. Min(later) \in later /\ \A x \in later : Min(later) <= x
    BY <1>2, <1>6, SmallestIs
  <2>2. Min(later) \in Nat /\ start < Min(later) /\ Min(later) < v.size
    BY <1>2, <2>1
  <2>3. SizeAt(v, start) = Min(later) - start
    BY <1>3, <1>6
  <2> QED
    BY <1>1, <1>4, <2>1, <2>2, <2>3
<1> QED
  BY <1>5, <1>6

(* The variable that owns an index is the last that starts before it.      *)
Owns(v, start, index) ==
  start \in DOMAIN v.offset2id /\ start <= index /\ index < start + SizeAt(v, start)

LEMMA OneOwns ==
  ASSUME NEW v, Sound(v), NEW index, NEW a, NEW b, index \in Nat,
         Owns(v, a, index), Owns(v, b, index)
  PROVE  a = b
<1>1. /\ a \in Nat /\ b \in Nat /\ SizeAt(v, a) \in Nat /\ SizeAt(v, b) \in Nat
      /\ a < b => a + SizeAt(v, a) <= b
      /\ b < a => b + SizeAt(v, b) <= a
  BY StartsAre, SizeAtIs DEF Owns
<1> QED
  BY <1>1 DEF Owns

LEMMA SomeOwns ==
  ASSUME NEW v, Sound(v), 0 \in DOMAIN v.offset2id, NEW index \in Nat, index < v.size
  PROVE  \E start : Owns(v, start, index)
<1> DEFINE before == {index - start : start \in {o \in DOMAIN v.offset2id : o <= index}}
<1>1. before \in SUBSET Nat /\ before # {}
  <2>1. index - 0 \in before
    OBVIOUS
  <2> QED
    BY <2>1, StartsAre
<1>2. PICK m \in before : \A x \in before : m <= x
  <2> HIDE DEF before
  <2> QED
    BY <1>1, SmallestOf
<1>3. PICK start \in DOMAIN v.offset2id : start <= index /\ m = index - start
  BY <1>2
<1>4. start \in Nat /\ v.size \in Nat
  BY StartsAre
<1>5. SizeAt(v, start) = (IF {o \in DOMAIN v.offset2id : o > start} = {} THEN v.size
                          ELSE Min({o \in DOMAIN v.offset2id : o > start})) - start
  BY DEF SizeAt
<1> DEFINE later == {o \in DOMAIN v.offset2id : o > start}
<1>6. CASE later = {}
  BY <1>3, <1>4, <1>5, <1>6 DEF Owns
<1>7. CASE later # {}
  <2>1. later \in SUBSET Nat
    BY StartsAre
  <2>2. Min(later) \in later
    <3> HIDE DEF later
    <3> QED
      BY <1>7, <2>1, SmallestIs
  <2>3. Min(later) \in DOMAIN v.offset2id /\ Min(later) > start /\ Min(later) \in Nat
    BY <2>1, <2>2
  <2>4. SizeAt(v, start) = Min(later) - start
    BY <1>5, <1>7
  <2> DEFINE nxt == Min(later)
  <2>5. nxt \in DOMAIN v.offset2id /\ nxt > start /\ nxt \in Nat /\ SizeAt(v, start) = nxt - start
    BY <2>3, <2>4
  <2> HIDE DEF nxt, later
  <2>6. ~(nxt <= index)
    <3> SUFFICES ASSUME nxt <= index
                 PROVE  FALSE
      OBVIOUS
    <3>1. index - nxt \in before
      BY <2>5
    <3> QED
      BY <1>2, <1>3, <1>4, <2>5, <3>1
  <2> QED
    BY <1>3, <1>4, <2>5, <2>6 DEF Owns
<1> QED
  BY <1>6, <1>7

(* The variable of a syscall is a single index.                            *)
LEMMA SyscallOwnsOne ==
  ASSUME Kinds, NEW name \in Names, NEW v, AllInPlace(name, v),
         NEW j \in 1..Len(SyscallsOf(name))
  PROVE  /\ v.id2offset[SyscallBase + j] \in DOMAIN v.offset2id
         /\ SizeAt(v, v.id2offset[SyscallBase + j]) = 1
<1> DEFINE k == Len(SyscallsOf(name))
           L == Len(MemRefsOf(name))
           at == SyscallsAt(v.granu)
           start == v.id2offset[SyscallBase + j]
<1>1. k \in Nat /\ L \in Nat /\ at \in Nat
  BY TraceIs, MemoryIs DEF SyscallsAt
<1>2. /\ Sound(v) /\ v.granu = GranuOf(name) /\ MemoryAt(name) = at + k
      /\ \A i \in 1..k : /\ SyscallBase + i \in DOMAIN v.id2offset
                         /\ v.id2offset[SyscallBase + i] = at + i - 1
  BY DEF AllInPlace, InPlace, MemoryAt
<1>3. start = at + j - 1 /\ start \in DOMAIN v.offset2id
  BY <1>2 DEF Sound
<1>4. SizeAt(v, start) \in Nat \ {0} /\ start + SizeAt(v, start) <= v.size
  BY <1>2, <1>3, SizeAtIs
<1>5. CASE j < k
  <2>1. j + 1 \in 1..k
    BY <1>1, <1>5
  <2>2. /\ SyscallBase + (j + 1) \in DOMAIN v.id2offset
        /\ v.id2offset[SyscallBase + (j + 1)] = at + (j + 1) - 1
    BY <1>2, <2>1
  <2>3. at + j \in DOMAIN v.offset2id
    <3>1. v.id2offset[SyscallBase + (j + 1)] = at + j
      BY <1>1, <2>2
    <3> QED
      BY <1>2, <2>2, <3>1 DEF Sound
  <2>4. start < at + j
    BY <1>1, <1>3
  <2>5. start + SizeAt(v, start) <= at + j
    BY <1>2, <1>3, <2>3, <2>4, SizeAtIs
  <2> QED
    BY <1>1, <1>3, <1>4, <2>5
<1>6. CASE j = k /\ L = 0
  <2>1. v.size = at + k + L * ByteWidth(v.granu)
    BY <1>2 DEF AllInPlace
  <2>2. L * ByteWidth(v.granu) = 0
    BY <1>6 DEF ByteWidth
  <2> QED
    BY <1>1, <1>3, <1>4, <1>6, <2>1, <2>2
<1>7. CASE j = k /\ L # 0
  <2> DEFINE first == MemRefsOf(name)[1]
  <2>1. 1 \in 1..L
    BY <1>1, <1>7
  <2>2. v.id2offset[first] = at + k + (1 - 1) * ByteWidth(v.granu) /\ first \in DOMAIN v.id2offset
    BY <1>2, <2>1 DEF AllInPlace
  <2>3. (1 - 1) * ByteWidth(v.granu) = 0
    BY DEF ByteWidth
  <2>4. at + k \in DOMAIN v.offset2id
    <3>1. v.id2offset[first] = at + k
      BY <1>1, <2>2, <2>3
    <3> QED
      BY <1>2, <2>2, <3>1 DEF Sound
  <2>5. start < at + k
    BY <1>1, <1>3
  <2>6. start + SizeAt(v, start) <= at + k
    BY <1>2, <1>3, <2>4, <2>5, SizeAtIs
  <2> QED
    BY <1>1, <1>3, <1>4, <1>7, <2>6
<1>8. j < k \/ j = k
  BY <1>1
<1> QED
  BY <1>3, <1>5, <1>6, <1>7, <1>8

-----------------------------------------------------------------------------
(* The rows of rules *)

(* Where the operands of a rule are put: on registers and, if there is     *)
(* room, on bytes of memory, but never on the variable of a syscall.       *)
Spots(name, v, room) ==
  {x \in Nat : /\ x < SyscallsAt(v.granu) \/ x >= MemoryAt(name)
               /\ room => x < v.size}

OnSpots(m, P) ==
  /\ DOMAIN m = {"current_offset", "local2global", "overrided_set", "mem_ref_idx",
                 "isSucc", "die"}
  /\ m.current_offset \in Nat /\ m.mem_ref_idx \in Nat
  /\ Range(m.local2global) \subseteq m.overrided_set
  /\ m.overrided_set \subseteq P

LEMMA Moves ==
  ASSUME NEW m, NEW P, OnSpots(m, P), NEW c \in Nat, NEW q \in Nat
  PROVE  /\ OnSpots([m EXCEPT !.current_offset = c], P)
         /\ OnSpots([m EXCEPT !.current_offset = c, !.mem_ref_idx = q], P)
         /\ OnSpots([m EXCEPT !.die = TRUE], P)
         /\ OnSpots([m EXCEPT !.isSucc = FALSE], P)
<1>1. OnSpots([m EXCEPT !.current_offset = c], P)
  BY DEF OnSpots
<1>2. OnSpots([m EXCEPT !.current_offset = c, !.mem_ref_idx = q], P)
  BY DEF OnSpots
<1>3. OnSpots([m EXCEPT !.die = TRUE], P)
  BY DEF OnSpots
<1>4. OnSpots([m EXCEPT !.isSucc = FALSE], P)
  BY DEF OnSpots
<1> QED
  BY <1>1, <1>2, <1>3, <1>4

LEMMA PlaceKeeps ==
  ASSUME NEW m, NEW P, OnSpots(m, P), NEW id, NEW width \in Nat, NEW vs,
         \A i \in 0..width - 1 : vs.id2offset[id] + GetSizeWithinGranu(i, vs.granu) \in P
  PROVE  /\ OnSpots(Place(m, id, width, vs), P)
         /\ Place(m, id, width, vs).current_offset = m.current_offset
<1> DEFINE at == [i \in m.current_offset .. m.current_offset + width - 1 |->
                    vs.id2offset[id] + GetSizeWithinGranu(i - m.current_offset, vs.granu)]
           both == [p \in (DOMAIN m.local2global) \cup DOMAIN at |->
                      IF p \in DOMAIN at THEN at[p] ELSE m.local2global[p]]
           set == m.overrided_set \cup Range(at)
           w == Place(m, id, width, vs)
<1>1. w = [m EXCEPT !.local2global = both, !.overrided_set = set]
  BY DEF Place
<1>2. Range(at) \subseteq P
  <2>1. \A p \in DOMAIN at : at[p] \in P
    <3> SUFFICES ASSUME NEW p \in m.current_offset .. m.current_offset + width - 1
                 PROVE  at[p] \in P
      OBVIOUS
    <3>1. p - m.current_offset \in 0..width - 1
      BY DEF OnSpots
    <3> QED
      BY <3>1
  <2> HIDE DEF at
  <2> QED
    BY <2>1 DEF Range
<1> HIDE DEF at
<1>3. Range(both) \subseteq set
  <2>1. \A p \in DOMAIN both : both[p] \in Range(at) \/ both[p] \in Range(m.local2global)
    BY DEF Range
  <2>2. Range(both) \subseteq Range(at) \cup Range(m.local2global)
    <3> HIDE DEF both
    <3> QED
      BY <2>1 DEF Range
  <2> QED
    BY <2>2 DEF OnSpots
<1>4. set \subseteq P
  BY <1>2 DEF OnSpots
<1> HIDE DEF both, set, w
<1>5. /\ DOMAIN w = DOMAIN m /\ w.current_offset = m.current_offset
      /\ w.mem_ref_idx = m.mem_ref_idx /\ w.local2global = both /\ w.overrided_set = set
  BY <1>1 DEF OnSpots
<1> QED
  BY <1>3, <1>4, <1>5 DEF OnSpots, w

(* The place of a bit in a register, and in a value of some bytes.         *)
LEMMA PlacesInVariables ==
  ASSUME NEW granu \in FMGranularity, NEW i \in Nat
  PROVE  /\ GetSizeWithinGranu(i, granu) \in Nat
         /\ i < 64 => GetSizeWithinGranu(i, granu) < RegisterWidth(granu)
         /\ \A n \in Nat : i < n * 8 =>
              IF granu = "bit" THEN GetSizeWithinGranu(i, granu) = i
              ELSE GetSizeWithinGranu(i, granu) <= GetSizeWithinGranu(n * 8 - 1, "byte")
<1>1. CASE granu = "bit"
  BY <1>1 DEF GetSizeWithinGranu, RegisterWidth
<1>2. CASE granu = "byte"
  <2>1. i \div 8 \in Nat /\ (i < 64 => i \div 8 < 8)
    OBVIOUS
  <2>2. GetSizeWithinGranu(i, granu) = IF i \div 8 = 0 /\ i > 0 THEN 1 ELSE i \div 8
    BY <1>2 DEF GetSizeWithinGranu
  <2>3. ASSUME NEW n \in Nat, i < n * 8
        PROVE  GetSizeWithinGranu(i, granu) <= GetSizeWithinGranu(n * 8 - 1, "byte")
    <3>1. (n * 8 - 1) \div 8 = n - 1 /\ n >= 1 /\ i \div 8 <= n - 1
      BY <2>3
    <3>2. GetSizeWithinGranu(n * 8 - 1, "byte") = IF n - 1 = 0 /\ n * 8 - 1 > 0 THEN 1 ELSE n - 1
      BY <3>1 DEF GetSizeWithinGranu
    <3> QED
      BY <2>1, <2>2, <3>1, <3>2
  <2> QED
    BY <1>2, <2>1, <2>2, <2>3 DEF RegisterWidth
<1> QED
  BY <1>1, <1>2 DEF FMGranularity

LEMMA SizesAre ==
  ASSUME Kinds, NEW name \in Names, NEW v, AllInPlace(name, v)
  PROVE  /\ SyscallsAt(v.granu) \in Nat /\ MemoryAt(name) \in Nat
         /\ MemoryAt(name) = SyscallsAt(v.granu) + Len(SyscallsOf(name))
         /\ SyscallsAt(v.granu) <= MemoryAt(name)
         /\ v.size \in Nat /\ MemoryAt(name) <= v.size
         /\ v.granu \in FMGranularity /\ v.granu = GranuOf(name) /\ Sound(v)
<1>1. v.granu = GranuOf(name) /\ Sound(v)
  BY DEF AllInPlace, InPlace
<1>2. Len(SyscallsOf(name)) \in Nat /\ Len(MemRefsOf(name)) \in Nat
  BY TraceIs, MemoryIs
<1>3. SyscallsAt(v.granu) \in Nat /\ ByteWidth(v.granu) \in {1, 8}
  BY DEF SyscallsAt, ByteWidth
<1>4. v.granu \in FMGranularity
  BY <1>1 DEF GranuOf, FMGranularity
<1>5. v.size = MemoryAt(name) + Len(MemRefsOf(name)) * ByteWidth(v.granu)
  BY DEF AllInPlace
<1>6. Len(MemRefsOf(name)) * ByteWidth(v.granu) \in Nat
  <2>1. CASE ByteWidth(v.granu) = 1
    BY <1>2, <2>1
  <2>2. CASE ByteWidth(v.granu) = 8
    BY <1>2, <2>2
  <2> QED
    BY <1>3, <2>1, <2>2
<1>7. MemoryAt(name) = SyscallsAt(v.granu) + Len(SyscallsOf(name))
  BY <1>1 DEF MemoryAt
<1> DEFINE a == SyscallsAt(v.granu)
           b == MemoryAt(name)
           c == Len(SyscallsOf(name))
           d == Len(MemRefsOf(name)) * ByteWidth(v.granu)
<1>8. a \in Nat /\ c \in Nat /\ d \in Nat /\ b = a + c /\ v.size = b + d
  BY <1>2, <1>3, <1>5, <1>6, <1>7
<1> HIDE DEF a, b, c, d
<1>9. b \in Nat /\ a <= b /\ v.size \in Nat /\ b <= v.size
  BY <1>8
<1> QED
  BY <1>1, <1>4, <1>8, <1>9 DEF a, b, c

LEMMA RegisterOnSpots ==
  ASSUME Kinds, NEW name \in Names, NEW v, AllInPlace(name, v), NEW room \in BOOLEAN,
         NEW m, OnSpots(m, Spots(name, v, room)), NEW reg
  PROVE  OnSpots(MapRegister(m, reg, v), Spots(name, v, room))
<1> DEFINE P == Spots(name, v, room)
           enclosing == getEncloseReg[reg]
           placed == Place(m, enclosing, getRegSize[enclosing], v)
           later == placed.current_offset + getRegSize[reg]
<1>1. CASE m.die \/ reg \notin DOMAIN getEncloseReg
  <2>1. MapRegister(m, reg, v) = [m EXCEPT !.die = TRUE]
    BY <1>1 DEF MapRegister
  <2>2. 0 \in Nat
    OBVIOUS
  <2> HIDE DEF P
  <2> QED
    BY <2>1, <2>2, Moves DEF P
<1>2. CASE ~m.die /\ reg \in DOMAIN getEncloseReg
  <2>1. enclosing \in RegisterIds /\ getRegSize[enclosing] = 64 /\ getRegSize[reg] \in Nat
    <3>1. "bit" \in FMGranularity
      BY DEF FMGranularity
    <3> QED
      BY <1>2, <3>1, WidthsAre
  <2>2. /\ enclosing \in DOMAIN v.id2offset /\ v.id2offset[enclosing] \in Nat
        /\ v.id2offset[enclosing] + RegisterWidth(v.granu) <= SyscallsAt(v.granu)
    BY <2>1 DEF AllInPlace, InPlace, Sound
  <2>3. /\ SyscallsAt(v.granu) \in Nat /\ v.size \in Nat /\ v.granu \in FMGranularity
        /\ SyscallsAt(v.granu) <= v.size
    <3>1. /\ SyscallsAt(v.granu) \in Nat /\ v.size \in Nat /\ v.granu \in FMGranularity
          /\ MemoryAt(name) \in Nat
          /\ SyscallsAt(v.granu) <= MemoryAt(name) /\ MemoryAt(name) <= v.size
      BY SizesAre
    <3> QED
      BY <3>1
  <2>4. MapRegister(m, reg, v) = [placed EXCEPT !.current_offset = later]
    BY <1>2, <2>2 DEF MapRegister
  <2>5. \A i \in 0..64 - 1 : v.id2offset[enclosing] + GetSizeWithinGranu(i, v.granu) \in P
    <3> SUFFICES ASSUME NEW i \in 0..64 - 1
                 PROVE  v.id2offset[enclosing] + GetSizeWithinGranu(i, v.granu) \in P
      OBVIOUS
    <3>1. /\ GetSizeWithinGranu(i, v.granu) \in Nat
          /\ GetSizeWithinGranu(i, v.granu) < RegisterWidth(v.granu)
      BY <2>3, PlacesInVariables
    <3>2. RegisterWidth(v.granu) \in Nat
      BY DEF RegisterWidth
    <3> HIDE DEF enclosing
    <3>3. /\ v.id2offset[enclosing] + GetSizeWithinGranu(i, v.granu) \in Nat
          /\ v.id2offset[enclosing] + GetSizeWithinGranu(i, v.granu) < SyscallsAt(v.granu)
          /\ v.id2offset[enclosing] + GetSizeWithinGranu(i, v.granu) < v.size
      BY <2>2, <2>3, <3>1, <3>2
    <3> QED
      BY <3>3 DEF Spots
  <2>6. OnSpots(placed, P) /\ placed.current_offset \in Nat
    <3>1. 64 \in Nat /\ getRegSize[enclosing] = 64 /\ OnSpots(m, P)
      BY <2>1
    <3> HIDE DEF P, enclosing
    <3>2. OnSpots(Place(m, enclosing, 64, v), P)
      BY <2>5, <3>1, PlaceKeeps
    <3>3. OnSpots(placed, P)
      BY <3>1, <3>2
    <3> QED
      BY <3>3 DEF OnSpots
  <2>7. later \in Nat
    BY <2>1, <2>6
  <2>8. 0 \in Nat
    OBVIOUS
  <2> HIDE DEF placed, later, P
  <2>9. OnSpots([placed EXCEPT !.current_offset = later], P)
    BY <2>6, <2>7, <2>8, Moves
  <2> QED
    BY <2>4, <2>9 DEF P
<1> QED
  BY <1>1, <1>2

(* An operand of a rule has a variable, and room for all of its bytes.     *)
HasRoom(name, address, memVal, room) ==
  \E p \in 1..Len(MemRefsOf(name)) :
    /\ address = MemRefsOf(name)[p]
    /\ room /\ isMemValue(memVal) =>
         p + GetSizeWithinGranu(getMemSize(memVal) * 8 - 1, "byte") <= Len(MemRefsOf(name))

LEMMA ValueOnSpots ==
  ASSUME Kinds, NEW name \in Names, NEW v, AllInPlace(name, v), NEW room \in BOOLEAN,
         NEW address, NEW memVal \in Nat, isMemValue(memVal),
         HasRoom(name, address, memVal, room),
         NEW i \in Nat, i < getMemSize(memVal) * 8
  PROVE  /\ address \in DOMAIN v.id2offset
         /\ v.id2offset[address] + GetSizeWithinGranu(i, v.granu) \in Spots(name, v, room)
<1> DEFINE M == MemRefsOf(name)
           L == Len(M)
           n == getMemSize(memVal)
           most == GetSizeWithinGranu(n * 8 - 1, "byte")
           at == GetSizeWithinGranu(i, v.granu)
           B == MemoryAt(name)
<1>1. PICK p \in 1..L : address = M[p] /\ (room => p + most <= L)
  BY DEF HasRoom
<1>2. L \in Nat /\ B \in Nat /\ n \in Nat /\ at \in Nat /\ v.granu \in FMGranularity
  <2>1. n \in Nat
    BY DEF getMemSize
  <2>2. v.granu \in FMGranularity
    BY SizesAre
  <2> QED
    BY <2>1, <2>2, MemoryIs, SizesAre, PlacesInVariables
<1>3. /\ address \in DOMAIN v.id2offset
      /\ v.id2offset[address] = B + (p - 1) * ByteWidth(v.granu)
      /\ v.size = B + L * ByteWidth(v.granu)
  BY <1>1 DEF AllInPlace
<1>4. IF v.granu = "bit" THEN at = i ELSE at <= most
  BY <1>2, PlacesInVariables
<1>5. i < n * 8
  OBVIOUS
<1>6. most \in Int /\ (n >= 1 => most >= n - 1)
  <2>1. n = 0 \/ n >= 1
    BY <1>2
  <2>2. (n * 8 - 1) \div 8 = n - 1
    BY <1>2
  <2>3. most = IF n - 1 = 0 /\ n * 8 - 1 > 0 THEN 1 ELSE n - 1
    BY <2>2 DEF GetSizeWithinGranu
  <2> QED
    BY <1>2, <2>1, <2>3
<1> HIDE DEF M, L, n, most, at, B
<1>7. CASE v.granu = "bit"
  <2>1. ByteWidth(v.granu) = 8 /\ at = i
    BY <1>4, <1>7 DEF ByteWidth
  <2>2. v.id2offset[address] = B + (p - 1) * 8 /\ v.size = B + L * 8
    BY <1>3, <2>1
  <2>3. n >= 1
    BY <1>2, <1>5
  <2>4. B + (p - 1) * 8 + i >= B /\ (p + n - 1 <= L => B + (p - 1) * 8 + i < B + L * 8)
    BY <1>1, <1>2, <1>5
  <2>5. room => p + n - 1 <= L
    BY <1>1, <1>2, <1>6, <2>3
  <2> QED
    BY <1>2, <1>3, <2>1, <2>2, <2>4, <2>5 DEF Spots, at, B
<1>8. CASE v.granu # "bit"
  <2>1. ByteWidth(v.granu) = 1 /\ at <= most
    BY <1>4, <1>8 DEF ByteWidth
  <2>2. v.id2offset[address] = B + (p - 1) /\ v.size = B + L
    BY <1>1, <1>2, <1>3, <2>1
  <2>3. B + (p - 1) + at >= B /\ (room => B + (p - 1) + at < B + L)
    BY <1>1, <1>2, <1>6, <2>1
  <2> QED
    BY <1>1, <1>2, <1>3, <2>2, <2>3 DEF Spots, at, B
<1> QED
  BY <1>7, <1>8

LEMMA MemoryOnSpots ==
  ASSUME Kinds, NEW name \in Names, NEW v, AllInPlace(name, v), NEW room \in BOOLEAN,
         NEW m, OnSpots(m, Spots(name, v, room)), NEW memVal \in Nat,
         NEW addrs, Len(addrs) \in Nat,
         \A q \in 1..Len(addrs) : HasRoom(name, addrs[q], memVal, room)
  PROVE  OnSpots(MapMemory(m, memVal, addrs, v), Spots(name, v, room))
<1> DEFINE P == Spots(name, v, room)
           size == getMemSize(memVal) * 8
           nxt == m.mem_ref_idx + 1
           placed == Place(m, addrs[nxt], size, v)
           later == placed.current_offset + size
           new == MapMemory(m, memVal, addrs, v)
<1>1. size \in Nat /\ m.mem_ref_idx \in Nat /\ nxt \in Nat /\ m.current_offset \in Nat
  BY DEF getMemSize, OnSpots
<1>2. new = IF m.die \/ ~m.isSucc THEN m
            ELSE IF ~isMemValue(memVal) THEN [m EXCEPT !.current_offset = m.current_offset + size]
            ELSE IF nxt > Len(addrs) THEN [m EXCEPT !.isSucc = FALSE]
            ELSE IF addrs[nxt] \notin DOMAIN v.id2offset THEN [m EXCEPT !.die = TRUE]
            ELSE [placed EXCEPT !.current_offset = later, !.mem_ref_idx = nxt]
  BY DEF MapMemory
<1>3. OnSpots(m, P)
  OBVIOUS
<1> HIDE DEF P, placed, later, new
<1> SUFFICES OnSpots(new, P)
  BY DEF new, P
<1>4. CASE m.die \/ ~m.isSucc
  BY <1>2, <1>3, <1>4
<1>5. CASE ~(m.die \/ ~m.isSucc) /\ ~isMemValue(memVal)
  <2>1. m.current_offset + size \in Nat
    BY <1>1
  <2> QED
    BY <1>1, <1>2, <1>3, <1>5, <2>1, Moves
<1>6. CASE ~(m.die \/ ~m.isSucc) /\ isMemValue(memVal) /\ nxt > Len(addrs)
  BY <1>1, <1>2, <1>3, <1>6, Moves
<1>7. CASE ~(m.die \/ ~m.isSucc) /\ isMemValue(memVal) /\ ~(nxt > Len(addrs))
  <2>1. nxt \in 1..Len(addrs)
    BY <1>1, <1>7
  <2>2. HasRoom(name, addrs[nxt], memVal, room)
    BY <2>1
  <2> HIDE DEF nxt
  <2>3. CASE addrs[nxt] \notin DOMAIN v.id2offset
    BY <1>1, <1>2, <1>3, <1>7, <2>3, Moves
  <2>4. CASE addrs[nxt] \in DOMAIN v.id2offset
    <3> DEFINE addr == addrs[nxt]
    <3>1. \A i \in 0..size - 1 : v.id2offset[addr] + GetSizeWithinGranu(i, v.granu) \in P
      <4> SUFFICES ASSUME NEW i \in 0..size - 1
                   PROVE  v.id2offset[addr] + GetSizeWithinGranu(i, v.granu) \in P
        OBVIOUS
      <4>1. i \in Nat /\ i < getMemSize(memVal) * 8
        BY <1>1
      <4>2. HasRoom(name, addr, memVal, room) /\ isMemValue(memVal)
        BY <1>7, <2>2
      <4> HIDE DEF addr
      <4> QED
        BY <4>1, <4>2, ValueOnSpots DEF P
    <3> HIDE DEF addr, size
    <3>2. OnSpots(Place(m, addr, size, v), P)
      BY <1>1, <1>3, <3>1, PlaceKeeps
    <3>3. OnSpots(placed, P)
      BY <3>2 DEF placed, addr
    <3>4. later \in Nat
      BY <1>1, <3>3 DEF OnSpots, later
    <3>5. OnSpots([placed EXCEPT !.current_offset = later, !.mem_ref_idx = nxt], P)
      BY <1>1, <3>3, <3>4, Moves
    <3> QED
      BY <1>2, <1>7, <2>4, <3>5
  <2> QED
    BY <2>3, <2>4
<1> QED
  BY <1>4, <1>5, <1>6, <1>7

(* What becomes of the n-th operand of a rule.                             *)
MapOperand(m, n, rule, addrs, v) ==
  IF n <= Len(rule.regs) THEN MapRegister(m, rule.regs[n], v)
  ELSE MapMemory(m, rule.mems[n - Len(rule.regs)], addrs, v)

OneByOne(h, rule, addrs, v) ==
  /\ h[0] = Nowhere
  /\ h[Len(rule.regs) + Len(rule.mems)] = OperandsOf(rule, addrs, v)
  /\ \A n \in 1 .. Len(rule.regs) + Len(rule.mems) :
       h[n] = MapOperand(h[n - 1], n, rule, addrs, v)

LEMMA OperandsChain ==
  ASSUME NEW rule, rule \in ProtoRule, NEW addrs, NEW v
  PROVE  \E h : OneByOne(h, rule, addrs, v)
<1> DEFINE L == Len(rule.regs) + Len(rule.mems)
           Step(g, n) == IF n = 0 THEN Nowhere ELSE MapOperand(g[n - 1], n, rule, addrs, v)
           Solves(g, k) == g = [n \in 0..k |-> Step(g, n)]
           D == {k \in 0..L : \A g : ~Solves(g, k)}
<1>1. L \in Nat
  BY DEF ProtoRule
<1>2. OperandsOf(rule, addrs, v) = (CHOOSE g : Solves(g, L))[L]
  BY DEF OperandsOf, MapOperand
<1> HIDE DEF L
<1>3. \A k \in 0..L : \E g : Solves(g, k)
  <2> SUFFICES ASSUME D # {}
               PROVE  FALSE
    OBVIOUS
  <2>1. PICK k \in D : \A x \in D : k <= x
    <3>1. D \in SUBSET Nat
      BY <1>1
    <3> HIDE DEF D
    <3> QED
      BY <3>1, SmallestOf
  <2>2. k \in 0..L /\ \A g : ~Solves(g, k)
    OBVIOUS
  <2>3. CASE k = 0
    <3> DEFINE g == [n \in {0} |-> Nowhere]
    <3>1. \A n \in 0..k : n = 0
      BY <2>3
    <3>2. 0..k = {0}
      BY <2>3
    <3>3. g = [n \in 0..k |-> Step(g, n)]
      BY <3>1, <3>2
    <3> QED
      BY <2>2, <3>3
  <2>4. CASE k # 0
    <3>1. k - 1 \in 0..L /\ k - 1 \notin D
      BY <1>1, <2>1, <2>4
    <3>2. PICK f : Solves(f, k - 1)
      BY <3>1
    <3> DEFINE last == MapOperand(f[k - 1], k, rule, addrs, v)
               g == [n \in 0..k |-> IF n = k THEN last ELSE f[n]]
    <3>3. \A n \in 0..k - 1 : f[n] = Step(f, n)
      <4>1. f = [n \in 0..k - 1 |-> Step(f, n)]
        BY <3>2
      <4> HIDE DEF Next
      <4> QED
        BY <4>1
    <3> HIDE DEF last
    <3>4. g = [n \in 0..k |-> g[n]] /\ g[k] = last /\ \A n \in 0..k - 1 : g[n] = f[n]
      BY <1>1, <2>2
    <3> HIDE DEF g
    <3>5. ASSUME NEW n \in 0..k
          PROVE  g[n] = Step(g, n)
      <4>1. CASE n = k
        <5>1. n - 1 \in 0..k - 1 /\ n # 0 /\ n - 1 = k - 1
          BY <1>1, <2>2, <2>4, <4>1
        <5> QED
          BY <3>4, <4>1, <5>1 DEF last
      <4>2. CASE n = 0
        <5>1. n \in 0..k - 1
          BY <1>1, <2>2, <2>4, <4>2
        <5> QED
          BY <3>3, <3>4, <4>2, <5>1
      <4>3. CASE n # 0 /\ n # k
        <5>1. n \in 0..k - 1 /\ n - 1 \in 0..k - 1
          BY <1>1, <2>2, <4>3
        <5> QED
          BY <3>3, <3>4, <4>3, <5>1
      <4> QED
        BY <4>1, <4>2, <4>3
    <3>6. [n \in 0..k |-> g[n]] = [n \in 0..k |-> Step(g, n)]
      <4> HIDE DEF Next
      <4> QED
        BY <3>5
    <3> QED
      BY <2>2, <3>4, <3>6
  <2> QED
    BY <2>3, <2>4
<1> DEFINE h == CHOOSE g : Solves(g, L)
<1>4. Solves(h, L)
  <2>1. \E g : Solves(g, L)
    BY <1>1, <1>3
  <2> HIDE DEF Solves
  <2> QED
    BY <2>1
<1>5. OperandsOf(rule, addrs, v) = h[L]
  BY <1>2
<1> HIDE DEF h
<1>6. \A n \in 0..L : h[n] = Step(h, n)
  <2>1. h = [n \in 0..L |-> Step(h, n)]
    BY <1>4
  <2> HIDE DEF Next
  <2> QED
    BY <2>1
<1>7. h[0] = Nowhere /\ \A n \in 1..L : h[n] = MapOperand(h[n - 1], n, rule, addrs, v)
  BY <1>1, <1>6
<1> QED
  BY <1>5, <1>7 DEF L, OneByOne

LEMMA OperandsOnSpots ==
  ASSUME Kinds, NEW name \in Names, NEW v, AllInPlace(name, v), NEW room \in BOOLEAN,
         NEW rule \in ProtoRule, NEW addrs, Len(addrs) \in Nat,
         \A q \in 1..Len(addrs), k \in 1..Len(rule.mems) :
           HasRoom(name, addrs[q], rule.mems[k], room)
  PROVE  OnSpots(OperandsOf(rule, addrs, v), Spots(name, v, room))
<1> DEFINE P == Spots(name, v, room)
           R == Len(rule.regs)
           L == R + Len(rule.mems)
<1>1. /\ rule.regs \in Seq(Nat) /\ rule.mems \in Seq(Nat)
      /\ R \in Nat /\ Len(rule.mems) \in Nat /\ L \in Nat
  BY DEF ProtoRule
<1>2. PICK h : OneByOne(h, rule, addrs, v)
  BY OperandsChain
<1> DEFINE K == Len(rule.mems)
<1>3. R \in Nat /\ K \in Nat /\ L = R + K /\ L \in Nat
  BY <1>1
<1>4. /\ h[0] = Nowhere /\ h[L] = OperandsOf(rule, addrs, v)
      /\ \A n \in 1..L : h[n] = MapOperand(h[n - 1], n, rule, addrs, v)
  BY <1>2 DEF OneByOne
<1> HIDE DEF R, L, K
<1> DEFINE D == {n \in 0..L : ~OnSpots(h[n], P)}
<1>5. ASSUME D # {}
      PROVE  FALSE
  <2>1. PICK n \in D : \A x \in D : n <= x
    <3>1. D \in SUBSET Nat
      BY <1>3
    <3> HIDE DEF D
    <3> QED
      BY <1>5, <3>1, SmallestOf
  <2>2. n \in 0..L /\ ~OnSpots(h[n], P)
    OBVIOUS
  <2>3. n # 0
    <3>1. Range(<<>>) = {}
      <4>1. DOMAIN <<>> = {}
        OBVIOUS
      <4> QED
        BY <4>1 DEF Range
    <3>2. OnSpots(Nowhere, P)
      <4> HIDE DEF P
      <4> QED
        BY <3>1 DEF OnSpots, Nowhere
    <3> QED
      BY <1>4, <2>2, <3>2
  <2>4. n \in 1..L /\ n - 1 \in 0..L /\ n - 1 \notin D
    BY <1>3, <2>1, <2>2, <2>3
  <2>5. OnSpots(h[n - 1], P)
    BY <2>4
  <2>6. h[n] = MapOperand(h[n - 1], n, rule, addrs, v)
    BY <1>4, <2>4
  <2> DEFINE m == h[n - 1]
  <2>7. CASE n <= R
    <3>1. h[n] = MapRegister(m, rule.regs[n], v)
      BY <2>6, <2>7 DEF MapOperand, R
    <3>2. OnSpots(m, Spots(name, v, room))
      BY <2>5
    <3> HIDE DEF m
    <3> QED
      BY <2>2, <3>1, <3>2, RegisterOnSpots
  <2>8. CASE ~(n <= R)
    <3> DEFINE k == n - R
               memVal == rule.mems[k]
    <3>1. k \in 1..K
      BY <1>3, <2>4, <2>8
    <3>2. memVal \in Nat /\ \A q \in 1..Len(addrs) : HasRoom(name, addrs[q], memVal, room)
      BY <1>1, <3>1 DEF K
    <3>3. h[n] = MapMemory(m, memVal, addrs, v)
      BY <2>6, <2>8 DEF MapOperand, R
    <3>4. OnSpots(m, Spots(name, v, room))
      BY <2>5
    <3> HIDE DEF m, k, memVal
    <3> QED
      BY <2>2, <3>2, <3>3, <3>4, MemoryOnSpots
  <2> QED
    BY <2>7, <2>8
<1>6. L \notin D
  BY <1>5
<1> QED
  BY <1>3, <1>4, <1>6

(* A row has flows between the indices that it overrides, and those are    *)
(* where variables are.                                                    *)
RowOn(row, P) ==
  row.valid \subseteq P /\ row.flows \subseteq row.valid \X row.valid

LEMMA RuleRow ==
  ASSUME Kinds, NEW name \in Names, NEW v, AllInPlace(name, v), NEW room \in BOOLEAN,
         NEW rule \in ProtoRule, NEW addrs, Len(addrs) \in Nat,
         \A q \in 1..Len(addrs), k \in 1..Len(rule.mems) :
           HasRoom(name, addrs[q], rule.mems[k], room)
  PROVE  RowOn(FMRule(rule, addrs, v).row, Spots(name, v, room))
<1> DEFINE m == OperandsOf(rule, addrs, v)
           P == Spots(name, v, room)
           made == FMRule(rule, addrs, v)
<1>1. OnSpots(m, P)
  BY OperandsOnSpots
<1>2. made = IF m.die THEN Abort ELSE Row(FlowsOf(rule, m), m.overrided_set)
  BY DEF FMRule
<1> HIDE DEF m, P, made
<1>3. CASE m.die
  <2>1. made.row.flows = {} /\ made.row.valid = {}
    BY <1>2, <1>3 DEF Abort, EmptyRow
  <2> QED
    BY <2>1 DEF RowOn, made, P
<1>4. CASE ~m.die
  <2>1. made.row.flows = FlowsOf(rule, m) /\ made.row.valid = m.overrided_set
    BY <1>2, <1>4 DEF Row
  <2>2. \A p \in DOMAIN m.local2global : m.local2global[p] \in m.overrided_set
    BY <1>1 DEF OnSpots, Range
  <2>3. FlowsOf(rule, m) \subseteq m.overrided_set \X m.overrided_set
    BY <2>2 DEF FlowsOf
  <2>4. m.overrided_set \subseteq P
    BY <1>1 DEF OnSpots
  <2> QED
    BY <2>1, <2>3, <2>4 DEF RowOn, made, P
<1> QED
  BY <1>3, <1>4

-----------------------------------------------------------------------------
(* The rows of syscalls *)

LEMMA BufferIs ==
  ASSUME NEW s \in Syscall, NEW n, LikeRecorded(s, n), HasBuffer(s)
  PROVE  /\ buffer_base(s) \in Nat /\ buffer_base(s) > SyscallBase + n
         /\ buffer_size(s) \in Nat \ {0}
         /\ s.nargs \in Nat /\ s.nargs >= 3
<1>1. /\ s.rvalue \in Nat \cup {-1} /\ s.nargs \in Nat /\ s.args \in Seq(Nat \cup {-1})
  BY DEF Syscall
<1>2. /\ s.nargs = Len(s.args) /\ s.nargs >= 3 /\ buffer_base(s) > SyscallBase + n
      /\ buffer_base(s) \notin {0, -1} /\ buffer_size(s) \notin {0, -1}
  BY DEF HasBuffer, LikeRecorded
<1>3. s.args[2] \in Nat \cup {-1}
  BY <1>1, <1>2
<1>4. buffer_base(s) \in Nat
  BY <1>1, <1>2, <1>3 DEF buffer_base
<1>5. buffer_size(s) \in Nat \ {0}
  BY <1>1, <1>2, <1>3 DEF buffer_size, mmsghdr
<1> QED
  BY <1>1, <1>2, <1>4, <1>5

LEMMA IdsAre ==
  ASSUME Kinds, NEW name \in Names, NEW v, AllInPlace(name, v)
  PROVE  /\ DOMAIN v.id2offset \in SUBSET Nat
         /\ \A id \in DOMAIN v.id2offset :
              /\ v.id2offset[id] \in Nat /\ v.id2offset[id] < v.size
              /\ id > SyscallBase + Len(SyscallsOf(name)) => v.id2offset[id] >= MemoryAt(name)
<1> DEFINE k == Len(SyscallsOf(name))
           M == MemRefsOf(name)
<1>1. k \in Nat /\ M \in Seq(Nat) /\ Len(M) \in Nat
  BY TraceIs, MemoryIs
<1>2. DOMAIN v.id2offset = RegisterIds \cup {SyscallBase + j : j \in 1..k}
                             \cup {M[p] : p \in 1..Len(M)}
  BY DEF AllInPlace
<1>3. Sound(v) /\ v.size \in Nat /\ MemoryAt(name) \in Nat
  BY SizesAre
<1>4. \A id \in RegisterIds : id \in Nat /\ ~(id > SyscallBase + k)
  BY <1>1 DEF RegisterIds, SyscallBase
<1>5. \A j \in 1..k : SyscallBase + j \in Nat /\ ~(SyscallBase + j > SyscallBase + k)
  BY <1>1 DEF SyscallBase
<1>6. ASSUME NEW p \in 1..Len(M)
      PROVE  M[p] \in Nat /\ v.id2offset[M[p]] >= MemoryAt(name)
  <2>1. v.id2offset[M[p]] = MemoryAt(name) + (p - 1) * ByteWidth(v.granu)
    BY DEF AllInPlace
  <2>2. (p - 1) * ByteWidth(v.granu) \in Nat
    BY <1>1 DEF ByteWidth
  <2> QED
    BY <1>1, <1>3, <2>1, <2>2
<1> HIDE DEF k, M
<1>7. DOMAIN v.id2offset \in SUBSET Nat
  BY <1>2, <1>4, <1>5, <1>6
<1>8. ASSUME NEW id \in DOMAIN v.id2offset, id > SyscallBase + k
      PROVE  v.id2offset[id] >= MemoryAt(name)
  BY <1>2, <1>4, <1>5, <1>6, <1>8
<1>9. \A id \in DOMAIN v.id2offset : v.id2offset[id] \in Nat /\ v.id2offset[id] < v.size
  BY <1>3 DEF Sound
<1> QED
  BY <1>7, <1>8, <1>9 DEF k

(* The indices of a buffer are those of memory; at the level of bits there *)
(* may be more of them than memory has.                                    *)
LEMMA BufferInMemory ==
  ASSUME Kinds, NEW name \in Names, NEW v, AllInPlace(name, v),
         NEW s \in Syscall, LikeRecorded(s, Len(SyscallsOf(name))), HasBuffer(s)
  PROVE  /\ IsFiniteSet(BufferIndices(s, v))
         /\ BufferIndices(s, v) \subseteq Spots(name, v, v.granu = "byte")
<1> DEFINE ids == DOMAIN v.id2offset
           base == buffer_base(s)
           past == {id \in ids : id > base + buffer_size(s) - 1}
           above == {id \in ids : id >= base}
           d == v.id2offset[Min(past)] - v.id2offset[Min(above)]
           n == GetSizeWithinGranu(d * 8, v.granu)
           B == BufferIndices(s, v)
<1>1. /\ base \in Nat /\ base > SyscallBase + Len(SyscallsOf(name))
      /\ buffer_size(s) \in Nat \ {0}
  BY BufferIs
<1>2. B = {} \/ (past # {} /\ B = From(v.id2offset[Min(above)], n))
  BY DEF BufferIndices
<1>3. CASE B = {}
  BY <1>3, FS_EmptySet
<1>4. CASE past # {} /\ B = From(v.id2offset[Min(above)], n)
  <2>1. past \in SUBSET Nat /\ above \in SUBSET Nat /\ past \subseteq above
    BY <1>1, IdsAre
  <2>2. Min(past) \in past /\ Min(above) \in above
    <3> HIDE DEF past, above
    <3> QED
      BY <1>4, <2>1, SmallestIs
  <2> DEFINE first == Min(above)
             end == Min(past)
  <2>3. /\ first \in ids /\ end \in ids /\ first \in Nat
        /\ first > SyscallBase + Len(SyscallsOf(name))
    <3>1. first \in ids /\ end \in ids /\ first >= base /\ first \in Nat
      BY <2>1, <2>2
    <3>2. Len(SyscallsOf(name)) \in Nat /\ SyscallBase \in Nat
      BY TraceIs DEF SyscallBase
    <3> HIDE DEF first, end, ids
    <3> QED
      BY <1>1, <3>1, <3>2
  <2> HIDE DEF first, end
  <2>4. /\ v.id2offset[first] \in Nat /\ v.id2offset[first] >= MemoryAt(name)
        /\ v.id2offset[end] \in Nat /\ v.id2offset[end] < v.size
    BY <2>3, IdsAre
  <2>5. d = v.id2offset[end] - v.id2offset[first] /\ d \in Int
    BY <2>4 DEF first, end
  <2>6. B = {v.id2offset[first] + i : i \in 0..n - 1}
    BY <1>4 DEF From, first
  <2>7. v.granu \in FMGranularity /\ v.size \in Nat /\ MemoryAt(name) \in Nat
    BY SizesAre
  <2> HIDE DEF d, B
  <2>8. n \in Int /\ (v.granu = "byte" => n = d)
    <3>1. (d * 8) \div 8 = d
      BY <2>5
    <3> QED
      BY <2>5, <2>7, <3>1 DEF GetSizeWithinGranu, FMGranularity
  <2> HIDE DEF n
  <2>9. IsFiniteSet(B)
    <3> DEFINE a == v.id2offset[first]
               I == a .. a + n - 1
    <3>1. IsFiniteSet(I)
      <4>1. a \in Int /\ a + n - 1 \in Int
        BY <2>4, <2>8
      <4> HIDE DEF a
      <4> QED
        BY <4>1, FS_Interval
    <3>2. B \subseteq I
      BY <2>4, <2>6, <2>8
    <3> HIDE DEF I
    <3> QED
      BY <3>1, <3>2, FS_Subset
  <2>10. ASSUME NEW x \in B
         PROVE  x \in Spots(name, v, v.granu = "byte")
    <3>1. PICK i \in 0..n - 1 : x = v.id2offset[first] + i
      BY <2>6
    <3>2. x \in Nat /\ x >= MemoryAt(name)
      BY <2>4, <2>7, <2>8, <3>1
    <3>3. ASSUME v.granu = "byte"
          PROVE  x < v.size
      BY <2>4, <2>5, <2>7, <2>8, <3>1, <3>3
    <3> QED
      BY <3>2, <3>3 DEF Spots
  <2> QED
    BY <2>9, <2>10 DEF B
<1> QED
  BY <1>2, <1>3, <1>4

LEMMA ArgumentsAre ==
  /\ Len(ArgumentRegisters) = 6
  /\ \A k \in 1..6 : DEFAULT_REG_OFFSET[ArgumentRegisters[k]] \in 0..72
  /\ DEFAULT_REG_OFFSET["RAX"] = 0
<1>1. /\ Len(ArgumentRegisters) = 6
      /\ ArgumentRegisters[1] = "RDI" /\ ArgumentRegisters[2] = "RSI"
      /\ ArgumentRegisters[3] = "RDX" /\ ArgumentRegisters[4] = "RCX"
      /\ ArgumentRegisters[5] = "R8" /\ ArgumentRegisters[6] = "R9"
  BY DEF ArgumentRegisters
<1>2. /\ DEFAULT_REG_OFFSET["RAX"] = 0 /\ DEFAULT_REG_OFFSET["RCX"] = 16
      /\ DEFAULT_REG_OFFSET["RDX"] = 24 /\ DEFAULT_REG_OFFSET["RDI"] = 32
      /\ DEFAULT_REG_OFFSET["RSI"] = 40 /\ DEFAULT_REG_OFFSET["R8"] = 64
      /\ DEFAULT_REG_OFFSET["R9"] = 72
  BY DEF DEFAULT_REG_OFFSET
<1> QED
  BY <1>1, <1>2

LEMMA AtMostBoth ==
  ASSUME NEW S, NEW T, IsFiniteSet(S), IsFiniteSet(T)
  PROVE  /\ IsFiniteSet(S \cup T)
         /\ Cardinality(S \cup T) \in Nat
         /\ Cardinality(S \cup T) <= Cardinality(S) + Cardinality(T)
<1>1. /\ IsFiniteSet(S \cup T)
      /\ Cardinality(S \cup T) = Cardinality(S) + Cardinality(T) - Cardinality(S \cap T)
  BY FS_Union
<1>2. IsFiniteSet(S \cap T)
  BY FS_Intersection
<1>3. Cardinality(S) \in Nat /\ Cardinality(T) \in Nat /\ Cardinality(S \cap T) \in Nat
      /\ Cardinality(S \cup T) \in Nat
  BY <1>1, <1>2, FS_CardinalityType
<1> QED
  BY <1>1, <1>3

(* The row of a syscall overrides its variable, registers and memory.  At  *)
(* the level of bits an assertion fails instead.                           *)
SyscallsRowIs(row, at, P) ==
  /\ at \in row.valid /\ row.valid \subseteq {at} \cup P
  /\ row.flows \subseteq row.valid \X row.valid

LEMMA FromWithin ==
  ASSUME NEW base \in 0..72, NEW width \in {8, 64}
  PROVE  From(base, width) \subseteq 0 .. 71 + width
<1>1. ASSUME NEW i \in 0..width - 1
      PROVE  base + i \in 0 .. 71 + width
  OBVIOUS
<1> QED
  BY <1>1 DEF From

LEMMA SyscallRowIs ==
  ASSUME Kinds, NEW name \in Names, NEW v, AllInPlace(name, v),
         NEW s \in Syscall, LikeRecorded(s, Len(SyscallsOf(name))), HasBuffer(s), NEW at,
         ~SyscallRow(s, at, v).die
  PROVE  SyscallsRowIs(SyscallRow(s, at, v).row, at, Spots(name, v, TRUE))
<1> DEFINE width == GetSizeWithinGranu(64, v.granu)
           argument(k) == From(DEFAULT_REG_OFFSET[ArgumentRegisters[k]], width)
           arguments == UNION {argument(k) : k \in 1..s.nargs}
           result == From(DEFAULT_REG_OFFSET["RAX"], width)
           buffer == BufferIndices(s, v)
           kept == arguments \cup (IF s.id \in WritesFrom THEN buffer ELSE {})
           made == result \cup (IF s.id \in WritesFrom THEN {} ELSE buffer)
           valid == {at} \cup arguments \cup result \cup buffer
           flows == {<<i, i>> : i \in kept \cup {at}} \cup {<<i, at>> : i \in kept}
                      \cup {<<at, i>> : i \in made}
           fails == \/ buffer = {} \/ s.nargs > Len(ArgumentRegisters)
                    \/ Cardinality(valid) # 1 + Cardinality(buffer) + width * (s.nargs + 1)
           new == SyscallRow(s, at, v)
           P == Spots(name, v, TRUE)
<1>1. new = IF fails THEN Abort ELSE Row(flows, valid)
  BY DEF SyscallRow
<1>2. s.nargs \in Nat /\ s.nargs >= 3
  BY BufferIs
<1>3. /\ v.granu \in FMGranularity /\ v.size \in Nat /\ MemoryAt(name) \in Nat
      /\ SyscallsAt(v.granu) <= MemoryAt(name) /\ MemoryAt(name) <= v.size
  BY SizesAre
<1>4. width \in {8, 64} /\ (width = 64 <=> v.granu = "bit") /\ 72 + width <= SyscallsAt(v.granu)
      /\ SyscallsAt(v.granu) \in Nat
  BY <1>3 DEF GetSizeWithinGranu, FMGranularity, SyscallsAt
<1>5. IsFiniteSet(buffer) /\ buffer \subseteq Spots(name, v, v.granu = "byte")
  BY BufferInMemory
<1> HIDE DEF width, buffer, new
<1>6. ~fails
  <2>1. ~new.die
    BY DEF new
  <2> HIDE DEF fails, valid, flows
  <2> QED
    BY <1>1, <2>1 DEF Abort
<1>7. new.row.flows = flows /\ new.row.valid = valid
  <2> HIDE DEF fails, valid, flows
  <2> QED
    BY <1>1, <1>6 DEF Row
<1>8. s.nargs <= 6
  BY <1>2, <1>6, ArgumentsAre
<1>9. \A k \in 1..s.nargs : argument(k) \subseteq 0 .. 71 + width
  <2> SUFFICES ASSUME NEW k \in 1..s.nargs
               PROVE  argument(k) \subseteq 0 .. 71 + width
    OBVIOUS
  <2>1. k \in 1..6
    BY <1>2, <1>8
  <2>2. DEFAULT_REG_OFFSET[ArgumentRegisters[k]] \in 0..72
    BY <2>1, ArgumentsAre
  <2>3. width \in {8, 64}
    BY <1>4
  <2> QED
    BY <2>2, <2>3, FromWithin
<1>10. result \subseteq 0 .. 71 + width
  <2>1. DEFAULT_REG_OFFSET["RAX"] \in 0..72 /\ width \in {8, 64}
    BY <1>4, ArgumentsAre
  <2> QED
    BY <2>1, FromWithin
<1>11. arguments \cup result \subseteq 0 .. 71 + width
  <2> HIDE DEF argument, result
  <2> QED
    BY <1>9, <1>10
<1> HIDE DEF arguments, result
<1>12. v.granu # "bit"
  <2> SUFFICES ASSUME v.granu = "bit"
               PROVE  FALSE
    OBVIOUS
  <2> DEFINE regs == arguments \cup result
  <2>1. width = 64
    BY <1>4
  <2>2. IsFiniteSet(0..135) /\ Cardinality(0..135) = 136
    <3>1. ASSUME NEW b \in Nat
          PROVE  IsFiniteSet(0..b) /\ Cardinality(0..b) = b + 1
      <4>1. 0 \in Int /\ b \in Int /\ ~(0 > b) /\ b - 0 + 1 = b + 1
        OBVIOUS
      <4> QED
        BY <4>1, FS_Interval
    <3>2. \A b \in Nat : IsFiniteSet(0..b) /\ Cardinality(0..b) = b + 1
      BY <3>1
    <3>3. IsFiniteSet(0..135) /\ Cardinality(0..135) = 135 + 1
      BY <3>2
    <3> QED
      BY <3>3
  <2>3. regs \in SUBSET (0..135)
    <3>1. 71 + width = 135
      BY <2>1
    <3> HIDE DEF regs
    <3>2. regs \subseteq 0 .. 71 + width
      BY <1>11 DEF regs
    <3> QED
      BY <3>1, <3>2
  <2>4. IsFiniteSet(regs) /\ Cardinality(regs) <= 136 /\ Cardinality(regs) \in Nat
    <3> HIDE DEF regs
    <3>1. IsFiniteSet(regs) /\ Cardinality(regs) <= Cardinality(0..135)
      BY <2>2, <2>3, FS_Subset
    <3> QED
      BY <2>2, <3>1, FS_CardinalityType
  <2>5. IsFiniteSet({at}) /\ Cardinality({at}) = 1
    BY FS_Singleton
  <2> DEFINE front == {at} \cup buffer
  <2>6. IsFiniteSet(front) /\ Cardinality(front) <= 1 + Cardinality(buffer)
        /\ Cardinality(front) \in Nat
    BY <1>5, <2>5, AtMostBoth
  <2>7. Cardinality(front \cup regs) <= Cardinality(front) + Cardinality(regs)
        /\ Cardinality(front \cup regs) \in Nat
    <3> HIDE DEF front, regs
    <3> QED
      BY <2>4, <2>6, AtMostBoth
  <2>8. valid = front \cup regs
    OBVIOUS
  <2>9. Cardinality(valid) = 1 + Cardinality(buffer) + 64 * (s.nargs + 1)
    BY <1>6, <2>1
  <2>10. Cardinality(buffer) \in Nat
    BY <1>5, FS_CardinalityType
  <2> DEFINE c == Cardinality(valid)
             b == Cardinality(buffer)
             n == s.nargs
  <2>11. c <= 1 + b + 136 /\ c = 1 + b + 64 * (n + 1) /\ b \in Nat /\ n \in Nat /\ n >= 3
    <3>1. c <= Cardinality(front) + Cardinality(regs)
      BY <2>7, <2>8
    <3>2. c \in Nat
      BY <2>7, <2>8
    <3> HIDE DEF front, regs, c, valid
    <3>3. c <= 1 + b + 136
      BY <2>4, <2>6, <2>10, <3>1, <3>2
    <3> QED
      BY <1>2, <2>9, <2>10, <3>3 DEF c
  <2> HIDE DEF c, b, n
  <2> QED
    BY <2>11
<1>13. 0 .. 71 + width \subseteq P
  <2>1. ASSUME NEW x \in 0 .. 71 + width
        PROVE  x \in Nat /\ x < SyscallsAt(v.granu) /\ x < v.size
    BY <1>3, <1>4
  <2> QED
    BY <2>1 DEF Spots
<1>14. buffer \subseteq P
  BY <1>3, <1>5, <1>12 DEF FMGranularity, Spots
<1>15. valid \subseteq {at} \cup P
  BY <1>11, <1>13, <1>14
<1>16. flows \subseteq valid \X valid
  <2>1. kept \subseteq valid /\ made \subseteq valid /\ at \in valid
    OBVIOUS
  <2> HIDE DEF kept, made, valid
  <2> QED
    BY <2>1
<1>17. at \in valid
  OBVIOUS
<1> HIDE DEF valid, flows, P
<1> QED
  BY <1>7, <1>15, <1>16, <1>17 DEF SyscallsRowIs, new, P

(* A step that writes to one of the tables of a trace.                     *)
Written(before, after, name, field, value) ==
  /\ after = [n \in Names |-> [sys |-> after[n].sys, vstate |-> after[n].vstate,
                               rows |-> after[n].rows]]
  /\ \A n \in Names :
       /\ after[n].sys = IF n = name /\ field = "sys" THEN value ELSE before[n].sys
       /\ after[n].vstate = IF n = name /\ field = "vstate" THEN value ELSE before[n].vstate
       /\ after[n].rows = IF n = name /\ field = "rows" THEN value ELSE before[n].rows

LEMMA WritesOne ==
  ASSUME Kinds, NEW name \in Names, NEW value
  PROVE  /\ Written(tables, [tables EXCEPT ![name].sys = value], name, "sys", value)
         /\ Written(tables, [tables EXCEPT ![name].vstate = value], name, "vstate", value)
         /\ Written(tables, [tables EXCEPT ![name].rows = value], name, "rows", value)
<1>1. tables = [n \in Names |-> [sys |-> tables[n].sys, vstate |-> tables[n].vstate,
                                 rows |-> tables[n].rows]]
  BY DEF Kinds
<1>2. DOMAIN tables = Names /\ \A n \in Names :
        tables[n] = [sys |-> tables[n].sys, vstate |-> tables[n].vstate, rows |-> tables[n].rows]
  BY <1>1
<1>3. Written(tables, [tables EXCEPT ![name].sys = value], name, "sys", value)
  <2> DEFINE after == [tables EXCEPT ![name].sys = value]
  <2>1. DOMAIN after = Names /\ after = [n \in Names |-> after[n]]
    BY <1>2
  <2>2. after[name] = [tables[name] EXCEPT !.sys = value]
    BY <1>2
  <2>3. \A n \in Names : n # name => after[n] = tables[n]
    BY <1>2
  <2> HIDE DEF after
  <2>4. /\ after[name].sys = value
        /\ after[name].vstate = tables[name].vstate
        /\ after[name].rows = tables[name].rows
        /\ after[name] = [sys |-> after[name].sys, vstate |-> after[name].vstate,
                          rows |-> after[name].rows]
    BY <1>2, <2>2
  <2> QED
    BY <1>2, <2>1, <2>3, <2>4 DEF Written, after
<1>4. Written(tables, [tables EXCEPT ![name].vstate = value], name, "vstate", value)
  <2> DEFINE after == [tables EXCEPT ![name].vstate = value]
  <2>1. DOMAIN after = Names /\ after = [n \in Names |-> after[n]]
    BY <1>2
  <2>2. after[name] = [tables[name] EXCEPT !.vstate = value]
    BY <1>2
  <2>3. \A n \in Names : n # name => after[n] = tables[n]
    BY <1>2
  <2> HIDE DEF after
  <2>4. /\ after[name].vstate = value
        /\ after[name].sys = tables[name].sys
        /\ after[name].rows = tables[name].rows
        /\ after[name] = [sys |-> after[name].sys, vstate |-> after[name].vstate,
                          rows |-> after[name].rows]
    BY <1>2, <2>2
  <2> QED
    BY <1>2, <2>1, <2>3, <2>4 DEF Written, after
<1>5. Written(tables, [tables EXCEPT ![name].rows = value], name, "rows", value)
  <2> DEFINE after == [tables EXCEPT ![name].rows = value]
  <2>1. DOMAIN after = Names /\ after = [n \in Names |-> after[n]]
    BY <1>2
  <2>2. after[name] = [tables[name] EXCEPT !.rows = value]
    BY <1>2
  <2>3. \A n \in Names : n # name => after[n] = tables[n]
    BY <1>2
  <2> HIDE DEF after
  <2>4. /\ after[name].rows = value
        /\ after[name].sys = tables[name].sys
        /\ after[name].vstate = tables[name].vstate
        /\ after[name] = [sys |-> after[name].sys, vstate |-> after[name].vstate,
                          rows |-> after[name].rows]
    BY <1>2, <2>2
  <2> QED
    BY <1>2, <2>1, <2>3, <2>4 DEF Written, after
<1> QED
  BY <1>3, <1>4, <1>5

-----------------------------------------------------------------------------
(* The steps *)

(* What was recorded stays.                                                *)
LEMMA Recorded ==
  ASSUME trace' = trace
  PROVE  /\ \A n : SyscallsOf(n)' = SyscallsOf(n) /\ InstrsOf(n)' = InstrsOf(n)
         /\ \A n, v : Complete(n, v)' <=> Complete(n, v)
<1>1. \A n : /\ SyscallsOf(n)' = SyscallsOf(n) /\ InstrsOf(n)' = InstrsOf(n)
             /\ MemRefsOf(n)' = MemRefsOf(n)
  BY DEF SyscallsOf, InstrsOf, MemRefsOf
<1> QED
  BY <1>1 DEF Complete

(* Tables that stay as they are.                                           *)
LEMMA TablesStay ==
  ASSUME IInv, trace' = trace, tables' = tables
  PROVE  /\ tables' = [n \in Names |-> [sys |-> tables'[n].sys, vstate |-> tables'[n].vstate,
                                        rows |-> tables'[n].rows]]
         /\ \A n \in Names : IsPrefixOf(tables'[n].sys, SyscallsOf(n)')
         /\ \A n \in Names : \/ DOMAIN tables'[n].vstate = {}
                             \/ \E v : /\ Complete(n, v)'
                                       /\ DOMAIN tables'[n].vstate = DOMAIN v.offset2id
         /\ \A name \in {"trace", "trace_bit"} :
              \E last \in 0..Len(trace'.instrs) : WholeUpTo(name, last)'
         /\ Rowed("forged")' \subseteq 1..3
<1>1. tables = [n \in Names |-> [sys |-> tables[n].sys, vstate |-> tables[n].vstate,
                                 rows |-> tables[n].rows]]
  BY DEF IInv, Kinds
<1>2. tables' = [n \in Names |-> [sys |-> tables'[n].sys, vstate |-> tables'[n].vstate,
                                  rows |-> tables'[n].rows]]
  <2>1. \A n \in Names : tables'[n] = tables[n]
    OBVIOUS
  <2> QED
    BY <1>1, <2>1
<1>3. \A n \in Names : IsPrefixOf(tables'[n].sys, SyscallsOf(n)')
  BY Recorded DEF IInv, SyscallsStored
<1>4. \A n \in Names : \/ DOMAIN tables'[n].vstate = {}
                       \/ \E v : /\ Complete(n, v)'
                                 /\ DOMAIN tables'[n].vstate = DOMAIN v.offset2id
  BY Recorded DEF IInv, VariablesStored
<1>5. \A n : Rowed(n)' = Rowed(n)
  BY DEF Rowed
<1>6. \A n, last : WholeUpTo(n, last)' <=> WholeUpTo(n, last)
  BY <1>5 DEF WholeUpTo, EndsBatch
<1> QED
  BY <1>2, <1>3, <1>4, <1>5, <1>6 DEF IInv, RowsStored

LEMMA StartStep ==
  ASSUME IInv, Start
  PROVE  IInv'
<1>1. /\ pc' = "syscalls" /\ syscall_list' = <<>> /\ instr_id' = 1 /\ pending' = <<>>
      /\ trace' = trace /\ tables' = tables
  BY DEF Start
<1>2. PICK name \in Names : target' = name /\ vstate' = init_reg_state(GranuOf(name))
  BY DEF Start
<1>3. <<>> \in Seq(Syscall) /\ Len(<<>>) = 0
  OBVIOUS
<1>4. Len(InstrsOf(name))' \in Nat /\ trace' \in Traces
  BY <1>1, TraceIs, Recorded DEF IInv, Kinds
<1>5. Kinds'
  <2>1. 1 <= Len(InstrsOf(name))' + 1
    BY <1>4
  <2> QED
    BY <1>1, <1>2, <1>3, <1>4, <2>1, TablesStay DEF Kinds
<1>6. SyscallsStored'
  <2>1. IsPrefixOf(tables'[name].sys, SyscallsOf(name)')
    BY <1>1, TablesStay
  <2>2. 0 <= Len(tables'[name].sys)
    BY <2>1 DEF IsPrefixOf
  <2> QED
    BY <1>1, <1>2, <1>3, <2>2, TablesStay DEF SyscallsStored
<1>7. VariablesStored'
  <2>1. Grown(name, 0, vstate')
    BY <1>2, GrownFromRegisters
  <2> QED
    BY <1>1, <1>2, <1>3, <2>1, TablesStay DEF VariablesStored
<1>8. RowsStored'
  BY <1>1, TablesStay DEF RowsStored
<1> QED
  BY <1>5, <1>6, <1>7, <1>8 DEF IInv

LEMMA KillStep ==
  ASSUME IInv, Kill
  PROVE  IInv'
<1>1. /\ pc' = "idle" /\ pending' = <<>>
      /\ UNCHANGED <<trace, target, vstate, syscall_list, syscall_idx, instr_id, tables, runs>>
  BY DEF Kill
<1>2. Kinds'
  <2>1. instr_id' <= Len(InstrsOf(target)')+ 1 /\ InstrsOf(target)' = InstrsOf(target)
    BY <1>1, Recorded DEF IInv, Kinds
  <2>2. Len(InstrsOf(target))' = Len(InstrsOf(target))
    BY <1>1 DEF InstrsOf
  <2> QED
    BY <1>1, <2>2, TablesStay DEF IInv, Kinds, Stopped
<1>3. SyscallsStored' /\ VariablesStored' /\ RowsStored'
  BY <1>1, TablesStay DEF SyscallsStored, VariablesStored, RowsStored
<1> QED
  BY <1>2, <1>3 DEF IInv

(* The table of syscalls after one more was stored.                        *)
LEMMA StoredOneMore ==
  ASSUME NEW S \in Seq(Syscall), NEW s, IsPrefixOf(s, S),
         NEW next \in 1..Len(S), next - 1 <= Len(s),
         \A j, k \in 1..Len(S) : j < k => S[j].instr_id < S[k].instr_id,
         NEW after,
         after = IF \E i \in DOMAIN s : s[i].instr_id = S[next].instr_id
                 THEN s ELSE Append(s, S[next])
  PROVE  IsPrefixOf(after, S) /\ next <= Len(after)
<1>1. /\ s \in Seq(Syscall) /\ Len(s) \in Nat /\ Len(S) \in Nat /\ DOMAIN s = 1..Len(s)
      /\ Len(s) <= Len(S) /\ \A i \in 1..Len(s) : s[i] = S[i]
  BY DEF IsPrefixOf
<1>2. \A i \in 1..Len(S) : S[i] \in Syscall /\ S[i].instr_id \in Nat
  <2>1. \A i \in 1..Len(S) : S[i] \in Syscall
    BY ElementOfSeq
  <2>2. \A x \in Syscall : x.instr_id \in Nat
    BY DEF Syscall
  <2> QED
    BY <2>1, <2>2
<1>3. CASE next <= Len(s)
  <2>1. next \in DOMAIN s /\ s[next] = S[next]
    BY <1>1, <1>3
  <2> QED
    BY <1>3, <2>1
<1>4. CASE next = Len(s) + 1
  <2>1. \A i \in DOMAIN s : s[i].instr_id < S[next].instr_id
    BY <1>1, <1>4
  <2>2. \A i \in DOMAIN s : s[i].instr_id # S[next].instr_id
    BY <1>1, <1>2, <2>1
  <2>3. after = Append(s, S[next])
    BY <2>2
  <2>4. /\ after \in Seq(Syscall) /\ Len(after) = Len(s) + 1
        /\ \A i \in 1..Len(s) : after[i] = s[i]
        /\ after[Len(s) + 1] = S[next]
    BY <1>1, <1>2, <2>3, AppendProperties
  <2> QED
    BY <1>1, <1>4, <2>4 DEF IsPrefixOf
<1> QED
  BY <1>1, <1>3, <1>4

LEMMA StoreSyscallStep ==
  ASSUME IInv, StoreSyscall
  PROVE  IInv'
<1> DEFINE next == Len(syscall_list) + 1
           S == SyscallsOf(target)
           s == tables[target].sys
           stored == IF \E i \in DOMAIN s : s[i].instr_id = S[next].instr_id
                     THEN s ELSE Append(s, S[next])
<1>1. /\ pc = "syscalls" /\ next <= Len(S)
      /\ syscall_list' = Append(syscall_list, S[next])
      /\ vstate' = append(vstate, next + SyscallBase, 1)
      /\ tables' = [tables EXCEPT ![target].sys = stored]
      /\ UNCHANGED <<trace, pc, target, syscall_idx, instr_id, pending, runs>>
  BY DEF StoreSyscall
<1>2. target \in Names /\ syscall_list \in Seq(Syscall) /\ Len(syscall_list) \in Nat
  BY DEF IInv, Kinds
<1>3. /\ S \in Seq(Syscall) /\ Len(S) \in Nat
      /\ \A j, k \in 1..Len(S) : j < k => S[j].instr_id < S[k].instr_id
  BY <1>2, TraceIs DEF IInv
<1>4. next \in 1..Len(S) /\ S[next] \in Syscall
  BY <1>1, <1>2, <1>3
<1>5. IsPrefixOf(s, S) /\ next - 1 <= Len(s)
  BY <1>1, <1>2 DEF IInv, SyscallsStored
<1> HIDE DEF next, S, s
<1>6. IsPrefixOf(stored, S) /\ next <= Len(stored)
  BY <1>3, <1>4, <1>5, StoredOneMore
<1> HIDE DEF stored
<1>7. Written(tables, tables', target, "sys", stored)
  BY <1>1, <1>2, WritesOne DEF IInv
<1>8. Len(syscall_list') = next /\ syscall_list' \in Seq(Syscall)
  BY <1>1, <1>2, <1>4 DEF next
<1>9. \A n \in Names : Rowed(n)' = Rowed(n)
  BY <1>7 DEF Rowed, Written
<1>10. Kinds'
  BY <1>1, <1>7, <1>8 DEF IInv, Kinds, InstrsOf, Written
<1>11. SyscallsStored'
  <2>1. \A n \in Names : IsPrefixOf(tables'[n].sys, SyscallsOf(n))
    BY <1>6, <1>7 DEF IInv, SyscallsStored, Written, S
  <2>2. tables'[target].sys = stored
    BY <1>2, <1>7 DEF Written
  <2> QED
    BY <1>1, <1>6, <1>8, <2>1, <2>2, Recorded DEF SyscallsStored
<1>12. VariablesStored'
  <2>1. Grown(target, next, vstate')
    BY <1>1, <1>2, GrownByOne DEF IInv, VariablesStored, next
  <2>2. \A n \in Names : tables'[n].vstate = tables[n].vstate
    BY <1>7 DEF Written
  <2> QED
    BY <1>1, <1>8, <2>1, <2>2, Recorded DEF IInv, VariablesStored
<1>13. RowsStored'
  BY <1>1, <1>9 DEF IInv, RowsStored, WholeUpTo, EndsBatch, Names
<1> QED
  BY <1>10, <1>11, <1>12, <1>13 DEF IInv

LEMMA PrepareVStateStep ==
  ASSUME IInv, PrepareVState
  PROVE  IInv'
<1>1. /\ pc = "syscalls" /\ Len(syscall_list) = Len(SyscallsOf(target))
      /\ vstate' = WithMemory(vstate, MemRefsOf(target)) /\ pc' = "vstate"
      /\ UNCHANGED <<trace, target, syscall_list, syscall_idx, instr_id, pending, tables, runs>>
  BY DEF PrepareVState
<1>2. target \in Names
  BY DEF IInv, Kinds
<1>3. Kinds'
  BY <1>1, TablesStay DEF IInv, Kinds, InstrsOf
<1>4. SyscallsStored'
  <2>1. /\ Len(syscall_list) <= Len(tables[target].sys)
        /\ IsPrefixOf(tables[target].sys, SyscallsOf(target))
    BY <1>1, <1>2 DEF IInv, SyscallsStored
  <2>2. Len(SyscallsOf(target)) \in Nat
    BY <1>2, TraceIs DEF IInv
  <2>3. Len(tables[target].sys) = Len(SyscallsOf(target))
    BY <1>1, <2>1, <2>2 DEF IsPrefixOf
  <2> QED
    BY <1>1, <2>3, TablesStay, Recorded DEF SyscallsStored
<1>5. VariablesStored'
  <2>1. Grown(target, Len(SyscallsOf(target)), vstate)
    BY <1>1 DEF IInv, VariablesStored
  <2>2. Complete(target, vstate')
    BY <1>1, <2>1 DEF Complete
  <2>3. (Complete(target, vstate))'
    BY <1>1, <2>2 DEF Complete, SyscallsOf, MemRefsOf
  <2> QED
    BY <1>1, <2>3, TablesStay DEF VariablesStored
<1>6. RowsStored'
  BY <1>1, TablesStay DEF IInv, RowsStored
<1> QED
  BY <1>3, <1>4, <1>5, <1>6 DEF IInv

LEMMA StoreVStateStep ==
  ASSUME IInv, StoreVState
  PROVE  IInv'
<1> DEFINE old == tables[target].vstate
           stored == [start \in DOMAIN old \cup DOMAIN vstate.offset2id |->
                        IF start \in DOMAIN old THEN old[start]
                        ELSE [size |-> SizeAt(vstate, start), id |-> vstate.offset2id[start]]]
<1>1. /\ pc = "vstate" /\ pc' = "rules"
      /\ tables' = [tables EXCEPT ![target].vstate = stored]
      /\ UNCHANGED <<trace, target, vstate, syscall_list, syscall_idx, instr_id, pending, runs>>
  BY DEF StoreVState
<1>2. target \in Names
  BY DEF IInv, Kinds
<1>3. DOMAIN stored = DOMAIN old \cup DOMAIN vstate.offset2id
  OBVIOUS
<1> HIDE DEF stored
<1>4. Written(tables, tables', target, "vstate", stored)
  BY <1>1, <1>2, WritesOne DEF IInv
<1>5. Complete(target, vstate)
  BY <1>1 DEF IInv, VariablesStored
<1>6. DOMAIN stored = DOMAIN vstate.offset2id
  <2>1. CASE DOMAIN old = {}
    BY <1>3, <2>1
  <2>2. CASE \E v : Complete(target, v) /\ DOMAIN old = DOMAIN v.offset2id
    <3>1. PICK v : Complete(target, v) /\ DOMAIN old = DOMAIN v.offset2id
      BY <2>2
    <3>2. Len(SyscallsOf(target)) \in Nat
      BY <1>2, TraceIs DEF IInv
    <3>3. v = vstate
      BY <1>5, <3>1, <3>2, CompleteIsUnique
    <3> QED
      BY <1>3, <3>1, <3>3
  <2> QED
    BY <1>2, <2>1, <2>2 DEF IInv, VariablesStored
<1>7. /\ tables'[target].vstate = stored
      /\ \A n \in Names : /\ n # target => tables'[n].vstate = tables[n].vstate
                          /\ tables'[n].sys = tables[n].sys
                          /\ Rowed(n)' = Rowed(n)
  BY <1>2, <1>4 DEF Written, Rowed
<1>8. Kinds'
  BY <1>1, <1>4 DEF IInv, Kinds, InstrsOf, Written
<1>9. SyscallsStored'
  BY <1>1, <1>2, <1>7, Recorded DEF IInv, SyscallsStored
<1>10. VariablesStored'
  <2>1. \A n, v : Complete(n, v)' <=> Complete(n, v)
    BY <1>1, Recorded
  <2>2. (Complete(target, vstate))'
    BY <1>1, <1>5 DEF Complete, SyscallsOf, MemRefsOf
  <2>3. ASSUME NEW n \in Names
        PROVE  \/ DOMAIN tables'[n].vstate = {}
               \/ \E v : Complete(n, v)' /\ DOMAIN tables'[n].vstate = DOMAIN v.offset2id
    <3>1. CASE n = target
      BY <1>5, <1>6, <1>7, <2>1, <3>1
    <3>2. CASE n # target
      BY <1>7, <2>1, <3>2 DEF IInv, VariablesStored
    <3> QED
      BY <3>1, <3>2
  <2> QED
    BY <1>1, <1>6, <1>7, <2>2, <2>3 DEF VariablesStored
<1>11. RowsStored'
  <2>1. \A name \in {"trace", "trace_bit"} :
          \E last \in 0..Len(trace'.instrs) : WholeUpTo(name, last)'
    BY <1>1, <1>7 DEF IInv, RowsStored, WholeUpTo, EndsBatch, Names
  <2>2. pending = <<>> /\ instr_id = 1 /\ Rowed("forged")' \subseteq 1..3
    BY <1>1, <1>7 DEF IInv, RowsStored, Names
  <2>3. DOMAIN pending = {}
    BY <2>2
  <2> QED
    BY <1>1, <2>1, <2>2, <2>3 DEF RowsStored
<1> QED
  BY <1>8, <1>9, <1>10, <1>11 DEF IInv

-----------------------------------------------------------------------------
(* The loop over the instructions *)

(* Rows that are merged change the rows of one table.                      *)
LEMMA MergedOnlyRows ==
  ASSUME IInv, NEW name \in Names, NEW rows, trace' = trace, tables' = Merged(name, rows)
  PROVE  /\ tables' = [n \in Names |-> [sys |-> tables'[n].sys, vstate |-> tables'[n].vstate,
                                        rows |-> tables'[n].rows]]
         /\ \A n \in Names : /\ tables'[n].sys = tables[n].sys
                             /\ tables'[n].vstate = tables[n].vstate
                             /\ n # name => Rowed(n)' = Rowed(n)
         /\ Rowed(name)' = Rowed(name) \cup DOMAIN rows
<1> DEFINE old == tables[name].rows
           value == [i \in DOMAIN old \cup DOMAIN rows |->
                       IF i \in DOMAIN old THEN old[i] ELSE rows[i]]
<1>1. tables' = [tables EXCEPT ![name].rows = value]
  BY DEF Merged
<1>2. DOMAIN value = DOMAIN old \cup DOMAIN rows
  OBVIOUS
<1> HIDE DEF value
<1>3. Written(tables, tables', name, "rows", value)
  BY <1>1, WritesOne DEF IInv
<1> QED
  BY <1>2, <1>3 DEF Written, Rowed

(* Rows that are whole batches of a trace of L instructions.               *)
Batched(R, L) ==
  \E last \in 0..L : /\ R = 1..last
                     /\ last \in {0, L} \/ EndsBatch(last + 1)

(* What a batch adds up to: rows up to the current instruction, or what    *)
(* was there already when a load is repeated.                              *)
LEMMA BatchIsWhole ==
  ASSUME NEW L \in Nat, NEW R, NEW P, NEW i \in 1..L + 1, Batched(R, L),
         P \subseteq 1..i - 1, 1..i - 1 \subseteq P \cup R,
         i = L + 1 \/ EndsBatch(i)
  PROVE  /\ Batched(R \cup P, L)
         /\ i = L + 1 => R \cup P = 1..L
<1>0. PICK last \in 0..L : R = 1..last /\ (last \in {0, L} \/ EndsBatch(last + 1))
  BY DEF Batched
<1>1. CASE i - 1 <= last
  <2>1. R \cup P = 1..last
    <3>1. 1..i - 1 \subseteq 1..last
      BY <1>1
    <3> QED
      BY <1>0, <3>1
  <2>2. i = L + 1 => last = L
    BY <1>1
  <2> QED
    BY <1>0, <2>1, <2>2 DEF Batched
<1>2. CASE last < i - 1
  <2>1. R \cup P = 1..i - 1
    <3>1. 1..last \subseteq 1..i - 1
      BY <1>2
    <3> QED
      BY <1>0, <3>1
  <2>2. i - 1 \in 0..L /\ (i - 1) + 1 = i /\ (i = L + 1 => i - 1 = L)
    OBVIOUS
  <2> QED
    BY <2>1, <2>2 DEF Batched
<1> QED
  BY <1>1, <1>2

(* The parts of the invariant that merging rows leaves alone.              *)
LEMMA MergedStays ==
  ASSUME IInv, NEW name \in Names, NEW rows, trace' = trace, tables' = Merged(name, rows),
         target' = target, vstate' = vstate, syscall_list' = syscall_list,
         pc = "rules", pc' # "syscalls"
  PROVE  SyscallsStored' /\ VariablesStored'
<1>1. \A n \in Names : tables'[n].sys = tables[n].sys /\ tables'[n].vstate = tables[n].vstate
  BY MergedOnlyRows
<1>2. target \in Names
  BY DEF IInv, Kinds
<1>3. SyscallsStored'
  BY <1>1, <1>2, Recorded DEF IInv, SyscallsStored
<1>4. VariablesStored'
  <2>1. Complete(target, vstate) /\ DOMAIN tables[target].vstate = DOMAIN vstate.offset2id
    BY DEF IInv, VariablesStored
  <2>2. (Complete(target, vstate))'
    BY <2>1 DEF Complete, SyscallsOf, MemRefsOf
  <2> QED
    BY <1>1, <1>2, <2>1, <2>2, Recorded DEF IInv, VariablesStored
<1> QED
  BY <1>3, <1>4

(* Traces and their loader stay whole when a batch, or the last of them,   *)
(* is committed.                                                           *)
LEMMA CommitKeepsWhole ==
  ASSUME IInv, pc = "rules", NEW name \in {"trace", "trace_bit"}, target = name,
         trace' = trace, tables' = Merged(name, pending), instr_id <= Len(trace.instrs) + 1,
         instr_id = Len(trace.instrs) + 1 \/ EndsBatch(instr_id)
  PROVE  /\ \A n \in {"trace", "trace_bit"} :
              \E last \in 0..Len(trace'.instrs) : WholeUpTo(n, last)'
         /\ Rowed("forged")' \subseteq 1..3
         /\ 1..instr_id - 1 \subseteq Rowed(name)'
         /\ instr_id = Len(trace.instrs) + 1 => Rowed(name)' = 1..Len(trace.instrs)
<1> DEFINE L == Len(trace.instrs)
<1>1. name \in Names /\ L \in Nat /\ instr_id \in 1..L + 1
  BY TraceIs DEF IInv, Kinds, Names
<1>2. /\ DOMAIN pending \subseteq 1..instr_id - 1
      /\ 1..instr_id - 1 \subseteq (DOMAIN pending) \cup Rowed(name)
  BY DEF IInv, RowsStored
<1>3. Batched(Rowed(name), L)
  BY <1>1 DEF IInv, RowsStored, WholeUpTo, Batched
<1>4. /\ Rowed(name)' = Rowed(name) \cup DOMAIN pending
      /\ \A n \in Names : n # name => Rowed(n)' = Rowed(n)
  BY <1>1, MergedOnlyRows
<1>5. /\ Batched(Rowed(name) \cup DOMAIN pending, L)
      /\ instr_id = L + 1 => Rowed(name) \cup DOMAIN pending = 1..L
  <2>1. instr_id = L + 1 \/ EndsBatch(instr_id)
    OBVIOUS
  <2> HIDE DEF L
  <2> QED
    BY <1>1, <1>2, <1>3, <2>1, BatchIsWhole
<1>6. PICK m \in 0..L : /\ Rowed(name)' = 1..m
                        /\ m \in {0, L} \/ EndsBatch(m + 1)
  BY <1>4, <1>5 DEF Batched
<1> HIDE DEF L
<1>7. ASSUME NEW n \in {"trace", "trace_bit"}
      PROVE  \E k \in 0..Len(trace'.instrs) : WholeUpTo(n, k)'
  <2>1. CASE n = name
    BY <1>6, <2>1 DEF WholeUpTo, EndsBatch, L
  <2>2. CASE n # name
    <3>1. PICK k \in 0..Len(trace.instrs) : WholeUpTo(n, k)
      BY DEF IInv, RowsStored
    <3>2. Rowed(n)' = Rowed(n)
      BY <1>4, <2>2 DEF Names
    <3> QED
      BY <3>1, <3>2 DEF WholeUpTo, EndsBatch
  <2> QED
    BY <2>1, <2>2
<1>8. Rowed("forged")' \subseteq 1..3
  BY <1>4 DEF IInv, RowsStored, Names
<1>9. 1..instr_id - 1 \subseteq Rowed(name)'
  BY <1>2, <1>4
<1>10. instr_id = Len(trace.instrs) + 1 => Rowed(name)' = 1..Len(trace.instrs)
  BY <1>4, <1>5 DEF L
<1> QED
  BY <1>7, <1>8, <1>9, <1>10

LEMMA LoadInstrStep ==
  ASSUME IInv, LoadInstr
  PROVE  IInv'
<1> DEFINE commits == instr_id % Batch = 0
<1> PICK name \in {"trace", "trace_bit"} : target = name
  BY DEF LoadInstr, IInv, Kinds, Names
<1>1. /\ pc = "rules" /\ instr_id <= Len(trace.instrs)
      /\ tables' = IF commits THEN Merged(name, pending) ELSE tables
      /\ UNCHANGED <<trace, target, vstate, syscall_list, runs>>
  BY DEF LoadInstr
<1>2. \/ pc' = "aborted" /\ instr_id' = instr_id
      \/ /\ pc' = "rules" /\ instr_id' = instr_id + 1
         /\ \E row : pending' = Override(IF commits THEN <<>> ELSE pending, instr_id, row)
  BY <1>1 DEF LoadInstr
<1>3. /\ name \in Names /\ InstrsOf(target) = trace.instrs /\ instr_id \in Nat \ {0}
      /\ Len(trace.instrs) \in Nat
  BY <1>1, TraceIs DEF IInv, Kinds, InstrsOf
<1>4. commits <=> EndsBatch(instr_id)
  BY DEF EndsBatch
<1> HIDE DEF commits
<1>5. tables' = Merged(name, pending) \/ tables' = tables
  BY <1>1
<1>6. Kinds'
  <2>1. tables' = [n \in Names |-> [sys |-> tables'[n].sys, vstate |-> tables'[n].vstate,
                                    rows |-> tables'[n].rows]]
    BY <1>1, <1>3, <1>5, MergedOnlyRows, TablesStay
  <2>2. instr_id' \in Nat \ {0} /\ instr_id' <= Len(InstrsOf(target)') + 1
    BY <1>1, <1>2, <1>3, Recorded
  <2> QED
    BY <1>1, <1>2, <2>1, <2>2 DEF IInv, Kinds, Stopped, InstrsOf
<1>7. SyscallsStored' /\ VariablesStored'
  <2>1. CASE tables' = Merged(name, pending)
    BY <1>1, <1>2, <1>3, <2>1, MergedStays
  <2>2. CASE tables' = tables
    BY <1>1, <1>2, <2>2, TablesStay, Recorded
       DEF IInv, SyscallsStored, VariablesStored, Complete, SyscallsOf, MemRefsOf
  <2> QED
    BY <1>5, <2>1, <2>2
<1>8. RowsStored'
  <2>1. /\ \A n \in {"trace", "trace_bit"} :
             \E last \in 0..Len(trace'.instrs) : WholeUpTo(n, last)'
        /\ Rowed("forged")' \subseteq 1..3
    BY <1>1, <1>3, <1>4, CommitKeepsWhole, TablesStay
  <2>2. CASE pc' = "aborted"
    BY <2>1, <2>2 DEF RowsStored
  <2>3. CASE pc' = "rules"
    <3>1. PICK row : pending' = Override(IF commits THEN <<>> ELSE pending, instr_id, row)
      BY <1>2, <2>3
    <3>2. instr_id' = instr_id + 1 /\ instr_id' - 1 = instr_id
      BY <1>2, <1>3, <2>3
    <3>3. 1..instr_id = (1..instr_id - 1) \cup {instr_id}
      BY <1>3
    <3>4. /\ DOMAIN pending \subseteq 1..instr_id - 1
          /\ 1..instr_id - 1 \subseteq (DOMAIN pending) \cup Rowed(name)
      BY <1>1 DEF IInv, RowsStored
    <3>5. CASE commits
      <4>1. DOMAIN pending' = {instr_id}
        BY <3>1, <3>5 DEF Override
      <4>2. 1..instr_id - 1 \subseteq Rowed(name)'
        BY <1>1, <1>3, <1>4, <3>5, CommitKeepsWhole
      <4>3. /\ DOMAIN pending' \subseteq 1..instr_id
            /\ 1..instr_id \subseteq (DOMAIN pending') \cup Rowed(name)'
        BY <3>3, <4>1, <4>2
      <4> QED
        BY <1>1, <2>1, <2>3, <3>2, <4>3 DEF RowsStored, Rowed
    <3>6. CASE ~commits
      <4>1. DOMAIN pending' = (DOMAIN pending) \cup {instr_id}
        BY <3>1, <3>6 DEF Override
      <4>2. Rowed(name)' = Rowed(name)
        BY <1>1, <3>6 DEF Rowed
      <4>3. /\ DOMAIN pending' \subseteq 1..instr_id
            /\ 1..instr_id \subseteq (DOMAIN pending') \cup Rowed(name)'
        BY <3>3, <3>4, <4>1, <4>2
      <4> QED
        BY <1>1, <2>1, <2>3, <3>2, <4>3 DEF RowsStored, Rowed
    <3> QED
      BY <3>5, <3>6
  <2> QED
    BY <1>2, <2>2, <2>3
<1> QED
  BY <1>6, <1>7, <1>8 DEF IInv

LEMMA EndTransactionStep ==
  ASSUME IInv, EndTransaction
  PROVE  IInv'
<1> PICK name \in {"trace", "trace_bit"} : target = name
  BY DEF EndTransaction, IInv, Kinds, Names
<1>1. /\ pc = "rules" /\ instr_id > Len(trace.instrs)
      /\ tables' = Merged(name, pending) /\ pending' = <<>> /\ pc' = "done"
      /\ UNCHANGED <<trace, target, vstate, syscall_list, syscall_idx, instr_id, runs>>
  BY DEF EndTransaction
<1>2. /\ name \in Names /\ InstrsOf(target) = trace.instrs /\ Len(trace.instrs) \in Nat
      /\ instr_id = Len(trace.instrs) + 1 /\ DOMAIN trace.instrs = 1..Len(trace.instrs)
  BY <1>1, TraceIs DEF IInv, Kinds, InstrsOf
<1>3. Kinds'
  BY <1>1, <1>2, MergedOnlyRows DEF IInv, Kinds, Stopped, InstrsOf
<1>4. SyscallsStored' /\ VariablesStored'
  BY <1>1, <1>2, MergedStays
<1>5. RowsStored'
  <2>1. /\ \A n \in {"trace", "trace_bit"} :
             \E last \in 0..Len(trace'.instrs) : WholeUpTo(n, last)'
        /\ Rowed("forged")' \subseteq 1..3
        /\ Rowed(name)' = 1..Len(trace.instrs)
    BY <1>1, <1>2, CommitKeepsWhole
  <2>2. InstrsOf(target)' = InstrsOf(target)
    BY <1>1, Recorded
  <2>3. (Rowed(target) = DOMAIN InstrsOf(target))'
    BY <1>1, <1>2, <2>1, <2>2 DEF Rowed, InstrsOf
  <2> QED
    BY <1>1, <2>1, <2>3 DEF RowsStored
<1> QED
  BY <1>3, <1>4, <1>5 DEF IInv

LEMMA ForgeInstrStep ==
  ASSUME IInv, ForgeInstr
  PROVE  IInv'
<1>1. /\ pc = "rules" /\ target = "forged"
      /\ UNCHANGED <<trace, target, vstate, syscall_list, syscall_idx, pending, runs>>
  BY DEF ForgeInstr
<1>2. /\ target \in Names /\ InstrsOf(target) = forgeInstr /\ Len(forgeInstr) = 3
      /\ instr_id \in Nat \ {0} /\ DOMAIN forgeInstr = 1..3
  BY <1>1, TraceIs DEF IInv, Kinds, InstrsOf, Names
<1>3. \/ pc' = "aborted" /\ instr_id' = instr_id /\ tables' = tables
      \/ /\ \E row : tables' = Merged("forged", [i \in {instr_id} |-> row])
         /\ instr_id' = instr_id + 1
         /\ pc' = IF instr_id = 3 THEN "done" ELSE "rules"
  BY <1>1, <1>2 DEF ForgeInstr
<1>4. CASE pc' = "aborted" /\ instr_id' = instr_id /\ tables' = tables
  <2>1. Kinds'
    BY <1>1, <1>4, TablesStay DEF IInv, Kinds, Stopped, InstrsOf
  <2>2. SyscallsStored' /\ VariablesStored' /\ RowsStored'
    BY <1>1, <1>4, TablesStay DEF SyscallsStored, VariablesStored, RowsStored
  <2> QED
    BY <2>1, <2>2 DEF IInv
<1>5. ASSUME NEW row, tables' = Merged("forged", [i \in {instr_id} |-> row]), instr_id' = instr_id + 1,
             pc' = IF instr_id = 3 THEN "done" ELSE "rules"
      PROVE  IInv'
  <2>1. instr_id <= 3 /\ 1..instr_id - 1 \subseteq Rowed("forged") /\ Rowed("forged") \subseteq 1..3
    BY <1>1 DEF IInv, RowsStored
  <2>2. DOMAIN [i \in {instr_id} |-> row] = {instr_id} /\ "forged" \in Names
    BY DEF Names
  <2>3. /\ Rowed("forged")' = Rowed("forged") \cup {instr_id}
        /\ \A n \in Names : n # "forged" => Rowed(n)' = Rowed(n)
    BY <1>1, <1>2, <1>5, <2>2, MergedOnlyRows
  <2>4. pc' \in {"done", "rules"}
    BY <1>5
  <2>5. Kinds'
    <3>1. instr_id' \in Nat \ {0} /\ instr_id' <= 3 + 1
      BY <1>2, <1>5, <2>1
    <3>2. Len(InstrsOf(target))' = 3
      BY <1>1, <1>2 DEF InstrsOf
    <3> QED
      BY <1>1, <1>2, <1>5, <2>4, <3>1, <3>2, MergedOnlyRows DEF IInv, Kinds, Stopped
  <2>6. SyscallsStored' /\ VariablesStored'
    BY <1>1, <1>2, <1>5, <2>4, MergedStays
  <2>7. RowsStored'
    <3>1. \A name \in {"trace", "trace_bit"} :
            \E last \in 0..Len(trace'.instrs) : WholeUpTo(name, last)'
      BY <1>1, <2>3 DEF IInv, RowsStored, WholeUpTo, EndsBatch, Names
    <3>2. 1..instr_id = (1..instr_id - 1) \cup {instr_id} /\ instr_id \in 1..3
      BY <1>2, <2>1
    <3>3. 1..instr_id \subseteq Rowed("forged")' /\ Rowed("forged")' \subseteq 1..3
      BY <2>1, <2>3, <3>2
    <3>4. instr_id' - 1 = instr_id
      BY <1>2, <1>5
    <3>5. CASE instr_id = 3
      <4>1. Rowed("forged")' = 1..3 /\ pc' = "done"
        BY <1>5, <3>3, <3>5
      <4>2. (Rowed(target) = DOMAIN InstrsOf(target))'
        BY <1>1, <1>2, <4>1 DEF Rowed, InstrsOf
      <4> QED
        BY <3>1, <3>3, <4>1, <4>2 DEF RowsStored
    <3>6. CASE instr_id # 3
      <4>1. pc' = "rules" /\ instr_id' <= 3
        BY <1>2, <1>5, <2>1, <3>6
      <4> QED
        BY <1>1, <3>1, <3>3, <3>4, <4>1 DEF RowsStored
    <3> QED
      BY <3>5, <3>6
  <2> QED
    BY <2>5, <2>6, <2>7 DEF IInv
<1> QED
  BY <1>3, <1>4, <1>5

-----------------------------------------------------------------------------
(* Whole batches *)

LEMMA Inductive == Spec => []IInv
<1>1. Init => IInv
  <2> SUFFICES ASSUME Init
               PROVE  IInv
    OBVIOUS
  <2>1. /\ trace \in Traces /\ pc = "idle" /\ target = "trace" /\ target \in Names
        /\ syscall_list = <<>> /\ instr_id = 1
        /\ tables = [n \in Names |-> NoTables]
    BY DEF Init, Names
  <2>2. DOMAIN <<>> = {} /\ <<>> \in Seq(Syscall) /\ Len(<<>>) = 0
    OBVIOUS
  <2>3. \A n \in Names : /\ tables[n] = [sys |-> <<>>, vstate |-> <<>>, rows |-> <<>>]
                         /\ tables[n].sys = <<>> /\ tables[n].vstate = <<>>
                         /\ tables[n].rows = <<>> /\ Rowed(n) = {}
    BY <2>1, <2>2 DEF NoTables, Rowed
  <2>4. Kinds
    <3>1. InstrsOf(target) = trace.instrs /\ trace.instrs \in Seq(Instr)
      BY <2>1, LoaderAssumption DEF InstrsOf, Trace
    <3>2. 1 <= Len(InstrsOf(target)) + 1
      BY <3>1
    <3> QED
      BY <2>1, <2>2, <2>3, <3>2 DEF Kinds, Stopped
  <2>5. SyscallsStored
    <3>1. ASSUME NEW n \in Names
          PROVE  IsPrefixOf(tables[n].sys, SyscallsOf(n))
      <4>1. Len(SyscallsOf(n)) \in Nat /\ tables[n].sys = <<>>
        BY <2>3, <2>4, TraceIs
      <4>2. Len(tables[n].sys) = 0 /\ tables[n].sys \in Seq(Syscall)
        BY <2>2, <4>1
      <4> QED
        BY <4>1, <4>2 DEF IsPrefixOf
    <3> QED
      BY <2>1, <3>1 DEF SyscallsStored
  <2>6. VariablesStored
    BY <2>1, <2>2, <2>3 DEF VariablesStored
  <2>7. RowsStored
    <3>1. \A name \in {"trace", "trace_bit"} : WholeUpTo(name, 0) /\ 0 \in 0..Len(trace.instrs)
      BY <2>3, <2>4, TraceIs DEF WholeUpTo, Names
    <3> QED
      BY <2>1, <2>3, <3>1 DEF RowsStored, Names
  <2> QED
    BY <2>4, <2>5, <2>6, <2>7 DEF IInv
<1>2. IInv /\ [Next]_vars => IInv'
  <2> SUFFICES ASSUME IInv, [Next]_vars
               PROVE  IInv'
    OBVIOUS
  <2>1. CASE Start
    BY <2>1, StartStep
  <2>2. CASE StoreSyscall
    BY <2>2, StoreSyscallStep
  <2>3. CASE PrepareVState
    BY <2>3, PrepareVStateStep
  <2>4. CASE StoreVState
    BY <2>4, StoreVStateStep
  <2>5. CASE LoadInstr
    BY <2>5, LoadInstrStep
  <2>6. CASE EndTransaction
    BY <2>6, EndTransactionStep
  <2>7. CASE ForgeInstr
    BY <2>7, ForgeInstrStep
  <2>8. CASE Kill
    BY <2>8, KillStep
  <2>9. CASE UNCHANGED vars
    <3>1. UNCHANGED <<trace, pc, target, vstate, syscall_list, instr_id, pending, tables>>
      BY <2>9 DEF vars
    <3>2. Kinds'
      BY <3>1, TablesStay DEF IInv, Kinds, InstrsOf
    <3>3. SyscallsStored'
      BY <3>1, TablesStay DEF IInv, SyscallsStored, SyscallsOf
    <3>4. VariablesStored'
      BY <3>1, TablesStay DEF IInv, VariablesStored, Complete, SyscallsOf, MemRefsOf
    <3>5. RowsStored'
      BY <3>1, TablesStay DEF IInv, RowsStored, Rowed, InstrsOf
    <3> QED
      BY <3>2, <3>3, <3>4, <3>5 DEF IInv
  <2> QED
    BY <2>1, <2>2, <2>3, <2>4, <2>5, <2>6, <2>7, <2>8, <2>9 DEF Next
<1> QED
  BY <1>1, <1>2, PTL DEF Spec

(* Whatever was killed, the database holds a whole number of batches of    *)
(* each trace, and after a load that ended by itself every syscall, every  *)
(* variable and a row for every instruction.                               *)
THEOREM BatchesStayWhole == Spec => []WholeBatches
<1>1. IInv => WholeBatches
  <2> SUFFICES ASSUME IInv
               PROVE  WholeBatches
    OBVIOUS
  <2>1. \A name \in {"trace", "trace_bit"} :
          \E last \in 0..Len(trace.instrs) :
            /\ Rowed(name) = 1..last
            /\ last \in {0, Len(trace.instrs)} \/ (last + 1) % Batch = 0
    BY DEF IInv, RowsStored, WholeUpTo, EndsBatch
  <2>2. ASSUME pc = "done"
        PROVE  /\ tables[target].sys = SyscallsOf(target)
               /\ DOMAIN tables[target].vstate = DOMAIN vstate.offset2id
               /\ Rowed(target) = DOMAIN InstrsOf(target)
    <3>1. target \in Names /\ SyscallsOf(target) \in Seq(Syscall)
      BY TraceIs DEF IInv, Kinds
    <3>2. /\ IsPrefixOf(tables[target].sys, SyscallsOf(target))
          /\ Len(tables[target].sys) = Len(SyscallsOf(target))
      BY <2>2, <3>1 DEF IInv, SyscallsStored
    <3>3. tables[target].sys = SyscallsOf(target)
      BY <3>1, <3>2, SeqEqual DEF IsPrefixOf
    <3> QED
      BY <2>2, <3>3 DEF IInv, VariablesStored, RowsStored
  <2> QED
    BY <2>1, <2>2 DEF WholeBatches
<1> QED
  BY <1>1, Inductive, PTL

-----------------------------------------------------------------------------
(* What the tables say *)

(* Every trace has the variables its operands need.                        *)
Roomy == \A t \in Traces : RoomForOperands(t)

(* The row of instruction i, where S are the syscalls of the trace: the    *)
(* variable of the j-th is overridden by the instruction of the next one;  *)
(* behind the last there is none.                                          *)
GoodRow(S, v, i, row) ==
  /\ row.flows \subseteq row.valid \X row.valid
  /\ row.valid \subseteq Nat
  /\ Roomy => \A x \in row.valid : x < v.size
  /\ \A j \in 1..Len(S) : /\ j # Len(S) /\ v.id2offset[SyscallBase + j] \in row.valid
                          => j + 1 \in 1..Len(S) /\ S[j + 1].instr_id = i
  /\ \A j \in 1..Len(S) : /\ j + 1 \in 1..Len(S)
                          /\ HasBuffer(S[j + 1])
                          /\ S[j + 1].instr_id = i
                          => v.id2offset[SyscallBase + j] \in row.valid

GoodRows(n, rows) ==
  \A v : Complete(n, v) => \A i \in DOMAIN rows : GoodRow(SyscallsOf(n), v, i, rows[i])

NameAt(v, start) == [size |-> SizeAt(v, start), id |-> v.offset2id[start]]

GoodNames(n, names) ==
  \A v : Complete(n, v) => \A start \in DOMAIN names : names[start] = NameAt(v, start)

Counters ==
  /\ Sound(vstate)
  /\ syscall_idx \in 1..Len(trace.syscalls) + 1
  /\ pc \in {"syscalls", "vstate"} => syscall_idx = 1
  /\ DOMAIN pending \subseteq DOMAIN InstrsOf(target)
  /\ runs \in 0..MaxRuns

SyscallsRead ==
  /\ pc \in {"syscalls", "vstate", "rules"} =>
       IsPrefixOf(syscall_list, SyscallsOf(target))
  /\ pc \in {"vstate", "rules"} => Len(syscall_list) = Len(SyscallsOf(target))

(* The syscalls that precede the current instruction are those passed.     *)
InStep ==
  pc = "rules" /\ target # "forged" =>
    \A k \in 2..Len(trace.syscalls) : k <= syscall_idx <=> trace.syscalls[k].instr_id < instr_id

TablesRight ==
  /\ \A n \in Names : GoodNames(n, tables[n].vstate) /\ GoodRows(n, tables[n].rows)
  /\ \A n \in Names : Rowed(n) # {} => DOMAIN tables[n].vstate # {}
  /\ pc = "rules" => GoodRows(target, pending)

JInv == Counters /\ SyscallsRead /\ InStep /\ TablesRight

(* A row without the variable of a syscall, of an instruction that is none. *)
LEMMA PlainRowIsGood ==
  ASSUME Kinds, NEW name \in Names, NEW v, AllInPlace(name, v), NEW i, NEW row,
         RowOn(row, Spots(name, v, Roomy)),
         \A j \in 2..Len(SyscallsOf(name)) :
           ~(HasBuffer(SyscallsOf(name)[j]) /\ SyscallsOf(name)[j].instr_id = i)
  PROVE  GoodRow(SyscallsOf(name), v, i, row)
<1> DEFINE S == SyscallsOf(name)
<1>1. /\ row.flows \subseteq row.valid \X row.valid
      /\ row.valid \subseteq Spots(name, v, Roomy)
  BY DEF RowOn
<1>2. row.valid \subseteq Nat /\ (Roomy => \A x \in row.valid : x < v.size)
  BY <1>1 DEF Spots
<1>3. ASSUME NEW j \in 1..Len(S)
      PROVE  v.id2offset[SyscallBase + j] \notin row.valid
  <2>1. /\ v.id2offset[SyscallBase + j] = SyscallsAt(v.granu) + j - 1
        /\ MemoryAt(name) = SyscallsAt(v.granu) + Len(S) /\ SyscallsAt(v.granu) \in Nat
        /\ Len(S) \in Nat
    BY SizesAre, TraceIs DEF AllInPlace, InPlace
  <2>2. /\ ~(v.id2offset[SyscallBase + j] < SyscallsAt(v.granu))
        /\ ~(v.id2offset[SyscallBase + j] >= MemoryAt(name))
    BY <2>1
  <2> QED
    BY <1>1, <2>2 DEF Spots
<1>4. \A j \in 1..Len(S) : j + 1 \in 1..Len(S) => j + 1 \in 2..Len(S)
  BY TraceIs
<1> QED
  BY <1>1, <1>2, <1>3, <1>4 DEF GoodRow

(* A row with the variable idx: i is the instruction of the next syscall,  *)
(* or that of none, behind the last.                                       *)
LEMMA HookedRowIsGood ==
  ASSUME Kinds, NEW name \in Names, NEW v, AllInPlace(name, v), NEW i, NEW row,
         NEW idx \in 1..Len(SyscallsOf(name)),
         idx # Len(SyscallsOf(name)) => SyscallsOf(name)[idx + 1].instr_id = i,
         \A k \in 2..Len(SyscallsOf(name)) : SyscallsOf(name)[k].instr_id = i => k = idx + 1,
         SyscallsRowIs(row, v.id2offset[SyscallBase + idx], Spots(name, v, TRUE))
  PROVE  GoodRow(SyscallsOf(name), v, i, row)
<1> DEFINE S == SyscallsOf(name)
           at == v.id2offset[SyscallBase + idx]
<1>1. /\ at \in row.valid /\ row.valid \subseteq {at} \cup Spots(name, v, TRUE)
      /\ row.flows \subseteq row.valid \X row.valid
  BY DEF SyscallsRowIs
<1>2. /\ MemoryAt(name) = SyscallsAt(v.granu) + Len(S) /\ SyscallsAt(v.granu) \in Nat
      /\ Len(S) \in Nat /\ MemoryAt(name) <= v.size /\ v.size \in Nat /\ MemoryAt(name) \in Nat
  BY SizesAre, TraceIs
<1>3. \A j \in 1..Len(S) : v.id2offset[SyscallBase + j] = SyscallsAt(v.granu) + j - 1
  BY DEF AllInPlace, InPlace
<1>4. at = SyscallsAt(v.granu) + idx - 1
  BY <1>3
<1> HIDE DEF at
<1>5. at \in Nat /\ at < v.size
  BY <1>2, <1>4
<1>6. row.valid \subseteq Nat /\ \A x \in row.valid : x < v.size
  BY <1>1, <1>5 DEF Spots
<1>7. ASSUME NEW j \in 1..Len(S), v.id2offset[SyscallBase + j] \in row.valid
      PROVE  j = idx
  <2>1. /\ ~(v.id2offset[SyscallBase + j] < SyscallsAt(v.granu))
        /\ ~(v.id2offset[SyscallBase + j] >= MemoryAt(name))
    BY <1>2, <1>3
  <2>2. v.id2offset[SyscallBase + j] = at
    BY <1>1, <1>7, <2>1 DEF Spots
  <2> QED
    BY <1>2, <1>3, <1>4, <2>2
<1>8. ASSUME NEW j \in 1..Len(S), j + 1 \in 1..Len(S), S[j + 1].instr_id = i
      PROVE  v.id2offset[SyscallBase + j] \in row.valid
  <2>1. j + 1 \in 2..Len(S)
    BY <1>2, <1>8
  <2>2. j + 1 = idx + 1
    BY <1>8, <2>1
  <2>4. j = idx
    BY <1>2, <2>2
  <2> QED
    BY <1>1, <2>4 DEF at
<1>9. /\ idx # Len(S) => S[idx + 1].instr_id = i
      /\ idx # Len(S) => idx + 1 \in 1..Len(S)
  BY <1>2
<1> HIDE DEF S
<1>10. \A j \in 1..Len(S) : /\ j # Len(S) /\ v.id2offset[SyscallBase + j] \in row.valid
                             => j + 1 \in 1..Len(S) /\ S[j + 1].instr_id = i
  BY <1>7, <1>9 DEF S
<1> QED
  BY <1>1, <1>6, <1>8, <1>10 DEF GoodRow, S

(* The row that LoadInstr makes.                                           *)
LEMMA AddressesHaveRoom ==
  ASSUME Kinds, NEW name \in Names, name # "forged", NEW i \in DOMAIN trace.instrs,
         loadRule(trace.instrs[i].raw)
  PROVE  LET instr == trace.instrs[i]
             rule == Rules[instr.raw]
         IN  /\ rule \in ProtoRule /\ Len(instr.mem_ref_addr) \in Nat
             /\ \A q \in 1..Len(instr.mem_ref_addr), k \in 1..Len(rule.mems) :
                  HasRoom(name, instr.mem_ref_addr[q], rule.mems[k], Roomy)
<1> DEFINE instr == trace.instrs[i]
           rule == Rules[instr.raw]
           addrs == instr.mem_ref_addr
           M == trace.mem_refs
<1>1. trace \in Traces /\ trace \in Trace
  BY LoaderAssumption DEF Kinds
<1>2. instr \in Instr /\ M \in Seq(Nat)
  BY <1>1 DEF Trace
<1>3. rule \in ProtoRule
  BY RuleAssumption DEF loadRule
<1>4. addrs \in Seq(Nat) /\ Len(addrs) \in Nat
  BY <1>2 DEF Instr
<1>5. rule.mems \in Seq(Nat)
  BY <1>3 DEF ProtoRule
<1>6. Range(addrs) \subseteq Range(M)
  BY <1>1, LoaderAssumption
<1>7. MemRefsOf(name) = M
  BY DEF MemRefsOf
<1>8. ASSUME NEW q \in 1..Len(addrs), NEW k \in 1..Len(rule.mems)
      PROVE  HasRoom(name, addrs[q], rule.mems[k], Roomy)
  <2>1. addrs[q] \in Range(M) /\ addrs[q] \in Range(addrs)
    <3>1. addrs[q] \in Range(addrs)
      <4> HIDE DEF addrs
      <4> QED
        BY <1>4 DEF Range
    <3> QED
      BY <1>6, <3>1
  <2>2. PICK p \in DOMAIN M : addrs[q] = M[p]
    BY <2>1 DEF Range
  <2>3. rule.mems[k] \in Range(rule.mems)
    <3> HIDE DEF rule
    <3> QED
      BY <1>5 DEF Range
  <2>4. p \in 1..Len(M)
    BY <1>2
  <2>5. ASSUME Roomy, isMemValue(rule.mems[k])
        PROVE  p + GetSizeWithinGranu(getMemSize(rule.mems[k]) * 8 - 1, "byte") <= Len(M)
    <3>1. RoomForOperands(trace)
      BY <1>1, <2>5 DEF Roomy
    <3>2. /\ i \in DOMAIN trace.instrs /\ p \in DOMAIN trace.mem_refs
          /\ loadRule(instr.raw) /\ M[p] \in Range(instr.mem_ref_addr)
      BY <2>1, <2>2
    <3>3. \A memVal \in Range(Rules[instr.raw].mems) : isMemValue(memVal) =>
            p + GetSizeWithinGranu(getMemSize(memVal) * 8 - 1, "byte") <= Len(M)
      BY <3>1, <3>2 DEF RoomForOperands
    <3> QED
      BY <2>3, <2>5, <3>3
  <2> HIDE DEF addrs, rule, M
  <2> QED
    BY <1>7, <2>2, <2>4, <2>5 DEF HasRoom
<1> QED
  BY <1>3, <1>4, <1>8

(* The loader is in step: of the syscalls it looks for, only the next one  *)
(* may be that of the current instruction.                                 *)
LEMMA NextIsCurrent ==
  ASSUME IInv, JInv, pc = "rules", target # "forged",
         NEW k \in 2..Len(SyscallsOf(target)), SyscallsOf(target)[k].instr_id = instr_id
  PROVE  k = syscall_idx + 1
<1> DEFINE S == SyscallsOf(target)
<1>1. target \in Names /\ Kinds /\ instr_id \in Nat \ {0}
  BY DEF IInv, Kinds
<1>2. /\ S = trace.syscalls /\ Len(S) \in Nat /\ S \in Seq(Syscall)
      /\ \A j, q \in 1..Len(S) : j < q => S[j].instr_id < S[q].instr_id
  BY <1>1, TraceIs DEF SyscallsOf
<1>3. syscall_idx \in 1..Len(S) + 1
  BY <1>2 DEF JInv, Counters
<1>4. \A q \in 2..Len(S) : q <= syscall_idx <=> S[q].instr_id < instr_id
  BY <1>2 DEF JInv, InStep
<1>5. \A q \in 1..Len(S) : S[q].instr_id \in Nat
  <2>1. \A q \in 1..Len(S) : S[q] \in Syscall
    <3> HIDE DEF S
    <3> QED
      BY <1>2
  <2> QED
    BY <2>1 DEF Syscall
<1>6. syscall_idx < k
  BY <1>1, <1>3, <1>4
<1>7. CASE syscall_idx + 1 < k
  <2>1. syscall_idx + 1 \in 2..Len(S) /\ syscall_idx + 1 \in 1..Len(S) /\ k \in 1..Len(S)
    BY <1>2, <1>3, <1>7
  <2>2. S[syscall_idx + 1].instr_id < instr_id
    BY <1>2, <1>7, <2>1
  <2>3. syscall_idx + 1 <= syscall_idx
    BY <1>4, <2>1, <2>2
  <2> QED
    BY <1>3, <2>3
<1> QED
  BY <1>2, <1>3, <1>6, <1>7

(* What is behind the list of syscalls has no variable of its own.         *)
LEMMA NoSuchVariable ==
  ASSUME Kinds, NEW name \in Names, NEW v, AllInPlace(name, v)
  PROVE  SyscallBase + Len(SyscallsOf(name)) + 1 \notin DOMAIN v.id2offset
<1> DEFINE n == Len(SyscallsOf(name))
           M == MemRefsOf(name)
<1>1. n \in Nat /\ M \in Seq(Nat) /\ Len(M) \in Nat
  BY TraceIs, MemoryIs
<1>2. DOMAIN v.id2offset = RegisterIds \cup {SyscallBase + j : j \in 1..n}
                             \cup {M[p] : p \in 1..Len(M)}
  BY DEF AllInPlace
<1>3. \A p \in 1..Len(M) : M[p] \in Nat /\ M[p] > SyscallBase + n + 1
  BY <1>1, MemoryIs
<1> HIDE DEF n, M
<1>4. SyscallBase + n + 1 \notin RegisterIds
  BY <1>1 DEF RegisterIds, SyscallBase
<1>5. \A j \in 1..n : SyscallBase + n + 1 # SyscallBase + j
  BY <1>1 DEF SyscallBase
<1>6. \A p \in 1..Len(M) : M[p] # SyscallBase + n + 1
  BY <1>1, <1>3 DEF SyscallBase
<1> QED
  BY <1>2, <1>4, <1>5, <1>6 DEF n

(* A syscall found at the current instruction is the next one of the list, *)
(* or was left in the memory behind all of them.                           *)
LEMMA MatchIs ==
  ASSUME IInv, JInv, pc = "rules", target # "forged", NEW s \in Elements,
         s.instr_id = instr_id, ~RowOf(trace.instrs[instr_id], s).die
  PROVE  LET S == SyscallsOf(target)
         IN  /\ s \in Syscall /\ LikeRecorded(s, Len(S))
             /\ syscall_idx \in 1..Len(S)
             /\ syscall_idx # Len(S) => S[syscall_idx + 1].instr_id = instr_id
<1> DEFINE S == SyscallsOf(target)
<1>1. /\ target \in Names /\ Kinds /\ Complete(target, vstate) /\ instr_id \in Nat \ {0}
      /\ trace \in Traces
  BY DEF IInv, Kinds, VariablesStored
<1>2. AllInPlace(target, vstate)
  BY <1>1, EveryVariableInPlace
<1>3. S = trace.syscalls /\ Len(S) \in Nat /\ S \in Seq(Syscall)
  BY <1>1, TraceIs DEF SyscallsOf
<1>4. /\ Len(syscall_list) = Len(S)
      /\ \A k \in 1..Len(S) : syscall_list[k] = S[k]
  BY DEF JInv, SyscallsRead, IsPrefixOf
<1>5. syscall_idx \in 1..Len(S) + 1
  BY <1>3 DEF JInv, Counters
<1>6. syscall_idx \in 1..Len(S)
  <2>1. syscall_idx + SyscallBase \in DOMAIN vstate.id2offset
    BY DEF RowOf, Abort
  <2>2. Len(S) + 1 + SyscallBase = SyscallBase + Len(S) + 1
    BY <1>3 DEF SyscallBase
  <2>3. syscall_idx # Len(S) + 1
    BY <1>1, <1>2, <2>1, <2>2, NoSuchVariable
  <2> QED
    BY <1>3, <1>5, <2>3
<1> HIDE DEF S
<1>7. CASE syscall_idx + 1 <= Len(syscall_list)
  <2>1. syscall_idx + 1 \in 1..Len(S)
    BY <1>3, <1>4, <1>6, <1>7
  <2>2. s = S[syscall_idx + 1]
    BY <1>4, <1>7, <2>1 DEF Elements
  <2>3. s \in Syscall /\ syscall_idx + 1 \in DOMAIN S
    BY <1>3, <2>1, <2>2
  <2>4. \A k \in DOMAIN S : LikeRecorded(S[k], Len(S))
    BY <1>1, <1>3, LoaderAssumption
  <2> QED
    BY <1>6, <2>2, <2>3, <2>4 DEF S
<1>8. CASE ~(syscall_idx + 1 <= Len(syscall_list))
  <2>1. s \in Stray
    <3>1. NoSyscall.instr_id = 0
      BY DEF NoSyscall
    <3> QED
      BY <1>1, <1>8, <3>1 DEF Elements
  <2>2. s \in Syscall /\ LikeRecorded(s, Len(S))
    BY <1>1, <1>3, <2>1, LoaderAssumption
  <2>3. syscall_idx = Len(S)
    BY <1>3, <1>4, <1>6, <1>8
  <2> QED
    BY <1>6, <2>2, <2>3 DEF S
<1> QED
  BY <1>7, <1>8

LEMMA LoadedRowIsGood ==
  ASSUME IInv, JInv, pc = "rules", target # "forged", instr_id <= Len(trace.instrs),
         NEW s \in Elements, ~RowOf(trace.instrs[instr_id], s).die
  PROVE  GoodRow(SyscallsOf(target), vstate, instr_id, RowOf(trace.instrs[instr_id], s).row)
<1> DEFINE S == SyscallsOf(target)
           instr == trace.instrs[instr_id]
           made == RowOf(instr, s)
           at == vstate.id2offset[SyscallBase + syscall_idx]
           hooked == s.instr_id = instr_id /\ HasBuffer(s)
<1>1. /\ target \in Names /\ Kinds /\ Complete(target, vstate) /\ instr_id \in Nat \ {0}
  BY DEF IInv, Kinds, VariablesStored
<1>2. AllInPlace(target, vstate)
  BY <1>1, EveryVariableInPlace
<1>3. /\ S = trace.syscalls /\ Len(S) \in Nat /\ S \in Seq(Syscall)
      /\ \A j, k \in 1..Len(S) : j < k => S[j].instr_id < S[k].instr_id
  BY <1>1, TraceIs DEF SyscallsOf
<1>4. /\ Len(syscall_list) = Len(S)
      /\ \A k \in 1..Len(S) : syscall_list[k] = S[k]
  BY DEF JInv, SyscallsRead, IsPrefixOf
<1>5. syscall_idx \in 1..Len(S) + 1
  BY <1>3 DEF JInv, Counters
<1>7. instr_id \in DOMAIN trace.instrs
  BY <1>1, TraceIs
<1>9. CASE hooked
  <2>1. /\ s \in Syscall /\ LikeRecorded(s, Len(S)) /\ syscall_idx \in 1..Len(S)
        /\ syscall_idx # Len(S) => S[syscall_idx + 1].instr_id = instr_id
    BY <1>9, MatchIs
  <2>2. made = SyscallRow(s, at, vstate)
    <3>1. syscall_idx + SyscallBase = SyscallBase + syscall_idx
      BY <1>5 DEF SyscallBase
    <3>2. ~made.die
      OBVIOUS
    <3>3. made = SyscallRow(s, vstate.id2offset[syscall_idx + SyscallBase], vstate)
      BY <1>9, <3>2 DEF RowOf, Abort
    <3> QED
      BY <3>1, <3>3
  <2>3. ~SyscallRow(s, at, vstate).die
    BY <2>2
  <2>4. SyscallsRowIs(SyscallRow(s, at, vstate).row, at, Spots(target, vstate, TRUE))
    <3>1. LikeRecorded(s, Len(SyscallsOf(target))) /\ HasBuffer(s)
      BY <1>9, <2>1
    <3> HIDE DEF at
    <3> QED
      BY <1>1, <1>2, <2>1, <2>3, <3>1, SyscallRowIs
  <2>5. SyscallsRowIs(made.row, at, Spots(target, vstate, TRUE))
    BY <2>2, <2>4
  <2>6. \A k \in 2..Len(S) : S[k].instr_id = instr_id => k = syscall_idx + 1
    BY <1>1, NextIsCurrent
  <2> HIDE DEF made
  <2>7. GoodRow(SyscallsOf(target), vstate, instr_id, made.row)
    BY <1>1, <1>2, <2>1, <2>5, <2>6, HookedRowIsGood
  <2> QED
    BY <2>7 DEF made
<1>10. CASE ~hooked
  <2>1. ASSUME NEW k \in 2..Len(S), HasBuffer(S[k]), S[k].instr_id = instr_id
        PROVE  FALSE
    <3>1. k = syscall_idx + 1 /\ k <= Len(syscall_list) /\ syscall_list[k] = S[k]
      BY <1>3, <1>4, <2>1, NextIsCurrent
    <3>2. s = S[k]
      BY <3>1 DEF Elements
    <3> QED
      BY <1>10, <2>1, <3>2
  <2>2. made = IF loadRule(instr.raw) THEN FMRule(Rules[instr.raw], instr.mem_ref_addr, vstate)
               ELSE Row({}, {})
    <3>1. ~made.die
      OBVIOUS
    <3> QED
      BY <1>10, <3>1 DEF RowOf, Abort
  <2>3. RowOn(made.row, Spots(target, vstate, Roomy))
    <3>1. CASE loadRule(instr.raw)
      <4> DEFINE rule == Rules[instr.raw]
                 addrs == instr.mem_ref_addr
      <4>1. /\ rule \in ProtoRule /\ Len(addrs) \in Nat
            /\ \A q \in 1..Len(addrs), k \in 1..Len(rule.mems) :
                 HasRoom(target, addrs[q], rule.mems[k], Roomy)
        BY <1>1, <1>7, <3>1, AddressesHaveRoom
      <4>2. Roomy \in BOOLEAN
        BY DEF Roomy
      <4>3. made = FMRule(rule, addrs, vstate)
        BY <2>2, <3>1
      <4> HIDE DEF rule, addrs, made
      <4>4. RowOn(FMRule(rule, addrs, vstate).row, Spots(target, vstate, Roomy))
        <5> HIDE DEF Roomy
        <5> QED
          BY <1>1, <1>2, <4>1, <4>2, RuleRow
      <4> QED
        BY <4>3, <4>4
    <3>2. CASE ~loadRule(instr.raw)
      <4>1. made.row.flows = {} /\ made.row.valid = {}
        BY <2>2, <3>2 DEF Row
      <4> QED
        BY <4>1 DEF RowOn
    <3> QED
      BY <3>1, <3>2
  <2>4. \A k \in 2..Len(SyscallsOf(target)) :
          ~(HasBuffer(SyscallsOf(target)[k]) /\ SyscallsOf(target)[k].instr_id = instr_id)
    BY <2>1
  <2> HIDE DEF made
  <2>5. GoodRow(SyscallsOf(target), vstate, instr_id, made.row)
    BY <1>1, <1>2, <2>3, <2>4, PlainRowIsGood
  <2> QED
    BY <2>5 DEF made
<1> QED
  BY <1>9, <1>10

LEMMA ForgedRowIsGood ==
  ASSUME IInv, pc = "rules", target = "forged",
         NEW made, made = IF loadRule(forgeInstr[instr_id].raw)
                          THEN FMRule(Rules[forgeInstr[instr_id].raw], <<>>, vstate)
                          ELSE Row({}, {})
  PROVE  GoodRow(SyscallsOf(target), vstate, instr_id, made.row)
<1>1. /\ target \in Names /\ Kinds /\ Complete(target, vstate)
  BY DEF IInv, Kinds, VariablesStored
<1>2. AllInPlace(target, vstate)
  BY <1>1, EveryVariableInPlace
<1>3. \A k \in 2..Len(SyscallsOf(target)) : FALSE
  <2>1. SyscallsOf(target) = <<>> /\ Len(<<>>) = 0
    BY DEF SyscallsOf
  <2>2. Len(SyscallsOf(target)) = 0
    BY <2>1
  <2> QED
    BY <2>2
<1>4. RowOn(made.row, Spots(target, vstate, Roomy))
  <2>1. CASE loadRule(forgeInstr[instr_id].raw)
    <3> DEFINE rule == Rules[forgeInstr[instr_id].raw]
               addrs == <<>>
    <3>1. rule \in ProtoRule
      BY <2>1, RuleAssumption DEF loadRule
    <3>2. Len(addrs) \in Nat /\ \A q \in 1..Len(addrs) : FALSE
      OBVIOUS
    <3>3. Roomy \in BOOLEAN
      BY DEF Roomy
    <3>4. made = FMRule(rule, addrs, vstate)
      BY <2>1
    <3> HIDE DEF rule, addrs, Roomy
    <3>5. RowOn(FMRule(rule, addrs, vstate).row, Spots(target, vstate, Roomy))
      BY <1>1, <1>2, <3>1, <3>2, <3>3, RuleRow
    <3> QED
      BY <3>4, <3>5
  <2>2. CASE ~loadRule(forgeInstr[instr_id].raw)
    <3>1. made.row.flows = {} /\ made.row.valid = {}
      BY <2>2 DEF Row
    <3> QED
      BY <3>1 DEF RowOn
  <2> QED
    BY <2>1, <2>2
<1> QED
  BY <1>1, <1>2, <1>3, <1>4, PlainRowIsGood

(* The tables alone.                                                       *)
Stored ==
  /\ \A n \in Names : GoodNames(n, tables[n].vstate) /\ GoodRows(n, tables[n].rows)
  /\ \A n \in Names : Rowed(n) # {} => DOMAIN tables[n].vstate # {}

LEMMA StoredStays ==
  ASSUME JInv, trace' = trace,
         \A n \in Names : /\ tables'[n].vstate = tables[n].vstate
                          /\ tables'[n].rows = tables[n].rows
  PROVE  Stored'
<1>1. \A n \in Names : GoodNames(n, tables[n].vstate) /\ GoodRows(n, tables[n].rows)
  BY DEF JInv, TablesRight
<1>2. ASSUME NEW n \in Names
      PROVE  /\ (GoodNames(n, tables[n].vstate) /\ GoodRows(n, tables[n].rows))'
             /\ (Rowed(n) # {} => DOMAIN tables[n].vstate # {})'
  <2> DEFINE names == tables[n].vstate
             rows == tables[n].rows
  <2>1. GoodNames(n, names) /\ GoodRows(n, rows)
    BY <1>1
  <2>2. tables'[n].vstate = names /\ tables'[n].rows = rows
    OBVIOUS
  <2>3. GoodNames(n, names') /\ GoodRows(n, rows') /\ names' = names /\ rows' = rows
    BY <2>1, <2>2
  <2>4. (GoodNames(n, names))' /\ (GoodRows(n, rows))'
    BY <2>3, Recorded DEF GoodNames, GoodRows
  <2>5. Rowed(n) # {} => DOMAIN tables[n].vstate # {}
    BY DEF JInv, TablesRight
  <2>6. Rowed(n)' = Rowed(n)
    BY <2>2 DEF Rowed
  <2> QED
    BY <2>2, <2>4, <2>5, <2>6
<1> QED
  BY <1>2 DEF Stored

LEMMA CountersStay ==
  ASSUME JInv, trace' = trace, target' = target, vstate' = vstate, runs' = runs,
         syscall_idx' = syscall_idx, pc' \notin {"syscalls", "vstate"},
         DOMAIN pending' \subseteq DOMAIN pending
  PROVE  Counters'
<1>1. InstrsOf(target)' = InstrsOf(target)
  BY DEF InstrsOf
<1> QED
  BY <1>1 DEF JInv, Counters, Sound

LEMMA StartKeeps ==
  ASSUME IInv, JInv, Start
  PROVE  JInv'
<1>1. /\ pc' = "syscalls" /\ syscall_list' = <<>> /\ instr_id' = 1 /\ pending' = <<>>
      /\ trace' = trace /\ tables' = tables /\ runs < MaxRuns /\ runs' = runs + 1
      /\ syscall_idx' = 1
  BY DEF Start
<1>2. PICK name \in Names : target' = name /\ vstate' = init_reg_state(GranuOf(name))
  BY DEF Start
<1>3. Counters'
  <2>1. Sound(vstate')
    <3>1. OnlySyscalls(name, 0, init_reg_state(GranuOf(name)))
      BY RegistersInPlace
    <3> QED
      BY <1>2, <3>1 DEF OnlySyscalls, InPlace
  <2>2. runs' \in 0..MaxRuns
    BY <1>1, LoaderAssumption DEF JInv, Counters
  <2>3. 1 \in 1..Len(trace.syscalls) + 1
    BY DEF JInv, Counters
  <2>4. DOMAIN pending' = {}
    BY <1>1
  <2> QED
    BY <1>1, <2>1, <2>2, <2>3, <2>4 DEF Counters, Sound
<1>4. SyscallsRead'
  <2>1. Len(SyscallsOf(name)) \in Nat
    BY TraceIs DEF IInv
  <2>2. <<>> \in Seq(Syscall) /\ Len(<<>>) = 0
    OBVIOUS
  <2>3. IsPrefixOf(<<>>, SyscallsOf(name))
    BY <2>1, <2>2 DEF IsPrefixOf
  <2>4. SyscallsOf(target)' = SyscallsOf(name)
    BY <1>1, <1>2 DEF SyscallsOf
  <2> QED
    BY <1>1, <2>3, <2>4 DEF SyscallsRead
<1>5. TablesRight'
  BY <1>1, StoredStays DEF TablesRight, Stored
<1>6. InStep'
  BY <1>1 DEF InStep
<1> QED
  BY <1>3, <1>4, <1>5, <1>6 DEF JInv

LEMMA KillKeeps ==
  ASSUME IInv, JInv, Kill
  PROVE  JInv'
<1>1. /\ pc' = "idle" /\ pending' = <<>>
      /\ UNCHANGED <<trace, target, vstate, syscall_list, syscall_idx, instr_id, tables, runs>>
  BY DEF Kill
<1>2. Counters'
  <2>1. DOMAIN pending' = {}
    BY <1>1
  <2> QED
    BY <1>1, <2>1, CountersStay
<1>3. TablesRight'
  BY <1>1, StoredStays DEF TablesRight, Stored
<1> QED
  BY <1>1, <1>2, <1>3 DEF JInv, SyscallsRead, InStep

LEMMA StoreSyscallKeeps ==
  ASSUME IInv, JInv, IInv', StoreSyscall
  PROVE  JInv'
<1> DEFINE next == Len(syscall_list) + 1
           S == SyscallsOf(target)
           s == tables[target].sys
           stored == IF \E i \in DOMAIN s : s[i].instr_id = S[next].instr_id
                     THEN s ELSE Append(s, S[next])
<1>1. /\ pc = "syscalls" /\ pc' = "syscalls" /\ next <= Len(S)
      /\ syscall_list' = Append(syscall_list, S[next])
      /\ tables' = [tables EXCEPT ![target].sys = stored]
      /\ UNCHANGED <<trace, target, syscall_idx, instr_id, pending, runs>>
  BY DEF StoreSyscall
<1>2. target \in Names /\ syscall_list \in Seq(Syscall) /\ Len(syscall_list) \in Nat
  BY DEF IInv, Kinds
<1> HIDE DEF stored
<1>3. Written(tables, tables', target, "sys", stored)
  BY <1>1, <1>2, WritesOne DEF IInv
<1>4. Counters'
  <2>1. Sound(vstate')
    <3>1. Grown(target, Len(syscall_list'), vstate') /\ Len(syscall_list') \in Nat
      BY <1>1 DEF IInv, VariablesStored, Kinds
    <3> DEFINE n == Len(syscall_list')
               v == vstate'
    <3>2. Grown(target, n, v) /\ n \in Nat
      BY <3>1
    <3> HIDE DEF n, v
    <3>3. OnlySyscalls(target, n, v)
      BY <1>2, <3>2, SyscallsInPlace
    <3> QED
      BY <3>3 DEF OnlySyscalls, InPlace, v
  <2>2. InstrsOf(target)' = InstrsOf(target)
    BY <1>1 DEF InstrsOf
  <2> QED
    BY <1>1, <2>1, <2>2 DEF JInv, Counters, Sound
<1>5. SyscallsRead'
  <2>1. S \in Seq(Syscall) /\ Len(S) \in Nat
    BY <1>2, TraceIs DEF IInv
  <2>2. IsPrefixOf(syscall_list, S)
    BY <1>1 DEF JInv, SyscallsRead
  <2> HIDE DEF S
  <2>3. next \in 1..Len(S) /\ S[next] \in Syscall
    BY <1>1, <1>2, <2>1
  <2>4. /\ syscall_list' \in Seq(Syscall) /\ Len(syscall_list') = next
        /\ syscall_list'[next] = S[next]
        /\ \A i \in 1..Len(syscall_list) : syscall_list'[i] = syscall_list[i]
    BY <1>1, <1>2, <2>3
  <2>5. IsPrefixOf(syscall_list', S)
    BY <1>2, <2>2, <2>3, <2>4 DEF IsPrefixOf
  <2>6. SyscallsOf(target)' = S
    BY <1>1 DEF SyscallsOf, S
  <2> QED
    BY <1>1, <2>5, <2>6 DEF SyscallsRead
<1>6. TablesRight'
  <2>1. Stored'
    BY <1>1, <1>3, StoredStays DEF Written
  <2> QED
    BY <1>1, <2>1 DEF TablesRight, Stored
<1>7. InStep'
  BY <1>1 DEF InStep
<1> QED
  BY <1>4, <1>5, <1>6, <1>7 DEF JInv

LEMMA PrepareVStateKeeps ==
  ASSUME IInv, JInv, PrepareVState
  PROVE  JInv'
<1>1. /\ pc = "syscalls" /\ Len(syscall_list) = Len(SyscallsOf(target))
      /\ vstate' = WithMemory(vstate, MemRefsOf(target)) /\ pc' = "vstate"
      /\ UNCHANGED <<trace, target, syscall_list, syscall_idx, instr_id, pending, tables, runs>>
  BY DEF PrepareVState
<1>2. target \in Names /\ Kinds
  BY DEF IInv, Kinds
<1>3. Sound(vstate')
  <2> DEFINE v == WithMemory(vstate, MemRefsOf(target))
  <2>1. Complete(target, v)
    BY <1>1 DEF IInv, VariablesStored, Complete
  <2> HIDE DEF v
  <2>2. AllInPlace(target, v)
    BY <1>2, <2>1, EveryVariableInPlace
  <2> QED
    BY <1>1, <2>2 DEF AllInPlace, InPlace, v
<1>4. Counters'
  <2>1. InstrsOf(target)' = InstrsOf(target)
    BY <1>1 DEF InstrsOf
  <2> QED
    BY <1>1, <1>3, <2>1 DEF JInv, Counters, Sound
<1>5. SyscallsRead'
  BY <1>1 DEF JInv, SyscallsRead, SyscallsOf
<1>6. TablesRight'
  BY <1>1, StoredStays DEF TablesRight, Stored
<1>7. InStep'
  BY <1>1 DEF InStep
<1> QED
  BY <1>4, <1>5, <1>6, <1>7 DEF JInv

LEMMA StoreVStateKeeps ==
  ASSUME IInv, JInv, StoreVState
  PROVE  JInv'
<1> DEFINE old == tables[target].vstate
           stored == [start \in DOMAIN old \cup DOMAIN vstate.offset2id |->
                        IF start \in DOMAIN old THEN old[start]
                        ELSE [size |-> SizeAt(vstate, start), id |-> vstate.offset2id[start]]]
<1>1. /\ pc = "vstate" /\ pc' = "rules"
      /\ tables' = [tables EXCEPT ![target].vstate = stored]
      /\ UNCHANGED <<trace, target, vstate, syscall_list, syscall_idx, instr_id, pending, runs>>
  BY DEF StoreVState
<1>2. target \in Names /\ Kinds /\ Complete(target, vstate) /\ Len(SyscallsOf(target)) \in Nat
  BY <1>1, TraceIs DEF IInv, Kinds, VariablesStored
<1>3. GoodNames(target, stored)
  <2> SUFFICES ASSUME NEW v, Complete(target, v), NEW start \in DOMAIN stored
               PROVE  stored[start] = NameAt(v, start)
    BY DEF GoodNames
  <2>1. v = vstate
    BY <1>2, CompleteIsUnique
  <2>2. CASE start \in DOMAIN old
    <3>1. GoodNames(target, old)
      BY <1>2 DEF JInv, TablesRight
    <3>2. old[start] = NameAt(v, start)
      BY <2>2, <3>1 DEF GoodNames
    <3> QED
      BY <2>2, <3>2
  <2>3. CASE start \notin DOMAIN old
    BY <2>1, <2>3 DEF NameAt
  <2> QED
    BY <2>2, <2>3
<1>4. DOMAIN stored = DOMAIN old \cup DOMAIN vstate.offset2id
  OBVIOUS
<1> HIDE DEF stored
<1>5. Written(tables, tables', target, "vstate", stored)
  BY <1>1, <1>2, WritesOne DEF IInv
<1>6. Counters'
  BY <1>1, CountersStay
<1>7. SyscallsRead'
  BY <1>1 DEF JInv, SyscallsRead, SyscallsOf
<1>8. TablesRight'
  <2>1. ASSUME NEW n \in Names
        PROVE  /\ (GoodNames(n, tables[n].vstate) /\ GoodRows(n, tables[n].rows))'
               /\ (Rowed(n) # {} => DOMAIN tables[n].vstate # {})'
    <3>1. GoodNames(n, tables[n].vstate) /\ GoodRows(n, tables[n].rows)
      BY DEF JInv, TablesRight
    <3>2. tables'[n].rows = tables[n].rows
          /\ tables'[n].vstate = IF n = target THEN stored ELSE tables[n].vstate
      BY <1>5 DEF Written
    <3>3. GoodNames(n, tables'[n].vstate) /\ GoodRows(n, tables'[n].rows)
      BY <1>3, <3>1, <3>2
    <3>4. (GoodNames(n, tables[n].vstate) /\ GoodRows(n, tables[n].rows))'
      BY <1>1, <3>3, Recorded DEF GoodNames, GoodRows
    <3>5. Rowed(n)' = Rowed(n) /\ DOMAIN tables[n].vstate \subseteq DOMAIN tables'[n].vstate
      BY <1>4, <3>2 DEF Rowed
    <3>6. Rowed(n) # {} => DOMAIN tables[n].vstate # {}
      BY DEF JInv, TablesRight
    <3> QED
      BY <3>4, <3>5, <3>6
  <2>2. pending' = <<>>
    BY <1>1 DEF IInv, RowsStored
  <2>3. DOMAIN pending' = {}
    BY <2>2
  <2>4. GoodRows(target, pending)'
    BY <2>3 DEF GoodRows
  <2> QED
    BY <2>1, <2>4 DEF TablesRight
<1>9. InStep'
  <2> SUFFICES ASSUME target # "forged", NEW k \in 2..Len(trace.syscalls)
               PROVE  ~(k <= syscall_idx) /\ ~(trace.syscalls[k].instr_id < instr_id)
    BY <1>1 DEF InStep
  <2> DEFINE S == SyscallsOf(target)
  <2>1. /\ S = trace.syscalls /\ S \in Seq(Syscall) /\ Len(S) \in Nat
        /\ \A i, j \in 1..Len(S) : i < j => S[i].instr_id < S[j].instr_id
    BY <1>2, TraceIs DEF SyscallsOf
  <2> HIDE DEF S
  <2>2. syscall_idx = 1 /\ instr_id = 1
    BY <1>1 DEF JInv, Counters, IInv, RowsStored
  <2>3. 1 \in 1..Len(S) /\ k \in 1..Len(S) /\ 1 < k
    BY <2>1
  <2>4. S[1] \in Syscall /\ S[k] \in Syscall
    BY <2>1, <2>3
  <2>5. S[1].instr_id \in Nat /\ S[k].instr_id \in Nat /\ S[1].instr_id < S[k].instr_id
    BY <2>1, <2>3, <2>4 DEF Syscall
  <2> QED
    BY <2>1, <2>2, <2>5
<1> QED
  BY <1>6, <1>7, <1>8, <1>9 DEF JInv

(* Rows that are merged into a table.                                      *)
LEMMA MergedRight ==
  ASSUME IInv, JInv, NEW name \in Names, NEW rows, trace' = trace,
         tables' = Merged(name, rows), GoodRows(name, rows), DOMAIN tables[name].vstate # {}
  PROVE  Stored'
<1> DEFINE old == tables[name].rows
           value == [i \in DOMAIN old \cup DOMAIN rows |->
                       IF i \in DOMAIN old THEN old[i] ELSE rows[i]]
<1>1. tables' = [tables EXCEPT ![name].rows = value]
  BY DEF Merged
<1>2. GoodRows(name, value)
  <2> SUFFICES ASSUME NEW v, Complete(name, v), NEW i \in DOMAIN value
               PROVE  GoodRow(SyscallsOf(name), v, i, value[i])
    BY DEF GoodRows
  <2>1. GoodRows(name, old)
    BY DEF JInv, TablesRight
  <2>2. CASE i \in DOMAIN old
    BY <2>1, <2>2 DEF GoodRows
  <2>3. CASE i \notin DOMAIN old
    BY <2>3 DEF GoodRows
  <2> QED
    BY <2>2, <2>3
<1> HIDE DEF value
<1>3. Written(tables, tables', name, "rows", value)
  BY <1>1, WritesOne DEF IInv
<1>4. ASSUME NEW n \in Names
      PROVE  /\ (GoodNames(n, tables[n].vstate) /\ GoodRows(n, tables[n].rows))'
             /\ (Rowed(n) # {} => DOMAIN tables[n].vstate # {})'
  <2>1. GoodNames(n, tables[n].vstate) /\ GoodRows(n, tables[n].rows)
    BY DEF JInv, TablesRight
  <2>2. tables'[n].vstate = tables[n].vstate
        /\ tables'[n].rows = IF n = name THEN value ELSE tables[n].rows
    BY <1>3 DEF Written
  <2>3. GoodNames(n, tables'[n].vstate) /\ GoodRows(n, tables'[n].rows)
    BY <1>2, <2>1, <2>2
  <2>4. (GoodNames(n, tables[n].vstate) /\ GoodRows(n, tables[n].rows))'
    BY <2>3, Recorded DEF GoodNames, GoodRows
  <2>5. n # name => Rowed(n)' = Rowed(n)
    BY <2>2 DEF Rowed
  <2>6. Rowed(n) # {} => DOMAIN tables[n].vstate # {}
    BY DEF JInv, TablesRight
  <2> QED
    BY <2>2, <2>4, <2>5, <2>6
<1> QED
  BY <1>4 DEF Stored

(* A load has stored the variables before it comes to the rows.            *)
LEMMA VariablesThere ==
  ASSUME IInv, pc = "rules"
  PROVE  /\ target \in Names /\ AllInPlace(target, vstate)
         /\ DOMAIN tables[target].vstate # {}
<1>1. /\ target \in Names /\ Kinds /\ Complete(target, vstate)
      /\ DOMAIN tables[target].vstate = DOMAIN vstate.offset2id
  BY DEF IInv, Kinds, VariablesStored
<1>2. AllInPlace(target, vstate)
  BY <1>1, EveryVariableInPlace
<1> QED
  BY <1>1, <1>2 DEF AllInPlace, InPlace

LEMMA LoadInstrKeeps ==
  ASSUME IInv, JInv, LoadInstr
  PROVE  JInv'
<1> DEFINE commits == instr_id % Batch = 0
           before == IF commits THEN <<>> ELSE pending
<1>1. PICK s \in Elements :
        LET made == RowOf(trace.instrs[instr_id], s)
        IN  IF made.die
            THEN /\ pc' = "aborted" /\ pending' = <<>>
                 /\ UNCHANGED <<syscall_idx, instr_id>>
            ELSE /\ pending' = Override(before, instr_id, made.row)
                 /\ syscall_idx' = IF s.instr_id = instr_id
                                   THEN syscall_idx + 1 ELSE syscall_idx
                 /\ instr_id' = instr_id + 1
                 /\ UNCHANGED pc
  BY DEF LoadInstr
<1> DEFINE made == RowOf(trace.instrs[instr_id], s)
           found == s.instr_id = instr_id
<1>2. /\ pc = "rules" /\ target # "forged" /\ instr_id <= Len(trace.instrs)
      /\ tables' = IF commits THEN Merged(target, pending) ELSE tables
      /\ UNCHANGED <<trace, target, vstate, syscall_list, runs>>
  BY DEF LoadInstr
<1>3. ~made.die => GoodRow(SyscallsOf(target), vstate, instr_id, made.row)
  BY <1>2, LoadedRowIsGood
<1>8. ~made.die /\ found =>
        /\ syscall_idx \in 1..Len(SyscallsOf(target))
        /\ syscall_idx # Len(SyscallsOf(target)) =>
             SyscallsOf(target)[syscall_idx + 1].instr_id = instr_id
  BY <1>2, MatchIs
<1> HIDE DEF made, commits
<1>4. /\ target \in Names /\ DOMAIN tables[target].vstate # {} /\ Complete(target, vstate)
      /\ Kinds /\ instr_id \in Nat \ {0} /\ InstrsOf(target) = trace.instrs
      /\ SyscallsOf(target) = trace.syscalls
  BY <1>2, VariablesThere DEF IInv, Kinds, VariablesStored, InstrsOf, SyscallsOf
<1>5. Stored'
  <2>1. CASE commits
    <3>1. GoodRows(target, pending)
      BY <1>2 DEF JInv, TablesRight
    <3> QED
      BY <1>2, <1>4, <2>1, <3>1, MergedRight
  <2>2. CASE ~commits
    BY <1>2, <2>2, StoredStays
  <2> QED
    BY <2>1, <2>2
<1>6. CASE made.die
  <2>1. pc' = "aborted" /\ pending' = <<>> /\ syscall_idx' = syscall_idx
    BY <1>1, <1>6 DEF made
  <2>2. Counters'
    <3>1. DOMAIN pending' = {}
      BY <2>1
    <3> QED
      BY <1>2, <2>1, <3>1, CountersStay
  <2> QED
    BY <1>5, <2>1, <2>2 DEF JInv, SyscallsRead, InStep, TablesRight, Stored
<1>7. CASE ~made.die
  <2>1. /\ pending' = Override(before, instr_id, made.row)
        /\ syscall_idx' = IF found THEN syscall_idx + 1 ELSE syscall_idx
        /\ instr_id' = instr_id + 1
        /\ pc' = "rules"
    BY <1>1, <1>2, <1>7 DEF made
  <2> DEFINE S == trace.syscalls
  <2>2. /\ S \in Seq(Syscall) /\ Len(S) \in Nat
        /\ \A i, j \in 1..Len(S) : i < j => S[i].instr_id < S[j].instr_id
    BY <1>4, TraceIs
  <2> HIDE DEF S
  <2>3. \A k \in 1..Len(S) : S[k].instr_id \in Nat
    <3>1. \A k \in 1..Len(S) : S[k] \in Syscall
      BY <2>2
    <3> QED
      BY <3>1 DEF Syscall
  <2>4. /\ syscall_idx \in 1..Len(S) + 1
        /\ Len(syscall_list) = Len(S) /\ \A k \in 1..Len(S) : syscall_list[k] = S[k]
        /\ \A k \in 2..Len(S) : k <= syscall_idx <=> S[k].instr_id < instr_id
    BY <1>2, <1>4 DEF JInv, Counters, SyscallsRead, IsPrefixOf, InStep, S
  <2>5. found => /\ syscall_idx \in 1..Len(S)
                 /\ syscall_idx # Len(S) => S[syscall_idx + 1].instr_id = instr_id
    BY <1>4, <1>7, <1>8 DEF S
  <2>6. ~found => \A k \in 2..Len(S) : S[k].instr_id # instr_id
    <3> SUFFICES ASSUME ~found, NEW k \in 2..Len(S), S[k].instr_id = instr_id
                 PROVE  FALSE
      OBVIOUS
    <3>1. k = syscall_idx + 1
      BY <1>2, <1>4, NextIsCurrent DEF S
    <3>2. k <= Len(syscall_list) /\ syscall_list[k] = S[k]
      BY <2>2, <2>4
    <3>3. s = S[k]
      BY <3>1, <3>2 DEF Elements
    <3> QED
      BY <3>3
  <2> HIDE DEF found
  <2>7. syscall_idx' \in 1..Len(S) + 1
    BY <2>1, <2>2, <2>4, <2>5
  <2>8. DOMAIN pending' \subseteq DOMAIN trace.instrs
    <3>1. DOMAIN pending' = (DOMAIN before) \cup {instr_id}
      BY <2>1 DEF Override
    <3>2. instr_id \in DOMAIN trace.instrs
      BY <1>2, <1>4, TraceIs
    <3>3. DOMAIN pending \subseteq DOMAIN trace.instrs
      BY <1>4 DEF JInv, Counters
    <3>4. DOMAIN before \subseteq DOMAIN pending
      <4>1. DOMAIN <<>> = {}
        OBVIOUS
      <4> QED
        BY <4>1
    <3> QED
      BY <3>1, <3>2, <3>3, <3>4
  <2>9. Counters'
    <3>1. InstrsOf(target)' = trace.instrs
      BY <1>2, <1>4 DEF InstrsOf
    <3>2. Sound(vstate)' /\ runs' \in 0..MaxRuns
      BY <1>2 DEF JInv, Counters, Sound
    <3> QED
      BY <1>2, <2>1, <2>7, <2>8, <3>1, <3>2 DEF Counters, S
  <2>10. SyscallsRead'
    BY <1>2, <2>1 DEF JInv, SyscallsRead, SyscallsOf
  <2>11. InStep'
    <3> SUFFICES ASSUME NEW k \in 2..Len(S)
                 PROVE  k <= syscall_idx' <=> S[k].instr_id < instr_id + 1
      BY <1>2, <2>1 DEF InStep, S
    <3>1. /\ k \in 1..Len(S) /\ S[k].instr_id \in Nat
          /\ k <= syscall_idx <=> S[k].instr_id < instr_id
      BY <2>3, <2>4
    <3>2. CASE found
      <4>1. syscall_idx' = syscall_idx + 1 /\ syscall_idx \in 1..Len(S)
        BY <2>1, <2>5, <3>2
      <4>2. CASE syscall_idx = Len(S)
        BY <1>4, <2>2, <2>4, <3>1, <4>1, <4>2
      <4>3. CASE syscall_idx # Len(S)
        <5>1. syscall_idx + 1 \in 1..Len(S) /\ S[syscall_idx + 1].instr_id = instr_id
          BY <2>2, <2>5, <3>2, <4>1, <4>3
        <5>2. k > syscall_idx + 1 => S[k].instr_id > instr_id
          BY <2>2, <2>3, <3>1, <5>1
        <5> QED
          BY <1>4, <2>4, <3>1, <4>1, <5>1, <5>2
      <4> QED
        BY <4>2, <4>3
    <3>3. CASE ~found
      <4>1. S[k].instr_id # instr_id /\ syscall_idx' = syscall_idx
        BY <2>1, <2>6, <3>3
      <4> QED
        BY <1>4, <3>1, <4>1
    <3> QED
      BY <3>2, <3>3
  <2>12. GoodRows(target, pending')
    <3> SUFFICES ASSUME NEW v, Complete(target, v), NEW i \in DOMAIN pending'
                 PROVE  GoodRow(SyscallsOf(target), v, i, pending'[i])
      BY DEF GoodRows
    <3>1. v = vstate
      <4>1. Len(SyscallsOf(target)) \in Nat
        BY <1>4, TraceIs
      <4> QED
        BY <1>4, <4>1, CompleteIsUnique
    <3>2. CASE i = instr_id
      <4>1. pending'[i] = made.row
        BY <2>1, <3>2 DEF Override
      <4> QED
        BY <1>3, <1>7, <3>1, <3>2, <4>1
    <3>3. CASE i # instr_id
      <4>1. i \in DOMAIN before /\ pending'[i] = before[i]
        BY <2>1, <3>3 DEF Override
      <4>2. i \in DOMAIN pending /\ before = pending
        <5>1. DOMAIN <<>> = {}
          OBVIOUS
        <5> QED
          BY <4>1, <5>1
      <4>3. GoodRows(target, pending)
        BY <1>2 DEF JInv, TablesRight
      <4> QED
        BY <4>1, <4>2, <4>3 DEF GoodRows
    <3> QED
      BY <3>2, <3>3
  <2>13. GoodRows(target, pending)'
    <3>1. target' = target
      BY <1>2
    <3> QED
      BY <1>2, <2>12, <3>1, Recorded DEF GoodRows
  <2> QED
    BY <1>5, <2>9, <2>10, <2>11, <2>13 DEF JInv, TablesRight, Stored
<1> QED
  BY <1>6, <1>7

LEMMA EndTransactionKeeps ==
  ASSUME IInv, JInv, EndTransaction
  PROVE  JInv'
<1>1. /\ pc = "rules" /\ tables' = Merged(target, pending) /\ pending' = <<>> /\ pc' = "done"
      /\ UNCHANGED <<trace, target, vstate, syscall_list, syscall_idx, instr_id, runs>>
  BY DEF EndTransaction
<1>2. target \in Names /\ DOMAIN tables[target].vstate # {}
  BY <1>1, VariablesThere
<1>3. GoodRows(target, pending)
  BY <1>1 DEF JInv, TablesRight
<1>4. Stored'
  BY <1>1, <1>2, <1>3, MergedRight
<1>5. Counters'
  <2>1. DOMAIN pending' = {}
    BY <1>1
  <2> QED
    BY <1>1, <2>1, CountersStay
<1> QED
  BY <1>1, <1>4, <1>5 DEF JInv, SyscallsRead, InStep, TablesRight, Stored

LEMMA ForgeInstrKeeps ==
  ASSUME IInv, JInv, ForgeInstr
  PROVE  JInv'
<1> DEFINE made == IF loadRule(forgeInstr[instr_id].raw)
                   THEN FMRule(Rules[forgeInstr[instr_id].raw], <<>>, vstate) ELSE Row({}, {})
           rows == [i \in {instr_id} |-> made.row]
<1>1. /\ pc = "rules" /\ target = "forged"
      /\ UNCHANGED <<trace, target, vstate, syscall_list, syscall_idx, pending, runs>>
  BY DEF ForgeInstr
<1>2. \/ pc' = "aborted" /\ tables' = tables
      \/ tables' = Merged("forged", rows) /\ pc' \in {"done", "rules"}
  BY <1>1 DEF ForgeInstr
<1>3. GoodRow(SyscallsOf(target), vstate, instr_id, made.row)
  BY <1>1, ForgedRowIsGood
<1> HIDE DEF made
<1>4. /\ target \in Names /\ DOMAIN tables[target].vstate # {} /\ Complete(target, vstate)
      /\ Kinds /\ Len(SyscallsOf(target)) \in Nat
  BY <1>1, VariablesThere, TraceIs DEF IInv, VariablesStored
<1>5. GoodRows(target, rows)
  <2> SUFFICES ASSUME NEW v, Complete(target, v), NEW i \in DOMAIN rows
               PROVE  GoodRow(SyscallsOf(target), v, i, rows[i])
    BY DEF GoodRows
  <2>1. v = vstate
    BY <1>4, CompleteIsUnique
  <2> QED
    BY <1>3, <2>1
<1> HIDE DEF rows
<1>6. Stored'
  <2>1. CASE tables' = tables
    BY <1>1, <2>1, StoredStays
  <2>2. CASE tables' = Merged("forged", rows)
    BY <1>1, <1>4, <1>5, <2>2, MergedRight
  <2> QED
    BY <1>2, <2>1, <2>2
<1>7. Counters'
  <2>1. DOMAIN pending' \subseteq DOMAIN pending /\ syscall_idx' = syscall_idx
    BY <1>1
  <2> QED
    BY <1>1, <1>2, <2>1, CountersStay
<1>8. SyscallsRead'
  BY <1>1, <1>2 DEF JInv, SyscallsRead, SyscallsOf
<1>9. InStep'
  BY <1>1 DEF InStep
<1>10. GoodRows(target, pending)'
  <2>1. GoodRows(target, pending)
    BY <1>1 DEF JInv, TablesRight
  <2> QED
    BY <1>1, <2>1, Recorded DEF GoodRows
<1> QED
  BY <1>6, <1>7, <1>8, <1>9, <1>10 DEF JInv, TablesRight, Stored

LEMMA NothingKeeps ==
  ASSUME JInv, UNCHANGED vars
  PROVE  JInv'
<1>1. UNCHANGED <<trace, pc, target, vstate, syscall_list, syscall_idx, instr_id, pending,
                  tables, runs>>
  BY DEF vars
<1>2. Counters'
  BY <1>1, Recorded DEF JInv, Counters, Sound
<1>3. SyscallsRead' /\ InStep'
  BY <1>1, Recorded DEF JInv, SyscallsRead, InStep
<1>4. Stored'
  BY <1>1, StoredStays
<1>5. pc' = "rules" => GoodRows(target, pending)'
  <2>1. pc = "rules" => GoodRows(target, pending)
    BY DEF JInv, TablesRight
  <2> QED
    BY <1>1, <2>1, Recorded DEF GoodRows
<1> QED
  BY <1>2, <1>3, <1>4, <1>5 DEF JInv, TablesRight, Stored

LEMMA Right == Spec => []JInv
<1>1. Init => JInv
  <2> SUFFICES ASSUME Init
               PROVE  JInv
    OBVIOUS
  <2>1. /\ trace \in Traces /\ pc = "idle" /\ target = "trace" /\ target \in Names
        /\ vstate = NoVState /\ syscall_idx = 1 /\ pending = <<>> /\ runs = 0
        /\ tables = [n \in Names |-> NoTables]
    BY DEF Init, Names
  <2>2. DOMAIN <<>> = {}
    OBVIOUS
  <2>3. \A n \in Names : /\ tables[n].vstate = <<>> /\ tables[n].rows = <<>>
                         /\ DOMAIN tables[n].vstate = {} /\ Rowed(n) = {}
    BY <2>1, <2>2 DEF NoTables, Rowed
  <2>4. Counters
    <3>1. Sound(vstate)
      BY <2>1, <2>2 DEF Sound, NoVState
    <3>2. trace.syscalls \in Seq(Syscall)
      BY <2>1, LoaderAssumption DEF Trace
    <3>3. 1 \in 1..Len(trace.syscalls) + 1
      BY <3>2
    <3>4. 0 \in 0..MaxRuns
      BY LoaderAssumption
    <3> QED
      BY <2>1, <2>2, <3>1, <3>3, <3>4 DEF Counters
  <2>5. TablesRight
    BY <2>1, <2>3 DEF TablesRight, GoodNames, GoodRows, Rowed
  <2> QED
    BY <2>1, <2>4, <2>5 DEF JInv, SyscallsRead, InStep
<1>2. IInv /\ IInv' /\ JInv /\ [Next]_vars => JInv'
  <2> SUFFICES ASSUME IInv, IInv', JInv, [Next]_vars
               PROVE  JInv'
    OBVIOUS
  <2>1. CASE Start
    BY <2>1, StartKeeps
  <2>2. CASE StoreSyscall
    BY <2>2, StoreSyscallKeeps
  <2>3. CASE PrepareVState
    BY <2>3, PrepareVStateKeeps
  <2>4. CASE StoreVState
    BY <2>4, StoreVStateKeeps
  <2>5. CASE LoadInstr
    BY <2>5, LoadInstrKeeps
  <2>6. CASE EndTransaction
    BY <2>6, EndTransactionKeeps
  <2>7. CASE ForgeInstr
    BY <2>7, ForgeInstrKeeps
  <2>8. CASE Kill
    BY <2>8, KillKeeps
  <2>9. CASE UNCHANGED vars
    BY <2>9, NothingKeeps
  <2> QED
    BY <2>1, <2>2, <2>3, <2>4, <2>5, <2>6, <2>7, <2>8, <2>9 DEF Next
<1> QED
  BY <1>1, <1>2, Inductive, PTL DEF Spec

(* A program is where its counters say, its VState is a one-to-one map     *)
(* within its size, and what it has pending is of its own instructions.    *)
THEOREM LoaderTypeOK == Spec => []TypeOK
<1>1. IInv /\ JInv => TypeOK
  <2> SUFFICES ASSUME IInv, JInv
               PROVE  TypeOK
    OBVIOUS
  <2>1. Kinds /\ Counters
    BY DEF IInv, JInv
  <2>2. Sound(vstate)
    BY <2>1 DEF Counters
  <2>3. /\ DOMAIN vstate = {"granu", "size", "id2offset", "offset2id"}
        /\ Range(vstate.id2offset) \subseteq 0..vstate.size - 1
        /\ CrossCheck(vstate)
    <3>1. DOMAIN vstate = {"granu", "size", "id2offset", "offset2id"}
      BY <2>2 DEF Sound
    <3>2. Range(vstate.id2offset) \subseteq 0..vstate.size - 1
      BY <2>2 DEF Sound, Range
    <3> QED
      BY <2>2, <3>1, <3>2 DEF Sound, CrossCheck
  <2>4. instr_id \in 1..Len(InstrsOf(target)) + 1
    <3>1. Len(InstrsOf(target)) \in Nat
      BY <2>1, TraceIs DEF Kinds
    <3> QED
      BY <2>1, <3>1 DEF Kinds
  <2>5. DOMAIN tables = Names
    BY <2>1 DEF Kinds
  <2> QED
    BY <2>1, <2>3, <2>4, <2>5 DEF TypeOK, Kinds, Counters
<1> QED
  BY <1>1, Inductive, Right, PTL

(* What the tables of a trace with a row for i say, where v is its VState. *)
Told(name, v, i) ==
  /\ Complete(name, v) /\ AllInPlace(name, v)
  /\ DOMAIN tables[name].vstate = DOMAIN v.offset2id
  /\ \A start \in DOMAIN v.offset2id : /\ tables[name].vstate[start].size = SizeAt(v, start)
                                        /\ tables[name].vstate[start].id = v.offset2id[start]
  /\ GoodRow(SyscallsOf(name), v, i, tables[name].rows[i])

LEMMA EveryRowTold ==
  ASSUME IInv, JInv, NEW name \in Names
  PROVE  Rowed(name) # {} => \E v : \A i \in Rowed(name) : Told(name, v, i)
<1> SUFFICES ASSUME Rowed(name) # {}
             PROVE  \E v : \A i \in Rowed(name) : Told(name, v, i)
  OBVIOUS
<1>1. DOMAIN tables[name].vstate # {}
  BY DEF JInv, TablesRight
<1>2. PICK v : Complete(name, v) /\ DOMAIN tables[name].vstate = DOMAIN v.offset2id
  BY <1>1 DEF IInv, VariablesStored
<1>3. AllInPlace(name, v)
  BY <1>2, EveryVariableInPlace DEF IInv
<1>4. ASSUME NEW start \in DOMAIN v.offset2id
      PROVE  /\ tables[name].vstate[start].size = SizeAt(v, start)
             /\ tables[name].vstate[start].id = v.offset2id[start]
  <2>1. tables[name].vstate[start] = NameAt(v, start)
    BY <1>2 DEF JInv, TablesRight, GoodNames
  <2> QED
    BY <2>1 DEF NameAt
<1>5. \A i \in Rowed(name) : GoodRow(SyscallsOf(name), v, i, tables[name].rows[i])
  BY <1>2 DEF JInv, TablesRight, GoodRows, Rowed
<1>6. \A i \in Rowed(name) : Told(name, v, i)
  BY <1>2, <1>3, <1>4, <1>5 DEF Told
<1> QED
  BY <1>6

(* The owners of an index are those that the VState gives it.              *)
LEMMA OwnersAre ==
  ASSUME NEW name, NEW v, NEW i, Told(name, v, i), NEW index \in Nat, NEW start
  PROVE  start \in OwnersOf(name, index) <=> Owns(v, start, index)
<1>1. CASE start \in DOMAIN v.offset2id
  <2>1. Sound(v) /\ tables[name].vstate[start].size = SizeAt(v, start)
    BY <1>1 DEF Told, AllInPlace, InPlace
  <2>2. start \in Nat /\ SizeAt(v, start) \in Nat
    BY <1>1, <2>1, StartsAre, SizeAtIs
  <2> QED
    BY <1>1, <2>1, <2>2 DEF Told, OwnersOf, Owns
<1>2. CASE start \notin DOMAIN v.offset2id
  BY <1>2 DEF Told, OwnersOf, Owns
<1> QED
  BY <1>1, <1>2

(* Where the operands of every instruction have room in what was recorded, *)
(* a stored row speaks of indices that have one name each, and its flows   *)
(* are between indices it overrides.                                       *)
THEOREM NamesAlwaysResolve ==
  ASSUME \A t \in Traces : RoomForOperands(t)
  PROVE  Spec => []NamesResolve
<1>1. Roomy
  BY DEF Roomy
<1>2. IInv /\ JInv => NamesResolve
  <2> SUFFICES ASSUME IInv, JInv, NEW name \in Names, NEW i \in Rowed(name)
               PROVE  LET row == tables[name].rows[i]
                      IN  /\ \A index \in row.valid : Cardinality(OwnersOf(name, index)) = 1
                          /\ row.flows \subseteq row.valid \X row.valid
    BY DEF NamesResolve
  <2> DEFINE row == tables[name].rows[i]
  <2>1. PICK v : Told(name, v, i)
    BY EveryRowTold
  <2>2. /\ row.flows \subseteq row.valid \X row.valid /\ row.valid \subseteq Nat
        /\ \A x \in row.valid : x < v.size
    BY <1>1, <2>1 DEF Told, GoodRow
  <2>3. ASSUME NEW index \in row.valid
        PROVE  Cardinality(OwnersOf(name, index)) = 1
    <3>1. index \in Nat /\ index < v.size /\ Sound(v) /\ 0 \in DOMAIN v.offset2id
      BY <2>1, <2>2 DEF Told, AllInPlace, InPlace
    <3>2. PICK start : Owns(v, start, index)
      BY <3>1, SomeOwns
    <3>3. \A other : other \in OwnersOf(name, index) <=> other = start
      BY <2>1, <3>1, <3>2, OwnersAre, OneOwns
    <3>4. OwnersOf(name, index) = {start}
      BY <3>3
    <3> QED
      BY <3>4, FS_Singleton
  <2> QED
    BY <2>2, <2>3
<1> QED
  BY <1>2, Inductive, Right, PTL

(* The variable of a syscall is hooked by the instruction of the one that  *)
(* follows it, and by no other.                                            *)
LEMMA HookedIs ==
  ASSUME Kinds, NEW name \in {"trace", "trace_bit"}, NEW v, NEW i, Told(name, v, i),
         NEW j \in 1..Len(trace.syscalls)
  PROVE  SyscallBase + j \in HookedBy(name, i)
           <=> v.id2offset[SyscallBase + j] \in tables[name].rows[i].valid
<1> DEFINE at == v.id2offset[SyscallBase + j]
           row == tables[name].rows[i]
<1>1. name \in Names /\ SyscallsOf(name) = trace.syscalls /\ Len(trace.syscalls) \in Nat
  <2>1. name \in Names /\ SyscallsOf(name) = trace.syscalls
    BY DEF Names, SyscallsOf
  <2> QED
    BY <2>1, TraceIs
<1>2. AllInPlace(name, v) /\ Sound(v) /\ row.valid \subseteq Nat
  BY DEF Told, AllInPlace, InPlace, GoodRow
<1>3. /\ at \in DOMAIN v.offset2id /\ SizeAt(v, at) = 1
      /\ SyscallBase + j \in DOMAIN v.id2offset
  BY <1>1, <1>2, SyscallOwnsOne DEF AllInPlace, InPlace
<1>4. v.offset2id[at] = SyscallBase + j /\ at \in Nat
  <2>1. at \in Nat
    BY <1>2, <1>3, StartsAre
  <2>2. v.offset2id[at] = SyscallBase + j
    BY <1>2, <1>3 DEF Sound
  <2> QED
    BY <2>1, <2>2
<1>5. SyscallBase < SyscallBase + j /\ SyscallBase + j <= SyscallBase + Len(trace.syscalls)
  BY <1>1 DEF SyscallBase
<1> HIDE DEF at
<1>6. ASSUME at \in row.valid
      PROVE  SyscallBase + j \in HookedBy(name, i)
  <2>1. Owns(v, at, at)
    BY <1>3, <1>4 DEF Owns
  <2>2. at \in OwnersOf(name, at)
    BY <1>4, <2>1, OwnersAre
  <2>3. tables[name].vstate[at].id = SyscallBase + j
    BY <1>3, <1>4 DEF Told
  <2> QED
    BY <1>5, <1>6, <2>2, <2>3 DEF HookedBy
<1>7. ASSUME SyscallBase + j \in HookedBy(name, i)
      PROVE  at \in row.valid
  <2>1. PICK x, start : /\ x \in row.valid /\ start \in OwnersOf(name, x)
                        /\ tables[name].vstate[start].id = SyscallBase + j
    BY <1>7 DEF HookedBy
  <2>2. Owns(v, start, x) /\ x \in Nat
    BY <1>2, <2>1, OwnersAre
  <2>3. start \in DOMAIN v.offset2id /\ v.offset2id[start] = SyscallBase + j
    BY <2>1, <2>2 DEF Owns, Told
  <2>4. start = at
    BY <1>2, <2>3 DEF Sound, at
  <2>5. x = at
    BY <1>3, <1>4, <2>2, <2>4 DEF Owns
  <2> QED
    BY <2>1, <2>5
<1> QED
  BY <1>6, <1>7 DEF at

(* No two instructions of a trace share the variable of a syscall, and     *)
(* from the second syscall on each that has a buffer and a row hooks one,  *)
(* whatever lies behind the list of syscalls.                              *)
THEOREM SyscallsStayApart == Spec => []SyscallsApart
<1>1. IInv /\ JInv => SyscallsApart
  <2> SUFFICES ASSUME IInv, JInv, NEW name \in {"trace", "trace_bit"}
               PROVE  LET last == SyscallBase + Len(trace.syscalls) IN
                      /\ \A i, j \in Rowed(name) :
                           i # j => HookedBy(name, i) \cap HookedBy(name, j) \subseteq {last}
                      /\ \A k \in 2..Len(trace.syscalls) :
                           LET s == trace.syscalls[k]
                           IN  HasBuffer(s) /\ s.instr_id \in Rowed(name)
                                 => HookedBy(name, s.instr_id) \ {last} # {}
    BY DEF SyscallsApart
  <2> DEFINE S == trace.syscalls
             last == SyscallBase + Len(S)
  <2>1. /\ Kinds /\ name \in Names /\ SyscallsOf(name) = S /\ Len(S) \in Nat
    <3>1. Kinds /\ name \in Names /\ SyscallsOf(name) = S
      BY DEF IInv, Names, SyscallsOf
    <3> QED
      BY <3>1, TraceIs
  <2>2. CASE Rowed(name) = {}
    BY <2>2
  <2>3. CASE Rowed(name) # {}
    <3>1. PICK v : \A i \in Rowed(name) : Told(name, v, i)
      BY <2>1, <2>3, EveryRowTold
    <3>2. ASSUME NEW i \in Rowed(name), NEW id \in HookedBy(name, i), id # last
          PROVE  \E q \in 1..Len(S) : /\ id = SyscallBase + q
                                      /\ q + 1 \in 1..Len(S) /\ S[q + 1].instr_id = i
      <4>1. SyscallBase < id /\ id <= SyscallBase + Len(S) /\ id \in DOMAIN v.id2offset
        <5>1. PICK x, start : /\ x \in tables[name].rows[i].valid
                              /\ start \in OwnersOf(name, x)
                              /\ id = tables[name].vstate[start].id
          BY <3>2 DEF HookedBy
        <5>2. Told(name, v, i)
          BY <3>1
        <5>3. start \in DOMAIN v.offset2id
          BY <5>1, <5>2 DEF Told, OwnersOf
        <5>4. id = v.offset2id[start]
          BY <5>1, <5>2, <5>3 DEF Told
        <5>5. id \in DOMAIN v.id2offset
          BY <5>2, <5>3, <5>4 DEF Told, AllInPlace, InPlace, Sound
        <5> QED
          BY <3>2, <5>5 DEF HookedBy
      <4>2. id \in Nat
        <5>1. AllInPlace(name, v)
          BY <3>1 DEF Told
        <5> QED
          BY <2>1, <4>1, <5>1, IdsAre
      <4> DEFINE q == id - SyscallBase
      <4>3. q \in 1..Len(S) /\ id = SyscallBase + q
        BY <2>1, <4>1, <4>2 DEF SyscallBase
      <4>6. q # Len(S)
        BY <2>1, <3>2, <4>3
      <4> HIDE DEF q
      <4>4. v.id2offset[SyscallBase + q] \in tables[name].rows[i].valid
        BY <2>1, <3>1, <3>2, <4>3, HookedIs
      <4>5. q + 1 \in 1..Len(S) /\ S[q + 1].instr_id = i
        BY <2>1, <3>1, <4>3, <4>4, <4>6 DEF Told, GoodRow
      <4> QED
        BY <4>3, <4>5
    <3>3. ASSUME NEW i \in Rowed(name), NEW j \in Rowed(name), i # j,
                 NEW id \in HookedBy(name, i), id \in HookedBy(name, j), id # last
          PROVE  FALSE
      <4>1. PICK p \in 1..Len(S) : id = SyscallBase + p /\ S[p + 1].instr_id = i
        BY <3>2, <3>3
      <4>2. PICK q \in 1..Len(S) : id = SyscallBase + q /\ S[q + 1].instr_id = j
        BY <3>2, <3>3
      <4>3. p = q
        BY <4>1, <4>2 DEF SyscallBase
      <4> QED
        BY <3>3, <4>1, <4>2, <4>3
    <3>4. ASSUME NEW k \in 2..Len(S), HasBuffer(S[k]), S[k].instr_id \in Rowed(name)
          PROVE  HookedBy(name, S[k].instr_id) \ {last} # {}
      <4> DEFINE q == k - 1
                 i == S[k].instr_id
      <4>1. q \in 1..Len(S) /\ q + 1 = k /\ q + 1 \in 1..Len(S)
        BY <2>1
      <4>2. Told(name, v, i)
        BY <3>1, <3>4
      <4> HIDE DEF q
      <4>3. v.id2offset[SyscallBase + q] \in tables[name].rows[i].valid
        BY <2>1, <3>4, <4>1, <4>2 DEF Told, GoodRow
      <4>4. SyscallBase + q \in HookedBy(name, i)
        BY <2>1, <4>1, <4>2, <4>3, HookedIs
      <4>5. SyscallBase + q # last
        BY <2>1, <4>1 DEF SyscallBase
      <4> QED
        BY <4>4, <4>5
    <3> QED
      BY <3>3, <3>4
  <2> QED
    BY <2>2, <2>3
<1> QED
  BY <1>1, Inductive, Right, PTL

=============================================================================
