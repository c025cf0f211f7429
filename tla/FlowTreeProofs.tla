--------------------------- MODULE FlowTreeProofs ---------------------------
(***************************************************************************)
(* The query tree, for every trace, every set of variables and processes,  *)
(* every split of the loading and every buffer size.  In this order: the   *)
(* products it stores compose flows; the cache is sound and answers are    *)
(* right; no call is deeper than its range allows; the tree implements the *)
(* service; and what the table holds under a node that is there, whatever  *)
(* crashed.                                                                *)
(***************************************************************************)
EXTENDS FlowTreeInvariant, SequenceTheorems, WellFoundedInduction, TLAPS

-----------------------------------------------------------------------------
(* Products and flows *)

(* What a row means relates variables to variables. *)
LEMMA MeaningType ==
  ASSUME NEW a, a.v \subseteq Vars, a.m \subseteq a.v \X a.v
  PROVE  Meaning(a) \subseteq Pairs
BY DEF Meaning, setMainDiagonal, Pairs

(* A matrix without valid indices changes nothing (RecursiveBuildSubTree   *)
(* returns the other child in its place).                                  *)
LEMMA InvalidIsIdentity ==
  ASSUME NEW A \in Matrix, Invalid(A)
  PROVE  Meaning(A) = Identity
<1>1. A.v = {} /\ A.m \subseteq A.v \X A.v
  BY DEF Matrix, Invalid
<1>2. A.m = {}
  BY <1>1
<1> QED
  BY <1>1, <1>2 DEF Meaning, Identity, setMainDiagonal

(* The identity is neutral on both sides. *)
LEMMA IdentityNeutral ==
  ASSUME NEW R \in SUBSET Pairs
  PROVE  spgemm(Identity, R) = R /\ spgemm(R, Identity) = R
<1>1. ASSUME NEW x \in Vars, NEW y \in Vars
      PROVE  <<x, y>> \in Identity <=> x = y
  BY DEF Identity, setMainDiagonal
<1>2. ASSUME NEW x \in Vars, NEW z \in Vars
      PROVE  /\ <<x, z>> \in spgemm(Identity, R) <=> <<x, z>> \in R
             /\ <<x, z>> \in spgemm(R, Identity) <=> <<x, z>> \in R
  BY <1>1 DEF spgemm, Pairs
<1>3. spgemm(Identity, R) \subseteq Pairs /\ spgemm(R, Identity) \subseteq Pairs
  BY DEF spgemm
<1> QED
  BY <1>2, <1>3 DEF Pairs

(* A product relates variables to variables. *)
LEMMA ProductType ==
  ASSUME NEW R, NEW S
  PROVE  spgemm(R, S) \subseteq Pairs
BY DEF spgemm

(* Aligning two matrices on the union of their indices and multiplying     *)
(* them composes their meanings; the empty product is no exception.        *)
THEOREM AlignedProductComposes ==
  ASSUME NEW A \in Matrix, NEW B \in Matrix
  PROVE  /\ AlignAndMultiply(A, B) \in Matrix
         /\ Meaning(AlignAndMultiply(A, B)) = spgemm(Meaning(A), Meaning(B))
<1> DEFINE extA == A.m \cup {<<x, x>> : x \in B.v \ A.v}
           extB == B.m \cup {<<x, x>> : x \in A.v \ B.v}
           P == AlignAndMultiply(A, B)
<1>1. /\ A.v \subseteq Vars /\ A.m \subseteq A.v \X A.v
      /\ B.v \subseteq Vars /\ B.m \subseteq B.v \X B.v
  BY DEF Matrix
<1>2. /\ P = [null |-> FALSE,
              m |-> IF extA = {} \/ extB = {} THEN {} ELSE spgemm(extA, extB),
              v |-> A.v \cup B.v,
              device |-> ~(extA = {} \/ extB = {}),
              fromDB |-> FALSE]
  BY DEF AlignAndMultiply, getSuperSet, Extend, add, setMainDiagonal
<1> HIDE DEF P
<1>3. P.m = spgemm(extA, extB)
  <2>1. CASE extA = {} \/ extB = {}
    <3>1. spgemm(extA, extB) = {}
      BY <2>1 DEF spgemm
    <3> QED
      BY <3>1, <2>1, <1>2
  <2>2. CASE ~(extA = {} \/ extB = {})
    BY <2>2, <1>2
  <2> QED
    BY <2>1, <2>2
<1>4. P.m \subseteq P.v \X P.v
  <2>1. P.v = A.v \cup B.v
    BY <1>2
  <2>2. extA \subseteq P.v \X P.v /\ extB \subseteq P.v \X P.v
    BY <1>1, <2>1
  <2> QED
    BY <2>2, <1>3 DEF spgemm, Pairs
<1>5. P \in Matrix
  <2>1. P.m \in SUBSET Pairs /\ P.v \in SUBSET Vars
    BY <1>1, <1>2, <1>3 DEF spgemm
  <2> QED
    BY <2>1, <1>2, <1>4 DEF Matrix
<1>6. Meaning(P) = spgemm(Meaning(A), Meaning(B))
  <2>1. Meaning(P) = spgemm(extA, extB) \cup {<<x, x>> : x \in Vars \ (A.v \cup B.v)}
    BY <1>2, <1>3 DEF Meaning, setMainDiagonal
  <2>2. ASSUME NEW x \in Vars, NEW z \in Vars
        PROVE  <<x, z>> \in Meaning(P) <=> <<x, z>> \in spgemm(Meaning(A), Meaning(B))
    <3>1. <<x, z>> \in Meaning(P) <=>
            \/ \E y \in Vars : <<x, y>> \in extA /\ <<y, z>> \in extB
            \/ x = z /\ x \notin A.v \cup B.v
      BY <2>1 DEF spgemm, Pairs
    <3>2. <<x, z>> \in spgemm(Meaning(A), Meaning(B)) <=>
            \E y \in Vars : /\ <<x, y>> \in A.m \/ (x = y /\ x \notin A.v)
                            /\ <<y, z>> \in B.m \/ (y = z /\ y \notin B.v)
      BY DEF spgemm, Meaning, setMainDiagonal, Pairs
    <3> QED
      BY <3>1, <3>2, <1>1
  <2>3. Meaning(P) \subseteq Pairs
    BY <1>1, <1>2, <1>4, MeaningType
  <2>4. spgemm(Meaning(A), Meaning(B)) \subseteq Pairs
    BY ProductType
  <2> QED
    BY <2>2, <2>3, <2>4 DEF Pairs
<1> QED
  BY <1>5, <1>6 DEF P

-----------------------------------------------------------------------------
(* A single instruction: the flow is its rule's. *)
LEMMA StepType ==
  ASSUME NEW i
  PROVE  Step(i) \subseteq Pairs
<1>1. CASE i \in DOMAIN Rules
  <2>1. Rules[i] \in Row
    BY <1>1, TraceAssumption
  <2> QED
    BY <1>1, <2>1, MeaningType DEF Row, Step
<1>2. CASE i \notin DOMAIN Rules
  BY <1>2 DEF Step, Identity, setMainDiagonal, Pairs
<1> QED
  BY <1>1, <1>2

(* The flow of one instruction is the meaning of its rule. *)
LEMMA FlowOfOne ==
  ASSUME NEW i \in Int
  PROVE  Flow(i, i) = Step(i)
<1>1. ~(i < i)
  OBVIOUS
<1>2. Flow(i, i) \subseteq Step(i)
  <2> SUFFICES ASSUME NEW e \in Flow(i, i)
               PROVE  e \in Step(i)
    OBVIOUS
  <2>1. e \in Pairs
    BY <1>1 DEF Flow
  <2>2. PICK p \in [i..(i + 1) -> Vars] :
           p[i] = e[1] /\ p[i + 1] = e[2] /\ PathOf(p, i, i)
    BY <1>1 DEF Flow
  <2>3. <<p[i], p[i + 1]>> \in Step(i)
    BY <2>2 DEF PathOf
  <2>4. e = <<e[1], e[2]>>
    BY <2>1 DEF Pairs
  <2> QED
    BY <2>2, <2>3, <2>4
<1>3. Step(i) \subseteq Flow(i, i)
  <2> SUFFICES ASSUME NEW e \in Step(i)
               PROVE  e \in Flow(i, i)
    OBVIOUS
  <2>1. e \in Pairs
    BY StepType
  <2>2. e[1] \in Vars /\ e[2] \in Vars /\ e = <<e[1], e[2]>>
    BY <2>1 DEF Pairs
  <2> DEFINE p == [j \in i..(i + 1) |-> IF j = i THEN e[1] ELSE e[2]]
  <2>3. p \in [i..(i + 1) -> Vars] /\ p[i] = e[1] /\ p[i + 1] = e[2]
    BY <2>2
  <2>4. PathOf(p, i, i)
    <3> SUFFICES ASSUME NEW j \in i..i
                 PROVE  <<p[j], p[j + 1]>> \in Step(j)
      BY DEF PathOf
    <3>1. j = i
      OBVIOUS
    <3> QED
      BY <3>1, <2>2, <2>3
  <2> QED
    BY <1>1, <2>1, <2>3, <2>4 DEF Flow
<1> QED
  BY <1>2, <1>3

(* A flow relates variables to variables. *)
LEMMA FlowType ==
  ASSUME NEW l, NEW r
  PROVE  Flow(l, r) \subseteq Pairs
BY DEF Flow, Identity, setMainDiagonal, Pairs

(* The flow of a range is the composition of the flows of its two parts,   *)
(* wherever it is cut: any tree of products computes the same.             *)
THEOREM FlowSplits ==
  ASSUME NEW l \in Int, NEW m \in Int, NEW r \in Int, l < m, m <= r
  PROVE  Flow(l, r) = spgemm(Flow(l, m - 1), Flow(m, r))
<1>1. ~(r < l) /\ ~(m - 1 < l) /\ ~(r < m) /\ (m - 1) + 1 = m
  OBVIOUS
<1>2. ASSUME NEW e \in Flow(l, r)
      PROVE  e \in spgemm(Flow(l, m - 1), Flow(m, r))
  <2>1. e \in Pairs
    BY FlowType
  <2>2. PICK p \in [l..(r + 1) -> Vars] :
           p[l] = e[1] /\ p[r + 1] = e[2] /\ PathOf(p, l, r)
    BY <1>1 DEF Flow
  <2>3. p[l] \in Vars /\ p[m] \in Vars /\ p[r + 1] \in Vars
    OBVIOUS
  <2> DEFINE p1 == [i \in l..m |-> p[i]]
             p2 == [i \in m..(r + 1) |-> p[i]]
  <2>4. <<p[l], p[m]>> \in Flow(l, m - 1)
    <3>1. p1 \in [l..((m - 1) + 1) -> Vars] /\ p1[l] = p[l] /\ p1[(m - 1) + 1] = p[m]
      BY <1>1
    <3>2. PathOf(p1, l, m - 1)
      <4> SUFFICES ASSUME NEW i \in l..(m - 1)
                   PROVE  <<p1[i], p1[i + 1]>> \in Step(i)
        BY DEF PathOf
      <4>1. i \in l..r /\ i \in l..m /\ i + 1 \in l..m
        OBVIOUS
      <4> QED
        BY <4>1, <2>2 DEF PathOf
    <3> HIDE DEF p1
    <3> QED
      BY <1>1, <2>3, <3>1, <3>2 DEF Flow, Pairs
  <2>5. <<p[m], p[r + 1]>> \in Flow(m, r)
    <3>1. p2 \in [m..(r + 1) -> Vars] /\ p2[m] = p[m] /\ p2[r + 1] = p[r + 1]
      OBVIOUS
    <3>2. PathOf(p2, m, r)
      <4> SUFFICES ASSUME NEW i \in m..r
                   PROVE  <<p2[i], p2[i + 1]>> \in Step(i)
        BY DEF PathOf
      <4>1. i \in l..r /\ i \in m..(r + 1) /\ i + 1 \in m..(r + 1)
        OBVIOUS
      <4> QED
        BY <4>1, <2>2 DEF PathOf
    <3> HIDE DEF p2
    <3> QED
      BY <1>1, <2>3, <3>1, <3>2 DEF Flow, Pairs
  <2> QED
    BY <2>1, <2>2, <2>3, <2>4, <2>5 DEF spgemm
<1>3. ASSUME NEW e \in spgemm(Flow(l, m - 1), Flow(m, r))
      PROVE  e \in Flow(l, r)
  <2>1. e \in Pairs
    BY DEF spgemm
  <2>2. PICK y \in Vars : <<e[1], y>> \in Flow(l, m - 1) /\ <<y, e[2]>> \in Flow(m, r)
    BY DEF spgemm
  <2>3. PICK p1 \in [l..m -> Vars] :
           p1[l] = e[1] /\ p1[m] = y /\ PathOf(p1, l, m - 1)
    BY <1>1, <2>2 DEF Flow
  <2>4. PICK p2 \in [m..(r + 1) -> Vars] :
           p2[m] = y /\ p2[r + 1] = e[2] /\ PathOf(p2, m, r)
    BY <1>1, <2>2 DEF Flow
  <2> DEFINE p == [i \in l..(r + 1) |-> IF i < m THEN p1[i] ELSE p2[i]]
  <2>5. p \in [l..(r + 1) -> Vars] /\ p[l] = e[1] /\ p[r + 1] = e[2]
    BY <2>3, <2>4
  <2>6. PathOf(p, l, r)
    <3> SUFFICES ASSUME NEW i \in l..r
                 PROVE  <<p[i], p[i + 1]>> \in Step(i)
      BY DEF PathOf
    <3>1. CASE i < m - 1
      <4>1. p[i] = p1[i] /\ p[i + 1] = p1[i + 1] /\ i \in l..(m - 1)
        BY <3>1
      <4> QED
        BY <4>1, <2>3 DEF PathOf
    <3>2. CASE i = m - 1
      <4>1. p[i] = p1[i] /\ p[i + 1] = p2[m] /\ i \in l..(m - 1) /\ i + 1 = m
        BY <3>2
      <4> QED
        BY <4>1, <2>3, <2>4 DEF PathOf
    <3>3. CASE m <= i
      <4>1. p[i] = p2[i] /\ p[i + 1] = p2[i + 1] /\ i \in m..r
        BY <3>3
      <4> QED
        BY <4>1, <2>4 DEF PathOf
    <3> QED
      BY <3>1, <3>2, <3>3
  <2> HIDE DEF p
  <2> QED
    BY <1>1, <2>1, <2>5, <2>6 DEF Flow
<1> QED
  BY <1>2, <1>3

-----------------------------------------------------------------------------
(* Splitting a range *)

(* highestPowerOf2 returns the highest bit of its argument.                *)
LEMMA HighestBit ==
  ASSUME NEW x \in 1..ShiftOne(29)
  PROVE  \E k \in 0..30 : /\ highestPowerOf2(x) = ShiftOne(k)
                          /\ ShiftOne(k) <= x /\ x < 2 * ShiftOne(k)
<1> DEFINE Good(k) == ShiftOne(k) <= x /\ x < 2 * ShiftOne(k)
<1>1. \E k \in 0..30 : Good(k)
  <2>1. CASE x < 32768
    <3>1. \/ Good(0) \/ Good(1) \/ Good(2) \/ Good(3) \/ Good(4) \/ Good(5) \/ Good(6)
          \/ Good(7) \/ Good(8) \/ Good(9) \/ Good(10) \/ Good(11) \/ Good(12)
          \/ Good(13) \/ Good(14)
      BY <2>1, SMT DEF ShiftOne, PowersOfTwo
    <3> QED
      BY <3>1
  <2>2. CASE x >= 32768
    <3>1. \/ Good(15) \/ Good(16) \/ Good(17) \/ Good(18) \/ Good(19) \/ Good(20)
          \/ Good(21) \/ Good(22) \/ Good(23) \/ Good(24) \/ Good(25) \/ Good(26)
          \/ Good(27) \/ Good(28) \/ Good(29)
      BY <2>2, SMT DEF ShiftOne, PowersOfTwo
    <3> QED
      BY <3>1
  <2> QED
    BY <2>1, <2>2
<1> DEFINE c == CHOOSE k \in 0..30 : Good(k)
<1>2. c \in 0..30 /\ Good(c)
  BY <1>1
<1>3. highestPowerOf2(x) = ShiftOne(c)
  BY DEF highestPowerOf2
<1> HIDE DEF c
<1> QED
  BY <1>2, <1>3

(* A power of two that an int can hold. *)
LEMMA PowerIsPositive ==
  ASSUME NEW k \in 0..30
  PROVE  ShiftOne(k) \in Nat /\ ShiftOne(k) >= 1
BY SMT DEF ShiftOne, PowersOfTwo

(* The distance of two instructions has a highest bit.                     *)
LEMMA Distance ==
  ASSUME NEW l \in 1..N, NEW r \in 1..N, l < r
  PROVE  r - l \in 1..ShiftOne(29)
<1>1. ShiftOne(29) \in Nat
  BY PowerIsPositive
<1> QED
  BY <1>1, TraceAssumption, TreeAssumption

(* The split of a range leaves two shorter ranges. *)
LEMMA MidInside ==
  ASSUME NEW l \in 1..N, NEW r \in 1..N, l < r
  PROVE  Mid(l, r) \in 1..N /\ l < Mid(l, r) /\ Mid(l, r) <= r
<1>1. r - l \in 1..ShiftOne(29)
  BY Distance
<1>2. highestPowerOf2(r - l) \in 1..(r - l)
  BY <1>1, HighestBit, PowerIsPositive
<1> QED
  BY <1>2, TraceAssumption DEF Mid

-----------------------------------------------------------------------------
(* Shares of the target *)

(* The shares of the two children make up the share of their node. *)
LEMMA ShareSplits ==
  ASSUME NEW t \in Window, t[1] <= t[2],
         NEW l \in 1..N, NEW m \in 1..N, NEW r \in 1..N,
         l < m, m <= r, l <= t[2], t[1] <= r
  PROVE  Share(t, l, r) = spgemm(Share(t, l, m - 1), Share(t, m, r))
<1> DEFINE a == IF l < t[1] THEN t[1] ELSE l
           b == IF t[2] < r THEN t[2] ELSE r
<1>1. t[1] \in 1..N /\ t[2] \in 1..N /\ N \in Nat
  BY TraceAssumption DEF Window
<1>2. a \in Int /\ b \in Int
  BY <1>1
<1>3. Share(t, l, r) = Flow(a, b) /\ Flow(a, b) \in SUBSET Pairs
  BY FlowType DEF Share
<1>4. CASE m <= t[1]
  <2>1. Share(t, m, r) = Flow(a, b)
    BY <1>1, <1>4 DEF Share
  <2>2. Share(t, l, m - 1) = Identity
    BY <1>1, <1>4 DEF Share, Flow
  <2> QED
    BY <1>3, <2>1, <2>2, IdentityNeutral
<1>5. CASE t[2] < m
  <2>1. Share(t, l, m - 1) = Flow(a, b)
    BY <1>1, <1>5 DEF Share
  <2>2. Share(t, m, r) = Identity
    BY <1>1, <1>5 DEF Share, Flow
  <2> QED
    BY <1>3, <2>1, <2>2, IdentityNeutral
<1>6. CASE t[1] < m /\ m <= t[2]
  <2>1. Share(t, l, m - 1) = Flow(a, m - 1)
    BY <1>1, <1>6 DEF Share
  <2>2. Share(t, m, r) = Flow(m, b)
    BY <1>1, <1>6 DEF Share
  <2>3. a < m /\ m <= b
    BY <1>1, <1>6
  <2> HIDE DEF a, b
  <2>4. Flow(a, b) = spgemm(Flow(a, m - 1), Flow(m, b))
    BY <1>2, <2>3, FlowSplits
  <2> QED
    BY <1>3, <2>1, <2>2, <2>4
<1> QED
  BY <1>1, <1>4, <1>5, <1>6

(* A covered range is all share; a range beside the target has none. *)
LEMMA ShareOfCovered ==
  ASSUME NEW t \in Window, NEW l \in 1..N, NEW r \in 1..N, t[1] <= l, r <= t[2]
  PROVE  Share(t, l, r) = Flow(l, r)
<1>1. t[1] \in Int /\ t[2] \in Int
  BY TraceAssumption DEF Window
<1> QED
  BY <1>1, TraceAssumption DEF Share

(* A range beside the target has no share. *)
LEMMA ShareBeside ==
  ASSUME NEW t \in Window, t[1] <= t[2], NEW l \in Int, NEW r \in Int, r < t[1] \/ t[2] < l
  PROVE  Share(t, l, r) = Identity
<1>1. t[1] \in Int /\ t[2] \in Int
  BY TraceAssumption DEF Window
<1> QED
  BY <1>1 DEF Share, Flow

(* Nothing is known of no matrix. *)
LEMMA NoMatrixType == NoMatrix \in Matrix /\ Meaning(NoMatrix) = Identity
<1>1. NoMatrix \in Matrix
  BY DEF NoMatrix, Matrix
<1>2. Invalid(NoMatrix)
  BY DEF NoMatrix, Invalid
<1> QED
  BY <1>1, <1>2, InvalidIsIdentity

(* A row that is loaded means what it meant in the table. *)
LEMMA LoadedMeansRow ==
  ASSUME NEW r \in DBRow
  PROVE  LoadToDevice(r) \in Matrix /\ Meaning(LoadToDevice(r)) = Meaning(r)
BY DEF DBRow, LoadToDevice, Matrix, Meaning

(* A matrix is stored as it is. *)
LEMMA StoredMeansMatrix ==
  ASSUME NEW A \in Matrix, NEW l \in 1..N, NEW r \in 1..N
  PROVE  /\ KeyedRow(l, r, A) \in DBRow
         /\ Meaning(KeyedRow(l, r, A)) = Meaning(A)
BY DEF DBRow, KeyedRow, Matrix, Meaning

-----------------------------------------------------------------------------
(* What each step of a recursion makes of its frame *)

(* Rules that arrive later do not upset a frame. *)
LEMMA FrameMono ==
  ASSUME NEW f \in Frame, NEW t, NEW n \in Int, NEW k \in Int, n <= k, FrameOK(f, t, n)
  PROVE  FrameOK(f, t, k)
BY TraceAssumption DEF FrameOK, Frame

(* A call is a frame. *)
LEMMA CallType ==
  ASSUME NEW op \in {"build", "query"}, NEW l \in 1..N, NEW r \in 1..N
  PROVE  Call(op, l, r) \in Frame
BY NoMatrixType DEF Call, Frame

(* A new call has accounted for nothing. *)
LEMMA CallOK ==
  ASSUME NEW op \in {"build", "query"}, NEW l \in 1..N, NEW r \in 1..N, NEW t, NEW n,
         l <= r, r <= n, l <= t[2], t[1] <= r,
         op = "build" => t[1] <= l /\ r <= t[2]
  PROVE  FrameOK(Call(op, l, r), t, n)
BY DEF FrameOK, Call

(* A frame that is found in the table, or has no rule, is done. *)
LEMMA LoadedFrame ==
  ASSUME NEW f \in Frame, NEW t, NEW n, FrameOK(f, t, n), f.pc = "load",
         NEW A \in Matrix, Meaning(A) = Share(t, f.left, f.right)
  PROVE  LET g == [f EXCEPT !.pc = "done", !.res = A]
         IN  g \in Frame /\ FrameOK(g, t, n)
BY DEF FrameOK, Frame

(* A frame that is not found goes on with its children. *)
LEMMA SplitFrame ==
  ASSUME NEW f \in Frame, NEW t, NEW n, FrameOK(f, t, n), f.pc = "load", f.left < f.right
  PROVE  LET g == [f EXCEPT !.pc = "callLeft"]
         IN  g \in Frame /\ FrameOK(g, t, n)
BY DEF FrameOK, Frame

(* A frame waits for its left child. *)
LEMMA CallingLeft ==
  ASSUME NEW f \in Frame, NEW t, NEW n, FrameOK(f, t, n), f.pc = "callLeft"
  PROVE  LET g == [f EXCEPT !.pc = "left"]
         IN  g \in Frame /\ FrameOK(g, t, n)
BY DEF FrameOK, Frame

(* A frame waits for its right child. *)
LEMMA CallingRight ==
  ASSUME NEW f \in Frame, NEW t, NEW n, FrameOK(f, t, n), f.pc = "callRight"
  PROVE  LET g == [f EXCEPT !.pc = "right"]
         IN  g \in Frame /\ FrameOK(g, t, n)
BY DEF FrameOK, Frame

(* The left child is in: it was called and returned A, or it lies beside   *)
(* the target and A is no matrix.                                          *)
LEMMA LeftIn ==
  ASSUME NEW f \in Frame, NEW t, NEW n, FrameOK(f, t, n), f.pc \in {"callLeft", "left"},
         NEW A \in Matrix, Meaning(A) = Share(t, f.left, Mid(f.left, f.right) - 1)
  PROVE  LET g == [f EXCEPT !.pc = "callRight", !.lres = A]
         IN  g \in Frame /\ FrameOK(g, t, n)
BY DEF FrameOK, Frame

(* The right child is in, or lies beside the target. *)
LEMMA RightIn ==
  ASSUME NEW f \in Frame, NEW t, NEW n, FrameOK(f, t, n), f.pc \in {"callRight", "right"},
         NEW A \in Matrix, Meaning(A) = Share(t, Mid(f.left, f.right), f.right)
  PROVE  LET g == [f EXCEPT !.pc = "join", !.rres = A]
         IN  g \in Frame /\ FrameOK(g, t, n)
BY DEF FrameOK, Frame

(* Where the halves of a node lie. *)
LEMMA Halves ==
  ASSUME NEW f \in Frame, NEW t, NEW n, FrameOK(f, t, n), f.left < f.right
  PROVE  LET m == Mid(f.left, f.right)
         IN  m \in 1..N /\ m - 1 \in 1..N /\ f.left <= m - 1 /\ f.left < m /\ m <= f.right
<1>1. f.left \in 1..N /\ f.right \in 1..N
  BY DEF Frame
<1> QED
  BY <1>1, MidInside, TraceAssumption

(* Joining keeps the account, whichever of the children are invalid. *)
LEMMA JoinedFrame ==
  ASSUME NEW f \in Frame, NEW t \in Window, t[1] <= t[2], NEW n, FrameOK(f, t, n),
         f.pc = "join"
  PROVE  /\ Joined(f) \in Frame /\ FrameOK(Joined(f), t, n)
         /\ Joined(f).left = f.left /\ Joined(f).right = f.right
         /\ Joined(f).pc \in {"done", "storeLeft"}
<1> DEFINE m == Mid(f.left, f.right)
           S == Share(t, f.left, f.right)
<1>1. /\ f.left \in 1..N /\ f.right \in 1..N /\ f.left < f.right
      /\ f.left <= t[2] /\ t[1] <= f.right
      /\ f.lres \in Matrix /\ f.rres \in Matrix
      /\ Meaning(f.lres) = Share(t, f.left, m - 1)
      /\ Meaning(f.rres) = Share(t, m, f.right)
  BY DEF Frame, FrameOK
<1>2. m \in 1..N /\ f.left < m /\ m <= f.right
  BY <1>1, MidInside
<1>3. S = spgemm(Meaning(f.lres), Meaning(f.rres))
  BY <1>1, <1>2, ShareSplits
<1>4. Meaning(f.lres) \in SUBSET Pairs /\ Meaning(f.rres) \in SUBSET Pairs
  BY <1>1, FlowType DEF Share
<1>5. CASE Invalid(f.lres)
  <2>1. Joined(f) = [f EXCEPT !.pc = "done", !.res = f.rres]
    BY <1>5 DEF Joined
  <2>2. Meaning(f.rres) = S
    BY <1>1, <1>3, <1>4, <1>5, InvalidIsIdentity, IdentityNeutral
  <2> QED
    BY <2>1, <2>2, <1>1 DEF Frame, FrameOK
<1>6. CASE ~Invalid(f.lres) /\ Invalid(f.rres)
  <2>1. Joined(f) = [f EXCEPT !.pc = "done", !.res = f.lres]
    BY <1>6 DEF Joined
  <2>2. Meaning(f.lres) = S
    BY <1>1, <1>3, <1>4, <1>6, InvalidIsIdentity, IdentityNeutral
  <2> QED
    BY <2>1, <2>2, <1>1 DEF Frame, FrameOK
<1>7. CASE ~Invalid(f.lres) /\ ~Invalid(f.rres)
  <2> DEFINE P == AlignAndMultiply(f.lres, f.rres)
  <2>1. Joined(f) = [f EXCEPT !.pc = IF f.op = "build" THEN "storeLeft" ELSE "done",
                              !.res = P]
    BY <1>7 DEF Joined
  <2>2. P \in Matrix /\ Meaning(P) = S
    BY <1>1, <1>3, AlignedProductComposes
  <2> HIDE DEF P
  <2> QED
    BY <2>1, <2>2, <1>1 DEF Frame, FrameOK
<1> QED
  BY <1>5, <1>6, <1>7

(* Storing the children changes nothing of the account. *)
LEMMA StoringFrame ==
  ASSUME NEW f \in Frame, NEW t, NEW n, FrameOK(f, t, n), f.pc \in {"storeLeft", "storeRight"},
         NEW pc \in {"storeRight", "done"}
  PROVE  LET g == [f EXCEPT !.pc = pc]
         IN  g \in Frame /\ FrameOK(g, t, n)
BY DEF FrameOK, Frame

-----------------------------------------------------------------------------
(* Stacks: the running call changes, makes a call, or returns *)

SameNode(f, g) == g.left = f.left /\ g.right = f.right

Running(f) == f.pc \notin {"left", "right"}

GoodStack(s, w, t, n) == s \in Seq(Frame) /\ s # <<>> /\ StackOK(s, w, t, n)

(* The frame on top of a good stack runs. *)
LEMMA TopFrame ==
  ASSUME NEW w, NEW t, NEW n, NEW s, GoodStack(s, w, t, n)
  PROVE  /\ Len(s) \in Nat \ {0} /\ s[Len(s)] \in Frame
         /\ FrameOK(s[Len(s)], t, n) /\ Running(s[Len(s)])
BY DEF GoodStack, StackOK, Running

(* Rules that arrive later do not upset a stack. *)
LEMMA StackMono ==
  ASSUME NEW w, NEW t, NEW n \in Int, NEW k \in Int, n <= k,
         NEW s, GoodStack(s, w, t, n)
  PROVE  StackOK(s, w, t, k)
<1>1. \A i \in 1..Len(s) : s[i] \in Frame
  BY DEF GoodStack
<1> QED
  BY <1>1, FrameMono DEF GoodStack, StackOK

(* The outermost call makes a good stack. *)
LEMMA FirstCall ==
  ASSUME NEW w, NEW t, NEW n, NEW g \in Frame, FrameOK(g, t, n), Running(g),
         g.left = w[1], g.right = w[2]
  PROVE  GoodStack(<<g>>, w, t, n)
<1>1. <<g>> \in Seq(Frame) /\ Len(<<g>>) = 1 /\ <<g>>[1] = g
  OBVIOUS
<1> QED
  BY <1>1 DEF GoodStack, StackOK, Running

(* The running frame changes but stays on its node. *)
LEMMA TopStep ==
  ASSUME NEW w, NEW t, NEW n, NEW s, GoodStack(s, w, t, n),
         NEW g \in Frame, FrameOK(g, t, n), Running(g), SameNode(s[Len(s)], g)
  PROVE  GoodStack([s EXCEPT ![Len(s)] = g], w, t, n)
<1> DEFINE u == [s EXCEPT ![Len(s)] = g]
<1>1. /\ u \in Seq(Frame) /\ Len(u) = Len(s) /\ Len(s) \in Nat \ {0} /\ u[Len(s)] = g
      /\ \A i \in 1..(Len(s) - 1) : u[i] = s[i]
  BY DEF GoodStack
<1> HIDE DEF u
<1>2. \A i \in 1..Len(u) : FrameOK(u[i], t, n)
  <2> SUFFICES ASSUME NEW i \in 1..Len(s)
               PROVE  FrameOK(u[i], t, n)
    BY <1>1
  <2>1. CASE i = Len(s)
    BY <2>1, <1>1
  <2>2. CASE i \in 1..(Len(s) - 1)
    BY <2>2, <1>1 DEF GoodStack, StackOK
  <2> QED
    BY <1>1, <2>1, <2>2
<1>3. \A i \in 1..(Len(u) - 1) : Waits(u[i], u[i + 1])
  <2> SUFFICES ASSUME NEW i \in 1..(Len(s) - 1)
               PROVE  Waits(u[i], u[i + 1])
    BY <1>1
  <2>1. Waits(s[i], s[i + 1]) /\ u[i] = s[i]
    BY <1>1 DEF GoodStack, StackOK
  <2>2. SameNode(s[i + 1], u[i + 1])
    <3>1. CASE i + 1 = Len(s)
      BY <3>1, <1>1
    <3>2. CASE i + 1 \in 1..(Len(s) - 1)
      BY <3>2, <1>1 DEF SameNode
    <3> QED
      BY <1>1, <3>1, <3>2
  <2> QED
    BY <2>1, <2>2 DEF Waits, SameNode
<1>4. SameNode(s[1], u[1])
  <2>1. CASE Len(s) = 1
    BY <2>1, <1>1
  <2>2. CASE Len(s) > 1
    BY <2>2, <1>1 DEF SameNode
  <2> QED
    BY <1>1, <2>1, <2>2
<1> QED
  BY <1>1, <1>2, <1>3, <1>4 DEF GoodStack, StackOK, Running, SameNode

(* The running frame waits, and the call it makes runs. *)
LEMMA CallStep ==
  ASSUME NEW w, NEW t, NEW n, NEW s, GoodStack(s, w, t, n),
         NEW f \in Frame, FrameOK(f, t, n), SameNode(s[Len(s)], f),
         NEW g \in Frame, FrameOK(g, t, n), Running(g), Waits(f, g)
  PROVE  GoodStack(Append([s EXCEPT ![Len(s)] = f], g), w, t, n)
<1> DEFINE L == Len(s)
           u == Append([s EXCEPT ![Len(s)] = f], g)
<1>1. /\ u \in Seq(Frame) /\ Len(u) = L + 1 /\ L \in Nat \ {0}
      /\ u[L] = f /\ u[L + 1] = g
      /\ \A i \in 1..(L - 1) : u[i] = s[i]
  BY DEF GoodStack
<1> HIDE DEF u
<1>2. \A i \in 1..Len(u) : FrameOK(u[i], t, n)
  <2> SUFFICES ASSUME NEW i \in 1..(L + 1)
               PROVE  FrameOK(u[i], t, n)
    BY <1>1
  <2>1. CASE i \in 1..(L - 1)
    BY <2>1, <1>1 DEF GoodStack, StackOK
  <2>2. CASE i = L
    BY <2>2, <1>1
  <2>3. CASE i = L + 1
    BY <2>3, <1>1
  <2> QED
    BY <1>1, <2>1, <2>2, <2>3
<1>3. \A i \in 1..(Len(u) - 1) : Waits(u[i], u[i + 1])
  <2> SUFFICES ASSUME NEW i \in 1..L
               PROVE  Waits(u[i], u[i + 1])
    BY <1>1
  <2>1. CASE i = L
    BY <2>1, <1>1
  <2>2. CASE i \in 1..(L - 1)
    <3>1. Waits(s[i], s[i + 1]) /\ u[i] = s[i]
      BY <2>2, <1>1 DEF GoodStack, StackOK
    <3>2. SameNode(s[i + 1], u[i + 1])
      BY <2>2, <1>1 DEF SameNode
    <3> QED
      BY <3>1, <3>2 DEF Waits, SameNode
  <2> QED
    BY <1>1, <2>1, <2>2
<1>4. SameNode(s[1], u[1])
  BY <1>1 DEF SameNode
<1> QED
  BY <1>1, <1>2, <1>3, <1>4 DEF GoodStack, StackOK, Running, SameNode

(* The running frame is gone, and its caller runs again. *)
LEMMA ReturnStep ==
  ASSUME NEW w, NEW t, NEW n, NEW s, GoodStack(s, w, t, n), Len(s) > 1,
         NEW f \in Frame, FrameOK(f, t, n), Running(f), SameNode(s[Len(s) - 1], f)
  PROVE  GoodStack(Append(SubSeq(s, 1, Len(s) - 2), f), w, t, n)
<1> DEFINE L == Len(s)
           u == Append(SubSeq(s, 1, Len(s) - 2), f)
<1>0. L \in Nat /\ L > 1 /\ s \in Seq(Frame)
  BY DEF GoodStack
<1>1. /\ u \in Seq(Frame) /\ Len(u) = L - 1 /\ u[L - 1] = f
      /\ \A i \in 1..(L - 2) : u[i] = s[i]
  <2> DEFINE h == SubSeq(s, 1, L - 2)
  <2>1. h \in Seq(Frame) /\ Len(h) = L - 2 /\ \A i \in 1..(L - 2) : h[i] = s[i]
    <3>1. \A i \in 1..(L - 2) : s[i] \in Frame
      BY <1>0
    <3>2. L - 2 \in Int /\ L - 2 >= 0 /\ L - 2 = (L - 2) - 1 + 1
      BY <1>0
    <3> HIDE DEF L
    <3>3. /\ h \in Seq(Frame)
          /\ Len(h) = IF 1 <= L - 2 THEN L - 2 - 1 + 1 ELSE 0
          /\ \A i \in 1..(L - 2 - 1 + 1) : h[i] = s[1 + i - 1]
      BY <3>1, <3>2, SubSeqProperties
    <3> HIDE DEF h
    <3> QED
      BY <3>2, <3>3
  <2> HIDE DEF h
  <2>2. u = Append(h, f)
    BY DEF h
  <2> HIDE DEF u
  <2> QED
    BY <1>0, <2>1, <2>2
<1> HIDE DEF u
<1>2. \A i \in 1..Len(u) : FrameOK(u[i], t, n)
  <2> SUFFICES ASSUME NEW i \in 1..(L - 1)
               PROVE  FrameOK(u[i], t, n)
    BY <1>1
  <2>1. CASE i \in 1..(L - 2)
    BY <2>1, <1>0, <1>1 DEF GoodStack, StackOK
  <2>2. CASE i = L - 1
    BY <2>2, <1>1
  <2> QED
    BY <1>0, <2>1, <2>2
<1>3. \A i \in 1..(Len(u) - 1) : Waits(u[i], u[i + 1])
  <2> SUFFICES ASSUME NEW i \in 1..(L - 2)
               PROVE  Waits(u[i], u[i + 1])
    BY <1>1
  <2>1. Waits(s[i], s[i + 1]) /\ u[i] = s[i]
    BY <1>0, <1>1 DEF GoodStack, StackOK
  <2>2. SameNode(s[i + 1], u[i + 1])
    <3>1. CASE i = L - 2
      <4>1. i + 1 = L - 1
        BY <3>1, <1>0
      <4> QED
        BY <4>1, <1>1
    <3>2. CASE i + 1 \in 1..(L - 2)
      BY <3>2, <1>1 DEF SameNode
    <3> QED
      BY <1>0, <3>1, <3>2
  <2> QED
    BY <2>1, <2>2 DEF Waits, SameNode
<1>4. SameNode(s[1], u[1])
  <2>1. CASE L = 2
    BY <2>1, <1>1
  <2>2. CASE L > 2
    BY <2>2, <1>0, <1>1 DEF SameNode
  <2>3. L = 2 \/ L > 2
    <3> HIDE DEF L
    <3> QED
      BY <1>0
  <2> QED
    BY <2>1, <2>2, <2>3
<1>5. u # <<>> /\ u[Len(u)] = f
  BY <1>0, <1>1
<1>6. u[1].left = w[1] /\ u[1].right = w[2]
  BY <1>4 DEF GoodStack, StackOK, SameNode
<1>7. u[Len(u)].pc \notin {"left", "right"}
  BY <1>5 DEF Running
<1>8. StackOK(u, w, t, n)
  BY <1>2, <1>3, <1>6, <1>7 DEF StackOK
<1>9. GoodStack(u, w, t, n)
  BY <1>1, <1>5, <1>8 DEF GoodStack
<1> QED
  BY <1>9 DEF u

-----------------------------------------------------------------------------
(* A step of one process leaves the others as they are *)

Untouched(q) ==
  /\ mode'[q] = mode[q] /\ span'[q] = span[q] /\ target'[q] = target[q]
  /\ stack'[q] = stack[q] /\ buffer'[q] = buffer[q]
  /\ outcome'[q] = outcome[q] /\ reply'[q] = reply[q]

(* A process that is left alone stays as it was. *)
LEMMA UntouchedOK ==
  ASSUME NEW q \in Proc, ProcOK(q), Untouched(q), loaded' = loaded
  PROVE  ProcOK(q)'
BY DEF ProcOK, Untouched

(* A step of one process that keeps the table sound. *)
LEMMA ProcStep ==
  ASSUME IInv, NEW p \in Proc,
         TypeOK', loaded' = loaded, db \subseteq db', \A r \in db' : RowOK(r, loaded),
         \A q \in Proc \ {p} : Untouched(q), ProcOK(p)'
  PROVE  IInv'
<1>1. TableOK'
  BY DEF IInv, TableOK
<1>2. ASSUME NEW q \in Proc
      PROVE  ProcOK(q)'
  BY UntouchedOK DEF IInv
<1> QED
  BY <1>1, <1>2 DEF IInv

(* A running call is a good stack, for a target inside of the tree. *)
LEMMA RunningProc ==
  ASSUME IInv, NEW p \in Proc, stack[p] # <<>>
  PROVE  /\ GoodStack(stack[p], span[p], target[p], loaded)
         /\ loaded \in Nat /\ span[p] \in Window
         /\ target[p] \in Window /\ target[p][1] <= target[p][2]
         /\ mode[p] \in {"build", "query"}
         /\ mode[p] = "build" => target[p] = span[p]
         /\ span[p][1] <= target[p][1] /\ target[p][2] <= span[p][2] /\ span[p][2] <= loaded
BY DEF IInv, TypeOK, ProcOK, GoodStack

(* The steps that only move p's stack. *)
LEMMA StackStep ==
  ASSUME IInv, NEW p \in Proc, stack[p] # <<>>,
         NEW s, GoodStack(s, span[p], target[p], loaded),
         stack' = [stack EXCEPT ![p] = s],
         UNCHANGED <<db, loaded, mode, level, span, target, buffer, outcome, reply>>
  PROVE  IInv'
<1>1. TypeOK'
  BY DEF IInv, TypeOK, GoodStack
<1>2. \A q \in Proc \ {p} : Untouched(q)
  BY DEF Untouched, IInv, TypeOK
<1>3. stack'[p] = s
  BY DEF IInv, TypeOK
<1>4. ProcOK(p)
  BY DEF IInv
<1>5. ProcOK(p)'
  BY <1>3, <1>4 DEF ProcOK, GoodStack
<1>6. \A r \in db' : RowOK(r, loaded)
  BY DEF IInv, TableOK
<1> QED
  BY <1>1, <1>2, <1>5, <1>6, ProcStep

(* The steps that store a product, or free it, and move the stack. *)
LEMMA StoreRows ==
  ASSUME IInv, NEW p \in Proc, NEW l \in 1..N, NEW r \in 1..N, NEW A \in Matrix, NEW stores,
         RowOK(KeyedRow(l, r, A), loaded), StoreOrFree(p, l, r, A, stores)
  PROVE  /\ db \subseteq db' /\ db' \in SUBSET DBRow /\ \A x \in db' : RowOK(x, loaded)
         /\ \E b \in Seq(DBRow) : /\ buffer' = [buffer EXCEPT ![p] = b]
                                  /\ \A i \in 1..Len(b) : RowOK(b[i], loaded)
<1> DEFINE row == KeyedRow(l, r, A)
           rows == Append(buffer[p], row)
<1>1. /\ db \in SUBSET DBRow /\ \A x \in db : RowOK(x, loaded)
      /\ buffer \in [Proc -> Seq(DBRow)] /\ buffer[p] \in Seq(DBRow)
      /\ \A i \in 1..Len(buffer[p]) : RowOK(buffer[p][i], loaded)
  BY DEF IInv, TypeOK, TableOK, ProcOK
<1>2. row \in DBRow /\ RowOK(row, loaded)
  BY StoredMeansMatrix
<1> HIDE DEF row
<1>3. rows \in Seq(DBRow) /\ \A i \in 1..Len(rows) : RowOK(rows[i], loaded)
  BY <1>1, <1>2
<1> HIDE DEF rows
<1>4. CASE UNCHANGED <<db, buffer>>
  <2>1. buffer' = [buffer EXCEPT ![p] = buffer[p]]
    BY <1>1, <1>4
  <2> QED
    BY <1>1, <1>4, <2>1
<1>5. CASE buffer' = [buffer EXCEPT ![p] = rows] /\ UNCHANGED db
  BY <1>1, <1>3, <1>5
<1>6. CASE db' = InsertOrIgnore(db, rows) /\ buffer' = [buffer EXCEPT ![p] = <<>>]
  <2>1. db \subseteq db' /\ \A x \in db' : x \in db \/ \E i \in 1..Len(rows) : x = rows[i]
    BY <1>6 DEF InsertOrIgnore
  <2>2. db' \in SUBSET DBRow /\ \A x \in db' : RowOK(x, loaded)
    BY <1>1, <1>3, <2>1
  <2>3. <<>> \in Seq(DBRow) /\ \A i \in 1..Len(<<>>) : RowOK(<<>>[i], loaded)
    OBVIOUS
  <2> QED
    BY <1>6, <2>1, <2>2, <2>3
<1> QED
  BY <1>4, <1>5, <1>6 DEF StoreOrFree, StoreFromDevice, Commit, rows, row

-----------------------------------------------------------------------------
(* The steps of the recursions *)

(* The frame on top stays on its node and keeps its account. *)
LEMMA SetTopStep ==
  ASSUME IInv, NEW p \in Proc, stack[p] # <<>>,
         NEW g \in Frame, FrameOK(g, target[p], loaded), Running(g), SameNode(Top(p), g),
         SetTop(p, g),
         UNCHANGED <<db, loaded, mode, level, span, target, buffer, outcome, reply>>
  PROVE  IInv'
<1>1. GoodStack([stack[p] EXCEPT ![Len(stack[p])] = g], span[p], target[p], loaded)
  BY RunningProc, TopStep DEF Top
<1>2. stack' = [stack EXCEPT ![p] = [stack[p] EXCEPT ![Len(stack[p])] = g]]
  BY DEF SetTop
<1> QED
  BY <1>1, <1>2, StackStep

(* A call of a child is a new frame on the stack. *)
LEMMA CallFromStep ==
  ASSUME IInv, NEW p \in Proc, stack[p] # <<>>,
         NEW f \in Frame, FrameOK(f, target[p], loaded), SameNode(Top(p), f),
         NEW g \in Frame, FrameOK(g, target[p], loaded), Running(g), Waits(f, g),
         CallFrom(p, f, g),
         UNCHANGED <<db, loaded, mode, level, span, target, buffer, outcome, reply>>
  PROVE  IInv'
<1> DEFINE s == Append([stack[p] EXCEPT ![Len(stack[p])] = f], g)
<1>1. GoodStack(s, span[p], target[p], loaded)
  BY RunningProc, CallStep DEF Top
<1>2. stack' = [stack EXCEPT ![p] = s]
  BY DEF CallFrom
<1> HIDE DEF s
<1> QED
  BY <1>1, <1>2, StackStep

(* A return is a frame less. *)
LEMMA ReturnToStep ==
  ASSUME IInv, NEW p \in Proc, stack[p] # <<>>, Len(stack[p]) > 1,
         NEW f \in Frame, FrameOK(f, target[p], loaded), Running(f), SameNode(Caller(p), f),
         ReturnTo(p, f),
         UNCHANGED <<db, loaded, mode, level, span, target, buffer, outcome, reply>>
  PROVE  IInv'
<1> DEFINE s == Append(SubSeq(stack[p], 1, Len(stack[p]) - 2), f)
<1>1. GoodStack(s, span[p], target[p], loaded)
  BY RunningProc, ReturnStep DEF Caller
<1>2. stack' = [stack EXCEPT ![p] = s]
  BY DEF ReturnTo
<1> HIDE DEF s
<1> QED
  BY <1>1, <1>2, StackStep

(* What is known of the frame on top. *)
LEMMA TopOf ==
  ASSUME IInv, NEW p \in Proc, stack[p] # <<>>
  PROVE  /\ Top(p) \in Frame /\ FrameOK(Top(p), target[p], loaded) /\ Running(Top(p))
         /\ Top(p).left \in 1..N /\ Top(p).right \in 1..N
         /\ Top(p).op \in {"build", "query"}
         /\ Top(p).left <= Top(p).right /\ Top(p).right <= loaded
         /\ Top(p).left <= target[p][2] /\ target[p][1] <= Top(p).right
         /\ Top(p).op = "build" =>
              target[p][1] <= Top(p).left /\ Top(p).right <= target[p][2]
         /\ target[p][1] \in 1..N /\ target[p][2] \in 1..N
<1>1. Top(p) \in Frame /\ FrameOK(Top(p), target[p], loaded) /\ Running(Top(p))
  BY RunningProc, TopFrame DEF Top
<1>2. target[p] \in Window
  BY RunningProc
<1> QED
  BY <1>1, <1>2 DEF Frame, FrameOK, Window

(* A cached node is the share of its range; a missing rule is the          *)
(* identity.                                                               *)
LEMMA LoadNodeKeeps ==
  ASSUME IInv, NEW p \in Proc, LoadNode(p)
  PROVE  IInv'
<1> DEFINE f == Top(p)
           t == target[p]
<1>1. stack[p] # <<>> /\ f.pc = "load" /\ (f.op = "build" \/ Covered(p, f))
  BY DEF LoadNode, At
<1>2. /\ f \in Frame /\ FrameOK(f, t, loaded)
      /\ f.left \in 1..N /\ f.right \in 1..N
      /\ f.op \in {"build", "query"}
      /\ f.left <= f.right /\ f.right <= loaded
      /\ f.left <= t[2] /\ t[1] <= f.right
      /\ t[1] <= f.left /\ f.right <= t[2] /\ t \in Window
  BY <1>1, TopOf, RunningProc DEF Covered
<1>3. UNCHANGED <<db, loaded, mode, level, span, target, buffer, outcome, reply>>
  BY DEF LoadNode
<1>4. Share(t, f.left, f.right) = Flow(f.left, f.right)
  BY <1>2, ShareOfCovered
<1>5. ASSUME NEW x \in Stored(f.left, f.right),
             SetTop(p, [f EXCEPT !.pc = "done", !.res = LoadToDevice(x)])
      PROVE  IInv'
  <2>1. x \in DBRow /\ Meaning(x) = Flow(f.left, f.right)
    BY DEF Stored, Key, IInv, TypeOK, TableOK, RowOK
  <2>2. LoadToDevice(x) \in Matrix /\ Meaning(LoadToDevice(x)) = Share(t, f.left, f.right)
    BY <2>1, <1>4, LoadedMeansRow
  <2> DEFINE g == [f EXCEPT !.pc = "done", !.res = LoadToDevice(x)]
  <2>3. g \in Frame /\ FrameOK(g, t, loaded)
    BY <1>1, <1>2, <2>2, LoadedFrame
  <2>4. Running(g) /\ SameNode(f, g)
    BY <1>2 DEF Frame, Running, SameNode
  <2> HIDE DEF g
  <2> QED
    BY <1>1, <1>3, <1>5, <2>3, <2>4, SetTopStep DEF g
<1>6. ASSUME Stored(f.left, f.right) = {}, f.left = f.right, SetTop(p, [f EXCEPT !.pc = "done"])
      PROVE  IInv'
  <2>1. f.left \notin DOMAIN Rules
    BY <1>2, <1>6 DEF Stored, Key, IInv, TableOK
  <2>2. Flow(f.left, f.right) = Identity
    BY <1>2, <1>6, <2>1, FlowOfOne DEF Step
  <2>3. NoMatrix \in Matrix /\ Meaning(NoMatrix) = Share(t, f.left, f.right)
    BY <1>4, <2>2, NoMatrixType
  <2> DEFINE g == [f EXCEPT !.pc = "done", !.res = NoMatrix]
  <2>4. g \in Frame /\ FrameOK(g, t, loaded)
    BY <1>1, <1>2, <2>3, LoadedFrame
  <2>5. g = [f EXCEPT !.pc = "done"]
    BY <1>1, <1>2 DEF Frame, FrameOK
  <2>6. Running(g) /\ SameNode(f, g)
    BY <1>2 DEF Frame, Running, SameNode
  <2> HIDE DEF g
  <2> QED
    BY <1>1, <1>3, <1>6, <2>4, <2>5, <2>6, SetTopStep
<1>7. ASSUME f.left < f.right, SetTop(p, MissedNode(f))
      PROVE  IInv'
  <2> DEFINE g == MissedNode(f)
  <2>1. g \in Frame /\ FrameOK(g, t, loaded)
    <3>1. CASE f.op = "build"
      BY <1>1, <1>2, <1>7, <3>1, SplitFrame DEF MissedNode
    <3>2. CASE f.op # "build"
      BY <1>1, <1>2, <3>2, CallType, CallOK DEF MissedNode
    <3> QED
      BY <3>1, <3>2
  <2>2. Running(g) /\ SameNode(f, g)
    BY <1>2 DEF Frame, Running, SameNode, MissedNode, Call
  <2> HIDE DEF g
  <2> QED
    BY <1>1, <1>3, <1>7, <2>1, <2>2, SetTopStep DEF g
<1> QED
  BY <1>5, <1>6, <1>7 DEF LoadNode

(* A node that sticks out of the target has two children. *)
LEMMA OverlapNodeKeeps ==
  ASSUME IInv, NEW p \in Proc, OverlapNode(p)
  PROVE  IInv'
<1> DEFINE f == Top(p)
           g == [f EXCEPT !.pc = "callLeft"]
<1>1. stack[p] # <<>> /\ f.pc = "load" /\ ~Covered(p, f) /\ SetTop(p, g)
  BY DEF OverlapNode, At
<1>2. f \in Frame /\ FrameOK(f, target[p], loaded)
  BY <1>1, TopOf
<1>3. f.left < f.right
  BY <1>1, TopOf DEF Covered
<1>4. g \in Frame /\ FrameOK(g, target[p], loaded)
  BY <1>1, <1>2, <1>3, SplitFrame
<1>5. Running(g) /\ SameNode(f, g)
  BY <1>2 DEF Frame, Running, SameNode
<1>6. UNCHANGED <<db, loaded, mode, level, span, target, buffer, outcome, reply>>
  BY DEF OverlapNode
<1> HIDE DEF g
<1> QED
  BY <1>1, <1>4, <1>5, <1>6, SetTopStep

(* A frame between its calls is above two halves. *)
LEMMA TopHalves ==
  ASSUME IInv, NEW p \in Proc, stack[p] # <<>>, Top(p).pc \notin {"load", "done"}
  PROVE  LET m == Mid(Top(p).left, Top(p).right)
         IN  /\ m \in 1..N /\ m - 1 \in 1..N
             /\ Top(p).left <= m - 1 /\ Top(p).left < m /\ m <= Top(p).right
<1>1. Top(p) \in Frame /\ FrameOK(Top(p), target[p], loaded)
  BY TopOf
<1>2. Top(p).left < Top(p).right
  BY <1>1 DEF FrameOK
<1> QED
  BY <1>1, <1>2, Halves

(* The left child is called, or lies beside the target. *)
LEMMA CallLeftKeeps ==
  ASSUME IInv, NEW p \in Proc, CallLeft(p)
  PROVE  IInv'
<1> DEFINE f == Top(p)
           m == Mid(f.left, f.right)
           t == target[p]
<1>1. stack[p] # <<>> /\ f.pc = "callLeft"
  BY DEF CallLeft, At
<1>2. UNCHANGED <<db, loaded, mode, level, span, target, buffer, outcome, reply>>
  BY DEF CallLeft
<1>3. f \in Frame /\ FrameOK(f, t, loaded) /\ f.op \in {"build", "query"}
  BY <1>1, TopOf
<1>4. m - 1 \in 1..N /\ f.left <= m - 1 /\ m <= f.right /\ m \in 1..N
  BY <1>1, TopHalves
<1>5. CASE VisitsLeft(p, f)
  <2> DEFINE g == [f EXCEPT !.pc = "left"]
  <2>1. g \in Frame /\ FrameOK(g, t, loaded)
    BY <1>1, <1>3, CallingLeft
  <2>2. LeftChild(f) \in Frame
    BY <1>1, <1>3, <1>4, TopOf, CallType DEF LeftChild
  <2>3. FrameOK(LeftChild(f), t, loaded)
    <3>1. /\ m - 1 <= loaded /\ f.left <= t[2] /\ t[1] <= m - 1
          /\ f.op = "build" => t[1] <= f.left /\ m - 1 <= t[2]
          /\ f.left \in 1..N
      BY <1>1, <1>4, <1>5, TopOf, RunningProc DEF VisitsLeft
    <3> HIDE DEF f, m, t
    <3> QED
      BY <1>3, <1>4, <3>1, CallOK DEF LeftChild, m
  <2>4. SameNode(f, g) /\ Running(LeftChild(f)) /\ Waits(g, LeftChild(f))
    BY <1>3 DEF Frame, Running, SameNode, Waits, LeftChild, Call
  <2>5. CallFrom(p, g, LeftChild(f))
    BY <1>5 DEF CallLeft
  <2> HIDE DEF g
  <2> QED
    BY <1>1, <1>2, <2>1, <2>2, <2>3, <2>4, <2>5, CallFromStep
<1>6. CASE ~VisitsLeft(p, f)
  <2> DEFINE g == [f EXCEPT !.pc = "callRight", !.lres = NoMatrix]
  <2>1. Share(t, f.left, m - 1) = Identity
    BY <1>1, <1>3, <1>4, <1>6, TopOf, RunningProc, ShareBeside DEF VisitsLeft
  <2>2. g \in Frame /\ FrameOK(g, t, loaded)
    BY <1>1, <1>3, <2>1, NoMatrixType, LeftIn
  <2>3. g = [f EXCEPT !.pc = "callRight"]
    BY <1>1, <1>3 DEF Frame, FrameOK
  <2>4. SameNode(f, g) /\ Running(g)
    BY <1>3 DEF Frame, Running, SameNode
  <2>5. SetTop(p, g)
    BY <1>6, <2>3 DEF CallLeft
  <2> HIDE DEF g
  <2> QED
    BY <1>1, <1>2, <2>2, <2>4, <2>5, SetTopStep
<1> QED
  BY <1>5, <1>6

(* The right child is called, or lies beside the target. *)
LEMMA CallRightKeeps ==
  ASSUME IInv, NEW p \in Proc, CallRight(p)
  PROVE  IInv'
<1> DEFINE f == Top(p)
           m == Mid(f.left, f.right)
           t == target[p]
<1>1. stack[p] # <<>> /\ f.pc = "callRight"
  BY DEF CallRight, At
<1>2. UNCHANGED <<db, loaded, mode, level, span, target, buffer, outcome, reply>>
  BY DEF CallRight
<1>3. f \in Frame /\ FrameOK(f, t, loaded) /\ f.op \in {"build", "query"}
  BY <1>1, TopOf
<1>4. m - 1 \in 1..N /\ f.left <= m - 1 /\ m <= f.right /\ m \in 1..N
  BY <1>1, TopHalves
<1>5. CASE VisitsRight(p, f)
  <2> DEFINE g == [f EXCEPT !.pc = "right"]
  <2>1. g \in Frame /\ FrameOK(g, t, loaded)
    BY <1>1, <1>3, CallingRight
  <2>2. RightChild(f) \in Frame
    BY <1>1, <1>3, <1>4, TopOf, CallType DEF RightChild
  <2>3. FrameOK(RightChild(f), t, loaded)
    <3>1. /\ f.right <= loaded /\ m <= t[2] /\ t[1] <= f.right
          /\ f.op = "build" => t[1] <= m /\ f.right <= t[2]
          /\ f.right \in 1..N /\ m <= f.right
      BY <1>1, <1>4, <1>5, TopOf, RunningProc DEF VisitsRight
    <3> HIDE DEF f, m, t
    <3> QED
      BY <1>3, <1>4, <3>1, CallOK DEF RightChild, m
  <2>4. SameNode(f, g) /\ Running(RightChild(f)) /\ Waits(g, RightChild(f))
    BY <1>3 DEF Frame, Running, SameNode, Waits, RightChild, Call
  <2>5. CallFrom(p, g, RightChild(f))
    BY <1>5 DEF CallRight
  <2> HIDE DEF g
  <2> QED
    BY <1>1, <1>2, <2>1, <2>2, <2>3, <2>4, <2>5, CallFromStep
<1>6. CASE ~VisitsRight(p, f)
  <2> DEFINE g == [f EXCEPT !.pc = "join", !.rres = NoMatrix]
  <2>1. Share(t, m, f.right) = Identity
    BY <1>1, <1>3, <1>4, <1>6, TopOf, RunningProc, ShareBeside DEF VisitsRight
  <2>2. g \in Frame /\ FrameOK(g, t, loaded)
    BY <1>1, <1>3, <2>1, NoMatrixType, RightIn
  <2>3. g = [f EXCEPT !.pc = "join"]
    BY <1>1, <1>3 DEF Frame, FrameOK
  <2>4. SameNode(f, g) /\ Running(g)
    BY <1>3 DEF Frame, Running, SameNode
  <2>5. SetTop(p, g)
    BY <1>6, <2>3 DEF CallRight
  <2> HIDE DEF g
  <2> QED
    BY <1>1, <1>2, <2>2, <2>4, <2>5, SetTopStep
<1> QED
  BY <1>5, <1>6

(* The call on top returns the share of the half its caller waits for. *)
LEMMA ReturnedShare ==
  ASSUME IInv, NEW p \in Proc, NEW pc \in {"left", "right"}, Returned(p, pc)
  PROVE  /\ stack[p] # <<>> /\ Len(stack[p]) > 1
         /\ Caller(p) \in Frame /\ FrameOK(Caller(p), target[p], loaded)
         /\ Caller(p).pc = pc /\ Top(p).res \in Matrix
         /\ LET f == Caller(p)
                m == Mid(f.left, f.right)
            IN  Meaning(Top(p).res) = IF pc = "left"
                                      THEN Share(target[p], f.left, m - 1)
                                      ELSE Share(target[p], m, f.right)
<1> DEFINE s == stack[p]
           L == Len(stack[p])
<1>1. stack[p] # <<>> /\ L > 1 /\ s[L].pc = "done" /\ s[L - 1].pc = pc
  BY DEF Returned, At, Top, Caller
<1>2. GoodStack(s, span[p], target[p], loaded)
  BY <1>1, RunningProc
<1>3. L \in Nat /\ L - 1 \in 1..(L - 1) /\ L - 1 \in 1..L /\ L \in 1..L
  BY <1>1, <1>2 DEF GoodStack
<1>4. /\ s[L] \in Frame /\ s[L - 1] \in Frame
      /\ FrameOK(s[L], target[p], loaded) /\ FrameOK(s[L - 1], target[p], loaded)
  BY <1>2, <1>3 DEF GoodStack, StackOK
<1>5. Waits(s[L - 1], s[L - 1 + 1])
  BY <1>2, <1>3 DEF GoodStack, StackOK
<1>6. L - 1 + 1 = L
  BY <1>3
<1>7. Waits(s[L - 1], s[L])
  BY <1>5, <1>6
<1>8. Meaning(s[L].res) = Share(target[p], s[L].left, s[L].right) /\ s[L].res \in Matrix
  BY <1>1, <1>4 DEF Frame, FrameOK
<1> QED
  BY <1>1, <1>4, <1>7, <1>8 DEF Waits, Top, Caller

(* The left child returns its share. *)
LEMMA ReturnLeftKeeps ==
  ASSUME IInv, NEW p \in Proc, ReturnLeft(p)
  PROVE  IInv'
<1> DEFINE f == Caller(p)
           g == [f EXCEPT !.pc = "callRight", !.lres = Top(p).res]
<1>1. Returned(p, "left") /\ ReturnTo(p, g)
  BY DEF ReturnLeft
<1>2. UNCHANGED <<db, loaded, mode, level, span, target, buffer, outcome, reply>>
  BY DEF ReturnLeft
<1>3. /\ stack[p] # <<>> /\ Len(stack[p]) > 1
      /\ f \in Frame /\ FrameOK(f, target[p], loaded) /\ f.pc = "left"
      /\ Top(p).res \in Matrix
      /\ Meaning(Top(p).res) = Share(target[p], f.left, Mid(f.left, f.right) - 1)
  BY <1>1, ReturnedShare
<1>4. g \in Frame /\ FrameOK(g, target[p], loaded)
  BY <1>3, LeftIn
<1>5. SameNode(f, g) /\ Running(g)
  BY <1>3 DEF Frame, Running, SameNode
<1> HIDE DEF g
<1> QED
  BY <1>1, <1>2, <1>3, <1>4, <1>5, ReturnToStep

(* The right child returns its share. *)
LEMMA ReturnRightKeeps ==
  ASSUME IInv, NEW p \in Proc, ReturnRight(p)
  PROVE  IInv'
<1> DEFINE f == Caller(p)
           g == [f EXCEPT !.pc = "join", !.rres = Top(p).res]
<1>1. Returned(p, "right") /\ ReturnTo(p, g)
  BY DEF ReturnRight
<1>2. UNCHANGED <<db, loaded, mode, level, span, target, buffer, outcome, reply>>
  BY DEF ReturnRight
<1>3. /\ stack[p] # <<>> /\ Len(stack[p]) > 1
      /\ f \in Frame /\ FrameOK(f, target[p], loaded) /\ f.pc = "right"
      /\ Top(p).res \in Matrix
      /\ Meaning(Top(p).res) = Share(target[p], Mid(f.left, f.right), f.right)
  BY <1>1, ReturnedShare
<1>4. g \in Frame /\ FrameOK(g, target[p], loaded)
  BY <1>3, RightIn
<1>5. SameNode(f, g) /\ Running(g)
  BY <1>3 DEF Frame, Running, SameNode
<1> HIDE DEF g
<1> QED
  BY <1>1, <1>2, <1>3, <1>4, <1>5, ReturnToStep

(* The two shares are joined. *)
LEMMA JoinKeeps ==
  ASSUME IInv, NEW p \in Proc, Join(p)
  PROVE  IInv'
<1> DEFINE f == Top(p)
<1>1. stack[p] # <<>> /\ f.pc = "join" /\ SetTop(p, Joined(f))
  BY DEF Join, At
<1>2. UNCHANGED <<db, loaded, mode, level, span, target, buffer, outcome, reply>>
  BY DEF Join
<1>3. f \in Frame /\ FrameOK(f, target[p], loaded)
  BY <1>1, TopOf
<1>4. target[p] \in Window /\ target[p][1] <= target[p][2]
  BY <1>1, RunningProc
<1>5. /\ Joined(f) \in Frame /\ FrameOK(Joined(f), target[p], loaded)
      /\ SameNode(f, Joined(f)) /\ Running(Joined(f))
  BY <1>1, <1>3, <1>4, JoinedFrame DEF SameNode, Running
<1> QED
  BY <1>1, <1>2, <1>5, SetTopStep

(* A node stores a child and goes on. *)
LEMMA StoreKeeps ==
  ASSUME IInv, NEW p \in Proc, stack[p] # <<>>,
         NEW l \in 1..N, NEW r \in 1..N, NEW A \in Matrix, NEW stores,
         RowOK(KeyedRow(l, r, A), loaded), StoreOrFree(p, l, r, A, stores),
         NEW g \in Frame, FrameOK(g, target[p], loaded), Running(g), SameNode(Top(p), g),
         SetTop(p, g),
         UNCHANGED <<loaded, mode, level, span, target, outcome, reply>>
  PROVE  IInv'
<1> DEFINE s == [stack[p] EXCEPT ![Len(stack[p])] = g]
<1>1. GoodStack(s, span[p], target[p], loaded)
  BY RunningProc, TopStep DEF Top
<1>2. stack' = [stack EXCEPT ![p] = s]
  BY DEF SetTop
<1> HIDE DEF s
<1>3. db \subseteq db' /\ db' \in SUBSET DBRow /\ \A x \in db' : RowOK(x, loaded)
  BY StoreRows
<1>4. PICK b \in Seq(DBRow) : /\ buffer' = [buffer EXCEPT ![p] = b]
                              /\ \A i \in 1..Len(b) : RowOK(b[i], loaded)
  BY StoreRows
<1>5. TypeOK'
  BY <1>1, <1>2, <1>3, <1>4 DEF IInv, TypeOK, GoodStack
<1>6. \A q \in Proc \ {p} : Untouched(q)
  BY <1>2, <1>4 DEF Untouched, IInv, TypeOK
<1>7. stack'[p] = s /\ buffer'[p] = b
  BY <1>2, <1>4 DEF IInv, TypeOK
<1>8. ProcOK(p)
  BY DEF IInv
<1>9. ProcOK(p)'
  BY <1>1, <1>4, <1>7, <1>8 DEF ProcOK, GoodStack
<1> QED
  BY <1>3, <1>5, <1>6, <1>9, ProcStep

(* What a build stores of a child is the flow of the child's range. *)
LEMMA StoreLeftKeeps ==
  ASSUME IInv, NEW p \in Proc, StoreLeft(p)
  PROVE  IInv'
<1> DEFINE f == Top(p)
           m == Mid(f.left, f.right)
           t == target[p]
           g == [f EXCEPT !.pc = "storeRight"]
           stores == StoresChildren(f.left, f.right, level[p])
<1>1. /\ stack[p] # <<>> /\ f.pc = "storeLeft"
      /\ StoreOrFree(p, f.left, m - 1, f.lres, stores) /\ SetTop(p, g)
  BY DEF StoreLeft, At
<1>2. UNCHANGED <<loaded, mode, level, span, target, outcome, reply>>
  BY DEF StoreLeft
<1>3. /\ f \in Frame /\ FrameOK(f, t, loaded)
      /\ f.left \in 1..N /\ f.right \in 1..N /\ f.right <= loaded
      /\ t \in Window /\ loaded \in Nat /\ t[1] \in 1..N /\ t[2] \in 1..N
  BY <1>1, TopOf, RunningProc
<1>4. m - 1 \in 1..N /\ f.left <= m - 1 /\ m <= f.right /\ m \in 1..N
  BY <1>1, TopHalves
<1>5. /\ t[1] <= f.left /\ f.right <= t[2] /\ f.lres \in Matrix
      /\ Meaning(f.lres) = Share(t, f.left, m - 1)
  BY <1>1, <1>3 DEF Frame, FrameOK
<1>6. Meaning(f.lres) = Flow(f.left, m - 1)
  <2>1. m - 1 <= t[2]
    BY <1>3, <1>4, <1>5
  <2> QED
    BY <2>1, <1>3, <1>4, <1>5, ShareOfCovered
<1>7. RowOK(KeyedRow(f.left, m - 1, f.lres), loaded)
  <2>1. m - 1 <= loaded
    BY <1>3, <1>4
  <2>2. Meaning(KeyedRow(f.left, m - 1, f.lres)) = Flow(f.left, m - 1)
    BY <1>3, <1>4, <1>5, <1>6, StoredMeansMatrix
  <2> QED
    BY <1>4, <2>1, <2>2 DEF RowOK, KeyedRow
<1>8. g \in Frame /\ FrameOK(g, t, loaded)
  BY <1>1, <1>3, StoringFrame
<1>9. SameNode(f, g) /\ Running(g)
  BY <1>3 DEF Frame, Running, SameNode
<1> HIDE DEF g, m, stores
<1> QED
  BY <1>1, <1>2, <1>3, <1>4, <1>5, <1>7, <1>8, <1>9, StoreKeeps

(* And so it is on the right. *)
LEMMA StoreRightKeeps ==
  ASSUME IInv, NEW p \in Proc, StoreRight(p)
  PROVE  IInv'
<1> DEFINE f == Top(p)
           m == Mid(f.left, f.right)
           t == target[p]
           g == [f EXCEPT !.pc = "done"]
           stores == StoresChildren(f.left, f.right, level[p])
<1>1. /\ stack[p] # <<>> /\ f.pc = "storeRight"
      /\ StoreOrFree(p, m, f.right, f.rres, stores) /\ SetTop(p, g)
  BY DEF StoreRight, At
<1>2. UNCHANGED <<loaded, mode, level, span, target, outcome, reply>>
  BY DEF StoreRight
<1>3. /\ f \in Frame /\ FrameOK(f, t, loaded)
      /\ f.left \in 1..N /\ f.right \in 1..N /\ f.right <= loaded
      /\ t \in Window /\ loaded \in Nat /\ t[1] \in 1..N /\ t[2] \in 1..N
  BY <1>1, TopOf, RunningProc
<1>4. f.left < m /\ m <= f.right /\ m \in 1..N
  BY <1>1, TopHalves
<1>5. /\ t[1] <= f.left /\ f.right <= t[2] /\ f.rres \in Matrix
      /\ Meaning(f.rres) = Share(t, m, f.right)
  BY <1>1, <1>3 DEF Frame, FrameOK
<1>6. Meaning(f.rres) = Flow(m, f.right)
  <2>1. t[1] <= m
    BY <1>3, <1>4, <1>5
  <2> QED
    BY <2>1, <1>3, <1>4, <1>5, ShareOfCovered
<1>7. RowOK(KeyedRow(m, f.right, f.rres), loaded)
  <2>1. Meaning(KeyedRow(m, f.right, f.rres)) = Flow(m, f.right)
    BY <1>3, <1>4, <1>5, <1>6, StoredMeansMatrix
  <2> QED
    BY <1>3, <1>4, <2>1 DEF RowOK, KeyedRow
<1>8. g \in Frame /\ FrameOK(g, t, loaded)
  BY <1>1, <1>3, StoringFrame
<1>9. SameNode(f, g) /\ Running(g)
  BY <1>3 DEF Frame, Running, SameNode
<1> HIDE DEF g, m, stores
<1> QED
  BY <1>1, <1>2, <1>3, <1>4, <1>5, <1>7, <1>8, <1>9, StoreKeeps

-----------------------------------------------------------------------------
(* BuildTree, Query and the loader *)

(* A range of the trace has its rules in the table. *)
LEMMA InTraceLoaded ==
  ASSUME IInv, NEW w \in Window, InTrace(w)
  PROVE  /\ w[1] \in 1..N /\ w[2] \in 1..N /\ w[1] <= w[2] /\ w[2] <= loaded
         /\ loaded \in Nat
<1>1. w[1] \in 1..N /\ w[2] \in 1..N /\ loaded \in Nat
  BY DEF Window, IInv, TypeOK
<1>2. PICK r \in db : w[2] <= r.left /\ r.left = r.right
  BY DEF InTrace
<1>3. r \in DBRow /\ r.right <= loaded
  BY DEF IInv, TypeOK, TableOK, RowOK
<1> QED
  BY <1>1, <1>2, <1>3 DEF InTrace, DBRow

(* BuildTree starts with a target that is the whole tree. *)
LEMMA StartBuildKeeps ==
  ASSUME IInv, NEW p \in Proc, NEW w \in Spans, NEW l \in Levels, StartBuild(p, w, l)
  PROVE  IInv'
<1> DEFINE c == Call("build", w[1], w[2])
<1>1. w \in Window
  BY TreeAssumption
<1>2. w[1] \in 1..N /\ w[2] \in 1..N /\ w[1] <= w[2] /\ w[2] <= loaded
  BY <1>1, InTraceLoaded DEF StartBuild
<1>3. c \in Frame /\ FrameOK(c, w, loaded)
  BY <1>2, CallType, CallOK
<1>4. Running(c) /\ c.left = w[1] /\ c.right = w[2]
  BY DEF Running, Call
<1> HIDE DEF c
<1>5. GoodStack(<<c>>, w, w, loaded)
  BY <1>3, <1>4, FirstCall
<1>6. NotStoredLayer(l) \in 0..29
  BY TreeAssumption DEF NotStoredLayer
<1>7. TypeOK'
  BY <1>1, <1>5, <1>6 DEF IInv, TypeOK, StartBuild, GoodStack, c
<1>8. \A q \in Proc \ {p} : Untouched(q)
  BY DEF Untouched, IInv, TypeOK, StartBuild
<1>9. /\ mode'[p] = "build" /\ span'[p] = w /\ target'[p] = w /\ stack'[p] = <<c>>
      /\ outcome'[p] = "none" /\ buffer'[p] = buffer[p] /\ loaded' = loaded /\ db' = db
  BY DEF IInv, TypeOK, StartBuild, c
<1>10. ProcOK(p)
  BY DEF IInv
<1>11. ProcOK(p)'
  BY <1>2, <1>5, <1>9, <1>10 DEF ProcOK, GoodStack
<1>12. \A r \in db' : RowOK(r, loaded)
  BY <1>9 DEF IInv, TableOK
<1> QED
  BY <1>7, <1>8, <1>9, <1>11, <1>12, ProcStep

(* Query starts with a target inside of the tree. *)
LEMMA StartQueryKeeps ==
  ASSUME IInv, NEW p \in Proc, NEW w \in Spans, NEW t \in Targets, StartQuery(p, w, t)
  PROVE  IInv'
<1> DEFINE c == Call("query", w[1], w[2])
<1>1. w \in Window /\ t \in Window
  BY TreeAssumption
<1>2. /\ w[1] \in 1..N /\ w[2] \in 1..N /\ w[1] <= w[2] /\ w[2] <= loaded /\ loaded \in Nat
      /\ t[1] \in 1..N /\ t[2] \in 1..N
      /\ w[1] <= t[1] /\ t[1] <= t[2] /\ t[2] <= w[2]
  BY <1>1, InTraceLoaded DEF StartQuery, Window
<1>3. c \in Frame /\ FrameOK(c, t, loaded)
  BY <1>2, CallType, CallOK
<1>4. Running(c) /\ c.left = w[1] /\ c.right = w[2]
  BY DEF Running, Call
<1> HIDE DEF c
<1>5. GoodStack(<<c>>, w, t, loaded)
  BY <1>3, <1>4, FirstCall
<1>6. QueryLayer \in 0..29
  BY DEF QueryLayer
<1>7. TypeOK'
  BY <1>1, <1>5, <1>6 DEF IInv, TypeOK, StartQuery, GoodStack, c
<1>8. \A q \in Proc \ {p} : Untouched(q)
  BY DEF Untouched, IInv, TypeOK, StartQuery
<1>9. /\ mode'[p] = "query" /\ span'[p] = w /\ target'[p] = t /\ stack'[p] = <<c>>
      /\ outcome'[p] = "none" /\ buffer'[p] = buffer[p] /\ loaded' = loaded /\ db' = db
  BY DEF IInv, TypeOK, StartQuery, c
<1>10. ProcOK(p)
  BY DEF IInv
<1>11. ProcOK(p)'
  BY <1>2, <1>5, <1>9, <1>10 DEF ProcOK, GoodStack
<1>12. \A r \in db' : RowOK(r, loaded)
  BY <1>9 DEF IInv, TableOK
<1> QED
  BY <1>7, <1>8, <1>9, <1>11, <1>12, ProcStep

(* The outermost call returns the share of the whole tree: the target. *)
LEMMA FinishedShare ==
  ASSUME IInv, NEW p \in Proc, Finished(p)
  PROVE  /\ stack[p] # <<>> /\ Top(p).res \in Matrix
         /\ span[p][1] \in 1..N /\ span[p][2] \in 1..N
         /\ span[p][1] <= span[p][2] /\ span[p][2] <= loaded
         /\ Meaning(Top(p).res) = Flow(target[p][1], target[p][2])
<1>1. stack[p] # <<>> /\ Top(p).pc = "done" /\ Len(stack[p]) = 1
  BY DEF Finished, At
<1>2. Top(p).left = span[p][1] /\ Top(p).right = span[p][2]
  BY <1>1, RunningProc DEF GoodStack, StackOK, Top
<1>3. Top(p).res \in Matrix /\ Meaning(Top(p).res) = Share(target[p], span[p][1], span[p][2])
  BY <1>1, <1>2, TopOf DEF Frame, FrameOK
<1>4. /\ span[p] \in Window /\ target[p] \in Window /\ target[p][1] <= target[p][2]
      /\ span[p][1] <= target[p][1] /\ target[p][2] <= span[p][2] /\ span[p][2] <= loaded
  BY <1>1, RunningProc
<1>5. /\ span[p][1] \in 1..N /\ span[p][2] \in 1..N
      /\ target[p][1] \in 1..N /\ target[p][2] \in 1..N
  BY <1>4 DEF Window
<1>6. Share(target[p], span[p][1], span[p][2]) = Flow(target[p][1], target[p][2])
  <2>1. (IF span[p][1] < target[p][1] THEN target[p][1] ELSE span[p][1]) = target[p][1]
    BY <1>4, <1>5
  <2>2. (IF target[p][2] < span[p][2] THEN target[p][2] ELSE span[p][2]) = target[p][2]
    BY <1>4, <1>5
  <2> QED
    BY <2>1, <2>2 DEF Share
<1>7. span[p][1] <= span[p][2]
  BY <1>4, <1>5
<1> QED
  BY <1>1, <1>3, <1>4, <1>5, <1>6, <1>7

(* The root is stored as the flow of the whole tree. *)
LEMMA StoreRootKeeps ==
  ASSUME IInv, NEW p \in Proc, StoreRoot(p)
  PROVE  IInv'
<1> DEFINE A == Top(p).res
           l == span[p][1]
           r == span[p][2]
           stores == StoresRoot(l, r, level[p])
<1>1. /\ mode[p] = "build" /\ Finished(p) /\ StoreOrFree(p, l, r, A, stores)
      /\ stack' = [stack EXCEPT ![p] = <<>>]
      /\ mode' = [mode EXCEPT ![p] = "closing"]
      /\ UNCHANGED <<loaded, level, span, target, outcome, reply>>
  BY DEF StoreRoot
<1>2. /\ stack[p] # <<>> /\ A \in Matrix /\ l \in 1..N /\ r \in 1..N
      /\ l <= r /\ r <= loaded /\ Meaning(A) = Flow(target[p][1], target[p][2])
  BY <1>1, FinishedShare
<1>3. target[p] = span[p]
  BY <1>1, <1>2, RunningProc
<1>4. RowOK(KeyedRow(l, r, A), loaded)
  <2>1. Meaning(KeyedRow(l, r, A)) = Flow(l, r)
    BY <1>2, <1>3, StoredMeansMatrix
  <2> QED
    BY <1>2, <2>1 DEF RowOK, KeyedRow
<1> HIDE DEF A, l, r, stores
<1>5. db \subseteq db' /\ db' \in SUBSET DBRow /\ \A x \in db' : RowOK(x, loaded)
  BY <1>1, <1>2, <1>4, StoreRows
<1>6. PICK b \in Seq(DBRow) : /\ buffer' = [buffer EXCEPT ![p] = b]
                              /\ \A i \in 1..Len(b) : RowOK(b[i], loaded)
  BY <1>1, <1>2, <1>4, StoreRows
<1>7. TypeOK'
  BY <1>1, <1>5, <1>6 DEF IInv, TypeOK
<1>8. \A q \in Proc \ {p} : Untouched(q)
  BY <1>1, <1>6 DEF Untouched, IInv, TypeOK
<1>9. /\ mode'[p] = "closing" /\ stack'[p] = <<>> /\ buffer'[p] = b
      /\ span'[p] = span[p] /\ target'[p] = target[p] /\ outcome'[p] = outcome[p]
  BY <1>1, <1>6 DEF IInv, TypeOK
<1>10. ProcOK(p)
  BY DEF IInv
<1>11. ProcOK(p)'
  BY <1>1, <1>6, <1>9, <1>10 DEF ProcOK
<1> QED
  BY <1>1, <1>5, <1>7, <1>8, <1>11, ProcStep

(* Closing the connection commits sound rows. *)
LEMMA CloseDBKeeps ==
  ASSUME IInv, NEW p \in Proc, CloseDB(p)
  PROVE  IInv'
<1>1. /\ mode[p] = "closing" /\ db' = InsertOrIgnore(db, buffer[p])
      /\ buffer' = [buffer EXCEPT ![p] = <<>>]
      /\ mode' = [mode EXCEPT ![p] = "idle"]
      /\ outcome' = [outcome EXCEPT ![p] = "built"]
      /\ UNCHANGED <<loaded, level, span, target, stack, reply>>
  BY DEF CloseDB, Commit
<1>2. ProcOK(p) /\ buffer[p] \in Seq(DBRow) /\ db \in SUBSET DBRow
      /\ \A x \in db : RowOK(x, loaded)
  BY DEF IInv, TypeOK, TableOK
<1>3. /\ db \subseteq db'
      /\ \A x \in db' : x \in db \/ \E i \in 1..Len(buffer[p]) : x = buffer[p][i]
  BY <1>1 DEF InsertOrIgnore
<1>4. db' \in SUBSET DBRow /\ \A x \in db' : RowOK(x, loaded)
  BY <1>2, <1>3 DEF ProcOK
<1>5. TypeOK'
  BY <1>1, <1>4 DEF IInv, TypeOK
<1>6. \A q \in Proc \ {p} : Untouched(q)
  BY <1>1 DEF Untouched, IInv, TypeOK
<1>7. /\ mode'[p] = "idle" /\ stack'[p] = stack[p] /\ buffer'[p] = <<>>
      /\ outcome'[p] = "built"
  BY <1>1 DEF IInv, TypeOK
<1>8. ProcOK(p)'
  BY <1>1, <1>2, <1>7 DEF ProcOK
<1> QED
  BY <1>1, <1>3, <1>4, <1>5, <1>6, <1>8, ProcStep

(* The answer is the share of the whole tree: the target. *)
LEMMA AnswerQueryKeeps ==
  ASSUME IInv, NEW p \in Proc, AnswerQuery(p)
  PROVE  IInv'
<1>1. /\ mode[p] = "query" /\ Finished(p)
      /\ reply' = [reply EXCEPT ![p] = Top(p).res]
      /\ stack' = [stack EXCEPT ![p] = <<>>]
      /\ mode' = [mode EXCEPT ![p] = "idle"]
      /\ outcome' = [outcome EXCEPT ![p] = "answered"]
      /\ UNCHANGED <<db, loaded, level, span, target, buffer>>
  BY DEF AnswerQuery
<1>2. Top(p).res \in Matrix /\ Meaning(Top(p).res) = Flow(target[p][1], target[p][2])
  BY <1>1, FinishedShare
<1>3. TypeOK'
  BY <1>1, <1>2 DEF IInv, TypeOK
<1>4. \A q \in Proc \ {p} : Untouched(q)
  BY <1>1 DEF Untouched, IInv, TypeOK
<1>5. /\ mode'[p] = "idle" /\ stack'[p] = <<>> /\ buffer'[p] = buffer[p]
      /\ target'[p] = target[p] /\ reply'[p] = Top(p).res
  BY <1>1 DEF IInv, TypeOK
<1>6. ProcOK(p)
  BY DEF IInv
<1>7. ProcOK(p)'
  BY <1>1, <1>2, <1>5, <1>6 DEF ProcOK
<1>8. \A x \in db' : RowOK(x, loaded)
  BY <1>1 DEF IInv, TableOK
<1> QED
  BY <1>1, <1>3, <1>4, <1>7, <1>8, ProcStep

(* A process that dies leaves the table as it was. *)
LEMMA DieKeeps ==
  ASSUME IInv, NEW p \in Proc, NEW how \in {"none", "aborted"}, Die(p, how)
  PROVE  IInv'
<1>1. <<1, 1>> \in Window
  BY TraceAssumption DEF Window
<1>2. TypeOK'
  BY <1>1, NoMatrixType DEF IInv, TypeOK, Die, QueryLayer
<1>3. \A q \in Proc \ {p} : Untouched(q)
  BY DEF Untouched, IInv, TypeOK, Die
<1>4. /\ mode'[p] = "idle" /\ stack'[p] = <<>> /\ buffer'[p] = <<>> /\ outcome'[p] = how
      /\ db' = db /\ loaded' = loaded
  BY DEF IInv, TypeOK, Die
<1>5. ProcOK(p)'
  BY <1>4 DEF ProcOK
<1>6. \A x \in db' : RowOK(x, loaded)
  BY <1>4 DEF IInv, TableOK
<1> QED
  BY <1>2, <1>3, <1>4, <1>5, <1>6, ProcStep

(* The rules of more instructions arrive: what is known of a range stays. *)
LEMMA CommitRulesKeeps ==
  ASSUME IInv, CommitRules
  PROVE  IInv'
<1>1. PICK n \in (loaded + 1)..N :
         /\ db' = db \cup {KeyedRow(i, i, Rules[i]) : i \in ((loaded + 1)..n) \cap DOMAIN Rules}
         /\ loaded' = n
         /\ UNCHANGED <<mode, level, span, target, stack, buffer, outcome, reply>>
  BY DEF CommitRules
<1>2. loaded \in 0..N /\ n \in 0..N /\ loaded <= n /\ N \in Nat
  BY TraceAssumption DEF IInv, TypeOK
<1>3. ASSUME NEW i \in ((loaded + 1)..n) \cap DOMAIN Rules
      PROVE  KeyedRow(i, i, Rules[i]) \in DBRow /\ RowOK(KeyedRow(i, i, Rules[i]), n)
  <2>1. i \in 1..N /\ i <= n /\ Rules[i] \in Row
    BY <1>2, TraceAssumption
  <2>2. KeyedRow(i, i, Rules[i]) \in DBRow
    BY <2>1 DEF KeyedRow, DBRow, Row
  <2>3. Meaning(KeyedRow(i, i, Rules[i])) = Flow(i, i)
    <3>1. Step(i) = Meaning(Rules[i]) /\ Flow(i, i) = Step(i)
      BY <2>1, FlowOfOne DEF Step
    <3>2. Meaning(KeyedRow(i, i, Rules[i])) = Meaning(Rules[i])
      BY DEF Meaning, KeyedRow
    <3> QED
      BY <3>1, <3>2
  <2> QED
    BY <2>1, <2>2, <2>3 DEF RowOK, KeyedRow
<1>4. ASSUME NEW r \in DBRow, RowOK(r, loaded)
      PROVE  RowOK(r, n)
  BY <1>2, <1>4 DEF RowOK, DBRow
<1>5. TypeOK'
  BY <1>1, <1>2, <1>3 DEF IInv, TypeOK
<1>6. TableOK'
  <2>1. \A r \in db' : RowOK(r, n)
    BY <1>1, <1>3, <1>4 DEF IInv, TypeOK, TableOK
  <2>2. ASSUME NEW i \in (1..n) \cap DOMAIN Rules
        PROVE  \E r \in db' : r.left = i /\ r.right = i
    <3>1. CASE i <= loaded
      BY <1>1, <1>2, <3>1 DEF IInv, TableOK
    <3>2. CASE i > loaded
      <4>1. KeyedRow(i, i, Rules[i]) \in db'
        BY <1>1, <1>2, <3>2
      <4> QED
        BY <4>1 DEF KeyedRow
    <3> QED
      BY <1>2, <3>1, <3>2
  <2> QED
    BY <1>1, <2>1, <2>2 DEF TableOK
<1>7. ASSUME NEW p \in Proc
      PROVE  ProcOK(p)'
  <2>1. ProcOK(p) /\ buffer[p] \in Seq(DBRow) /\ span[p] \in Window
    BY DEF IInv, TypeOK
  <2>2. stack[p] # <<>> => StackOK(stack[p], span[p], target[p], n)
    BY <1>2, RunningProc, StackMono
  <2>3. \A i \in 1..Len(buffer[p]) : RowOK(buffer[p][i], n)
    BY <2>1, <1>4 DEF ProcOK
  <2>4. mode[p] # "idle" => span[p][2] <= n
    BY <2>1, <1>2 DEF ProcOK, Window
  <2> QED
    BY <1>1, <2>1, <2>2, <2>3, <2>4 DEF ProcOK
<1> QED
  BY <1>5, <1>6, <1>7 DEF IInv

-----------------------------------------------------------------------------
(* Soundness *)

(* An empty table is sound. *)
LEMMA InitInvariant == Init => IInv
<1> SUFFICES ASSUME Init
             PROVE  IInv
  OBVIOUS
<1>1. <<1, 1>> \in Window /\ N \in Nat
  BY TraceAssumption DEF Window
<1>2. TypeOK
  BY <1>1, NoMatrixType DEF Init, TypeOK, QueryLayer
<1>3. TableOK
  BY DEF Init, TableOK
<1>4. \A p \in Proc : ProcOK(p)
  BY DEF Init, ProcOK
<1> QED
  BY <1>2, <1>3, <1>4 DEF IInv

(* Every step of a running call keeps the invariant. *)
LEMMA RunKeeps ==
  ASSUME IInv, NEW p \in Proc, Run(p)
  PROVE  IInv'
<1>1. CASE LoadNode(p) \/ OverlapNode(p)
  BY <1>1, LoadNodeKeeps, OverlapNodeKeeps
<1>2. CASE CallLeft(p) \/ ReturnLeft(p) \/ CallRight(p) \/ ReturnRight(p)
  BY <1>2, CallLeftKeeps, ReturnLeftKeeps, CallRightKeeps, ReturnRightKeeps
<1>3. CASE Join(p) \/ StoreLeft(p) \/ StoreRight(p)
  BY <1>3, JoinKeeps, StoreLeftKeeps, StoreRightKeeps
<1>4. CASE StoreRoot(p) \/ CloseDB(p) \/ AnswerQuery(p)
  BY <1>4, StoreRootKeeps, CloseDBKeeps, AnswerQueryKeeps
<1>5. CASE Abort(p)
  BY <1>5, DieKeeps DEF Abort
<1> QED
  BY <1>1, <1>2, <1>3, <1>4, <1>5 DEF Run

(* And so does every step of the system. *)
LEMMA NextInvariant == IInv /\ [Next]_vars => IInv'
<1> SUFFICES ASSUME IInv, [Next]_vars
             PROVE  IInv'
  OBVIOUS
<1>1. CASE CommitRules
  BY <1>1, CommitRulesKeeps
<1>2. ASSUME NEW p \in Proc, NEW w \in Spans, NEW l \in Levels, StartBuild(p, w, l)
      PROVE  IInv'
  BY <1>2, StartBuildKeeps
<1>3. ASSUME NEW p \in Proc, NEW w \in Spans, NEW t \in Targets, StartQuery(p, w, t)
      PROVE  IInv'
  BY <1>3, StartQueryKeeps
<1>4. ASSUME NEW p \in Proc, Run(p)
      PROVE  IInv'
  BY <1>4, RunKeeps
<1>5. ASSUME NEW p \in Proc, Crash(p)
      PROVE  IInv'
  BY <1>5, DieKeeps DEF Crash
<1>6. CASE UNCHANGED vars
  BY <1>6 DEF vars, IInv, TypeOK, TableOK, RowOK, ProcOK
<1> QED
  BY <1>1, <1>2, <1>3, <1>4, <1>5, <1>6 DEF Next

(* The inductive invariant holds in every reachable state: each frame of   *)
(* RecursiveBuildSubTree and RecursiveQuerySubTree accounts for its share, *)
(* and the table is sound.                                                 *)
THEOREM Invariance == Spec => []IInv
BY InitInvariant, NextInvariant, PTL DEF Spec

(* The variables keep their types: a stored matrix only has entries        *)
(* between valid indices, and a layer never shifts past an int.            *)
THEOREM TypeCorrect == Spec => []TypeOK
<1>1. IInv => TypeOK
  BY DEF IInv
<1> QED
  BY <1>1, Invariance, PTL

(* Every row of the table is the flow of its range, for every trace, every *)
(* number of processes and every interleaving of their steps.              *)
THEOREM CacheIsSound == Spec => []CacheSound
<1>1. IInv => CacheSound
  <2> SUFFICES ASSUME IInv, NEW r \in db
               PROVE  Meaning(r) = Flows[Key(r)]
    BY DEF CacheSound
  <2>1. r \in DBRow /\ Meaning(r) = Flow(r.left, r.right)
    BY DEF IInv, TypeOK, TableOK, RowOK
  <2>2. Key(r) \in Window /\ Key(r)[1] = r.left /\ Key(r)[2] = r.right
    BY <2>1 DEF DBRow, Key, Window
  <2> QED
    BY <2>1, <2>2 DEF Flows
<1> QED
  BY <1>1, Invariance, PTL

(* A query is answered with the flow of the range it was asked for. *)
THEOREM AnswersAreSound == Spec => []AnswerSound
<1>1. IInv => AnswerSound
  <2> SUFFICES ASSUME IInv, NEW p \in Proc, outcome[p] = "answered"
               PROVE  Meaning(reply[p]) = Flows[target[p]]
    BY DEF AnswerSound
  <2>1. target[p] \in Window /\ Meaning(reply[p]) = Flow(target[p][1], target[p][2])
    BY DEF IInv, TypeOK, ProcOK
  <2> QED
    BY <2>1 DEF Flows
<1> QED
  BY <1>1, Invariance, PTL

(* No call of either recursion is made on a range beside the target. *)
THEOREM CallsOverlapTarget == Spec => []FramesOverlapTarget
<1>1. IInv => FramesOverlapTarget
  BY DEF IInv, ProcOK, StackOK, FrameOK, FramesOverlapTarget
<1> QED
  BY <1>1, Invariance, PTL

-----------------------------------------------------------------------------
(* FlowTree implements FlowService: whatever the processes build, cache,   *)
(* lose or load meanwhile, an analyst sees questions and right answers.    *)

(* Inside of a call nothing has been answered. *)
LEMMA NotAnswered ==
  ASSUME IInv, NEW p \in Proc, mode[p] # "idle"
  PROVE  outcome[p] # "answered"
BY DEF IInv, ProcOK

(* What the service sees of a step of p that changes what p asks or holds. *)
LEMMA Visible ==
  ASSUME IInv, IInv', NEW p \in Proc, \A q \in Proc \ {p} : Untouched(q),
         NEW a, a = IF mode'[p] = "query" THEN {target'[p]} ELSE {},
         NEW b, b = IF outcome'[p] = "answered" THEN {Meaning(reply'[p])} ELSE {}
  PROVE  /\ Asked' = [Asked EXCEPT ![p] = a]
         /\ Told' = [Told EXCEPT ![p] = b]
<1>1. Asked' = [Asked EXCEPT ![p] = a]
  BY DEF Asked, Untouched
<1>2. Told' = [Told EXCEPT ![p] = b]
  BY DEF Told, Untouched, Meaning
<1> QED
  BY <1>1, <1>2

(* At first nothing is loaded, asked or told. *)
LEMMA InitRefines == Init => Service!Init
BY DEF Init, Service!Init, Asked, Told

(* A transaction of the loader is a Load. *)
LEMMA CommitRefines ==
  ASSUME IInv, CommitRules
  PROVE  Service!Load
<1>1. UNCHANGED <<Asked, Told>>
  BY DEF CommitRules, Asked, Told, Meaning
<1>2. loaded' \in (loaded + 1)..N
  BY DEF CommitRules
<1> QED
  BY <1>1, <1>2 DEF Service!Load

(* A query is asked of a range that is loaded. *)
LEMMA QueryRefines ==
  ASSUME IInv, IInv', NEW p \in Proc, NEW w \in Spans, NEW t \in Targets, StartQuery(p, w, t)
  PROVE  Service!Ask(p, t) /\ t \in Service!Ranges
<1>1. w \in Window /\ t \in Window
  BY TreeAssumption
<1>2. /\ t[1] \in 1..N /\ t[2] \in 1..N /\ t[1] <= t[2] /\ t[2] <= loaded
  BY <1>1, InTraceLoaded DEF StartQuery, Window
<1>3. t \in Service!Ranges
  BY <1>1, <1>2 DEF Window, Service!Ranges
<1>4. Asked[p] = {} /\ loaded' = loaded
  BY DEF StartQuery, Asked
<1>5. \A q \in Proc \ {p} : Untouched(q)
  BY DEF Untouched, IInv, TypeOK, StartQuery
<1>6. mode'[p] = "query" /\ target'[p] = t /\ outcome'[p] = "none"
  BY DEF IInv, TypeOK, StartQuery
<1>7. Asked' = [Asked EXCEPT ![p] = {t}] /\ Told' = [Told EXCEPT ![p] = {}]
  BY <1>5, <1>6, Visible
<1> QED
  BY <1>2, <1>3, <1>4, <1>7 DEF Service!Ask

(* The service and the tree speak of the same flow. *)
LEMMA SameFlow ==
  ASSUME NEW l, NEW r
  PROVE  Service!Flow(l, r) = Flow(l, r)
<1>1. \A i : Service!Step(i) = Step(i)
  BY DEF Service!Step, Step, Service!Meaning, Meaning, Service!Identity, Identity,
         Service!setMainDiagonal, setMainDiagonal
<1> QED
  BY <1>1 DEF Service!Flow, Flow, Service!PathOf, PathOf, Service!Pairs, Pairs,
              Service!Identity, Identity, Service!setMainDiagonal, setMainDiagonal

(* The answer a query is given is the one the service gives. *)
LEMMA AnswerRefines ==
  ASSUME IInv, IInv', NEW p \in Proc, AnswerQuery(p)
  PROVE  Service!Answer(p)
<1>1. mode[p] = "query" /\ Finished(p) /\ loaded' = loaded
  BY DEF AnswerQuery
<1>2. \A q \in Proc \ {p} : Untouched(q)
  BY DEF Untouched, IInv, TypeOK, AnswerQuery
<1>3. mode'[p] = "idle" /\ outcome'[p] = "answered" /\ reply'[p] = Top(p).res
  BY DEF IInv, TypeOK, AnswerQuery
<1>4. Meaning(reply'[p]) = Flow(target[p][1], target[p][2])
  BY <1>1, <1>3, FinishedShare
<1>5. /\ Asked' = [Asked EXCEPT ![p] = {}]
      /\ Told' = [Told EXCEPT ![p] = {Flow(target[p][1], target[p][2])}]
  BY <1>2, <1>3, <1>4, Visible
<1>6. target[p] \in Asked[p]
  BY <1>1 DEF Asked
<1> QED
  BY <1>1, <1>5, <1>6, SameFlow DEF Service!Answer

(* A process that dies is a request that fails. *)
LEMMA DieRefines ==
  ASSUME IInv, IInv', NEW p \in Proc, NEW how \in {"none", "aborted"}, Die(p, how)
  PROVE  Service!Fail(p)
<1>1. \A q \in Proc \ {p} : Untouched(q)
  BY DEF Untouched, IInv, TypeOK, Die
<1>2. mode'[p] = "idle" /\ outcome'[p] = how /\ loaded' = loaded
  BY DEF IInv, TypeOK, Die
<1>3. Asked' = [Asked EXCEPT ![p] = {}] /\ Told' = [Told EXCEPT ![p] = {}]
  BY <1>1, <1>2, Visible
<1> QED
  BY <1>2, <1>3 DEF Service!Fail

(* A build makes no promise, but it discards the last answer. *)
LEMMA BuildRefines ==
  ASSUME IInv, IInv', NEW p \in Proc, NEW w \in Spans, NEW l \in Levels, StartBuild(p, w, l)
  PROVE  Service!Fail(p)
<1>1. \A q \in Proc \ {p} : Untouched(q)
  BY DEF Untouched, IInv, TypeOK, StartBuild
<1>2. mode'[p] = "build" /\ outcome'[p] = "none" /\ loaded' = loaded
  BY DEF IInv, TypeOK, StartBuild
<1>3. Asked' = [Asked EXCEPT ![p] = {}] /\ Told' = [Told EXCEPT ![p] = {}]
  BY <1>1, <1>2, Visible
<1> QED
  BY <1>2, <1>3 DEF Service!Fail

(* The steps inside of a call move the cache, not the service. *)
LEMMA InnerRefines ==
  ASSUME IInv, NEW p \in Proc,
         \/ LoadNode(p) \/ OverlapNode(p) \/ Join(p)
         \/ CallLeft(p) \/ ReturnLeft(p) \/ CallRight(p) \/ ReturnRight(p)
         \/ StoreLeft(p) \/ StoreRight(p) \/ StoreRoot(p) \/ CloseDB(p)
  PROVE  UNCHANGED Service!serviceVars
<1>1. CASE \/ LoadNode(p) \/ OverlapNode(p) \/ Join(p)
          \/ CallLeft(p) \/ ReturnLeft(p) \/ CallRight(p) \/ ReturnRight(p)
  <2>1. UNCHANGED <<loaded, mode, target, outcome, reply>>
    BY <1>1 DEF LoadNode, OverlapNode, Join, CallLeft, ReturnLeft, CallRight, ReturnRight
  <2> QED
    BY <2>1 DEF Service!serviceVars, Asked, Told, Meaning
<1>2. CASE StoreLeft(p) \/ StoreRight(p)
  <2>1. UNCHANGED <<loaded, mode, target, outcome, reply>>
    BY <1>2 DEF StoreLeft, StoreRight
  <2> QED
    BY <2>1 DEF Service!serviceVars, Asked, Told, Meaning
<1>3. CASE StoreRoot(p)
  <2>1. /\ mode[p] = "build" /\ mode' = [mode EXCEPT ![p] = "closing"]
        /\ UNCHANGED <<loaded, target, outcome, reply>>
    BY <1>3 DEF StoreRoot
  <2>2. Asked' = Asked
    BY <2>1 DEF Asked, IInv, TypeOK
  <2> QED
    BY <2>1, <2>2 DEF Service!serviceVars, Told, Meaning
<1>4. CASE CloseDB(p)
  <2>1. /\ mode[p] = "closing" /\ mode' = [mode EXCEPT ![p] = "idle"]
        /\ outcome' = [outcome EXCEPT ![p] = "built"]
        /\ UNCHANGED <<loaded, target, reply>>
    BY <1>4 DEF CloseDB, Commit
  <2>2. outcome[p] # "answered"
    BY <2>1, NotAnswered
  <2>3. Asked' = Asked
    BY <2>1 DEF Asked, IInv, TypeOK
  <2>4. Told' = Told
    BY <2>1, <2>2 DEF Told, Meaning, IInv, TypeOK
  <2> QED
    BY <2>1, <2>3, <2>4 DEF Service!serviceVars
<1> QED
  BY <1>1, <1>2, <1>3, <1>4

(* Every step of the tree is a step of the service or none. *)
LEMMA NextRefines ==
  ASSUME IInv, IInv', [Next]_vars
  PROVE  [Service!Next]_(Service!serviceVars)
<1>1. CASE CommitRules
  BY <1>1, CommitRefines DEF Service!Next
<1>2. ASSUME NEW p \in Proc, NEW w \in Spans, NEW l \in Levels, StartBuild(p, w, l)
      PROVE  Service!Next
  BY <1>2, BuildRefines DEF Service!Next
<1>3. ASSUME NEW p \in Proc, NEW w \in Spans, NEW t \in Targets, StartQuery(p, w, t)
      PROVE  Service!Next
  BY <1>3, QueryRefines DEF Service!Next
<1>4. ASSUME NEW p \in Proc, Run(p)
      PROVE  Service!Next \/ UNCHANGED Service!serviceVars
  <2>1. CASE AnswerQuery(p)
    BY <2>1, AnswerRefines DEF Service!Next
  <2>2. CASE Abort(p)
    BY <2>2, DieRefines DEF Abort, Service!Next
  <2>3. CASE ~AnswerQuery(p) /\ ~Abort(p)
    BY <1>4, <2>3, InnerRefines DEF Run
  <2> QED
    BY <2>1, <2>2, <2>3
<1>5. ASSUME NEW p \in Proc, Crash(p)
      PROVE  Service!Next
  BY <1>5, DieRefines DEF Crash, Service!Next
<1>6. CASE UNCHANGED vars
  BY <1>6 DEF vars, Service!serviceVars, Asked, Told, Meaning
<1> QED
  BY <1>1, <1>2, <1>3, <1>4, <1>5, <1>6 DEF Next

(* The cache is invisible: every behaviour of the tree of products, for    *)
(* any trace, processes, layers and buffers, is one of the service.        *)
THEOREM TreeImplementsService == Spec => ImplementsService
<1>1. Init => Service!Init
  BY InitRefines
<1>2. IInv /\ IInv' /\ [Next]_vars => [Service!Next]_(Service!serviceVars)
  BY NextRefines
<1> QED
  BY <1>1, <1>2, Invariance, PTL DEF Spec, ImplementsService, Service!Spec
-----------------------------------------------------------------------------
(* How deep the recursions go and what a query may write, for every trace, *)
(* every set of processes and every interleaving.                          *)

(* f is short enough for the k-th place of a stack: every split below the  *)
(* first halves a power of two that is shorter than the whole range.       *)
Fits(f, k, length) ==
  \E j \in 0..30 :
    /\ f.right - f.left + 1 <= ShiftOne(j)
    /\ j + k - 2 \in 0..30
    /\ ShiftOne(j + k - 2) < length

Length(w) == w[2] - w[1] + 1

DepthOK(p) ==
  \A k \in 2..Len(stack[p]) : Fits(stack[p][k], k, Length(span[p]))

(* Only a build has rows waiting, and a query builds without storing.      *)
WritesOK(p) ==
  /\ mode[p] \in {"idle", "query"} => buffer[p] = <<>>
  /\ mode[p] = "query" => level[p] = QueryLayer

-----------------------------------------------------------------------------
(* Powers of two *)

(* 1 << k doubles with k.                                                  *)
LEMMA Doubling ==
  ASSUME NEW k \in 0..29
  PROVE  ShiftOne(k + 1) = 2 * ShiftOne(k)
<1>1. CASE k <= 14
  BY <1>1, SMT DEF ShiftOne, PowersOfTwo
<1>2. CASE k >= 15
  BY <1>2, SMT DEF ShiftOne, PowersOfTwo
<1> QED
  BY <1>1, <1>2

(* 1 << k grows with k.                                                    *)
LEMMA Monotone ==
  ASSUME NEW i \in 0..30, NEW j \in 0..30, i <= j
  PROVE  ShiftOne(i) <= ShiftOne(j)
BY SMTT(60) DEF ShiftOne, PowersOfTwo

-----------------------------------------------------------------------------
(* The frame of a child *)

(* Both halves of a range are at most a power of two long, and that is     *)
(* shorter than the range.                                                 *)
LEMMA HalfFits ==
  ASSUME NEW f \in Frame, NEW g \in Frame, f.left < f.right, Waits(f, g)
  PROVE  \E i \in 0..30 : /\ g.right - g.left + 1 <= ShiftOne(i)
                          /\ ShiftOne(i) <= f.right - f.left
<1>1. f.left \in 1..N /\ f.right \in 1..N /\ N \in Nat
  BY TraceAssumption DEF Frame
<1>2. PICK i \in 0..30 : /\ highestPowerOf2(f.right - f.left) = ShiftOne(i)
                         /\ ShiftOne(i) <= f.right - f.left
                         /\ f.right - f.left < 2 * ShiftOne(i)
  BY <1>1, Distance, HighestBit
<1>3. ShiftOne(i) \in Nat
  BY PowerIsPositive
<1>4. Mid(f.left, f.right) = f.left + ShiftOne(i)
  BY <1>2 DEF Mid
<1>5. CASE g.left = f.left /\ g.right = Mid(f.left, f.right) - 1
  BY <1>1, <1>2, <1>3, <1>4, <1>5
<1>6. CASE g.left = Mid(f.left, f.right) /\ g.right = f.right
  BY <1>1, <1>2, <1>3, <1>4, <1>6
<1> QED
  BY <1>5, <1>6 DEF Waits

(* A child of the root is in the second place of the stack.                *)
LEMMA FirstChildFits ==
  ASSUME NEW f \in Frame, NEW g \in Frame, f.left < f.right, Waits(f, g)
  PROVE  Fits(g, 2, f.right - f.left + 1)
<1>1. PICK i \in 0..30 : /\ g.right - g.left + 1 <= ShiftOne(i)
                         /\ ShiftOne(i) <= f.right - f.left
  BY HalfFits
<1>2. ShiftOne(i) \in Nat /\ f.right - f.left \in Int
  BY PowerIsPositive, TraceAssumption DEF Frame
<1>3. i + 2 - 2 = i
  OBVIOUS
<1> QED
  BY <1>1, <1>2, <1>3 DEF Fits

(* A child of a node that fits its place fits the next one.                *)
LEMMA ChildFits ==
  ASSUME NEW f \in Frame, NEW g \in Frame, f.left < f.right, Waits(f, g),
         NEW k \in Nat, k >= 2, NEW length \in Int, Fits(f, k, length)
  PROVE  Fits(g, k + 1, length)
<1>1. PICK j \in 0..30 : /\ f.right - f.left + 1 <= ShiftOne(j)
                         /\ j + k - 2 \in 0..30
                         /\ ShiftOne(j + k - 2) < length
  BY DEF Fits
<1>2. PICK i \in 0..30 : /\ g.right - g.left + 1 <= ShiftOne(i)
                         /\ ShiftOne(i) <= f.right - f.left
  BY HalfFits
<1>3. f.right - f.left \in Int
  BY TraceAssumption DEF Frame
<1>4. i < j
  <2> SUFFICES ASSUME j <= i
               PROVE  FALSE
    OBVIOUS
  <2>1. ShiftOne(j) <= ShiftOne(i) /\ ShiftOne(i) \in Nat /\ ShiftOne(j) \in Nat
    BY Monotone, PowerIsPositive
  <2> QED
    BY <1>1, <1>2, <1>3, <2>1
<1>5. i + (k + 1) - 2 \in 0..30 /\ i + (k + 1) - 2 <= j + k - 2
  BY <1>1, <1>4
<1>6. ShiftOne(i + (k + 1) - 2) <= ShiftOne(j + k - 2)
  BY <1>1, <1>5, Monotone
<1>7. ShiftOne(i + (k + 1) - 2) < length
  <2>1. ShiftOne(i + (k + 1) - 2) \in Nat /\ ShiftOne(j + k - 2) \in Nat
    BY <1>1, <1>5, PowerIsPositive
  <2> QED
    BY <1>1, <1>6, <2>1
<1> QED
  BY <1>2, <1>5, <1>7 DEF Fits

-----------------------------------------------------------------------------
(* A step of the recursion moves at most one place up *)

(* No frame of p changes its node, and at most one is added.               *)
Climbs(p) ==
  /\ span'[p] = span[p]
  /\ Len(stack'[p]) <= Len(stack[p]) + 1
  /\ \A k \in 1..Len(stack'[p]) :
       k <= Len(stack[p]) => SameNode(stack[p][k], stack'[p][k])

(* Where the frames of p lie after a step that keeps the invariant.        *)
LEMMA NextStack ==
  ASSUME IInv', NEW p \in Proc, NEW k \in 2..Len(stack'[p])
  PROVE  /\ Len(stack'[p]) \in Nat
         /\ stack'[p][k - 1] \in Frame /\ stack'[p][k] \in Frame
         /\ Waits(stack'[p][k - 1], stack'[p][k])
         /\ stack'[p][k - 1].left < stack'[p][k - 1].right
         /\ stack'[p][1].left = span'[p][1] /\ stack'[p][1].right = span'[p][2]
<1>1. stack'[p] \in Seq(Frame) /\ Len(stack'[p]) \in Nat /\ stack'[p] # <<>>
  BY DEF IInv, TypeOK
<1>2. StackOK(stack'[p], span'[p], target'[p], loaded')
  BY <1>1 DEF IInv, ProcOK
<1>3. k \in 1..Len(stack'[p]) /\ k - 1 \in 1..(Len(stack'[p]) - 1) /\ k - 1 \in 1..Len(stack'[p])
  BY <1>1
<1>4. Waits(stack'[p][k - 1], stack'[p][(k - 1) + 1]) /\ (k - 1) + 1 = k
  BY <1>2, <1>3 DEF StackOK
<1>5. FrameOK(stack'[p][k - 1], target'[p], loaded')
  BY <1>2, <1>3 DEF StackOK
<1>6. stack'[p][k - 1].left < stack'[p][k - 1].right
  BY <1>4, <1>5 DEF FrameOK, Waits
<1>7. stack'[p][1].left = span'[p][1] /\ stack'[p][1].right = span'[p][2]
  BY <1>2 DEF StackOK
<1> QED
  BY <1>1, <1>3, <1>4, <1>6, <1>7

(* Such a step keeps the depth.                                            *)
LEMMA ClimbKeepsDepth ==
  ASSUME IInv, IInv', NEW p \in Proc, DepthOK(p), Climbs(p)
  PROVE  DepthOK(p)'
<1> SUFFICES ASSUME NEW k \in 2..Len(stack'[p])
             PROVE  Fits(stack'[p][k], k, Length(span[p]))
  BY DEF DepthOK, Climbs, Length
<1> DEFINE f == stack'[p][k - 1]
           g == stack'[p][k]
<1>1. /\ Len(stack'[p]) \in Nat /\ f \in Frame /\ g \in Frame /\ Waits(f, g)
      /\ f.left < f.right
      /\ stack'[p][1].left = span[p][1] /\ stack'[p][1].right = span[p][2]
  BY NextStack DEF Climbs
<1>2. Len(stack[p]) \in Nat /\ k \in Nat /\ k >= 2 /\ Length(span[p]) \in Int
  <2>1. stack[p] \in Seq(Frame) /\ span[p] \in Window
    BY DEF IInv, TypeOK
  <2>2. Length(span[p]) \in Int
    BY <2>1, TraceAssumption DEF Length, Window
  <2> HIDE DEF f, g
  <2> QED
    BY <1>1, <2>1, <2>2
<1>3. CASE k <= Len(stack[p])
  <2>1. SameNode(stack[p][k], g)
    BY <1>1, <1>2, <1>3 DEF Climbs
  <2>2. Fits(stack[p][k], k, Length(span[p]))
    BY <1>2, <1>3 DEF DepthOK
  <2> QED
    BY <2>1, <2>2 DEF Fits, SameNode
<1>4. CASE k = 2
  BY <1>1, <1>4, FirstChildFits DEF Length
<1>5. CASE k > 2 /\ k = Len(stack[p]) + 1
  <2>1. k - 1 \in 2..Len(stack[p]) /\ k - 1 \in 1..Len(stack'[p]) /\ k - 1 <= Len(stack[p])
    BY <1>1, <1>2, <1>5
  <2>2. Fits(stack[p][k - 1], k - 1, Length(span[p])) /\ SameNode(stack[p][k - 1], f)
    BY <2>1 DEF DepthOK, Climbs
  <2>3. Fits(f, k - 1, Length(span[p]))
    BY <2>2 DEF Fits, SameNode
  <2>4. Fits(g, (k - 1) + 1, Length(span[p])) /\ (k - 1) + 1 = k
    <3> HIDE DEF f, g
    <3> QED
      BY <1>1, <1>2, <1>5, <2>3, ChildFits
  <2> QED
    BY <2>4
<1>6. k <= Len(stack[p]) + 1
  BY <1>1, <1>2 DEF Climbs
<1> QED
  BY <1>2, <1>3, <1>4, <1>5, <1>6

(* A stack that is empty or has been started anew.                         *)
LEMMA ShallowIsOK ==
  ASSUME NEW p \in Proc, stack'[p] = <<>> \/ \E f : stack'[p] = <<f>>
  PROVE  DepthOK(p)'
BY DEF DepthOK

(* The others keep their stacks.                                           *)
LEMMA OthersKeepDepth ==
  ASSUME NEW q \in Proc, DepthOK(q), stack'[q] = stack[q], span'[q] = span[q]
  PROVE  DepthOK(q)'
BY DEF DepthOK, Length

-----------------------------------------------------------------------------
(* The three ways a step changes a stack *)

LEMMA TopClimbs ==
  ASSUME IInv, NEW p \in Proc, stack[p] # <<>>, NEW f, SameNode(Top(p), f),
         SetTop(p, f), UNCHANGED span
  PROVE  Climbs(p)
<1>1. stack[p] \in Seq(Frame) /\ Len(stack[p]) \in Nat \ {0}
  BY DEF IInv, TypeOK
<1>2. stack'[p] = [stack[p] EXCEPT ![Len(stack[p])] = f]
  BY DEF SetTop, IInv, TypeOK
<1>3. /\ Len(stack'[p]) = Len(stack[p]) /\ stack'[p][Len(stack[p])] = f
      /\ \A k \in 1..(Len(stack[p]) - 1) : stack'[p][k] = stack[p][k]
  BY <1>1, <1>2
<1>4. ASSUME NEW k \in 1..Len(stack[p])
      PROVE  SameNode(stack[p][k], stack'[p][k])
  <2>1. CASE k = Len(stack[p])
    BY <1>3, <2>1 DEF Top
  <2>2. CASE k \in 1..(Len(stack[p]) - 1)
    BY <1>3, <2>2 DEF SameNode
  <2> QED
    BY <1>1, <2>1, <2>2
<1> QED
  BY <1>1, <1>3, <1>4 DEF Climbs

LEMMA CallClimbs ==
  ASSUME IInv, NEW p \in Proc, stack[p] # <<>>, NEW f, NEW g, SameNode(Top(p), f),
         CallFrom(p, f, g), UNCHANGED span
  PROVE  Climbs(p)
<1> DEFINE L == Len(stack[p])
           s == [stack[p] EXCEPT ![L] = f]
<1>1. stack[p] \in Seq(Frame) /\ L \in Nat \ {0}
  BY DEF IInv, TypeOK
<1>2. stack'[p] = Append(s, g)
  BY DEF CallFrom, IInv, TypeOK
<1>3. /\ Len(s) = L /\ s[L] = f /\ s \in Seq(Frame \cup {f})
      /\ \A k \in 1..(L - 1) : s[k] = stack[p][k]
  BY <1>1
<1> HIDE DEF s
<1>4. /\ Len(stack'[p]) = L + 1
      /\ \A k \in 1..L : stack'[p][k] = s[k]
  BY <1>1, <1>2, <1>3
<1>5. ASSUME NEW k \in 1..L
      PROVE  SameNode(stack[p][k], stack'[p][k])
  <2>1. CASE k = L
    BY <1>3, <1>4, <2>1 DEF Top
  <2>2. CASE k \in 1..(L - 1)
    BY <1>3, <1>4, <2>2 DEF SameNode
  <2> QED
    BY <1>1, <2>1, <2>2
<1> QED
  BY <1>1, <1>4, <1>5 DEF Climbs

LEMMA ReturnClimbs ==
  ASSUME IInv, NEW p \in Proc, stack[p] # <<>>, Len(stack[p]) > 1, NEW f,
         SameNode(Caller(p), f), ReturnTo(p, f), UNCHANGED span
  PROVE  Climbs(p)
<1> DEFINE L == Len(stack[p])
           s == SubSeq(stack[p], 1, L - 2)
<1>1. stack[p] \in Seq(Frame) /\ L \in Nat /\ L > 1
  BY DEF IInv, TypeOK
<1>2. stack'[p] = Append(s, f)
  BY DEF ReturnTo, IInv, TypeOK
<1>3. /\ Len(s) = L - 2 /\ s \in Seq(Frame)
      /\ \A k \in 1..(L - 2) : s[k] = stack[p][k]
  BY <1>1
<1> HIDE DEF s
<1>4. /\ Len(stack'[p]) = L - 1 /\ stack'[p][L - 1] = f
      /\ \A k \in 1..(L - 2) : stack'[p][k] = s[k]
  BY <1>1, <1>2, <1>3
<1>5. ASSUME NEW k \in 1..(L - 1)
      PROVE  SameNode(stack[p][k], stack'[p][k])
  <2>1. CASE k = L - 1
    BY <1>4, <2>1 DEF Caller
  <2>2. CASE k \in 1..(L - 2)
    BY <1>3, <1>4, <2>2 DEF SameNode
  <2> QED
    BY <1>1, <2>1, <2>2
<1> QED
  BY <1>1, <1>4, <1>5 DEF Climbs

-----------------------------------------------------------------------------
(* The steps *)

(* What a process does not move by, in a step of another.                  *)
Still(q) ==
  /\ stack'[q] = stack[q] /\ span'[q] = span[q]
  /\ mode'[q] = mode[q] /\ level'[q] = level[q] /\ buffer'[q] = buffer[q]

Bounds == IInv /\ \A p \in Proc : DepthOK(p) /\ WritesOK(p)

LEMMA ProcBounds ==
  ASSUME Bounds, IInv', NEW p \in Proc, \A q \in Proc \ {p} : Still(q),
         DepthOK(p)', WritesOK(p)'
  PROVE  Bounds'
<1>1. ASSUME NEW q \in Proc
      PROVE  DepthOK(q)' /\ WritesOK(q)'
  <2>1. CASE q = p
    BY <2>1
  <2>2. CASE q # p
    BY <2>2, OthersKeepDepth DEF Bounds, Still, WritesOK
  <2> QED
    BY <2>1, <2>2
<1> QED
  BY <1>1 DEF Bounds

(* A step inside of the recursion that writes nothing.                     *)
LEMMA QuietStep ==
  ASSUME Bounds, IInv', NEW p \in Proc, Climbs(p), \A q \in Proc \ {p} : stack'[q] = stack[q],
         UNCHANGED <<mode, level, span, buffer>>
  PROVE  Bounds'
<1>1. DepthOK(p)'
  BY ClimbKeepsDepth DEF Bounds
<1>2. WritesOK(p)'
  BY DEF Bounds, WritesOK
<1>3. \A q \in Proc \ {p} : Still(q)
  BY DEF Still
<1> QED
  BY <1>1, <1>2, <1>3, ProcBounds

LEMMA LoadBounds ==
  ASSUME Bounds, IInv', NEW p \in Proc, LoadNode(p) \/ OverlapNode(p)
  PROVE  Bounds'
<1> DEFINE f == Top(p)
<1>1. stack[p] # <<>> /\ UNCHANGED <<mode, level, span, buffer>> /\ IInv
  BY DEF LoadNode, OverlapNode, At, Bounds
<1>2. f \in Frame
  BY <1>1, TopOf
<1>3. /\ \A A : SameNode(f, [f EXCEPT !.pc = "done", !.res = A])
      /\ \A pc : SameNode(f, [f EXCEPT !.pc = pc])
      /\ SameNode(f, Call("build", f.left, f.right))
  BY <1>2 DEF Frame, SameNode, Call
<1>4. PICK g : SetTop(p, g) /\ SameNode(f, g)
  <2>1. CASE OverlapNode(p)
    BY <2>1, <1>3 DEF OverlapNode
  <2>2. CASE LoadNode(p)
    BY <2>2, <1>3 DEF LoadNode, MissedNode
  <2> QED
    BY <2>1, <2>2
<1>5. \A q \in Proc \ {p} : stack'[q] = stack[q]
  BY <1>1, <1>4 DEF SetTop, IInv, TypeOK
<1>6. Climbs(p)
  BY <1>1, <1>4, TopClimbs
<1> QED
  BY <1>1, <1>5, <1>6, QuietStep

LEMMA CallBounds ==
  ASSUME Bounds, IInv', NEW p \in Proc, CallLeft(p) \/ CallRight(p)
  PROVE  Bounds'
<1> DEFINE f == Top(p)
<1>1. stack[p] # <<>> /\ UNCHANGED <<mode, level, span, buffer>> /\ IInv
  BY DEF CallLeft, CallRight, At, Bounds
<1>2. f \in Frame
  BY <1>1, TopOf
<1>3. \A pc : SameNode(f, [f EXCEPT !.pc = pc])
  BY <1>2 DEF Frame, SameNode
<1>4. PICK g : SameNode(f, g) /\ (SetTop(p, g) \/ \E h : CallFrom(p, g, h))
  BY <1>3 DEF CallLeft, CallRight
<1>5. \A q \in Proc \ {p} : stack'[q] = stack[q]
  BY <1>1, <1>4 DEF SetTop, CallFrom, IInv, TypeOK
<1>6. Climbs(p)
  BY <1>1, <1>4, TopClimbs, CallClimbs
<1> QED
  BY <1>1, <1>5, <1>6, QuietStep

LEMMA ReturnBounds ==
  ASSUME Bounds, IInv', NEW p \in Proc, ReturnLeft(p) \/ ReturnRight(p)
  PROVE  Bounds'
<1> DEFINE f == Caller(p)
<1>1. /\ stack[p] # <<>> /\ Len(stack[p]) > 1
      /\ UNCHANGED <<mode, level, span, buffer>> /\ IInv
  BY DEF ReturnLeft, ReturnRight, Returned, At, Bounds
<1>2. f \in Frame
  BY <1>1, ReturnedShare DEF ReturnLeft, ReturnRight
<1>3. /\ \A A : SameNode(f, [f EXCEPT !.pc = "callRight", !.lres = A])
      /\ \A A : SameNode(f, [f EXCEPT !.pc = "join", !.rres = A])
  BY <1>2 DEF Frame, SameNode
<1>4. PICK g : SameNode(f, g) /\ ReturnTo(p, g)
  BY <1>3 DEF ReturnLeft, ReturnRight
<1>5. \A q \in Proc \ {p} : stack'[q] = stack[q]
  BY <1>1, <1>4 DEF ReturnTo, IInv, TypeOK
<1>6. Climbs(p)
  BY <1>1, <1>4, ReturnClimbs
<1> QED
  BY <1>1, <1>5, <1>6, QuietStep

LEMMA JoinBounds ==
  ASSUME Bounds, IInv', NEW p \in Proc, Join(p)
  PROVE  Bounds'
<1>1. /\ stack[p] # <<>> /\ UNCHANGED <<mode, level, span, buffer>> /\ IInv
      /\ Top(p).pc = "join" /\ SetTop(p, Joined(Top(p)))
  BY DEF Join, At, Bounds
<1>2. Top(p) \in Frame /\ FrameOK(Top(p), target[p], loaded) /\ target[p] \in Window
      /\ target[p][1] <= target[p][2]
  BY <1>1, TopOf, RunningProc
<1>3. SameNode(Top(p), Joined(Top(p)))
  BY <1>1, <1>2, JoinedFrame DEF SameNode
<1>4. \A q \in Proc \ {p} : stack'[q] = stack[q]
  BY <1>1 DEF SetTop, IInv, TypeOK
<1>5. Climbs(p)
  BY <1>1, <1>3, TopClimbs
<1> QED
  BY <1>1, <1>4, <1>5, QuietStep

(* No range is longer than 1 << 29, so a query stores nothing.             *)
LEMMA QueryStoresNothing ==
  ASSUME NEW l \in 1..N, NEW r \in 1..N
  PROVE  ~StoresChildren(l, r, QueryLayer)
<1>1. ShiftOne(29) \in Nat
  BY PowerIsPositive
<1> QED
  BY <1>1, TraceAssumption, TreeAssumption DEF StoresChildren, QueryLayer

(* A store changes the buffer of its own process only.                     *)
LEMMA StoreIsOwn ==
  ASSUME IInv, NEW p \in Proc, NEW l, NEW r, NEW A, NEW stores, StoreOrFree(p, l, r, A, stores)
  PROVE  /\ \A q \in Proc \ {p} : buffer'[q] = buffer[q]
         /\ ~stores => buffer' = buffer
BY DEF StoreOrFree, StoreFromDevice, Commit, IInv, TypeOK

LEMMA StoreBounds ==
  ASSUME Bounds, IInv', NEW p \in Proc, StoreLeft(p) \/ StoreRight(p)
  PROVE  Bounds'
<1> DEFINE f == Top(p)
           stores == StoresChildren(f.left, f.right, level[p])
<1>1. stack[p] # <<>> /\ UNCHANGED <<mode, level, span>> /\ IInv
  BY DEF StoreLeft, StoreRight, At, Bounds
<1>2. f \in Frame /\ f.left \in 1..N /\ f.right \in 1..N
  BY <1>1, TopOf
<1>3. /\ \A q \in Proc \ {p} : buffer'[q] = buffer[q]
      /\ ~stores => buffer' = buffer
  BY <1>1, StoreIsOwn DEF StoreLeft, StoreRight
<1>4. \A pc : SameNode(f, [f EXCEPT !.pc = pc])
  BY <1>2 DEF Frame, SameNode
<1>5. PICK g : SetTop(p, g) /\ SameNode(f, g)
  BY <1>4 DEF StoreLeft, StoreRight
<1>6. DepthOK(p)'
  BY <1>1, <1>5, TopClimbs, ClimbKeepsDepth DEF Bounds
<1>7. WritesOK(p)'
  <2>1. mode[p] \in {"build", "query"} /\ WritesOK(p)
    BY <1>1, RunningProc DEF Bounds
  <2>2. CASE mode[p] = "query"
    <3>1. level[p] = QueryLayer /\ ~stores
      BY <1>2, <2>1, <2>2, QueryStoresNothing DEF WritesOK
    <3> QED
      BY <1>1, <1>3, <2>1, <2>2, <3>1 DEF WritesOK
  <2>3. CASE mode[p] = "build"
    BY <1>1, <2>3 DEF WritesOK
  <2> QED
    BY <2>1, <2>2, <2>3
<1>8. \A q \in Proc \ {p} : Still(q)
  BY <1>1, <1>3, <1>5 DEF Still, SetTop, IInv, TypeOK
<1> QED
  BY <1>6, <1>7, <1>8, ProcBounds

(* The root is stored by a build.                                          *)
LEMMA StoreRootBounds ==
  ASSUME Bounds, IInv', NEW p \in Proc, StoreRoot(p)
  PROVE  Bounds'
<1>1. IInv /\ UNCHANGED <<level, span>>
  BY DEF Bounds, StoreRoot
<1>2. \A q \in Proc \ {p} : buffer'[q] = buffer[q]
  BY <1>1, StoreIsOwn DEF StoreRoot
<1>3. stack'[p] = <<>> /\ mode'[p] = "closing"
  BY <1>1 DEF StoreRoot, IInv, TypeOK
<1>4. \A q \in Proc \ {p} : Still(q)
  BY <1>1, <1>2 DEF Still, StoreRoot, IInv, TypeOK
<1>5. DepthOK(p)' /\ WritesOK(p)'
  BY <1>3, ShallowIsOK DEF WritesOK
<1> QED
  BY <1>4, <1>5, ProcBounds

(* The destructor, an answer or the end of the process: nothing waits.     *)
LEMMA EndBounds ==
  ASSUME Bounds, IInv', NEW p \in Proc,
         CloseDB(p) \/ AnswerQuery(p) \/ \E how : Die(p, how)
  PROVE  Bounds'
<1>1. IInv /\ WritesOK(p) /\ ProcOK(p)
  BY DEF Bounds, IInv
<1>2. mode'[p] = "idle" /\ stack'[p] = <<>> /\ buffer'[p] = <<>>
  <2>1. CASE CloseDB(p)
    BY <1>1, <2>1 DEF CloseDB, Commit, IInv, TypeOK, ProcOK
  <2>2. CASE AnswerQuery(p)
    BY <1>1, <2>2 DEF AnswerQuery, IInv, TypeOK, WritesOK
  <2>3. CASE \E how : Die(p, how)
    BY <1>1, <2>3 DEF Die, IInv, TypeOK
  <2> QED
    BY <2>1, <2>2, <2>3
<1>3. \A q \in Proc \ {p} : Still(q)
  BY <1>1 DEF Still, CloseDB, AnswerQuery, Die, Commit, IInv, TypeOK
<1>4. DepthOK(p)' /\ WritesOK(p)'
  BY <1>2, ShallowIsOK DEF WritesOK
<1> QED
  BY <1>3, <1>4, ProcBounds

(* A call starts with one frame; the buffer is empty before it.            *)
LEMMA StartBounds ==
  ASSUME Bounds, IInv', NEW p \in Proc, NEW w \in Spans,
         (\E l \in Levels : StartBuild(p, w, l)) \/ (\E t \in Targets : StartQuery(p, w, t))
  PROVE  Bounds'
<1>1. IInv /\ WritesOK(p) /\ mode[p] = "idle" /\ UNCHANGED buffer
  BY DEF Bounds, StartBuild, StartQuery
<1>2. \E f : stack'[p] = <<f>>
  BY <1>1 DEF StartBuild, StartQuery, IInv, TypeOK
<1>3. mode'[p] = "build" \/ (mode'[p] = "query" /\ level'[p] = QueryLayer)
  BY <1>1 DEF StartBuild, StartQuery, IInv, TypeOK
<1>4. WritesOK(p)'
  BY <1>1, <1>3 DEF WritesOK, QueryLayer
<1>5. \A q \in Proc \ {p} : Still(q)
  BY <1>1 DEF Still, StartBuild, StartQuery, IInv, TypeOK
<1> QED
  BY <1>2, <1>4, <1>5, ShallowIsOK, ProcBounds
-----------------------------------------------------------------------------
(* Depth, and what a query writes *)

LEMMA InitBounds == Init => Bounds
<1> SUFFICES ASSUME Init
             PROVE  Bounds
  OBVIOUS
<1>1. IInv
  BY InitInvariant
<1>2. \A p \in Proc : DepthOK(p) /\ WritesOK(p)
  BY DEF Init, DepthOK, WritesOK
<1> QED
  BY <1>1, <1>2 DEF Bounds

LEMMA NextBounds == Bounds /\ [Next]_vars => Bounds'
<1> SUFFICES ASSUME Bounds, [Next]_vars
             PROVE  Bounds'
  OBVIOUS
<1>1. IInv'
  BY NextInvariant DEF Bounds
<1>2. CASE CommitRules \/ UNCHANGED vars
  BY <1>1, <1>2 DEF CommitRules, vars, Bounds, DepthOK, WritesOK, Length
<1>3. ASSUME NEW p \in Proc, NEW w \in Spans,
             (\E l \in Levels : StartBuild(p, w, l)) \/ (\E t \in Targets : StartQuery(p, w, t))
      PROVE  Bounds'
  BY <1>1, <1>3, StartBounds
<1>4. ASSUME NEW p \in Proc, Run(p)
      PROVE  Bounds'
  <2>1. CASE LoadNode(p) \/ OverlapNode(p) \/ CallLeft(p) \/ CallRight(p)
    BY <1>1, <2>1, LoadBounds, CallBounds
  <2>2. CASE ReturnLeft(p) \/ ReturnRight(p) \/ Join(p)
    BY <1>1, <2>2, ReturnBounds, JoinBounds
  <2>3. CASE StoreLeft(p) \/ StoreRight(p) \/ StoreRoot(p)
    BY <1>1, <2>3, StoreBounds, StoreRootBounds
  <2>4. CASE CloseDB(p) \/ AnswerQuery(p) \/ Abort(p)
    BY <1>1, <2>4, EndBounds DEF Abort
  <2> QED
    BY <1>4, <2>1, <2>2, <2>3, <2>4 DEF Run
<1>5. ASSUME NEW p \in Proc, Crash(p)
      PROVE  Bounds'
  BY <1>1, <1>5, EndBounds DEF Crash
<1> QED
  BY <1>2, <1>3, <1>4, <1>5 DEF Next

(* What fits the L-th place keeps the stack short.                         *)
LEMMA DeepestFits ==
  ASSUME NEW L \in Nat, L > 1, NEW length \in Nat, length <= ShiftOne(29),
         NEW f, Fits(f, L, length)
  PROVE  ShiftOne(L - 1) < 2 * length
<1>1. PICK j \in 0..30 : j + L - 2 \in 0..30 /\ ShiftOne(j + L - 2) < length
  BY DEF Fits
<1>2. ShiftOne(29) \in Nat /\ ShiftOne(j + L - 2) \in Nat
  BY <1>1, PowerIsPositive
<1>3. j + L - 2 < 29
  <2> SUFFICES ASSUME 29 <= j + L - 2
               PROVE  FALSE
    OBVIOUS
  <2>1. ShiftOne(29) <= ShiftOne(j + L - 2)
    BY <1>1, Monotone
  <2> QED
    BY <1>1, <1>2, <2>1
<1>4. L - 2 \in 0..29 /\ L - 2 \in 0..30 /\ L - 2 <= j + L - 2
  BY <1>3
<1>5. ShiftOne(L - 2) <= ShiftOne(j + L - 2)
  BY <1>1, <1>4, Monotone
<1>6. ShiftOne(L - 1) = 2 * ShiftOne(L - 2)
  <2>1. ShiftOne((L - 2) + 1) = 2 * ShiftOne(L - 2)
    BY <1>4, Doubling
  <2>2. (L - 2) + 1 = L - 1
    OBVIOUS
  <2> QED
    BY <2>1, <2>2
<1>7. ShiftOne(L - 2) \in Nat
  BY <1>4, PowerIsPositive
<1> QED
  BY <1>1, <1>2, <1>5, <1>6, <1>7

(* The range of a tree is no longer than a trace.                          *)
LEMMA SpanLength ==
  ASSUME IInv, NEW p \in Proc, stack[p] # <<>>
  PROVE  Length(span[p]) \in Nat \ {0} /\ Length(span[p]) <= ShiftOne(29)
<1> DEFINE w == span[p]
           t == target[p]
<1>1. /\ w \in Window /\ t \in Window
      /\ w[1] <= t[1] /\ t[1] <= t[2] /\ t[2] <= w[2]
  BY RunningProc
<1> HIDE DEF w, t
<1>2. w[1] \in 1..N /\ w[2] \in 1..N /\ t[1] \in 1..N /\ t[2] \in 1..N /\ N \in Nat
  BY <1>1, TraceAssumption DEF Window
<1>3. N <= ShiftOne(29) /\ ShiftOne(29) \in Nat
  BY TreeAssumption, PowerIsPositive
<1>4. Length(w) \in Nat \ {0} /\ Length(w) <= N
  BY <1>1, <1>2 DEF Length
<1> QED
  BY <1>2, <1>3, <1>4 DEF w

LEMMA BoundsHold == Spec => []Bounds
BY InitBounds, NextBounds, PTL DEF Spec

(* The recursions are never deeper than the range is long in bits, for     *)
(* every trace whose length is at most 1 << 29 and from wherever in it a   *)
(* call starts: the splits of highestPowerOf2 are uneven, but every one    *)
(* after the first at least halves a power of two.                         *)
THEOREM DepthStaysLogarithmic == Spec => []DepthLogarithmic
<1>1. Bounds => DepthLogarithmic
  <2> SUFFICES ASSUME Bounds, NEW p \in Proc, stack[p] # <<>>
               PROVE  ShiftOne(Len(stack[p]) - 1) < 2 * Length(span[p])
    BY DEF DepthLogarithmic, Length
  <2> DEFINE L == Len(stack[p])
             n == Length(span[p])
  <2>1. L \in Nat \ {0} /\ DepthOK(p) /\ IInv
    <3>1. stack[p] \in Seq(Frame)
      BY DEF Bounds, IInv, TypeOK
    <3> QED
      BY <3>1 DEF Bounds
  <2>2. n \in Nat \ {0} /\ n <= ShiftOne(29)
    BY <2>1, SpanLength
  <2>3. CASE L = 1
    <3>1. ShiftOne(0) = 1
      BY SMT DEF ShiftOne, PowersOfTwo
    <3> QED
      BY <2>2, <2>3, <3>1
  <2>4. CASE L > 1
    <3>1. Fits(stack[p][L], L, Length(span[p]))
      BY <2>1, <2>4 DEF DepthOK
    <3>2. n \in Nat /\ n <= ShiftOne(29) /\ L \in Nat /\ L > 1
      BY <2>1, <2>2, <2>4
    <3> HIDE DEF L, n
    <3> QED
      BY <3>1, <3>2, DeepestFits DEF L, n
  <2>5. L = 1 \/ L > 1
    <3> HIDE DEF L
    <3> QED
      BY <2>1
  <2> QED
    BY <2>3, <2>4, <2>5
<1> QED
  BY <1>1, BoundsHold, PTL

(* A query never puts a row into the transaction buffer of its connection, *)
(* however much of the tree it has to build, for every length of a trace   *)
(* up to 1 << 29: the layer it builds with is above every node.            *)
THEOREM QueriesOnlyRead == Spec => []QueryReadOnly
<1>1. Bounds => QueryReadOnly
  BY DEF Bounds, WritesOK, QueryReadOnly
<1> QED
  BY <1>1, BoundsHold, PTL

-----------------------------------------------------------------------------
(* Valid indices of an answer *)

(* Those of the target's part of a range, without its two ends.            *)
LEMMA ShareValidIs ==
  ASSUME NEW t \in Window, NEW l \in Int, NEW r \in Int
  PROVE  ShareValid(t, l, r) =
           UNION {Rules[i].v : i \in {j \in DOMAIN Rules :
                                        /\ l <= j /\ j <= r
                                        /\ t[1] <= j /\ j <= t[2]}}
<1> DEFINE a == IF l < t[1] THEN t[1] ELSE l
           b == IF t[2] < r THEN t[2] ELSE r
           D == {j \in DOMAIN Rules : l <= j /\ j <= r /\ t[1] <= j /\ j <= t[2]}
<1>1. t[1] \in Int /\ t[2] \in Int /\ N \in Nat
  BY TraceAssumption DEF Window
<1>2. \A j \in DOMAIN Rules : j \in Int
  BY TraceAssumption
<1>3. (a..b) \cap DOMAIN Rules = D
  BY <1>1, <1>2
<1> HIDE DEF a, b, D
<1> QED
  BY <1>3 DEF ShareValid, Valid, a, b, D

(* The indices of the two children make up those of their node.            *)
LEMMA ShareValidSplits ==
  ASSUME NEW t \in Window, NEW l \in Int, NEW m \in Int, NEW r \in Int, l < m, m <= r
  PROVE  ShareValid(t, l, r) = ShareValid(t, l, m - 1) \cup ShareValid(t, m, r)
<1> DEFINE D(a, b) == {j \in DOMAIN Rules : a <= j /\ j <= b /\ t[1] <= j /\ j <= t[2]}
<1>1. \A j \in DOMAIN Rules : j \in Int
  BY TraceAssumption
<1>2. D(l, r) = D(l, m - 1) \cup D(m, r)
  BY <1>1
<1>3. /\ ShareValid(t, l, r) = UNION {Rules[i].v : i \in D(l, r)}
      /\ ShareValid(t, l, m - 1) = UNION {Rules[i].v : i \in D(l, m - 1)}
      /\ ShareValid(t, m, r) = UNION {Rules[i].v : i \in D(m, r)}
  BY ShareValidIs
<1> HIDE DEF D
<1> QED
  BY <1>2, <1>3

(* A covered range is all share; a range beside the target has none.       *)
LEMMA ShareValidOfCovered ==
  ASSUME NEW t \in Window, NEW l \in 1..N, NEW r \in 1..N, t[1] <= l, r <= t[2]
  PROVE  ShareValid(t, l, r) = Valid(l, r)
<1>1. t[1] \in Int /\ t[2] \in Int
  BY TraceAssumption DEF Window
<1> QED
  BY <1>1, TraceAssumption DEF ShareValid

LEMMA ShareValidBeside ==
  ASSUME NEW t \in Window, NEW l \in Int, NEW r \in Int, r < t[1] \/ t[2] < l
  PROVE  ShareValid(t, l, r) = {}
<1> DEFINE D == {j \in DOMAIN Rules : l <= j /\ j <= r /\ t[1] <= j /\ j <= t[2]}
<1>1. t[1] \in Int /\ t[2] \in Int
  BY TraceAssumption DEF Window
<1>2. \A j \in DOMAIN Rules : j \in Int
  BY TraceAssumption
<1>3. D = {}
  BY <1>1, <1>2
<1>4. ShareValid(t, l, r) = UNION {Rules[i].v : i \in D}
  BY ShareValidIs
<1> HIDE DEF D
<1> QED
  BY <1>3, <1>4

(* The share of a target in the range around it is all of the target.      *)
LEMMA ShareValidOfAll ==
  ASSUME NEW t \in Window, NEW w \in Window, w[1] <= t[1], t[2] <= w[2]
  PROVE  ShareValid(t, w[1], w[2]) = Valid(t[1], t[2])
<1>1. t[1] \in Int /\ t[2] \in Int /\ w[1] \in Int /\ w[2] \in Int
  BY TraceAssumption DEF Window
<1>2. (IF w[1] < t[1] THEN t[1] ELSE w[1]) = t[1] /\ (IF t[2] < w[2] THEN t[2] ELSE w[2]) = t[2]
  BY <1>1
<1> QED
  BY <1>2 DEF ShareValid

(* Some rule of the range has valid indices iff the range has.             *)
LEMMA FlowIsValid ==
  ASSUME NEW l \in Int, NEW r \in Int
  PROVE  HasFlow(l, r) <=> Valid(l, r) # {}
BY DEF HasFlow, Valid

(* No flow, no product of the node's own.                                  *)
LEMMA BranchingHalves ==
  ASSUME NEW l \in 1..N, NEW r \in 1..N, l < r, Branching(l, r)
  PROVE  Valid(l, Mid(l, r) - 1) # {} /\ Valid(Mid(l, r), r) # {}
<1>1. Mid(l, r) \in Int /\ l # r
  BY MidInside, TraceAssumption
<1> QED
  BY <1>1, FlowIsValid, TraceAssumption DEF Branching

-----------------------------------------------------------------------------
(* Which layers are stored *)

(* A set of layers has a largest.                                          *)
LEMMA LargestOf ==
  ASSUME NEW S \in SUBSET (0..29), S # {}
  PROVE  \E m \in S : \A x \in S : x <= m
<1> DEFINE D == {29 - x : x \in S}
<1>1. \A x \in S : x \in 0..29 /\ 29 - x \in Nat /\ 29 - x \in D
  <2> TAKE x \in S
  <2>1. x \in 0..29
    OBVIOUS
  <2>2. 29 - x \in D
    OBVIOUS
  <2> HIDE DEF D
  <2> QED
    BY <2>1, <2>2
<1>2. D \subseteq Nat /\ D # {}
  BY <1>1
<1>3. PICK y \in D : \A z \in D : <<z, y>> \notin OpToRel(<, Nat)
  <2> HIDE DEF D
  <2> QED
    BY <1>2, NatLessThanWellFounded, WFMin
<1>4. \A z \in D : ~(z < y)
  BY <1>2, <1>3 DEF OpToRel
<1>5. PICK m \in S : y = 29 - m
  OBVIOUS
<1>6. ASSUME NEW x \in S
      PROVE  x <= m
  <2> HIDE DEF D
  <2> QED
    BY <1>1, <1>4, <1>5
<1> QED
  BY <1>6

(* Some layer of the builds is the coarsest.                               *)
LEMMA CoarsestIsLargest ==
  ASSUME NEW n \in {NotStoredLayer(l) : l \in Levels}
  PROVE  CoarsestLayer \in 0..29 /\ n \in 0..29 /\ n <= CoarsestLayer
<1> DEFINE S == {NotStoredLayer(l) : l \in Levels}
<1>1. S \subseteq 0..29
  BY TreeAssumption DEF NotStoredLayer
<1>2. \E m \in S : \A x \in S : x <= m
  BY <1>1, LargestOf
<1>3. \E m \in S : \A k \in Levels : NotStoredLayer(k) <= m
  BY <1>2
<1>4. CoarsestLayer \in S /\ \A k \in Levels : NotStoredLayer(k) <= CoarsestLayer
  BY <1>3 DEF CoarsestLayer
<1> QED
  BY <1>1, <1>4

(* What is stored at the coarsest layer is stored by every build.          *)
LEMMA EveryBuildStores ==
  ASSUME NEW n \in {NotStoredLayer(l) : l \in Levels}, NEW l \in 1..N, NEW r \in 1..N,
         StoresChildren(l, r, CoarsestLayer)
  PROVE  StoresChildren(l, r, n)
<1>1. CoarsestLayer \in 0..29 /\ n \in 0..29 /\ n <= CoarsestLayer
  BY CoarsestIsLargest
<1>2. ShiftOne(n) <= ShiftOne(CoarsestLayer)
  BY <1>1, Monotone
<1>3. ShiftOne(n) \in Nat /\ ShiftOne(CoarsestLayer) \in Nat /\ l \in Int /\ r \in Int
  BY <1>1, PowerIsPositive, TraceAssumption
<1> QED
  BY <1>2, <1>3 DEF StoresChildren

-----------------------------------------------------------------------------
(* Frames *)

(* A frame stays good when keys are added to the table and no row that it  *)
(* is going to store is added to the buffer.                               *)
LEMMA GoodMono ==
  ASSUME NEW f, NEW t, NEW call, NEW table, NEW held, NEW rows,
         NEW table2, NEW held2, NEW rows2,
         FrameGood(f, t, call, table, held, rows),
         table \subseteq table2, held \subseteq held2,
         call = "build" => \A r \in rows2 : r \in rows \/ NotDue(f, r)
  PROVE  FrameGood(f, t, call, table2, held2, rows2)
<1>1. \A A, l, r : ResultOK(A, l, r, table, held) => ResultOK(A, l, r, table2, held2)
  BY DEF ResultOK
<1>2. FrameHolds(f, table, held) => FrameHolds(f, table2, held2)
  BY <1>1 DEF FrameHolds
<1> QED
  BY <1>2 DEF FrameGood

(* A call of a part that lies behind all that waits.                       *)
LEMMA NewCallGood ==
  ASSUME NEW op, NEW l \in 1..N, NEW r \in 1..N, l <= r,
         NEW t, NEW call, NEW table, NEW held, NEW rows \in SUBSET DBRow,
         call = "build" => op = "build" /\ \A x \in rows : x.right < l
  PROVE  FrameGood(Call(op, l, r), t, call, table, held, rows)
<1> DEFINE c == Call(op, l, r)
<1>1. c.op = op /\ c.left = l /\ c.right = r /\ c.pc = "load"
  BY DEF Call
<1> HIDE DEF c
<1>2. FrameValid(c, t)
  BY <1>1 DEF FrameValid
<1>3. call = "build" => FrameHolds(c, table, held)
  BY <1>1 DEF FrameHolds
<1>4. ASSUME call = "build", NEW x \in rows
      PROVE  NotDue(c, x)
  <2>1. x.right < l /\ x.right \in 1..N
    BY <1>4 DEF DBRow
  <2>2. x.right <= r /\ x.right # r
    BY <2>1, TraceAssumption
  <2> QED
    BY <1>1, <2>1, <2>2 DEF NotDue, Key
<1> QED
  BY <1>2, <1>3, <1>4 DEF FrameGood, c

(* The node has been found, or has nothing.                                *)
LEMMA FoundGood ==
  ASSUME NEW f \in Frame, NEW t, NEW call, NEW table, NEW held, NEW rows,
         FrameGood(f, t, call, table, held, rows), f.pc = "load",
         NEW A \in Matrix, A.v = ShareValid(t, f.left, f.right),
         call = "build" => ResultOK(A, f.left, f.right, table, held)
  PROVE  FrameGood([f EXCEPT !.pc = "done", !.res = A], t, call, table, held, rows)
BY DEF FrameGood, FrameValid, FrameHolds, NotDue, Frame

(* The node has not been found.                                            *)
LEMMA SplitGood ==
  ASSUME NEW f \in Frame, NEW t, NEW call, NEW table, NEW held, NEW rows,
         FrameGood(f, t, call, table, held, rows), f.pc = "load"
  PROVE  FrameGood([f EXCEPT !.pc = "callLeft"], t, call, table, held, rows)
BY DEF FrameGood, FrameValid, FrameHolds, NotDue, Frame

(* What waits lies before a node whose children are to be called.          *)
LEMMA CallingLeftGood ==
  ASSUME NEW f \in Frame, NEW t, NEW call, NEW table, NEW held, NEW rows \in SUBSET DBRow,
         FrameGood(f, t, call, table, held, rows), f.pc = "callLeft", f.left < f.right
  PROVE  FrameGood([f EXCEPT !.pc = "left"], t, call, table, held, rows)
<1> DEFINE g == [f EXCEPT !.pc = "left"]
           m == Mid(f.left, f.right)
<1>1. g.op = f.op /\ SameNode(f, g) /\ g.pc = "left"
  BY DEF Frame, SameNode
<1>2. f.left \in 1..N /\ f.right \in 1..N /\ m \in 1..N /\ f.left < m /\ m <= f.right
  BY MidInside DEF Frame
<1> HIDE DEF g
<1>3. FrameValid(g, t)
  BY <1>1 DEF FrameValid
<1>4. call = "build" => FrameHolds(g, table, held)
  BY <1>1 DEF FrameGood, FrameHolds
<1>5. ASSUME call = "build", NEW r \in rows
      PROVE  NotDue(g, r)
  <2>1. NotDue(f, r) /\ r.right < f.left /\ r.right \in 1..N
    BY <1>5 DEF FrameGood, NotDue, DBRow
  <2> HIDE DEF m
  <2>2. r.right < m /\ r.right # m - 1 /\ r.right # f.right /\ r.right <= f.right
    BY <1>2, <2>1, TraceAssumption
  <2> QED
    BY <1>1, <2>2 DEF NotDue, LeftKey, RightKey, Key, SameNode, m
<1> QED
  BY <1>3, <1>4, <1>5 DEF FrameGood, g

(* The left child is in: a build has called it.                            *)
LEMMA LeftInGood ==
  ASSUME NEW f \in Frame, NEW t, NEW call, NEW table, NEW held, NEW rows,
         FrameGood(f, t, call, table, held, rows), f.pc \in {"callLeft", "left"},
         NEW A \in Matrix, A.v = ShareValid(t, f.left, Mid(f.left, f.right) - 1),
         call = "build" => /\ f.pc = "left"
                           /\ ResultOK(A, f.left, Mid(f.left, f.right) - 1, table, held)
  PROVE  FrameGood([f EXCEPT !.pc = "callRight", !.lres = A], t, call, table, held, rows)
BY DEF FrameGood, FrameValid, FrameHolds, NotDue, Frame

(* The right child is called.                                              *)
LEMMA CallingRightGood ==
  ASSUME NEW f \in Frame, NEW t, NEW call, NEW table, NEW held, NEW rows,
         FrameGood(f, t, call, table, held, rows), f.pc = "callRight"
  PROVE  FrameGood([f EXCEPT !.pc = "right"], t, call, table, held, rows)
BY DEF FrameGood, FrameValid, FrameHolds, NotDue, Frame

(* The right child is in.                                                  *)
LEMMA RightInGood ==
  ASSUME NEW f \in Frame, NEW t, NEW call, NEW table, NEW held, NEW rows,
         FrameGood(f, t, call, table, held, rows), f.pc \in {"callRight", "right"},
         NEW A \in Matrix, A.v = ShareValid(t, Mid(f.left, f.right), f.right),
         call = "build" => /\ f.pc = "right"
                           /\ ResultOK(A, Mid(f.left, f.right), f.right, table, held)
  PROVE  FrameGood([f EXCEPT !.pc = "join", !.rres = A], t, call, table, held, rows)
BY DEF FrameGood, FrameValid, FrameHolds, NotDue, Frame

(* A join keeps the valid indices.  A node that is Branching has two valid *)
(* children, so its product is computed.                                   *)
LEMMA JoinedGood ==
  ASSUME NEW f \in Frame, NEW t \in Window, NEW n, FrameOK(f, t, n), f.pc = "join",
         NEW call, NEW table, NEW held, NEW rows, FrameGood(f, t, call, table, held, rows)
  PROVE  FrameGood(Joined(f), t, call, table, held, rows)
<1> DEFINE m == Mid(f.left, f.right)
           g == Joined(f)
<1>1. /\ f.left \in 1..N /\ f.right \in 1..N /\ f.left < f.right
      /\ f.lres \in Matrix /\ f.rres \in Matrix /\ f.op \in {"build", "query"}
      /\ f.op = "build" => t[1] <= f.left /\ f.right <= t[2]
      /\ t[1] \in 1..N /\ t[2] \in 1..N
  BY DEF Frame, FrameOK, Window
<1>2. m \in 1..N /\ m - 1 \in 1..N /\ f.left < m /\ m <= f.right
  BY <1>1, MidInside, TraceAssumption
<1>3. /\ f.lres.v = ShareValid(t, f.left, m - 1)
      /\ f.rres.v = ShareValid(t, m, f.right)
  BY DEF FrameGood, FrameValid
<1>4. ShareValid(t, f.left, f.right) = f.lres.v \cup f.rres.v
  BY <1>1, <1>2, <1>3, ShareValidSplits
<1>5. ASSUME call = "build"
      PROVE  /\ f.op = "build"
             /\ Branching(f.left, f.right) => ~Invalid(f.lres) /\ ~Invalid(f.rres)
             /\ ResultOK(f.lres, f.left, m - 1, table, held)
             /\ ResultOK(f.rres, m, f.right, table, held)
             /\ \A r \in rows : NotDue(f, r)
  <2>1. f.op = "build" /\ \A r \in rows : NotDue(f, r)
    BY <1>5 DEF FrameGood, FrameHolds
  <2>2. /\ ResultOK(f.lres, f.left, m - 1, table, held)
        /\ ResultOK(f.rres, m, f.right, table, held)
    BY <1>5 DEF FrameGood, FrameHolds
  <2>3. m - 1 <= t[2] /\ t[1] <= m
    <3> HIDE DEF m
    <3> QED
      BY <1>1, <1>2, <2>1, TraceAssumption
  <2>4. f.lres.v = Valid(f.left, m - 1) /\ f.rres.v = Valid(m, f.right)
    BY <1>1, <1>2, <1>3, <2>1, <2>3, ShareValidOfCovered
  <2>5. Branching(f.left, f.right) => f.lres.v # {} /\ f.rres.v # {}
    BY <1>1, <2>4, BranchingHalves
  <2> QED
    BY <1>1, <2>1, <2>2, <2>5 DEF Invalid, Matrix
<1>6. ASSUME NEW A \in Matrix, A = f.lres \/ A = f.rres, g = [f EXCEPT !.pc = "done", !.res = A],
             A.v = ShareValid(t, f.left, f.right), Invalid(f.lres) \/ Invalid(f.rres)
      PROVE  FrameGood(g, t, call, table, held, rows)
  <2>1. g.op = f.op /\ SameNode(f, g) /\ g.pc = "done" /\ g.res = A
    BY <1>6 DEF Frame, SameNode
  <2> HIDE DEF g
  <2>2. FrameValid(g, t)
    BY <1>6, <2>1 DEF FrameValid, SameNode
  <2>3. ASSUME call = "build"
        PROVE  FrameHolds(g, table, held) /\ \A r \in rows : NotDue(g, r)
    <3>1. ResultOK(A, f.left, f.right, table, held)
      BY <1>1, <1>5, <1>6, <2>3 DEF ResultOK
    <3>2. FrameHolds(g, table, held)
      BY <1>5, <2>1, <2>3, <3>1 DEF FrameHolds, SameNode
    <3> QED
      BY <1>5, <2>1, <2>3, <3>2 DEF NotDue, SameNode
  <2> QED
    BY <2>2, <2>3 DEF FrameGood
<1>7. CASE Invalid(f.lres)
  <2>1. f.lres.v = {}
    BY <1>1, <1>7 DEF Invalid, Matrix
  <2> QED
    BY <1>1, <1>4, <1>6, <1>7, <2>1 DEF Joined
<1>8. CASE ~Invalid(f.lres) /\ Invalid(f.rres)
  <2>1. f.rres.v = {}
    BY <1>1, <1>8 DEF Invalid, Matrix
  <2> QED
    BY <1>1, <1>4, <1>6, <1>8, <2>1 DEF Joined
<1>9. CASE ~Invalid(f.lres) /\ ~Invalid(f.rres)
  <2> DEFINE P == AlignAndMultiply(f.lres, f.rres)
  <2>1. P.v = f.lres.v \cup f.rres.v /\ ~P.fromDB
    BY DEF AlignAndMultiply, getSuperSet
  <2>2. g = [f EXCEPT !.pc = IF f.op = "build" THEN "storeLeft" ELSE "done", !.res = P]
    BY <1>9 DEF Joined
  <2> HIDE DEF P, g
  <2>3. /\ g.op = f.op /\ SameNode(f, g) /\ g.res = P
        /\ g.lres = f.lres /\ g.rres = f.rres
        /\ g.pc = IF f.op = "build" THEN "storeLeft" ELSE "done"
    BY <2>2 DEF Frame, SameNode
  <2>4. FrameValid(g, t)
    BY <1>3, <1>4, <2>1, <2>3 DEF FrameValid, SameNode
  <2>5. ASSUME call = "build"
        PROVE  FrameHolds(g, table, held) /\ \A r \in rows : NotDue(g, r)
    <3>1. ~f.lres.null /\ ~f.rres.null /\ g.pc = "storeLeft"
      BY <1>5, <1>9, <2>3, <2>5 DEF Invalid
    <3>2. FrameHolds(g, table, held)
      BY <1>5, <2>1, <2>3, <2>5, <3>1 DEF FrameHolds, SameNode
    <3> QED
      BY <1>5, <2>3, <2>5, <3>1, <3>2 DEF NotDue, SameNode
  <2> QED
    BY <2>4, <2>5 DEF FrameGood, g
<1> QED
  BY <1>7, <1>8, <1>9

(* A build has stored or freed the left child.                             *)
LEMMA StoredLeftGood ==
  ASSUME NEW f \in Frame, NEW t, NEW call, NEW table, NEW held, NEW rows,
         FrameGood(f, t, call, table, held, rows), f.pc = "storeLeft",
         call = "build" => Wanted(f.left, f.right) \ {RightKey(f.left, f.right)} \subseteq held
  PROVE  FrameGood([f EXCEPT !.pc = "storeRight"], t, call, table, held, rows)
BY DEF FrameGood, FrameValid, FrameHolds, NotDue, Frame

(* And the right child.                                                    *)
LEMMA StoredRightGood ==
  ASSUME NEW f \in Frame, NEW t, NEW call, NEW table, NEW held, NEW rows,
         FrameGood(f, t, call, table, held, rows), f.pc = "storeRight", f.left < f.right,
         call = "build" => Wanted(f.left, f.right) \subseteq held
  PROVE  FrameGood([f EXCEPT !.pc = "done"], t, call, table, held, rows)
<1> DEFINE g == [f EXCEPT !.pc = "done"]
<1>1. g.op = f.op /\ SameNode(f, g) /\ g.pc = "done" /\ g.res = f.res
  BY DEF Frame, SameNode
<1> HIDE DEF g
<1>2. FrameValid(g, t)
  BY <1>1 DEF FrameGood, FrameValid, SameNode
<1>3. ASSUME call = "build"
      PROVE  FrameHolds(g, table, held) /\ \A r \in rows : NotDue(g, r)
  <2>1. FrameHolds(f, table, held) /\ \A r \in rows : NotDue(f, r)
    BY <1>3 DEF FrameGood
  <2>2. ResultOK(g.res, g.left, g.right, table, held)
    BY <1>1, <1>3, <2>1 DEF FrameHolds, ResultOK, SameNode
  <2> QED
    BY <1>1, <2>1, <2>2 DEF FrameHolds, NotDue, SameNode
<1> QED
  BY <1>2, <1>3 DEF FrameGood, g

(* A part of a called node is not what the frames below wait to store.     *)
LEMMA PartNotDue ==
  ASSUME NEW f \in Frame, NEW t, NEW n, FrameOK(f, t, n), NEW g \in Frame, Under(f, g),
         NEW r \in DBRow, g.left <= r.left, r.left <= r.right, r.right <= g.right,
         Key(r) # <<g.left, g.right>>
  PROVE  NotDue(f, r)
<1> DEFINE m == Mid(f.left, f.right)
<1>1. f.left < f.right /\ f.pc \in {"left", "right"}
  BY DEF Under, FrameOK
<1>2. f.left \in 1..N /\ f.right \in 1..N /\ m \in 1..N /\ f.left < m /\ m <= f.right
  BY <1>1, MidInside DEF Frame
<1>3. /\ g.left \in 1..N /\ g.right \in 1..N /\ r.left \in 1..N /\ r.right \in 1..N
      /\ N \in Nat
  BY TraceAssumption DEF Frame, DBRow
<1>4. r.left # g.left \/ r.right # g.right
  BY DEF Key
<1>5. CASE f.pc = "left" /\ f.left <= g.left /\ g.right < m
  <2> HIDE DEF m
  <2>1. /\ r.right < m /\ r.right < f.right
        /\ ~(r.left = f.left /\ r.right = m - 1)
    BY <1>2, <1>3, <1>4, <1>5
  <2>2. r.right # f.right /\ r.right <= f.right
    BY <1>2, <1>3, <2>1
  <2> QED
    BY <1>5, <2>1, <2>2 DEF NotDue, Key, LeftKey, RightKey, m
<1>6. CASE f.pc = "right" /\ m <= g.left /\ g.right <= f.right
  <2> HIDE DEF m
  <2>1. /\ r.right <= f.right /\ r.left # f.left
        /\ ~(r.left = m /\ r.right = f.right)
    BY <1>2, <1>3, <1>4, <1>6
  <2> QED
    BY <1>6, <2>1 DEF NotDue, Key, LeftKey, RightKey, m
<1> QED
  BY <1>5, <1>6 DEF Under

-----------------------------------------------------------------------------
(* The frames after a step *)

(* The first n frames of p stay; g is on top of them, and h on top of g if *)
(* there is one more.                                                      *)
Becomes(p, n, g, h) ==
  /\ n \in Nat /\ n < Len(stack[p])
  /\ Len(stack'[p]) \in {n + 1, n + 2}
  /\ \A k \in 1..n : stack'[p][k] = stack[p][k]
  /\ stack'[p][n + 1] = g
  /\ Len(stack'[p]) = n + 2 => stack'[p][n + 2] = h

LEMMA TopBecomes ==
  ASSUME IInv, NEW p \in Proc, stack[p] # <<>>, NEW g, SetTop(p, g)
  PROVE  /\ Becomes(p, Len(stack[p]) - 1, g, g) /\ Len(stack'[p]) = Len(stack[p])
         /\ \A q \in Proc \ {p} : stack'[q] = stack[q]
<1>1. stack[p] \in Seq(Frame) /\ Len(stack[p]) \in Nat \ {0}
  BY DEF IInv, TypeOK
<1>2. stack'[p] = [stack[p] EXCEPT ![Len(stack[p])] = g]
  BY DEF SetTop, IInv, TypeOK
<1>3. /\ Len(stack'[p]) = Len(stack[p]) /\ stack'[p][Len(stack[p])] = g
      /\ \A k \in 1..(Len(stack[p]) - 1) : stack'[p][k] = stack[p][k]
  BY <1>1, <1>2
<1>4. \A q \in Proc \ {p} : stack'[q] = stack[q]
  BY DEF SetTop, IInv, TypeOK
<1>5. /\ Len(stack[p]) - 1 + 1 = Len(stack[p]) /\ Len(stack[p]) - 1 + 2 = Len(stack[p]) + 1
      /\ Len(stack[p]) - 1 \in Nat /\ Len(stack[p]) - 1 < Len(stack[p])
      /\ Len(stack[p]) # Len(stack[p]) + 1
  BY <1>1
<1> QED
  BY <1>3, <1>4, <1>5 DEF Becomes

LEMMA CallBecomes ==
  ASSUME IInv, NEW p \in Proc, stack[p] # <<>>, NEW f \in Frame, NEW g \in Frame,
         CallFrom(p, f, g)
  PROVE  /\ Becomes(p, Len(stack[p]) - 1, f, g) /\ Len(stack'[p]) = Len(stack[p]) + 1
         /\ \A q \in Proc \ {p} : stack'[q] = stack[q]
<1> DEFINE L == Len(stack[p])
           s == [stack[p] EXCEPT ![L] = f]
<1>1. stack[p] \in Seq(Frame) /\ L \in Nat \ {0}
  BY DEF IInv, TypeOK
<1>2. stack'[p] = Append(s, g)
  BY DEF CallFrom, IInv, TypeOK
<1>3. /\ Len(s) = L /\ s[L] = f /\ s \in Seq(Frame)
      /\ \A k \in 1..(L - 1) : s[k] = stack[p][k]
  BY <1>1
<1> HIDE DEF s
<1>4. /\ Len(stack'[p]) = L + 1 /\ stack'[p][L + 1] = g
      /\ \A k \in 1..L : stack'[p][k] = s[k]
  BY <1>1, <1>2, <1>3
<1>5. \A q \in Proc \ {p} : stack'[q] = stack[q]
  BY DEF CallFrom, IInv, TypeOK
<1>6. /\ stack'[p][L] = f
      /\ \A k \in 1..(L - 1) : stack'[p][k] = stack[p][k]
  BY <1>1, <1>3, <1>4
<1>7. L - 1 + 1 = L /\ L - 1 + 2 = L + 1 /\ L - 1 \in Nat /\ L - 1 < L
  BY <1>1
<1> HIDE DEF L
<1> QED
  BY <1>4, <1>5, <1>6, <1>7 DEF Becomes, L

LEMMA ReturnBecomes ==
  ASSUME IInv, NEW p \in Proc, stack[p] # <<>>, Len(stack[p]) > 1, NEW f \in Frame,
         ReturnTo(p, f)
  PROVE  /\ Becomes(p, Len(stack[p]) - 2, f, f) /\ Len(stack'[p]) = Len(stack[p]) - 1
         /\ \A q \in Proc \ {p} : stack'[q] = stack[q]
<1> DEFINE L == Len(stack[p])
           s == SubSeq(stack[p], 1, L - 2)
<1>1. stack[p] \in Seq(Frame) /\ L \in Nat /\ L > 1
  BY DEF IInv, TypeOK
<1>2. stack'[p] = Append(s, f)
  BY DEF ReturnTo, IInv, TypeOK
<1>3. /\ Len(s) = L - 2 /\ s \in Seq(Frame)
      /\ \A k \in 1..(L - 2) : s[k] = stack[p][k]
  BY <1>1
<1> HIDE DEF s
<1>4. /\ Len(stack'[p]) = L - 1 /\ stack'[p][L - 1] = f
      /\ \A k \in 1..(L - 2) : stack'[p][k] = s[k]
  BY <1>1, <1>2, <1>3
<1>5. \A q \in Proc \ {p} : stack'[q] = stack[q]
  BY DEF ReturnTo, IInv, TypeOK
<1>6. L - 2 + 1 = L - 1 /\ L - 2 + 2 = L /\ L - 2 \in Nat /\ L - 2 < L /\ L - 1 # L
  BY <1>1
<1> HIDE DEF L
<1> QED
  BY <1>3, <1>4, <1>5, <1>6 DEF Becomes, L

(* A part of a part is a part.                                             *)
LEMMA UnderIsTransitive ==
  ASSUME NEW f \in Frame, NEW g \in Frame, NEW h \in Frame,
         f.left < f.right, g.left < g.right, Under(f, g), Under(g, h)
  PROVE  Under(f, h)
<1> DEFINE m == Mid(f.left, f.right)
           n == Mid(g.left, g.right)
<1>1. /\ f.left \in 1..N /\ f.right \in 1..N /\ g.left \in 1..N /\ g.right \in 1..N
      /\ h.left \in 1..N /\ h.right \in 1..N /\ N \in Nat
  BY TraceAssumption DEF Frame
<1>2. m \in 1..N /\ n \in 1..N /\ g.left < n /\ n <= g.right
  BY <1>1, MidInside
<1> HIDE DEF m, n
<1>3. g.left <= h.left /\ h.right <= g.right
  <2>1. \/ g.left <= h.left /\ h.right < n
        \/ n <= h.left /\ h.right <= g.right
    BY DEF Under, n
  <2> QED
    BY <1>1, <1>2, <2>1
<1>4. CASE f.pc = "left" /\ f.left <= g.left /\ g.right < m
  <2>1. f.left <= h.left /\ h.right < m
    BY <1>1, <1>2, <1>3, <1>4
  <2> QED
    BY <1>4, <2>1 DEF Under, m
<1>5. CASE f.pc = "right" /\ m <= g.left /\ g.right <= f.right
  <2>1. m <= h.left /\ h.right <= f.right
    BY <1>1, <1>2, <1>3, <1>5
  <2> QED
    BY <1>5, <2>1 DEF Under, m
<1> QED
  BY <1>4, <1>5 DEF Under, m

(* The calls stay nested: g is where the frame in its place was, and h is  *)
(* in the child that g waits for.                                          *)
LEMMA NestedStays ==
  ASSUME IInv, IInv', NEW p \in Proc, Nested(stack[p]),
         NEW n, NEW g, NEW h, Becomes(p, n, g, h), SameNode(stack[p][n + 1], g),
         Len(stack'[p]) = n + 2 => Under(g, h)
  PROVE  Nested(stack'[p])
<1> DEFINE s == stack[p]
           u == stack'[p]
<1>1. /\ n \in Nat /\ Len(s) \in Nat /\ Len(u) \in Nat /\ n + 1 \in 1..Len(s)
      /\ s \in Seq(Frame) /\ u \in Seq(Frame) /\ n + 1 \in 1..Len(u)
      /\ \A k \in 1..n : k \in 1..Len(s) /\ k < n + 1
  BY DEF Becomes, IInv, TypeOK
<1>2. \A i \in 1..n : Under(s[i], g)
  <2> SUFFICES ASSUME NEW i \in 1..n
               PROVE  Under(s[i], g)
    OBVIOUS
  <2>1. Under(s[i], s[n + 1])
    BY <1>1 DEF Nested
  <2> QED
    BY <2>1 DEF Under, SameNode
<1>3. ASSUME Len(u) = n + 2, NEW i \in 1..n
      PROVE  Under(s[i], h)
  <2>1. Under(s[i], g) /\ Under(g, h)
    BY <1>2, <1>3
  <2>2. n + 2 \in 1..Len(u) /\ u[n + 1] = g /\ u[n + 2] = h
    BY <1>1, <1>3 DEF Becomes
  <2>3. g \in Frame /\ h \in Frame
    BY <1>1, <2>2
  <2>4. FrameOK(g, target'[p], loaded')
    <3>1. ProcOK(p)' /\ stack'[p] # <<>>
      BY <1>1 DEF IInv
    <3> QED
      BY <1>1, <2>2, <3>1 DEF ProcOK, StackOK
  <2>5. s[i] \in Frame /\ FrameOK(s[i], target[p], loaded)
    <3>1. ProcOK(p) /\ stack[p] # <<>>
      BY <1>1 DEF IInv
    <3> QED
      BY <1>1, <3>1 DEF ProcOK, StackOK
  <2>6. s[i].left < s[i].right /\ g.left < g.right
    BY <2>1, <2>4, <2>5 DEF Under, FrameOK
  <2> QED
    BY <2>1, <2>3, <2>5, <2>6, UnderIsTransitive
<1>4. SUFFICES ASSUME NEW i \in 1..Len(u), NEW j \in 1..Len(u), i < j
               PROVE  Under(u[i], u[j])
  BY DEF Nested
<1>5. CASE j \in 1..n
  <2>1. i \in 1..n /\ u[i] = s[i] /\ u[j] = s[j]
    BY <1>1, <1>4, <1>5 DEF Becomes
  <2> QED
    BY <1>1, <1>4, <1>5, <2>1 DEF Nested
<1>6. CASE j = n + 1
  <2>1. i \in 1..n /\ u[i] = s[i] /\ u[j] = g
    BY <1>1, <1>4, <1>6 DEF Becomes
  <2> QED
    BY <1>2, <2>1
<1>7. CASE j = n + 2
  <2>1. Len(u) = n + 2 /\ u[j] = h
    BY <1>1, <1>4, <1>7 DEF Becomes
  <2>2. CASE i \in 1..n
    <3>1. u[i] = s[i]
      BY <2>2 DEF Becomes
    <3> QED
      BY <1>3, <2>1, <2>2, <3>1
  <2>3. CASE i = n + 1
    BY <2>1, <2>3 DEF Becomes
  <2> QED
    BY <1>1, <1>4, <1>7, <2>2, <2>3
<1> QED
  BY <1>1, <1>4, <1>5, <1>6, <1>7 DEF Becomes

-----------------------------------------------------------------------------
(* The processes after a step *)

LEMMA HeldMono ==
  ASSUME NEW table, NEW held, NEW table2, NEW held2, table \subseteq table2, held \subseteq held2
  PROVE  /\ \A r : RowHeld(r, held) => RowHeld(r, held2)
         /\ \A w, layer : RootHeld(w, layer, held) => RootHeld(w, layer, held2)
         /\ \A f, t, call, rows : FrameGood(f, t, call, table, held, rows)
                                  => FrameGood(f, t, call, table2, held2, rows)
<1>1. \A f, t, call, rows : FrameGood(f, t, call, table, held, rows)
                           => FrameGood(f, t, call, table2, held2, rows)
  BY GoodMono
<1> QED
  BY <1>1 DEF RowHeld, RootHeld

(* A process that is left alone sees more rows in the table.               *)
LEMMA OthersHold ==
  ASSUME NEW q \in Proc, ProcHolds(q), Untouched(q), level'[q] = level[q],
         Keys(db) \subseteq Keys(db)'
  PROVE  ProcHolds(q)'
<1>1. Waiting(q)' = Waiting(q) /\ Held(q) \subseteq Held(q)'
  BY DEF Untouched, Waiting, Held
<1>2. \A r : RowHeld(r, Held(q)) => RowHeld(r, Held(q)')
  BY <1>1, HeldMono
<1>3. /\ \A w, layer : RootHeld(w, layer, Held(q)) => RootHeld(w, layer, Held(q)')
      /\ \A w, layer : RootHeld(w, layer, Keys(db)) => RootHeld(w, layer, Keys(db)')
  BY <1>1, HeldMono
<1>4. \A f, t, call, rows : FrameGood(f, t, call, Keys(db), Held(q), rows)
                           => FrameGood(f, t, call, Keys(db)', Held(q)', rows)
  BY <1>1, HeldMono
<1>5. \A k \in 1..Len(stack'[q]) :
        FrameGood(stack'[q][k], target'[q], mode'[q], Keys(db)', Held(q)', Waiting(q)')
  BY <1>1, <1>4 DEF ProcHolds, Untouched
<1> HIDE DEF Waiting, Held, Keys
<1>6. \A r \in Waiting(q)' : RowValid(r) /\ RowHeld(r, Held(q)')
  BY <1>1, <1>2 DEF ProcHolds
<1>7. /\ mode'[q] = "closing" => RootHeld(span'[q], level'[q], Held(q)')
      /\ outcome'[q] = "built" => /\ mode'[q] = "idle"
                                 /\ RootHeld(span'[q], level'[q], Keys(db)')
  BY <1>3 DEF ProcHolds, Untouched
<1>8. /\ \A i, j \in 1..Len(buffer'[q]) : i # j => Key(buffer'[q][i]) # Key(buffer'[q][j])
      /\ Nested(stack'[q])
      /\ mode'[q] \in {"build", "closing"} => level'[q] \in {NotStoredLayer(l) : l \in Levels}
      /\ outcome'[q] = "answered" => reply'[q].v = Valid(target'[q][1], target'[q][2])
  BY DEF ProcHolds, Untouched
<1> QED
  BY <1>5, <1>6, <1>7, <1>8 DEF ProcHolds

(* A step of one process.                                                  *)
LEMMA CacheStep ==
  ASSUME CInv, NEW p \in Proc, \A q \in Proc \ {p} : Untouched(q) /\ level'[q] = level[q],
         Keys(db) \subseteq Keys(db)', TableHolds', ProcHolds(p)'
  PROVE  CInv'
<1>1. ASSUME NEW q \in Proc
      PROVE  ProcHolds(q)'
  BY OthersHold DEF CInv
<1> QED
  BY <1>1 DEF CInv

(* The frames after a step that changes the stack on top.                  *)
LEMMA FramesStayGood ==
  ASSUME NEW p \in Proc, NEW n, NEW g, NEW h, Becomes(p, n, g, h), Len(stack'[p]) \in Nat,
         NEW t, NEW call, NEW table, NEW held, NEW rows,
         \A k \in 1..n : FrameGood(stack[p][k], t, call, table, held, rows),
         FrameGood(g, t, call, table, held, rows),
         Len(stack'[p]) = n + 2 => FrameGood(h, t, call, table, held, rows)
  PROVE  \A k \in 1..Len(stack'[p]) : FrameGood(stack'[p][k], t, call, table, held, rows)
<1> SUFFICES ASSUME NEW k \in 1..Len(stack'[p])
             PROVE  FrameGood(stack'[p][k], t, call, table, held, rows)
  OBVIOUS
<1>1. n \in Nat /\ Len(stack'[p]) \in {n + 1, n + 2}
  BY DEF Becomes
<1>2. CASE k \in 1..n
  BY <1>2 DEF Becomes
<1>3. CASE k = n + 1
  BY <1>3 DEF Becomes
<1>4. CASE k = n + 2 /\ Len(stack'[p]) = n + 2
  BY <1>4 DEF Becomes
<1>5. k \in 1..n \/ k = n + 1 \/ (k = n + 2 /\ Len(stack'[p]) = n + 2)
  BY <1>1
<1> QED
  BY <1>2, <1>3, <1>4, <1>5

(* A step inside of the recursion that writes nothing.                     *)
LEMMA QuietHolds ==
  ASSUME IInv, IInv', CInv, NEW p \in Proc, stack[p] # <<>>,
         NEW n, NEW g, NEW h, Becomes(p, n, g, h), SameNode(stack[p][n + 1], g),
         Len(stack'[p]) = n + 2 => Under(g, h),
         FrameGood(g, target[p], mode[p], Keys(db), Held(p), Waiting(p)),
         Len(stack'[p]) = n + 2 =>
           FrameGood(h, target[p], mode[p], Keys(db), Held(p), Waiting(p)),
         \A q \in Proc \ {p} : stack'[q] = stack[q],
         UNCHANGED <<db, loaded, mode, level, span, target, buffer, outcome, reply>>
  PROVE  CInv'
<1>1. ProcHolds(p) /\ TableHolds
  BY DEF CInv
<1>2. Len(stack'[p]) \in Nat /\ Len(stack[p]) \in Nat /\ n \in Nat /\ n < Len(stack[p])
  BY DEF IInv, TypeOK, Becomes
<1>3. Nested(stack'[p])
  BY <1>1, NestedStays DEF ProcHolds
<1>4. \A k \in 1..n :
        FrameGood(stack[p][k], target[p], mode[p], Keys(db), Held(p), Waiting(p))
  <2>1. \A k \in 1..n : k \in 1..Len(stack[p])
    BY <1>2
  <2> QED
    BY <1>1, <2>1 DEF ProcHolds
<1>5. \A k \in 1..Len(stack'[p]) :
        FrameGood(stack'[p][k], target[p], mode[p], Keys(db), Held(p), Waiting(p))
  BY <1>2, <1>4, FramesStayGood
<1>6. Keys(db)' = Keys(db) /\ Held(p)' = Held(p) /\ Waiting(p)' = Waiting(p)
  BY DEF Keys, Held, Waiting
<1>7. ProcHolds(p)'
  BY <1>1, <1>3, <1>5, <1>6 DEF ProcHolds
<1>8. TableHolds'
  BY <1>1, <1>6 DEF TableHolds
<1>9. \A q \in Proc \ {p} : Untouched(q) /\ level'[q] = level[q]
  BY DEF Untouched
<1> QED
  BY <1>6, <1>7, <1>8, <1>9, CacheStep

-----------------------------------------------------------------------------
(* The steps of the recursions that write nothing *)

(* What is known of the frame on top.                                      *)
LEMMA TopGood ==
  ASSUME IInv, CInv, NEW p \in Proc, stack[p] # <<>>
  PROVE  /\ FrameGood(Top(p), target[p], mode[p], Keys(db), Held(p), Waiting(p))
         /\ mode[p] = "build" => Top(p).op = "build"
         /\ Waiting(p) \in SUBSET DBRow
         /\ Top(p) = stack[p][(Len(stack[p]) - 1) + 1]
         /\ Len(stack[p]) \in Nat \ {0}
<1>1. stack[p] \in Seq(Frame) /\ Len(stack[p]) \in Nat \ {0} /\ buffer[p] \in Seq(DBRow)
  BY DEF IInv, TypeOK
<1>2. Len(stack[p]) \in 1..Len(stack[p]) /\ (Len(stack[p]) - 1) + 1 = Len(stack[p])
  BY <1>1
<1>3. FrameGood(Top(p), target[p], mode[p], Keys(db), Held(p), Waiting(p))
  BY <1>2 DEF CInv, ProcHolds, Top
<1>4. mode[p] = "build" => Top(p).op = "build"
  BY <1>3 DEF FrameGood, FrameHolds
<1>5. Waiting(p) \in SUBSET DBRow
  BY <1>1 DEF Waiting
<1> QED
  BY <1>1, <1>2, <1>3, <1>4, <1>5 DEF Top

(* The frame on top changes, and nothing else.                             *)
LEMMA TopHolds ==
  ASSUME IInv, IInv', CInv, NEW p \in Proc, stack[p] # <<>>, NEW g, SetTop(p, g),
         SameNode(Top(p), g),
         FrameGood(g, target[p], mode[p], Keys(db), Held(p), Waiting(p)),
         UNCHANGED <<db, loaded, mode, level, span, target, buffer, outcome, reply>>
  PROVE  CInv'
<1>1. /\ Becomes(p, Len(stack[p]) - 1, g, g) /\ Len(stack'[p]) = Len(stack[p])
      /\ \A q \in Proc \ {p} : stack'[q] = stack[q]
  BY TopBecomes
<1>2. /\ SameNode(stack[p][(Len(stack[p]) - 1) + 1], g)
      /\ Len(stack'[p]) # (Len(stack[p]) - 1) + 2
  <2>1. Len(stack[p]) \in Nat
    BY TopGood
  <2>2. Len(stack[p]) # (Len(stack[p]) - 1) + 2
    BY <2>1
  <2> QED
    BY <1>1, <2>2, TopGood
<1> QED
  BY <1>1, <1>2, QuietHolds

LEMMA CallHolds ==
  ASSUME IInv, IInv', CInv, NEW p \in Proc, stack[p] # <<>>,
         NEW f \in Frame, NEW g \in Frame, CallFrom(p, f, g),
         SameNode(Top(p), f), Under(f, g),
         FrameGood(f, target[p], mode[p], Keys(db), Held(p), Waiting(p)),
         FrameGood(g, target[p], mode[p], Keys(db), Held(p), Waiting(p)),
         UNCHANGED <<db, loaded, mode, level, span, target, buffer, outcome, reply>>
  PROVE  CInv'
<1>1. /\ Becomes(p, Len(stack[p]) - 1, f, g)
      /\ \A q \in Proc \ {p} : stack'[q] = stack[q]
  BY CallBecomes
<1>2. SameNode(stack[p][(Len(stack[p]) - 1) + 1], f)
  BY TopGood
<1> QED
  BY <1>1, <1>2, QuietHolds

LEMMA ReturnHolds ==
  ASSUME IInv, IInv', CInv, NEW p \in Proc, stack[p] # <<>>, Len(stack[p]) > 1,
         NEW f \in Frame, ReturnTo(p, f), SameNode(Caller(p), f),
         FrameGood(f, target[p], mode[p], Keys(db), Held(p), Waiting(p)),
         UNCHANGED <<db, loaded, mode, level, span, target, buffer, outcome, reply>>
  PROVE  CInv'
<1>1. /\ Becomes(p, Len(stack[p]) - 2, f, f) /\ Len(stack'[p]) = Len(stack[p]) - 1
      /\ \A q \in Proc \ {p} : stack'[q] = stack[q]
  BY ReturnBecomes
<1>2. /\ SameNode(stack[p][(Len(stack[p]) - 2) + 1], f)
      /\ Len(stack'[p]) # (Len(stack[p]) - 2) + 2
  <2>1. Len(stack[p]) \in Nat
    BY TopGood
  <2>2. (Len(stack[p]) - 2) + 1 = Len(stack[p]) - 1 /\ Len(stack[p]) - 1 # (Len(stack[p]) - 2) + 2
    BY <2>1
  <2> QED
    BY <1>1, <2>2 DEF Caller
<1> QED
  BY <1>1, <1>2, QuietHolds

(* A node that is found has its key in the table; a single instruction     *)
(* that is not found has no rule.                                          *)
LEMMA LoadHolds ==
  ASSUME IInv, IInv', CInv, NEW p \in Proc, LoadNode(p)
  PROVE  CInv'
<1> DEFINE f == Top(p)
           t == target[p]
           Good(g) == FrameGood(g, t, mode[p], Keys(db), Held(p), Waiting(p))
<1>1. stack[p] # <<>> /\ f.pc = "load" /\ (f.op = "build" \/ Covered(p, f))
  BY DEF LoadNode, At
<1>2. /\ f \in Frame /\ FrameOK(f, t, loaded)
      /\ f.left \in 1..N /\ f.right \in 1..N
      /\ f.op \in {"build", "query"}
      /\ f.left <= f.right /\ f.right <= loaded
      /\ t[1] <= f.left /\ f.right <= t[2] /\ t \in Window
  BY <1>1, TopOf, RunningProc DEF Covered
<1>3. UNCHANGED <<db, loaded, mode, level, span, target, buffer, outcome, reply>>
  BY DEF LoadNode
<1>4. /\ Good(f) /\ (mode[p] = "build" => f.op = "build") /\ Waiting(p) \in SUBSET DBRow
      /\ TableHolds
  BY <1>1, TopGood DEF CInv
<1>5. ShareValid(t, f.left, f.right) = Valid(f.left, f.right)
  BY <1>2, ShareValidOfCovered
<1>6. ASSUME NEW x \in Stored(f.left, f.right),
             SetTop(p, [f EXCEPT !.pc = "done", !.res = LoadToDevice(x)])
      PROVE  CInv'
  <2> DEFINE A == LoadToDevice(x)
             g == [f EXCEPT !.pc = "done", !.res = A]
  <2>1. x \in db /\ x \in DBRow /\ Key(x) = <<f.left, f.right>>
    BY DEF Stored, IInv, TypeOK
  <2>2. A.v = Valid(f.left, f.right) /\ A.fromDB /\ A \in Matrix
    BY <1>4, <2>1, LoadedMeansRow DEF TableHolds, RowValid, Key, LoadToDevice
  <2>3. <<f.left, f.right>> \in Keys(db)
    BY <2>1 DEF Keys
  <2> HIDE DEF A
  <2>4. ResultOK(A, f.left, f.right, Keys(db), Held(p))
    BY <2>2, <2>3 DEF ResultOK
  <2>5. Good(g)
    BY <1>1, <1>2, <1>4, <1>5, <2>2, <2>4, FoundGood
  <2>6. SameNode(f, g)
    BY <1>2 DEF Frame, SameNode
  <2>7. SetTop(p, g)
    BY <1>6 DEF A
  <2> HIDE DEF g
  <2> QED
    BY <1>1, <1>3, <2>5, <2>6, <2>7, TopHolds
<1>7. ASSUME Stored(f.left, f.right) = {}, f.left = f.right, SetTop(p, [f EXCEPT !.pc = "done"])
      PROVE  CInv'
  <2> DEFINE g == [f EXCEPT !.pc = "done", !.res = NoMatrix]
  <2>1. f.left \notin DOMAIN Rules
    BY <1>2, <1>7 DEF Stored, Key, IInv, TableOK
  <2>2. (f.left..f.right) \cap DOMAIN Rules = {}
    <3>1. f.left..f.right = {f.left}
      BY <1>2, <1>7, TraceAssumption
    <3> QED
      BY <2>1, <3>1
  <2>3. Valid(f.left, f.right) = {} /\ ~Branching(f.left, f.right)
    BY <1>7, <2>2 DEF Valid, Branching, HasFlow
  <2>4. NoMatrix \in Matrix /\ NoMatrix.v = {} /\ NoMatrix.null
    BY NoMatrixType DEF NoMatrix
  <2>5. ResultOK(NoMatrix, f.left, f.right, Keys(db), Held(p))
    BY <2>3, <2>4 DEF ResultOK
  <2>6. Good(g)
    BY <1>1, <1>2, <1>4, <1>5, <2>3, <2>4, <2>5, FoundGood
  <2>7. g = [f EXCEPT !.pc = "done"]
    BY <1>1, <1>2 DEF Frame, FrameOK
  <2>8. SameNode(f, g)
    BY <1>2 DEF Frame, SameNode
  <2>9. SetTop(p, g)
    BY <1>7, <2>7
  <2> HIDE DEF g
  <2> QED
    BY <1>1, <1>3, <2>6, <2>8, <2>9, TopHolds
<1>8. ASSUME f.left < f.right, SetTop(p, MissedNode(f))
      PROVE  CInv'
  <2> DEFINE g == MissedNode(f)
  <2>1. Good(g)
    <3>1. CASE f.op = "build"
      BY <1>1, <1>2, <1>4, <3>1, SplitGood DEF MissedNode
    <3>2. CASE f.op # "build"
      <4>1. mode[p] # "build" /\ g = Call("build", f.left, f.right)
        BY <1>4, <3>2 DEF MissedNode
      <4> HIDE DEF g
      <4> QED
        BY <1>2, <1>4, <4>1, NewCallGood
    <3> QED
      BY <3>1, <3>2
  <2>2. SameNode(f, g)
    BY <1>2 DEF Frame, SameNode, MissedNode, Call
  <2> HIDE DEF g
  <2> QED
    BY <1>1, <1>3, <1>8, <2>1, <2>2, TopHolds DEF g
<1> QED
  BY <1>6, <1>7, <1>8 DEF LoadNode

LEMMA OverlapHolds ==
  ASSUME IInv, IInv', CInv, NEW p \in Proc, OverlapNode(p)
  PROVE  CInv'
<1> DEFINE f == Top(p)
           g == [f EXCEPT !.pc = "callLeft"]
<1>1. stack[p] # <<>> /\ f.pc = "load" /\ SetTop(p, g)
  BY DEF OverlapNode, At
<1>2. f \in Frame
  BY <1>1, TopOf
<1>3. FrameGood(f, target[p], mode[p], Keys(db), Held(p), Waiting(p))
  BY <1>1, TopGood
<1>4. FrameGood(g, target[p], mode[p], Keys(db), Held(p), Waiting(p))
  BY <1>1, <1>2, <1>3, SplitGood
<1>5. SameNode(f, g)
  BY <1>2 DEF Frame, SameNode
<1>6. UNCHANGED <<db, loaded, mode, level, span, target, buffer, outcome, reply>>
  BY DEF OverlapNode
<1> HIDE DEF g
<1> QED
  BY <1>1, <1>4, <1>5, <1>6, TopHolds

(* A call of the left child finds everything that waits before it; without *)
(* one the child lies beside the target.                                   *)
LEMMA CallLeftHolds ==
  ASSUME IInv, IInv', CInv, NEW p \in Proc, CallLeft(p)
  PROVE  CInv'
<1> DEFINE f == Top(p)
           m == Mid(f.left, f.right)
           t == target[p]
           Good(x) == FrameGood(x, t, mode[p], Keys(db), Held(p), Waiting(p))
<1>1. stack[p] # <<>> /\ f.pc = "callLeft"
  BY DEF CallLeft, At
<1>2. UNCHANGED <<db, loaded, mode, level, span, target, buffer, outcome, reply>>
  BY DEF CallLeft
<1>3. /\ f \in Frame /\ FrameOK(f, t, loaded) /\ f.op \in {"build", "query"}
      /\ f.left \in 1..N /\ f.right \in 1..N /\ f.left < f.right
      /\ t[1] \in 1..N /\ t[2] \in 1..N /\ t \in Window
  BY <1>1, TopOf, RunningProc DEF FrameOK
<1>4. m - 1 \in 1..N /\ f.left <= m - 1 /\ m <= f.right /\ m \in 1..N
  BY <1>1, TopHalves
<1>5. Good(f) /\ (mode[p] = "build" => f.op = "build") /\ Waiting(p) \in SUBSET DBRow
  BY <1>1, TopGood
<1>6. CASE VisitsLeft(p, f)
  <2> DEFINE g == [f EXCEPT !.pc = "left"]
  <2>1. g \in Frame /\ SameNode(f, g) /\ g.pc = "left"
    BY <1>3 DEF Frame, SameNode
  <2>2. Good(g)
    BY <1>1, <1>3, <1>5, CallingLeftGood
  <2>3. LeftChild(f) \in Frame
    BY <1>3, <1>4, CallType DEF LeftChild
  <2>4. mode[p] = "build" => \A x \in Waiting(p) : x.right < f.left
    BY <1>1, <1>5 DEF FrameGood, NotDue
  <2>5. Good(LeftChild(f))
    <3> HIDE DEF f, m
    <3>1. FrameGood(Call(f.op, f.left, m - 1), t, mode[p], Keys(db), Held(p), Waiting(p))
      BY <1>3, <1>4, <1>5, <2>4, NewCallGood
    <3> QED
      BY <3>1 DEF LeftChild, m
  <2>6. Under(g, LeftChild(f))
    <3>1. LeftChild(f).left = f.left /\ LeftChild(f).right = m - 1
      BY DEF LeftChild, Call
    <3>2. m - 1 < m /\ f.left <= f.left
      BY <1>3, <1>4, TraceAssumption
    <3> HIDE DEF g
    <3> QED
      BY <2>1, <3>1, <3>2 DEF Under, SameNode
  <2>7. CallFrom(p, g, LeftChild(f))
    BY <1>6 DEF CallLeft
  <2> HIDE DEF g, f
  <2> QED
    BY <1>1, <1>2, <2>1, <2>2, <2>3, <2>5, <2>6, <2>7, CallHolds DEF f
<1>7. CASE ~VisitsLeft(p, f)
  <2> DEFINE g == [f EXCEPT !.pc = "callRight", !.lres = NoMatrix]
  <2>1. mode[p] # "build" /\ m - 1 < t[1]
    BY <1>3, <1>4, <1>5, <1>7, TraceAssumption DEF VisitsLeft
  <2>2. ShareValid(t, f.left, m - 1) = {}
    BY <1>3, <1>4, <2>1, ShareValidBeside, TraceAssumption
  <2>3. NoMatrix \in Matrix /\ NoMatrix.v = {}
    BY NoMatrixType DEF NoMatrix
  <2>4. Good(g)
    BY <1>1, <1>3, <1>5, <2>1, <2>2, <2>3, LeftInGood
  <2>5. g = [f EXCEPT !.pc = "callRight"]
    BY <1>1, <1>3 DEF Frame, FrameOK
  <2>6. SameNode(f, g) /\ SetTop(p, g)
    BY <1>3, <1>7, <2>5 DEF Frame, SameNode, CallLeft
  <2> HIDE DEF g
  <2> QED
    BY <1>1, <1>2, <2>4, <2>6, TopHolds
<1> QED
  BY <1>6, <1>7

LEMMA CallRightHolds ==
  ASSUME IInv, IInv', CInv, NEW p \in Proc, CallRight(p)
  PROVE  CInv'
<1> DEFINE f == Top(p)
           m == Mid(f.left, f.right)
           t == target[p]
           Good(x) == FrameGood(x, t, mode[p], Keys(db), Held(p), Waiting(p))
<1>1. stack[p] # <<>> /\ f.pc = "callRight"
  BY DEF CallRight, At
<1>2. UNCHANGED <<db, loaded, mode, level, span, target, buffer, outcome, reply>>
  BY DEF CallRight
<1>3. /\ f \in Frame /\ FrameOK(f, t, loaded) /\ f.op \in {"build", "query"}
      /\ f.left \in 1..N /\ f.right \in 1..N /\ f.left < f.right
      /\ t[1] \in 1..N /\ t[2] \in 1..N /\ t \in Window
  BY <1>1, TopOf, RunningProc DEF FrameOK
<1>4. m - 1 \in 1..N /\ f.left <= m - 1 /\ m <= f.right /\ m \in 1..N
  BY <1>1, TopHalves
<1>5. Good(f) /\ (mode[p] = "build" => f.op = "build") /\ Waiting(p) \in SUBSET DBRow
  BY <1>1, TopGood
<1>6. CASE VisitsRight(p, f)
  <2> DEFINE g == [f EXCEPT !.pc = "right"]
  <2>1. g \in Frame /\ SameNode(f, g) /\ g.pc = "right"
    BY <1>3 DEF Frame, SameNode
  <2>2. Good(g)
    BY <1>1, <1>3, <1>5, CallingRightGood
  <2>3. RightChild(f) \in Frame
    BY <1>3, <1>4, CallType DEF RightChild
  <2>4. mode[p] = "build" => \A x \in Waiting(p) : x.right < m
    BY <1>1, <1>5 DEF FrameGood, NotDue
  <2>5. Good(RightChild(f))
    <3> HIDE DEF f, m
    <3>1. FrameGood(Call(f.op, m, f.right), t, mode[p], Keys(db), Held(p), Waiting(p))
      BY <1>3, <1>4, <1>5, <2>4, NewCallGood
    <3> QED
      BY <3>1 DEF RightChild, m
  <2>6. Under(g, RightChild(f))
    <3>1. RightChild(f).left = m /\ RightChild(f).right = f.right
      BY DEF RightChild, Call
    <3>2. m <= m /\ f.right <= f.right
      BY <1>3, <1>4, TraceAssumption
    <3> HIDE DEF g
    <3> QED
      BY <2>1, <3>1, <3>2 DEF Under, SameNode
  <2>7. CallFrom(p, g, RightChild(f))
    BY <1>6 DEF CallRight
  <2> HIDE DEF g, f
  <2> QED
    BY <1>1, <1>2, <2>1, <2>2, <2>3, <2>5, <2>6, <2>7, CallHolds DEF f
<1>7. CASE ~VisitsRight(p, f)
  <2> DEFINE g == [f EXCEPT !.pc = "join", !.rres = NoMatrix]
  <2>1. mode[p] # "build" /\ t[2] < m
    BY <1>3, <1>4, <1>5, <1>7, TraceAssumption DEF VisitsRight
  <2>2. ShareValid(t, m, f.right) = {}
    BY <1>3, <1>4, <2>1, ShareValidBeside, TraceAssumption
  <2>3. NoMatrix \in Matrix /\ NoMatrix.v = {}
    BY NoMatrixType DEF NoMatrix
  <2>4. Good(g)
    BY <1>1, <1>3, <1>5, <2>1, <2>2, <2>3, RightInGood
  <2>5. g = [f EXCEPT !.pc = "join"]
    BY <1>1, <1>3 DEF Frame, FrameOK
  <2>6. SameNode(f, g) /\ SetTop(p, g)
    BY <1>3, <1>7, <2>5 DEF Frame, SameNode, CallRight
  <2> HIDE DEF g
  <2> QED
    BY <1>1, <1>2, <2>4, <2>6, TopHolds
<1> QED
  BY <1>6, <1>7

(* What the callee returns is a result of the child its caller waits for.  *)
LEMMA ReturnedGood ==
  ASSUME IInv, CInv, NEW p \in Proc, NEW pc \in {"left", "right"}, Returned(p, pc)
  PROVE  /\ FrameGood(Caller(p), target[p], mode[p], Keys(db), Held(p), Waiting(p))
         /\ LET f == Caller(p)
                m == Mid(f.left, f.right)
                l == IF pc = "left" THEN f.left ELSE m
                r == IF pc = "left" THEN m - 1 ELSE f.right
            IN  /\ Top(p).res.v = ShareValid(target[p], l, r)
                /\ mode[p] = "build" => ResultOK(Top(p).res, l, r, Keys(db), Held(p))
<1> DEFINE s == stack[p]
           L == Len(stack[p])
<1>1. stack[p] # <<>> /\ L > 1 /\ Top(p).pc = "done" /\ Caller(p).pc = pc
  BY DEF Returned, At
<1>2. GoodStack(s, span[p], target[p], loaded) /\ L \in Nat
  BY <1>1, RunningProc, TopGood
<1>3. L - 1 \in 1..(L - 1) /\ L - 1 \in 1..L /\ L - 1 + 1 = L
  BY <1>1, <1>2
<1>4. Waits(Caller(p), Top(p))
  BY <1>2, <1>3 DEF GoodStack, StackOK, Caller, Top
<1>5. FrameGood(Caller(p), target[p], mode[p], Keys(db), Held(p), Waiting(p))
  BY <1>3 DEF CInv, ProcHolds, Caller
<1>6. /\ Top(p).res.v = ShareValid(target[p], Top(p).left, Top(p).right)
      /\ mode[p] = "build" => ResultOK(Top(p).res, Top(p).left, Top(p).right, Keys(db), Held(p))
  BY <1>1, TopGood DEF FrameGood, FrameValid, FrameHolds
<1>7. LET f == Caller(p)
          m == Mid(f.left, f.right)
      IN  IF pc = "left" THEN Top(p).left = f.left /\ Top(p).right = m - 1
                         ELSE Top(p).left = m /\ Top(p).right = f.right
  BY <1>1, <1>4 DEF Waits
<1> QED
  BY <1>5, <1>6, <1>7

LEMMA ReturnLeftHolds ==
  ASSUME IInv, IInv', CInv, NEW p \in Proc, ReturnLeft(p)
  PROVE  CInv'
<1> DEFINE f == Caller(p)
           g == [f EXCEPT !.pc = "callRight", !.lres = Top(p).res]
<1>1. Returned(p, "left") /\ ReturnTo(p, g)
  BY DEF ReturnLeft
<1>2. UNCHANGED <<db, loaded, mode, level, span, target, buffer, outcome, reply>>
  BY DEF ReturnLeft
<1>3. /\ stack[p] # <<>> /\ Len(stack[p]) > 1 /\ f \in Frame /\ f.pc = "left"
      /\ Top(p).res \in Matrix
  BY <1>1, ReturnedShare
<1>4. /\ FrameGood(f, target[p], mode[p], Keys(db), Held(p), Waiting(p))
      /\ Top(p).res.v = ShareValid(target[p], f.left, Mid(f.left, f.right) - 1)
      /\ mode[p] = "build" => ResultOK(Top(p).res, f.left, Mid(f.left, f.right) - 1,
                                        Keys(db), Held(p))
  BY <1>1, ReturnedGood
<1>5. FrameGood(g, target[p], mode[p], Keys(db), Held(p), Waiting(p))
  BY <1>3, <1>4, LeftInGood
<1>6. g \in Frame /\ SameNode(f, g)
  BY <1>3 DEF Frame, SameNode
<1> HIDE DEF g
<1> QED
  BY <1>1, <1>2, <1>3, <1>5, <1>6, ReturnHolds

LEMMA ReturnRightHolds ==
  ASSUME IInv, IInv', CInv, NEW p \in Proc, ReturnRight(p)
  PROVE  CInv'
<1> DEFINE f == Caller(p)
           g == [f EXCEPT !.pc = "join", !.rres = Top(p).res]
<1>1. Returned(p, "right") /\ ReturnTo(p, g)
  BY DEF ReturnRight
<1>2. UNCHANGED <<db, loaded, mode, level, span, target, buffer, outcome, reply>>
  BY DEF ReturnRight
<1>3. /\ stack[p] # <<>> /\ Len(stack[p]) > 1 /\ f \in Frame /\ f.pc = "right"
      /\ Top(p).res \in Matrix
  BY <1>1, ReturnedShare
<1>4. /\ FrameGood(f, target[p], mode[p], Keys(db), Held(p), Waiting(p))
      /\ Top(p).res.v = ShareValid(target[p], Mid(f.left, f.right), f.right)
      /\ mode[p] = "build" => ResultOK(Top(p).res, Mid(f.left, f.right), f.right,
                                        Keys(db), Held(p))
  BY <1>1, ReturnedGood
<1>5. FrameGood(g, target[p], mode[p], Keys(db), Held(p), Waiting(p))
  BY <1>3, <1>4, RightInGood
<1>6. g \in Frame /\ SameNode(f, g)
  BY <1>3 DEF Frame, SameNode
<1> HIDE DEF g
<1> QED
  BY <1>1, <1>2, <1>3, <1>5, <1>6, ReturnHolds

LEMMA JoinHolds ==
  ASSUME IInv, IInv', CInv, NEW p \in Proc, Join(p)
  PROVE  CInv'
<1> DEFINE f == Top(p)
<1>1. stack[p] # <<>> /\ f.pc = "join" /\ SetTop(p, Joined(f))
  BY DEF Join, At
<1>2. UNCHANGED <<db, loaded, mode, level, span, target, buffer, outcome, reply>>
  BY DEF Join
<1>3. f \in Frame /\ FrameOK(f, target[p], loaded)
  BY <1>1, TopOf
<1>4. target[p] \in Window /\ target[p][1] <= target[p][2]
  BY <1>1, RunningProc
<1>5. SameNode(f, Joined(f))
  BY <1>1, <1>3, <1>4, JoinedFrame DEF SameNode
<1>6. FrameGood(Joined(f), target[p], mode[p], Keys(db), Held(p), Waiting(p))
  BY <1>1, <1>3, <1>4, TopGood, JoinedGood
<1> QED
  BY <1>1, <1>2, <1>5, <1>6, TopHolds

-----------------------------------------------------------------------------
(* Rows on their way to the table *)

(* A transaction leaves out no key, when no key is twice among its rows.   *)
LEMMA CommittedKeys ==
  ASSUME NEW table, NEW rows, Len(rows) \in Nat,
         \A i, j \in 1..Len(rows) : i # j => Key(rows[i]) # Key(rows[j])
  PROVE  /\ Keys(InsertOrIgnore(table, rows)) =
              Keys(table) \cup {Key(rows[i]) : i \in 1..Len(rows)}
         /\ \A x \in InsertOrIgnore(table, rows) :
              x \in table \/ \E i \in 1..Len(rows) : x = rows[i]
<1> DEFINE T == InsertOrIgnore(table, rows)
<1>1. table \subseteq T /\ \A x \in T : x \in table \/ \E i \in 1..Len(rows) : x = rows[i]
  BY DEF InsertOrIgnore
<1>2. ASSUME NEW i \in 1..Len(rows)
      PROVE  Key(rows[i]) \in Keys(T)
  <2>1. CASE \E r \in table : Key(r) = Key(rows[i])
    BY <1>1, <2>1 DEF Keys
  <2>2. CASE \A r \in table : Key(r) # Key(rows[i])
    <3>1. \A k \in 1..(i - 1) : k \in 1..Len(rows) /\ k # i
      OBVIOUS
    <3>2. \A k \in 1..(i - 1) : Key(rows[k]) # Key(rows[i])
      BY <3>1
    <3>3. rows[i] \in T
      BY <2>2, <3>2 DEF InsertOrIgnore
    <3> QED
      BY <3>3 DEF Keys
  <2> QED
    BY <2>1, <2>2
<1> HIDE DEF T
<1>3. Keys(T) = Keys(table) \cup {Key(rows[i]) : i \in 1..Len(rows)}
  BY <1>1, <1>2 DEF Keys
<1> QED
  BY <1>1, <1>3 DEF T

(* A row that is stored, in the buffer or with all of the buffer in the    *)
(* table, is held from then on; nothing else changes.                      *)
LEMMA StoreEffect ==
  ASSUME IInv, NEW p \in Proc, ProcHolds(p), NEW l \in 1..N, NEW r \in 1..N, NEW A \in Matrix,
         NEW stores, StoreOrFree(p, l, r, A, stores),
         stores /\ ~A.fromDB => \A x \in Waiting(p) : Key(x) # <<l, r>>
  PROVE  /\ Keys(db) \subseteq Keys(db)' /\ Held(p) \subseteq Held(p)'
         /\ stores /\ ~A.fromDB => <<l, r>> \in Held(p)'
         /\ \A x \in Waiting(p)' :
              \/ x \in Waiting(p)
              \/ stores /\ ~A.fromDB /\ x = KeyedRow(l, r, A)
         /\ \A i, j \in 1..Len(buffer'[p]) : i # j => Key(buffer'[p][i]) # Key(buffer'[p][j])
         /\ \A x \in db' :
              \/ x \in db
              \/ /\ Keys(db)' = Held(p)'
                 /\ x \in Waiting(p) \/ (stores /\ ~A.fromDB /\ x = KeyedRow(l, r, A))
<1> DEFINE row == KeyedRow(l, r, A)
           b == buffer[p]
           rows == Append(b, row)
<1>1. b \in Seq(DBRow) /\ Len(b) \in Nat /\ buffer \in [Proc -> Seq(DBRow)]
  BY DEF IInv, TypeOK
<1>2. row \in DBRow /\ Key(row) = <<l, r>>
  BY StoredMeansMatrix DEF KeyedRow, Key
<1>3. \A i, j \in 1..Len(b) : i # j => Key(b[i]) # Key(b[j])
  BY DEF ProcHolds
<1>4. CASE UNCHANGED <<db, buffer>> /\ ~(stores /\ ~A.fromDB)
  <2>1. Keys(db)' = Keys(db) /\ Held(p)' = Held(p) /\ Waiting(p)' = Waiting(p)
    BY <1>4 DEF Keys, Held, Waiting
  <2> QED
    BY <1>3, <1>4, <2>1
<1>5. CASE StoreFromDevice(p, l, r, A) /\ stores /\ ~A.fromDB
  <2> HIDE DEF row
  <2>1. /\ rows \in Seq(DBRow) /\ Len(rows) = Len(b) + 1 /\ rows[Len(b) + 1] = row
        /\ \A i \in 1..Len(b) : rows[i] = b[i]
    BY <1>1, <1>2
  <2> HIDE DEF rows
  <2>2. 1..Len(rows) = (1..Len(b)) \cup {Len(b) + 1}
    BY <1>1, <2>1
  <2>3. {rows[i] : i \in 1..Len(rows)} = Waiting(p) \cup {row}
    BY <2>1, <2>2 DEF Waiting
  <2>4. Keys(db) \cup {Key(rows[i]) : i \in 1..Len(rows)} = Held(p) \cup {<<l, r>>}
    BY <1>2, <2>1, <2>2 DEF Held
  <2>5. \A i, j \in 1..Len(rows) : i # j => Key(rows[i]) # Key(rows[j])
    <3>1. \A i \in 1..Len(b) : Key(b[i]) # Key(row)
      BY <1>2, <1>5 DEF Waiting
    <3> QED
      BY <1>3, <2>1, <2>2, <3>1
  <2>6. CASE buffer' = [buffer EXCEPT ![p] = rows] /\ UNCHANGED db
    <3>1. buffer'[p] = rows
      BY <1>1, <2>6
    <3>2. Waiting(p)' = Waiting(p) \cup {row} /\ Held(p)' = Held(p) \cup {<<l, r>>}
      BY <2>3, <2>4, <2>6, <3>1 DEF Waiting, Held, Keys
    <3> QED
      BY <1>5, <2>5, <2>6, <3>1, <3>2 DEF Keys, row
  <2>7. CASE db' = InsertOrIgnore(db, rows) /\ buffer' = [buffer EXCEPT ![p] = <<>>]
    <3>1. buffer'[p] = <<>> /\ Waiting(p)' = {} /\ Held(p)' = Keys(db)'
      BY <1>1, <2>7 DEF Waiting, Held
    <3>2. /\ Keys(db') = Held(p) \cup {<<l, r>>}
          /\ \A x \in db' : x \in db \/ \E i \in 1..Len(rows) : x = rows[i]
      <4>1. Len(rows) \in Nat
        BY <1>1, <2>1
      <4>2. /\ Keys(InsertOrIgnore(db, rows)) =
                 Keys(db) \cup {Key(rows[i]) : i \in 1..Len(rows)}
            /\ \A x \in InsertOrIgnore(db, rows) :
                 x \in db \/ \E i \in 1..Len(rows) : x = rows[i]
        BY <2>5, <4>1, CommittedKeys
      <4> QED
        BY <2>4, <2>7, <4>2
    <3>3. Keys(db)' = Held(p) \cup {<<l, r>>} /\ Keys(db) \subseteq Held(p)
      BY <3>2 DEF Keys, Held
    <3>4. \A x \in db' : x \in db \/ x \in Waiting(p) \/ x = row
      BY <2>3, <3>2
    <3> QED
      BY <1>5, <3>1, <3>3, <3>4 DEF row
  <2> QED
    BY <1>5, <2>6, <2>7 DEF StoreFromDevice, Commit, rows, row
<1> QED
  BY <1>4, <1>5 DEF StoreOrFree

(* The rows keep their valid indices, and what is wanted under them is in  *)
(* the table no later than they are.                                       *)
LEMMA RowsHold ==
  ASSUME IInv, NEW p \in Proc, ProcHolds(p), TableHolds,
         NEW l \in 1..N, NEW r \in 1..N, NEW A \in Matrix,
         NEW stores, StoreOrFree(p, l, r, A, stores),
         stores /\ ~A.fromDB => /\ \A x \in Waiting(p) : Key(x) # <<l, r>>
                               /\ A.v = Valid(l, r) /\ l < r
                               /\ Wanted(l, r) \subseteq Held(p)
  PROVE  /\ TableHolds'
         /\ \A x \in Waiting(p)' : RowValid(x) /\ RowHeld(x, Held(p)')
<1> DEFINE row == KeyedRow(l, r, A)
           new == stores /\ ~A.fromDB
<1>1. /\ Keys(db) \subseteq Keys(db)' /\ Held(p) \subseteq Held(p)'
      /\ \A x \in Waiting(p)' : x \in Waiting(p) \/ (new /\ x = row)
      /\ \A x \in db' : \/ x \in db
                        \/ Keys(db)' = Held(p)' /\ (x \in Waiting(p) \/ (new /\ x = row))
  <2>1. stores /\ ~A.fromDB => \A x \in Waiting(p) : Key(x) # <<l, r>>
    OBVIOUS
  <2> QED
    BY <2>1, StoreEffect, ZenonT(60)
<1>2. new => RowValid(row) /\ RowHeld(row, Held(p))
  BY DEF RowValid, RowHeld, KeyedRow
<1>3. \A x \in Waiting(p) : RowValid(x) /\ RowHeld(x, Held(p))
  BY DEF ProcHolds
<1>4. \A x \in db : RowValid(x) /\ Wanted(x.left, x.right) \subseteq Keys(db)
  BY DEF TableHolds
<1> HIDE DEF row, new
<1>5. ASSUME NEW x \in db'
      PROVE  RowValid(x) /\ Wanted(x.left, x.right) \subseteq Keys(db)'
  BY <1>1, <1>2, <1>3, <1>4 DEF RowHeld
<1>6. TableHolds'
  <2> HIDE DEF RowValid, Wanted
  <2> QED
    BY <1>5 DEF TableHolds
<1>7. \A x \in Waiting(p)' : RowValid(x) /\ RowHeld(x, Held(p)')
  BY <1>1, <1>2, <1>3 DEF RowHeld
<1> QED
  BY <1>6, <1>7

(* A node stores a child, or frees it, and goes on.                        *)
LEMMA StoreHolds ==
  ASSUME IInv, IInv', CInv, NEW p \in Proc, stack[p] # <<>>,
         NEW l \in 1..N, NEW r \in 1..N, NEW A \in Matrix, NEW stores,
         StoreOrFree(p, l, r, A, stores),
         NEW g, SetTop(p, g), SameNode(Top(p), g),
         stores /\ ~A.fromDB =>
           /\ Top(p).left <= l /\ l < r /\ r <= Top(p).right
           /\ <<l, r>> # <<Top(p).left, Top(p).right>>
           /\ \A x \in Waiting(p) : Key(x) # <<l, r>>
           /\ A.v = Valid(l, r) /\ Wanted(l, r) \subseteq Held(p)
           /\ NotDue(g, KeyedRow(l, r, A)),
         FrameGood(g, target[p], mode[p], Keys(db)', Held(p)', Waiting(p)),
         UNCHANGED <<loaded, mode, level, span, target, outcome, reply>>
  PROVE  CInv'
<1> DEFINE n == Len(stack[p]) - 1
           row == KeyedRow(l, r, A)
           new == stores /\ ~A.fromDB
           Good(f) == FrameGood(f, target[p], mode[p], Keys(db)', Held(p)', Waiting(p)')
<1>1. ProcHolds(p) /\ TableHolds
  BY DEF CInv
<1>2. /\ Becomes(p, n, g, g) /\ Len(stack'[p]) = Len(stack[p])
      /\ \A q \in Proc \ {p} : stack'[q] = stack[q]
  BY TopBecomes
<1>3. /\ Len(stack[p]) \in Nat \ {0} /\ n \in Nat /\ n + 1 = Len(stack[p])
      /\ Len(stack[p]) # n + 2 /\ stack[p][n + 1] = Top(p)
      /\ \A k \in 1..n : k \in 1..Len(stack[p]) /\ k < Len(stack[p])
      /\ Len(stack[p]) \in 1..Len(stack[p])
  <2>1. Len(stack[p]) \in Nat \ {0} /\ stack[p][n + 1] = Top(p)
    BY TopGood
  <2> QED
    BY <2>1
<1>4. Nested(stack'[p])
  BY <1>1, <1>2, <1>3, NestedStays DEF ProcHolds
<1>5. new => \A x \in Waiting(p) : Key(x) # <<l, r>>
  OBVIOUS
<1>6. /\ Keys(db) \subseteq Keys(db)' /\ Held(p) \subseteq Held(p)'
      /\ \A x \in Waiting(p)' : x \in Waiting(p) \/ (new /\ x = row)
      /\ \A i, j \in 1..Len(buffer'[p]) : i # j => Key(buffer'[p][i]) # Key(buffer'[p][j])
  BY <1>1, <1>5, StoreEffect
<1>7. /\ TableHolds'
      /\ \A x \in Waiting(p)' : RowValid(x) /\ RowHeld(x, Held(p)')
  <2>1. new => /\ \A x \in Waiting(p) : Key(x) # <<l, r>>
               /\ A.v = Valid(l, r) /\ l < r /\ Wanted(l, r) \subseteq Held(p)
    OBVIOUS
  <2> QED
    BY <1>1, <2>1, RowsHold
<1>8. ASSUME NEW k \in 1..n
      PROVE  Good(stack[p][k])
  <2>1. k \in 1..Len(stack[p]) /\ Under(stack[p][k], Top(p))
    BY <1>1, <1>3 DEF ProcHolds, Nested, Top
  <2>2. FrameGood(stack[p][k], target[p], mode[p], Keys(db), Held(p), Waiting(p))
    BY <1>1, <2>1 DEF ProcHolds
  <2>3. stack[p][k] \in Frame /\ FrameOK(stack[p][k], target[p], loaded) /\ Top(p) \in Frame
    BY <2>1, RunningProc, TopOf DEF GoodStack, StackOK
  <2>4. new => NotDue(stack[p][k], row)
    <3> SUFFICES ASSUME new
                 PROVE  NotDue(stack[p][k], row)
      OBVIOUS
    <3>1. row \in DBRow /\ row.left = l /\ row.right = r /\ Key(row) = <<l, r>>
      BY StoredMeansMatrix DEF KeyedRow, Key
    <3>2. l <= r
      BY TraceAssumption
    <3> HIDE DEF row
    <3> QED
      BY <2>1, <2>3, <3>1, <3>2, PartNotDue
  <2> HIDE DEF row
  <2>5. \A x \in Waiting(p)' : x \in Waiting(p) \/ NotDue(stack[p][k], x)
    BY <1>6, <2>4
  <2> QED
    BY <1>6, <2>2, <2>5, GoodMono
<1>9. Good(g)
  <2>1. \A x \in Waiting(p)' : x \in Waiting(p) \/ NotDue(g, x)
    BY <1>6
  <2> QED
    BY <2>1, GoodMono
<1>10. \A k \in 1..Len(stack'[p]) : Good(stack'[p][k])
  BY <1>2, <1>3, <1>8, <1>9, FramesStayGood
<1>11. ProcHolds(p)'
  <2>1. /\ outcome[p] = "built" => mode[p] = "idle"
        /\ mode[p] \in {"build", "query"}
    BY <1>1, RunningProc DEF ProcHolds
  <2>2. /\ mode'[p] \in {"build", "closing"} => level'[p] \in {NotStoredLayer(x) : x \in Levels}
        /\ outcome'[p] = "answered" => reply'[p].v = Valid(target'[p][1], target'[p][2])
    BY <1>1 DEF ProcHolds
  <2>3. mode'[p] # "closing" /\ outcome'[p] # "built"
    BY <2>1
  <2> QED
    BY <1>4, <1>6, <1>7, <1>10, <2>2, <2>3 DEF ProcHolds
<1>12. \A q \in Proc \ {p} : Untouched(q) /\ level'[q] = level[q]
  BY <1>2, StoreIsOwn DEF Untouched
<1> QED
  BY <1>6, <1>7, <1>11, <1>12, CacheStep

(* Only a build stores.                                                    *)
LEMMA OnlyBuildsStore ==
  ASSUME Bounds, CInv, NEW p \in Proc, stack[p] # <<>>,
         StoresChildren(Top(p).left, Top(p).right, level[p])
  PROVE  mode[p] = "build"
<1>1. IInv /\ WritesOK(p)
  BY DEF Bounds
<1>2. Top(p).left \in 1..N /\ Top(p).right \in 1..N /\ mode[p] \in {"build", "query"}
  BY <1>1, TopOf, RunningProc
<1>3. mode[p] # "query"
  BY <1>1, <1>2, QueryStoresNothing DEF WritesOK
<1> QED
  BY <1>2, <1>3

LEMMA StoreLeftHolds ==
  ASSUME Bounds, IInv', CInv, NEW p \in Proc, StoreLeft(p)
  PROVE  CInv'
<1> DEFINE f == Top(p)
           m == Mid(f.left, f.right)
           t == target[p]
           A == f.lres
           g == [f EXCEPT !.pc = "storeRight"]
           stores == StoresChildren(f.left, f.right, level[p])
           new == stores /\ ~A.fromDB
<1>1. /\ stack[p] # <<>> /\ f.pc = "storeLeft" /\ IInv
      /\ StoreOrFree(p, f.left, m - 1, A, stores) /\ SetTop(p, g)
  BY DEF StoreLeft, At, Bounds
<1>2. UNCHANGED <<loaded, mode, level, span, target, outcome, reply>>
  BY DEF StoreLeft
<1>3. /\ f \in Frame /\ FrameOK(f, t, loaded) /\ f.op = "build" /\ A \in Matrix
      /\ f.left \in 1..N /\ f.right \in 1..N /\ f.left < f.right
      /\ t \in Window /\ t[1] \in 1..N /\ t[2] \in 1..N
      /\ t[1] <= f.left /\ f.right <= t[2]
  BY <1>1, TopOf, RunningProc DEF Frame, FrameOK
<1>4. m - 1 \in 1..N /\ f.left <= m - 1 /\ m <= f.right /\ m \in 1..N /\ m - 1 < f.right
  BY <1>1, <1>3, TopHalves, TraceAssumption
<1>5. /\ FrameGood(f, t, mode[p], Keys(db), Held(p), Waiting(p))
      /\ Waiting(p) \in SUBSET DBRow /\ ProcHolds(p)
  BY <1>1, TopGood DEF CInv
<1>6. A.v = Valid(f.left, m - 1)
  <2>1. A.v = ShareValid(t, f.left, m - 1)
    BY <1>1, <1>5 DEF FrameGood, FrameValid
  <2>2. m - 1 <= t[2]
    <3> HIDE DEF m, f, t
    <3> QED
      BY <1>3, <1>4, TraceAssumption
  <2> QED
    BY <1>3, <1>4, <2>1, <2>2, ShareValidOfCovered
<1>7. ASSUME mode[p] = "build"
      PROVE  /\ ResultOK(A, f.left, m - 1, Keys(db), Held(p)) /\ ~A.null
             /\ \A x \in Waiting(p) : Key(x) # <<f.left, m - 1>>
  BY <1>1, <1>5, <1>7 DEF FrameGood, FrameHolds, NotDue, LeftKey
<1>8. ASSUME new
      PROVE  /\ f.left <= f.left /\ f.left < m - 1 /\ m - 1 <= f.right
             /\ <<f.left, m - 1>> # <<f.left, f.right>>
             /\ \A x \in Waiting(p) : Key(x) # <<f.left, m - 1>>
             /\ Wanted(f.left, m - 1) \subseteq Held(p)
             /\ NotDue(g, KeyedRow(f.left, m - 1, A))
  <2>1. mode[p] = "build"
    BY <1>1, <1>8, OnlyBuildsStore
  <2>2. f.left < m - 1
    BY <1>7, <1>8, <2>1 DEF ResultOK
  <2>3. Wanted(f.left, m - 1) \subseteq Held(p)
    BY <1>7, <1>8, <2>1 DEF ResultOK, Wanted
  <2>4. f.left <= f.left /\ m - 1 <= f.right /\ m - 1 # f.right
    <3> HIDE DEF m, f
    <3> QED
      BY <1>3, <1>4, TraceAssumption
  <2>5. NotDue(g, KeyedRow(f.left, m - 1, A))
    <3>1. g.pc = "storeRight" /\ SameNode(f, g)
      BY <1>3 DEF Frame, SameNode
    <3>2. LET x == KeyedRow(f.left, m - 1, A)
          IN  x.left = f.left /\ x.right = m - 1
      BY DEF KeyedRow
    <3> HIDE DEF g, A, f, m
    <3> QED
      BY <2>4, <3>1, <3>2 DEF NotDue, SameNode, Key, RightKey
  <2> QED
    BY <1>7, <2>1, <2>2, <2>3, <2>4, <2>5
<1>9. new => \A x \in Waiting(p) : Key(x) # <<f.left, m - 1>>
  BY <1>8
<1>10. /\ Keys(db) \subseteq Keys(db)' /\ Held(p) \subseteq Held(p)'
       /\ new => <<f.left, m - 1>> \in Held(p)'
  <2> HIDE DEF f, m, A, stores
  <2> QED
    BY <1>1, <1>3, <1>4, <1>5, <1>9, StoreEffect
<1>11. ASSUME mode[p] = "build"
       PROVE  Wanted(f.left, f.right) \ {RightKey(f.left, f.right)} \subseteq Held(p)'
  <2> SUFFICES ASSUME NEW k \in Wanted(f.left, f.right), k # RightKey(f.left, f.right)
               PROVE  k \in Held(p)'
    OBVIOUS
  <2>1. /\ StoresChildren(f.left, f.right, CoarsestLayer)
        /\ k = <<f.left, m - 1>> /\ Branching(f.left, m - 1)
    BY DEF Wanted, LeftKey
  <2>2. stores
    <3>1. level[p] \in {NotStoredLayer(x) : x \in Levels}
      BY <1>5, <1>11 DEF ProcHolds
    <3> QED
      BY <1>3, <2>1, <3>1, EveryBuildStores
  <2>3. CASE A.fromDB
    <3>1. <<f.left, m - 1>> \in Keys(db)
      BY <1>7, <1>11, <2>1, <2>3 DEF ResultOK
    <3> QED
      BY <1>10, <2>1, <3>1 DEF Held
  <2>4. CASE ~A.fromDB
    BY <1>10, <2>1, <2>2, <2>4
  <2> QED
    BY <2>3, <2>4
<1>12. FrameGood(g, t, mode[p], Keys(db)', Held(p)', Waiting(p))
  <2>1. FrameGood(f, t, mode[p], Keys(db)', Held(p)', Waiting(p))
    BY <1>5, <1>10, GoodMono
  <2> QED
    BY <1>1, <1>3, <1>11, <2>1, StoredLeftGood
<1>13. SameNode(f, g)
  BY <1>3 DEF Frame, SameNode
<1> HIDE DEF g, m, A, stores
<1> QED
  BY <1>1, <1>2, <1>3, <1>4, <1>6, <1>8, <1>12, <1>13, StoreHolds

LEMMA StoreRightHolds ==
  ASSUME Bounds, IInv', CInv, NEW p \in Proc, StoreRight(p)
  PROVE  CInv'
<1> DEFINE f == Top(p)
           m == Mid(f.left, f.right)
           t == target[p]
           A == f.rres
           g == [f EXCEPT !.pc = "done"]
           stores == StoresChildren(f.left, f.right, level[p])
           new == stores /\ ~A.fromDB
<1>1. /\ stack[p] # <<>> /\ f.pc = "storeRight" /\ IInv
      /\ StoreOrFree(p, m, f.right, A, stores) /\ SetTop(p, g)
  BY DEF StoreRight, At, Bounds
<1>2. UNCHANGED <<loaded, mode, level, span, target, outcome, reply>>
  BY DEF StoreRight
<1>3. /\ f \in Frame /\ FrameOK(f, t, loaded) /\ f.op = "build" /\ A \in Matrix
      /\ f.left \in 1..N /\ f.right \in 1..N /\ f.left < f.right
      /\ t \in Window /\ t[1] \in 1..N /\ t[2] \in 1..N
      /\ t[1] <= f.left /\ f.right <= t[2]
  BY <1>1, TopOf, RunningProc DEF Frame, FrameOK
<1>4. f.left < m /\ m <= f.right /\ m \in 1..N
  BY <1>1, TopHalves
<1>5. /\ FrameGood(f, t, mode[p], Keys(db), Held(p), Waiting(p))
      /\ Waiting(p) \in SUBSET DBRow /\ ProcHolds(p)
  BY <1>1, TopGood DEF CInv
<1>6. A.v = Valid(m, f.right)
  <2>1. A.v = ShareValid(t, m, f.right)
    BY <1>1, <1>5 DEF FrameGood, FrameValid
  <2>2. t[1] <= m
    <3> HIDE DEF m, f, t
    <3> QED
      BY <1>3, <1>4, TraceAssumption
  <2> QED
    BY <1>3, <1>4, <2>1, <2>2, ShareValidOfCovered
<1>7. ASSUME mode[p] = "build"
      PROVE  /\ ResultOK(A, m, f.right, Keys(db), Held(p)) /\ ~A.null
             /\ \A x \in Waiting(p) : Key(x) # <<m, f.right>>
             /\ Wanted(f.left, f.right) \ {<<m, f.right>>} \subseteq Held(p)
  BY <1>1, <1>5, <1>7 DEF FrameGood, FrameHolds, NotDue, RightKey
<1>8. ASSUME new
      PROVE  /\ f.left <= m /\ m < f.right /\ f.right <= f.right
             /\ <<m, f.right>> # <<f.left, f.right>>
             /\ \A x \in Waiting(p) : Key(x) # <<m, f.right>>
             /\ Wanted(m, f.right) \subseteq Held(p)
             /\ NotDue(g, KeyedRow(m, f.right, A))
  <2>1. mode[p] = "build"
    BY <1>1, <1>8, OnlyBuildsStore
  <2>2. m < f.right
    BY <1>7, <1>8, <2>1 DEF ResultOK
  <2>3. Wanted(m, f.right) \subseteq Held(p)
    BY <1>7, <1>8, <2>1 DEF ResultOK, Wanted
  <2>4. f.left <= m /\ f.right <= f.right /\ m # f.left
    <3> HIDE DEF m, f
    <3> QED
      BY <1>3, <1>4, TraceAssumption
  <2>5. NotDue(g, KeyedRow(m, f.right, A))
    <3>1. g.pc = "done" /\ SameNode(f, g)
      BY <1>3 DEF Frame, SameNode
    <3>2. LET x == KeyedRow(m, f.right, A)
          IN  x.left = m /\ x.right = f.right
      BY DEF KeyedRow
    <3> HIDE DEF g, A, f, m
    <3> QED
      BY <2>4, <3>1, <3>2 DEF NotDue, SameNode, Key
  <2> QED
    BY <1>7, <2>1, <2>2, <2>3, <2>4, <2>5
<1>9. new => \A x \in Waiting(p) : Key(x) # <<m, f.right>>
  BY <1>8
<1>10. /\ Keys(db) \subseteq Keys(db)' /\ Held(p) \subseteq Held(p)'
       /\ new => <<m, f.right>> \in Held(p)'
  <2> HIDE DEF f, m, A, stores
  <2> QED
    BY <1>1, <1>3, <1>4, <1>5, <1>9, StoreEffect
<1>11. ASSUME mode[p] = "build"
       PROVE  Wanted(f.left, f.right) \subseteq Held(p)'
  <2> SUFFICES ASSUME NEW k \in Wanted(f.left, f.right), k = <<m, f.right>>
               PROVE  k \in Held(p)'
    BY <1>7, <1>10, <1>11
  <2>1. /\ StoresChildren(f.left, f.right, CoarsestLayer)
        /\ Branching(m, f.right)
    BY DEF Wanted
  <2>2. stores
    <3>1. level[p] \in {NotStoredLayer(x) : x \in Levels}
      BY <1>5, <1>11 DEF ProcHolds
    <3> QED
      BY <1>3, <2>1, <3>1, EveryBuildStores
  <2>3. CASE A.fromDB
    <3>1. <<m, f.right>> \in Keys(db)
      BY <1>7, <1>11, <2>1, <2>3 DEF ResultOK
    <3> QED
      BY <1>10, <3>1 DEF Held
  <2>4. CASE ~A.fromDB
    BY <1>10, <2>2, <2>4
  <2> QED
    BY <2>3, <2>4
<1>12. FrameGood(g, t, mode[p], Keys(db)', Held(p)', Waiting(p))
  <2>1. FrameGood(f, t, mode[p], Keys(db)', Held(p)', Waiting(p))
    BY <1>5, <1>10, GoodMono
  <2> QED
    BY <1>1, <1>3, <1>11, <2>1, StoredRightGood
<1>13. SameNode(f, g)
  BY <1>3 DEF Frame, SameNode
<1> HIDE DEF g, m, A, stores
<1> QED
  BY <1>1, <1>2, <1>3, <1>4, <1>6, <1>8, <1>12, <1>13, StoreHolds

-----------------------------------------------------------------------------
(* BuildTree, Query and the loader *)

(* A process without frames.                                               *)
LEMMA NoFrames ==
  ASSUME NEW p \in Proc, stack'[p] = <<>>
  PROVE  /\ Nested(stack'[p])
         /\ \A k \in 1..Len(stack'[p]) :
              FrameGood(stack'[p][k], target'[p], mode'[p], Keys(db)', Held(p)', Waiting(p)')
BY DEF Nested

(* The root is stored, or is in the table, when it has to be.              *)
LEMMA StoreRootHolds ==
  ASSUME IInv, IInv', CInv, NEW p \in Proc, StoreRoot(p)
  PROVE  CInv'
<1> DEFINE f == Top(p)
           w == span[p]
           A == f.res
           stores == StoresRoot(w[1], w[2], level[p])
           new == stores /\ ~A.fromDB
<1>1. /\ stack[p] # <<>> /\ f.pc = "done" /\ Len(stack[p]) = 1 /\ mode[p] = "build"
      /\ ~A.null /\ StoreOrFree(p, w[1], w[2], A, stores)
  BY DEF StoreRoot, Finished, At
<1>2. /\ stack' = [stack EXCEPT ![p] = <<>>] /\ mode' = [mode EXCEPT ![p] = "closing"]
      /\ UNCHANGED <<loaded, level, span, target, outcome, reply>>
  BY DEF StoreRoot
<1>3. /\ f \in Frame /\ A \in Matrix /\ w \in Window /\ target[p] = w
      /\ w[1] \in 1..N /\ w[2] \in 1..N /\ w = <<w[1], w[2]>>
      /\ f.left = w[1] /\ f.right = w[2]
  <2>1. f \in Frame /\ w \in Window /\ target[p] = w /\ GoodStack(stack[p], w, target[p], loaded)
    BY <1>1, TopOf, RunningProc
  <2> QED
    BY <1>1, <2>1 DEF Frame, Window, GoodStack, StackOK, Top
<1>4. /\ FrameGood(f, w, mode[p], Keys(db), Held(p), Waiting(p))
      /\ ProcHolds(p) /\ TableHolds
  BY <1>1, <1>3, TopGood DEF CInv
<1>5. A.v = Valid(w[1], w[2])
  <2>1. A.v = ShareValid(w, w[1], w[2])
    BY <1>1, <1>3, <1>4 DEF FrameGood, FrameValid
  <2>2. w[1] <= w[1] /\ w[2] <= w[2]
    BY <1>3, TraceAssumption
  <2> QED
    BY <1>3, <2>1, <2>2, ShareValidOfCovered
<1>6. /\ ResultOK(A, w[1], w[2], Keys(db), Held(p))
      /\ \A x \in Waiting(p) : Key(x) # <<w[1], w[2]>>
  BY <1>1, <1>3, <1>4 DEF FrameGood, FrameHolds, NotDue
<1>7. new => /\ \A x \in Waiting(p) : Key(x) # <<w[1], w[2]>>
             /\ A.v = Valid(w[1], w[2]) /\ w[1] < w[2]
             /\ Wanted(w[1], w[2]) \subseteq Held(p)
  BY <1>1, <1>5, <1>6 DEF ResultOK, Wanted
<1> HIDE DEF A, stores
<1>8. /\ Keys(db) \subseteq Keys(db)' /\ Held(p) \subseteq Held(p)'
      /\ new => <<w[1], w[2]>> \in Held(p)'
      /\ \A i, j \in 1..Len(buffer'[p]) : i # j => Key(buffer'[p][i]) # Key(buffer'[p][j])
  BY <1>1, <1>3, <1>4, <1>7, StoreEffect
<1>9. /\ TableHolds'
      /\ \A x \in Waiting(p)' : RowValid(x) /\ RowHeld(x, Held(p)')
  BY <1>1, <1>3, <1>4, <1>7, RowsHold
<1>10. RootHeld(w, level[p], Held(p)')
  <2> SUFFICES ASSUME stores, Branching(w[1], w[2])
               PROVE  w \in Held(p)'
    BY DEF RootHeld, stores
  <2>1. CASE A.fromDB
    <3>1. <<w[1], w[2]>> \in Keys(db)
      BY <1>6, <2>1 DEF ResultOK
    <3> QED
      BY <1>3, <1>8, <3>1 DEF Held
  <2>2. CASE ~A.fromDB
    BY <1>3, <1>8, <2>2
  <2> QED
    BY <2>1, <2>2
<1>11. stack'[p] = <<>> /\ mode'[p] = "closing"
  BY <1>2 DEF IInv, TypeOK
<1>12. ProcHolds(p)'
  <2>1. outcome'[p] # "built"
    BY <1>1, <1>2, <1>4 DEF ProcHolds
  <2>2. /\ mode'[p] \in {"build", "closing"} => level'[p] \in {NotStoredLayer(x) : x \in Levels}
        /\ outcome'[p] = "answered" => reply'[p].v = Valid(target'[p][1], target'[p][2])
    BY <1>1, <1>2, <1>4 DEF ProcHolds
  <2>3. mode'[p] = "closing" => RootHeld(span'[p], level'[p], Held(p)')
    BY <1>2, <1>10
  <2> QED
    BY <1>8, <1>9, <1>11, <2>1, <2>2, <2>3, NoFrames DEF ProcHolds
<1>13. \A q \in Proc \ {p} : Untouched(q) /\ level'[q] = level[q]
  BY <1>1, <1>2, StoreIsOwn DEF Untouched, IInv, TypeOK
<1> QED
  BY <1>8, <1>9, <1>12, <1>13, CacheStep

(* The destructor of DBCore commits everything that is held.               *)
LEMMA CloseHolds ==
  ASSUME IInv, IInv', CInv, NEW p \in Proc, CloseDB(p)
  PROVE  CInv'
<1>1. /\ mode[p] = "closing" /\ db' = InsertOrIgnore(db, buffer[p])
      /\ buffer' = [buffer EXCEPT ![p] = <<>>]
      /\ mode' = [mode EXCEPT ![p] = "idle"]
      /\ outcome' = [outcome EXCEPT ![p] = "built"]
      /\ UNCHANGED <<loaded, level, span, target, stack, reply>>
  BY DEF CloseDB, Commit
<1>2. ProcHolds(p) /\ TableHolds
  BY DEF CInv
<1>3. /\ buffer'[p] = <<>> /\ mode'[p] = "idle" /\ outcome'[p] = "built"
      /\ stack'[p] = <<>> /\ Len(buffer[p]) \in Nat
  BY <1>1 DEF IInv, TypeOK, ProcOK
<1>4. /\ Keys(db') = Held(p)
      /\ \A x \in db' : x \in db \/ x \in Waiting(p)
  <2>1. /\ Keys(InsertOrIgnore(db, buffer[p])) =
             Keys(db) \cup {Key(buffer[p][i]) : i \in 1..Len(buffer[p])}
        /\ \A x \in InsertOrIgnore(db, buffer[p]) :
             x \in db \/ \E i \in 1..Len(buffer[p]) : x = buffer[p][i]
    BY <1>2, <1>3, CommittedKeys DEF ProcHolds
  <2> QED
    BY <1>1, <2>1 DEF Held, Waiting
<1>5. Keys(db)' = Held(p) /\ Keys(db) \subseteq Keys(db)'
  BY <1>4 DEF Keys, Held
<1>6. ASSUME NEW x \in db'
      PROVE  RowValid(x) /\ Wanted(x.left, x.right) \subseteq Keys(db)'
  BY <1>2, <1>4, <1>5 DEF TableHolds, ProcHolds, RowHeld
<1>7. TableHolds'
  <2> HIDE DEF RowValid, Wanted
  <2> QED
    BY <1>6 DEF TableHolds
<1>8. RootHeld(span'[p], level'[p], Keys(db)')
  BY <1>1, <1>2, <1>5 DEF ProcHolds
<1>9. Waiting(p)' = {}
  BY <1>3 DEF Waiting
<1>10. ProcHolds(p)'
  <2>1. \A i, j \in 1..Len(buffer'[p]) : i # j => Key(buffer'[p][i]) # Key(buffer'[p][j])
    BY <1>3
  <2> QED
    BY <1>3, <1>8, <1>9, <2>1, NoFrames DEF ProcHolds
<1>11. \A q \in Proc \ {p} : Untouched(q) /\ level'[q] = level[q]
  BY <1>1 DEF Untouched, IInv, TypeOK
<1> QED
  BY <1>5, <1>7, <1>10, <1>11, CacheStep

(* A call starts with one frame and nothing waiting.                       *)
LEMMA StartHolds ==
  ASSUME Bounds, IInv', CInv, NEW p \in Proc, NEW w \in Spans,
         (\E l \in Levels : StartBuild(p, w, l)) \/ (\E t \in Targets : StartQuery(p, w, t))
  PROVE  CInv'
<1>1. /\ IInv /\ mode[p] = "idle" /\ InTrace(w) /\ WritesOK(p) /\ TableHolds
      /\ UNCHANGED <<db, loaded, buffer, reply>>
  BY DEF StartBuild, StartQuery, Bounds, CInv
<1>2. w \in Window
  BY TreeAssumption
<1>3. w[1] \in 1..N /\ w[2] \in 1..N /\ w[1] <= w[2]
  BY <1>1, <1>2, InTraceLoaded
<1>4. buffer'[p] = <<>> /\ outcome'[p] = "none"
  BY <1>1 DEF WritesOK, StartBuild, StartQuery, IInv, TypeOK
<1>5. Waiting(p)' = {} /\ Keys(db)' = Keys(db)
  BY <1>1, <1>4 DEF Waiting, Keys
<1>6. PICK op \in {"build", "query"} :
        /\ stack'[p] = <<Call(op, w[1], w[2])>> /\ mode'[p] = op
        /\ op = "build" => level'[p] \in {NotStoredLayer(x) : x \in Levels}
  <2>1. CASE \E l \in Levels : StartBuild(p, w, l)
    BY <1>1, <2>1 DEF StartBuild, IInv, TypeOK
  <2>2. CASE \E t \in Targets : StartQuery(p, w, t)
    BY <1>1, <2>2 DEF StartQuery, IInv, TypeOK
  <2> QED
    BY <2>1, <2>2
<1>7. FrameGood(Call(op, w[1], w[2]), target'[p], mode'[p], Keys(db)', Held(p)', Waiting(p)')
  BY <1>3, <1>5, <1>6, NewCallGood
<1>8. Len(stack'[p]) = 1 /\ stack'[p][1] = Call(op, w[1], w[2])
  BY <1>6
<1>9. /\ Nested(stack'[p])
      /\ \A k \in 1..Len(stack'[p]) :
           FrameGood(stack'[p][k], target'[p], mode'[p], Keys(db)', Held(p)', Waiting(p)')
  BY <1>7, <1>8 DEF Nested
<1>10. ProcHolds(p)'
  <2>1. \A i, j \in 1..Len(buffer'[p]) : i # j => Key(buffer'[p][i]) # Key(buffer'[p][j])
    BY <1>4
  <2> QED
    BY <1>4, <1>5, <1>6, <1>9, <2>1 DEF ProcHolds
<1>11. TableHolds'
  BY <1>1, <1>5 DEF TableHolds
<1>12. \A q \in Proc \ {p} : Untouched(q) /\ level'[q] = level[q]
  BY <1>1 DEF StartBuild, StartQuery, Untouched, IInv, TypeOK
<1> QED
  BY <1>5, <1>10, <1>11, <1>12, CacheStep

(* An answer, or the end of the process: nothing waits.                    *)
LEMMA EndHolds ==
  ASSUME Bounds, IInv', CInv, NEW p \in Proc,
         AnswerQuery(p) \/ \E how \in {"none", "aborted"} : Die(p, how)
  PROVE  CInv'
<1>1. IInv /\ WritesOK(p) /\ TableHolds /\ ProcHolds(p) /\ UNCHANGED <<db, loaded>>
  BY DEF Bounds, CInv, AnswerQuery, Die
<1>2. mode'[p] = "idle" /\ stack'[p] = <<>> /\ buffer'[p] = <<>>
  BY <1>1 DEF AnswerQuery, Die, IInv, TypeOK, WritesOK
<1>3. outcome'[p] # "built"
  BY <1>1 DEF AnswerQuery, Die, IInv, TypeOK
<1>4. outcome'[p] = "answered" => reply'[p].v = Valid(target'[p][1], target'[p][2])
  <2>1. CASE AnswerQuery(p)
    <3>1. /\ stack[p] # <<>> /\ Len(stack[p]) = 1 /\ Top(p).pc = "done"
          /\ reply'[p] = Top(p).res /\ UNCHANGED target
      BY <1>1, <2>1 DEF AnswerQuery, Finished, At, IInv, TypeOK
    <3>2. /\ GoodStack(stack[p], span[p], target[p], loaded)
          /\ span[p] \in Window /\ target[p] \in Window
          /\ span[p][1] <= target[p][1] /\ target[p][2] <= span[p][2]
      BY <1>1, <3>1, RunningProc
    <3>3. Top(p).left = span[p][1] /\ Top(p).right = span[p][2]
      BY <3>1, <3>2 DEF GoodStack, StackOK, Top
    <3>4. Top(p).res.v = ShareValid(target[p], span[p][1], span[p][2])
      BY <1>1, <3>1, <3>3, TopGood DEF FrameGood, FrameValid
    <3> QED
      BY <3>1, <3>2, <3>4, ShareValidOfAll
  <2>2. CASE \E how \in {"none", "aborted"} : Die(p, how)
    BY <1>1, <2>2 DEF Die, IInv, TypeOK
  <2> QED
    BY <2>1, <2>2
<1>5. Waiting(p)' = {} /\ Keys(db)' = Keys(db)
  BY <1>1, <1>2 DEF Waiting, Keys
<1>6. ProcHolds(p)'
  <2>1. \A i, j \in 1..Len(buffer'[p]) : i # j => Key(buffer'[p][i]) # Key(buffer'[p][j])
    BY <1>2
  <2> QED
    BY <1>2, <1>3, <1>4, <1>5, <2>1, NoFrames DEF ProcHolds
<1>7. TableHolds'
  BY <1>1, <1>5 DEF TableHolds
<1>8. \A q \in Proc \ {p} : Untouched(q) /\ level'[q] = level[q]
  BY <1>1 DEF AnswerQuery, Die, Untouched, IInv, TypeOK
<1> QED
  BY <1>5, <1>6, <1>7, <1>8, CacheStep

(* The loader adds rows of single instructions, under which is nothing.    *)
LEMMA CommitRulesHolds ==
  ASSUME IInv, CInv, CommitRules
  PROVE  CInv'
<1>1. PICK n \in (loaded + 1)..N :
        db' = db \cup {KeyedRow(i, i, Rules[i]) : i \in ((loaded + 1)..n) \cap DOMAIN Rules}
  BY DEF CommitRules
<1>2. Keys(db) \subseteq Keys(db)'
  BY <1>1 DEF Keys
<1>3. ASSUME NEW x \in db'
      PROVE  RowValid(x) /\ Wanted(x.left, x.right) \subseteq Keys(db)'
  <2>1. CASE x \in db
    BY <1>2, <2>1 DEF CInv, TableHolds
  <2>2. CASE \E i \in DOMAIN Rules : x = KeyedRow(i, i, Rules[i])
    <3>1. PICK i \in DOMAIN Rules : x = KeyedRow(i, i, Rules[i])
      BY <2>2
    <3>2. i \in Int /\ i..i = {i}
      BY TraceAssumption
    <3>3. x.left = i /\ x.right = i /\ x.v = Rules[i].v
      BY <3>1 DEF KeyedRow
    <3>4. (i..i) \cap DOMAIN Rules = {i}
      BY <3>2
    <3>5. Valid(i, i) = Rules[i].v
      BY <3>4 DEF Valid
    <3>6. Wanted(i, i) = {}
      BY <3>2 DEF Wanted
    <3> QED
      BY <3>3, <3>5, <3>6 DEF RowValid
  <2> QED
    BY <1>1, <2>1, <2>2
<1>4. TableHolds'
  <2> HIDE DEF RowValid, Wanted
  <2> QED
    BY <1>3 DEF TableHolds
<1>5. \A q \in Proc : Untouched(q) /\ level'[q] = level[q]
  BY DEF CommitRules, Untouched
<1>6. \A q \in Proc : ProcHolds(q)'
  BY <1>2, <1>5, OthersHold DEF CInv
<1> QED
  BY <1>4, <1>6 DEF CInv

-----------------------------------------------------------------------------
(* What the table holds under a node *)

CacheInv == Bounds /\ CInv

LEMMA InitCache == Init => CacheInv
<1> SUFFICES ASSUME Init
             PROVE  CacheInv
  OBVIOUS
<1>1. Bounds
  BY InitBounds
<1>2. TableHolds
  BY DEF Init, TableHolds
<1>3. ASSUME NEW p \in Proc
      PROVE  ProcHolds(p)
  <2>1. /\ stack[p] = <<>> /\ buffer[p] = <<>> /\ mode[p] = "idle" /\ outcome[p] = "none"
    BY DEF Init
  <2>2. Waiting(p) = {}
    BY <2>1 DEF Waiting
  <2> QED
    BY <2>1, <2>2 DEF ProcHolds, Nested
<1> QED
  BY <1>1, <1>2, <1>3 DEF CacheInv, CInv

LEMMA StillHolds ==
  ASSUME CInv, UNCHANGED vars
  PROVE  CInv'
<1>1. Keys(db)' = Keys(db) /\ TableHolds'
  BY DEF CInv, TableHolds, vars, Keys
<1>2. \A q \in Proc : Untouched(q) /\ level'[q] = level[q]
  BY DEF vars, Untouched
<1>3. \A q \in Proc : ProcHolds(q)'
  BY <1>1, <1>2, OthersHold DEF CInv
<1> QED
  BY <1>1, <1>3 DEF CInv

LEMMA NextCache == CacheInv /\ [Next]_vars => CacheInv'
<1> SUFFICES ASSUME CacheInv, [Next]_vars
             PROVE  CacheInv'
  OBVIOUS
<1>1. Bounds /\ CInv /\ IInv /\ Bounds' /\ IInv'
  BY NextBounds DEF CacheInv, Bounds
<1>2. CASE CommitRules
  BY <1>1, <1>2, CommitRulesHolds DEF CacheInv
<1>3. CASE UNCHANGED vars
  BY <1>1, <1>3, StillHolds DEF CacheInv
<1>4. ASSUME NEW p \in Proc, NEW w \in Spans,
             (\E l \in Levels : StartBuild(p, w, l)) \/ (\E t \in Targets : StartQuery(p, w, t))
      PROVE  CInv'
  BY <1>1, <1>4, StartHolds
<1>5. ASSUME NEW p \in Proc, Run(p)
      PROVE  CInv'
  <2>1. CASE LoadNode(p) \/ OverlapNode(p) \/ CallLeft(p) \/ CallRight(p)
    BY <1>1, <2>1, LoadHolds, OverlapHolds, CallLeftHolds, CallRightHolds
  <2>2. CASE ReturnLeft(p) \/ ReturnRight(p) \/ Join(p)
    BY <1>1, <2>2, ReturnLeftHolds, ReturnRightHolds, JoinHolds
  <2>3. CASE StoreLeft(p) \/ StoreRight(p) \/ StoreRoot(p) \/ CloseDB(p)
    BY <1>1, <2>3, StoreLeftHolds, StoreRightHolds, StoreRootHolds, CloseHolds
  <2>4. CASE AnswerQuery(p) \/ Abort(p)
    BY <1>1, <2>4, EndHolds DEF Abort
  <2> QED
    BY <1>5, <2>1, <2>2, <2>3, <2>4 DEF Run
<1>6. ASSUME NEW p \in Proc, Crash(p)
      PROVE  CInv'
  BY <1>1, <1>6, EndHolds DEF Crash
<1> QED
  BY <1>1, <1>2, <1>3, <1>4, <1>5, <1>6 DEF Next, CacheInv

LEMMA CacheHolds == Spec => []CacheInv
BY InitCache, NextCache, PTL DEF Spec

(* A build puts a node into its transaction buffer at most once, and never *)
(* a single instruction, for every trace and every buffer size: the calls  *)
(* nest, and what waits lies outside of what is still to be visited.       *)
THEOREM NodesAreBufferedOnce == Spec => []BufferedOnce
<1>1. CacheInv => BufferedOnce
  <2> SUFFICES ASSUME CacheInv, NEW p \in Proc, NEW i \in 1..Len(buffer[p])
               PROVE  /\ buffer[p][i].left < buffer[p][i].right
                      /\ \A j \in 1..(i - 1) : Key(buffer[p][j]) # Key(buffer[p][i])
    BY DEF BufferedOnce
  <2>1. ProcHolds(p) /\ buffer[p] \in Seq(DBRow)
    BY DEF CacheInv, CInv, Bounds, IInv, TypeOK
  <2>2. \A j \in 1..(i - 1) : j \in 1..Len(buffer[p]) /\ j # i
    BY <2>1
  <2> QED
    BY <2>1, <2>2 DEF ProcHolds, Waiting, RowHeld
<1> QED
  BY <1>1, CacheHolds, PTL

(* Under a node of the table are its children that every build stores,     *)
(* wherever a build crashes, whatever the other processes have stored, and *)
(* however often the buffer was full in between.                           *)
THEOREM CacheStaysClosed == Spec => []CacheClosed
<1>1. CacheInv => CacheClosed
  <2> SUFFICES ASSUME CacheInv, NEW r \in db,
                      r.left < r.right, Branching(r.left, r.right),
                      StoresChildren(r.left, r.right, CoarsestLayer)
               PROVE  LET mid == Mid(r.left, r.right) IN
                      /\ Branching(r.left, mid - 1) => Stored(r.left, mid - 1) # {}
                      /\ Branching(mid, r.right) => Stored(mid, r.right) # {}
    BY DEF CacheClosed
  <2> DEFINE mid == Mid(r.left, r.right)
  <2>1. {k \in {<<r.left, mid - 1>>, <<mid, r.right>>} : Branching(k[1], k[2])} \subseteq Keys(db)
    BY DEF CacheInv, CInv, TableHolds, Wanted, LeftKey, RightKey
  <2>2. \A a, b : <<a, b>> \in Keys(db) => Stored(a, b) # {}
    BY DEF Keys, Stored
  <2> HIDE DEF mid
  <2>3. Branching(r.left, mid - 1) => Stored(r.left, mid - 1) # {}
    BY <2>1, <2>2
  <2>4. Branching(mid, r.right) => Stored(mid, r.right) # {}
    BY <2>1, <2>2
  <2> QED
    BY <2>3, <2>4 DEF mid
<1> QED
  BY <1>1, CacheHolds, PTL

(* When BuildTree has returned, the root of its tree is in the table if it *)
(* has a product of its own that the layer stores: it was found there, or  *)
(* was the last row of the buffer that the destructor committed.           *)
THEOREM BuiltStaysCached == Spec => []BuiltIsCached
<1>1. CacheInv => BuiltIsCached
  <2> SUFFICES ASSUME CacheInv, NEW p \in Proc, outcome[p] = "built",
                      StoresRoot(span[p][1], span[p][2], level[p]),
                      Branching(span[p][1], span[p][2])
               PROVE  Stored(span[p][1], span[p][2]) # {}
    BY DEF BuiltIsCached
  <2>1. span[p] \in Keys(db) /\ span[p] \in Window
    BY DEF CacheInv, CInv, ProcHolds, RootHeld, Bounds, IInv, TypeOK
  <2> QED
    BY <2>1 DEF Keys, Stored, Key
<1> QED
  BY <1>1, CacheHolds, PTL

(* The matrix that Query returns is valid on the indices of the rules in   *)
(* the range asked, no more and no fewer: the rows and columns outside of  *)
(* them are the identity that the caller of Query adds.                    *)
AnswersValid ==
  \A p \in Proc : outcome[p] = "answered" => reply[p].v = Valid(target[p][1], target[p][2])

THEOREM AnswersStayValid == Spec => []AnswersValid
<1>1. CacheInv => AnswersValid
  BY DEF CacheInv, CInv, ProcHolds, AnswersValid
<1> QED
  BY <1>1, CacheHolds, PTL
=============================================================================
