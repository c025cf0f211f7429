------------------------------ MODULE DataFlow ------------------------------
(***************************************************************************)
(* The algebra of FlowMatrix rows.  A row of the database is a sparse      *)
(* matrix over the variables of the trace plus a sorted array of "valid    *)
(* indices": outside those indices the matrix is the identity and is not   *)
(* stored.  Entries are kept as the set of their positions: every rule     *)
(* entry is 1.0 (FMRule.cpp:184), sums and products of non-negative values *)
(* have no cancellation, and a query reports an entry when it is above a   *)
(* threshold, so positions are what the answers tell apart.                *)
(***************************************************************************)
EXTENDS Integers, Sequences

CONSTANTS
  Vars,   \* the variables of the trace: registers, memory, syscalls
  N,      \* number of instructions in the trace
  Rules   \* Rules[i] is the row of instruction i, if the trace has one

Pairs == Vars \X Vars

(* What the database holds of a matrix: entries and valid indices.  The    *)
(* constructor of FMRule only makes entries between overridden variables.  *)
Row == {r \in [m : SUBSET Pairs, v : SUBSET Vars] : r.m \subseteq r.v \X r.v}

(* Instructions are numbered by the tracer and a number may be missing.    *)
ASSUME TraceAssumption ==
  /\ N \in Nat \ {0}
  /\ DOMAIN Rules \subseteq 1..N
  /\ Rules \in [DOMAIN Rules -> Row]

-----------------------------------------------------------------------------
(* Sparse matrix operations *)

setMainDiagonal(indices) == {<<x, x>> : x \in indices}

add(A, B) == A \cup B

spgemm(A, B) ==
  {e \in Pairs : \E y \in Vars : <<e[1], y>> \in A /\ <<y, e[2]>> \in B}

getSuperSet(V1, V2) ==
  [superset |-> V1 \cup V2, missing1 |-> V2 \ V1, missing2 |-> V1 \ V2]

(* An operand of a product: its diagonal is filled at the indices it lacks. *)
Extend(m, missing) == add(m, setMainDiagonal(missing))

(***************************************************************************)
(* A matrix in memory is a row with the state of its pointers: null is the *)
(* NULL cuSparseMatrix pointer, device says that it has device arrays, and *)
(* fromDB that it was read from the database (the flag that                *)
(* RecursiveBuildSubTree returns with it).                                 *)
(***************************************************************************)
Matrix == {a \in [null : BOOLEAN, m : SUBSET Pairs, v : SUBSET Vars,
                  device : BOOLEAN, fromDB : BOOLEAN] :
             a.m \subseteq a.v \X a.v /\ (a.null => a.v = {})}

NoMatrix == [null |-> TRUE, m |-> {}, v |-> {}, device |-> FALSE, fromDB |-> FALSE]

(* A slip: the caller is not told that the row is in the database.         *)
LoadToDevice_Unflagged(r) ==
  [null |-> FALSE, m |-> r.m, v |-> r.v, device |-> r.m # {}, fromDB |-> FALSE]

(* A row with no entries gets no device arrays. *)
LoadToDevice(r) ==
  [null |-> FALSE, m |-> r.m, v |-> r.v, device |-> r.m # {}, fromDB |-> TRUE]

(* A slip: operands are multiplied as they are stored.                     *)
AlignAndMultiply_Unextended(A, B) ==
  [null |-> FALSE, m |-> spgemm(A.m, B.m), v |-> A.v \cup B.v,
   device |-> TRUE, fromDB |-> FALSE]

(* When an extended operand is empty the product is not computed: the      *)
(* result is an empty matrix without arrays, valid on the superset.        *)
AlignAndMultiply(A, B) ==
  LET s     == getSuperSet(A.v, B.v)
      extA  == Extend(A.m, s.missing1)
      extB  == Extend(B.m, s.missing2)
      empty == extA = {} \/ extB = {}
  IN  [null   |-> FALSE,
       m      |-> IF empty THEN {} ELSE spgemm(extA, extB),
       v      |-> s.superset,
       device |-> ~empty,
       fromDB |-> FALSE]

(* A slip: a matrix that only clears variables is taken for no matrix.     *)
Invalid_DropsClears(A) == A.null \/ A.m = {}

(* The test both recursions make before they multiply. *)
Invalid(A) == A.null \/ A.v = {}

-----------------------------------------------------------------------------
(***************************************************************************)
(* The reference: information flows from x to y across instructions l..r   *)
(* when some path of variables follows every instruction in order.         *)
(***************************************************************************)
Identity == setMainDiagonal(Vars)

Meaning(a) == a.m \cup setMainDiagonal(Vars \ a.v)

Step(i) == IF i \in DOMAIN Rules THEN Meaning(Rules[i]) ELSE Identity

PathOf(p, l, r) == \A i \in l..r : <<p[i], p[i + 1]>> \in Step(i)

Flow(l, r) ==
  IF r < l
  THEN Identity
  ELSE {e \in Pairs :
          \E p \in [l..(r + 1) -> Vars] :
             p[l] = e[1] /\ p[r + 1] = e[2] /\ PathOf(p, l, r)}

(* All of them at once, so that TLC computes them once.                    *)
Window == (1..N) \X (1..N)
Flows == [w \in Window |-> Flow(w[1], w[2])]
=============================================================================
