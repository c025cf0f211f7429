------------------------------ MODULE MCArrays ------------------------------
(* The two algorithms on arrays of the host, one or the other in each      *)
(* behaviour: getSuperSet on all pairs of ascending arrays of Index, and   *)
(* the conversions of every matrix of MaxRows rows at most.                *)
EXTENDS SuperSet, SequencesExt

CONSTANTS MaxRows, Columns

ASSUME MatrixAssumption ==
  MaxRows \in Nat /\ Columns \subseteq Int /\ IsFiniteSet(Columns)

VARIABLES
  work,   \* "merge" or "convert"
  m, isCSR, row, col, result, entries

Matrix == INSTANCE Sparse

matrixVars == <<m, isCSR, row, col, result, entries>>

Arrays == {SetToSortSeq(S, <) : S \in SUBSET Index}

MergeOf(X, Y) ==
  /\ indices_1 \in X /\ indices_2 \in Y
  /\ pass = "count" /\ idx_1 = 0 /\ idx_2 = 0 /\ num_overlapped = 0
  /\ superset = <<>> /\ missing_1 = <<>> /\ missing_2 = <<>>

MCInit ==
  \/ /\ work = "merge" /\ MergeOf(Arrays, Arrays)
     /\ m = 1 /\ isCSR = FALSE /\ row = <<>> /\ col = <<>> /\ result = 0 /\ entries = {}
  \/ work = "convert" /\ Matrix!Init /\ MergeOf({<<>>}, {<<>>})

MCNext ==
  /\ UNCHANGED work
  /\ \/ work = "merge" /\ Next /\ UNCHANGED matrixVars
     \/ work = "convert" /\ Matrix!Next /\ UNCHANGED mergeVars

MCSpec == MCInit /\ [][MCNext]_<<work, mergeVars, matrixVars>>

(* Every conversion keeps the matrix (MatrixBase; see Sparse).             *)
SameEntries == Matrix!SameEntries
=============================================================================
