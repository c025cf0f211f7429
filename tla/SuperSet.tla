------------------------------ MODULE SuperSet ------------------------------
(***************************************************************************)
(* FMRule::getSuperSet on arrays: two ascending arrays of indices are      *)
(* merged into their superset and into what each of them lacks.  A first   *)
(* pass counts the shared indices, the three arrays are allocated with the *)
(* sizes that follow, and a second pass fills them.  DataFlow takes the    *)
(* result for the union and the differences of two sets.                   *)
(***************************************************************************)
EXTENDS Integers, Sequences

CONSTANT Index  \* the indices of variables

ASSUME IndexAssumption == Index \subseteq Int

Ascending(s) == \A i, j \in 1..Len(s) : i < j => s[i] < s[j]

VARIABLES
  pass,                   \* "count", "fill" or "done"
  indices_1, indices_2,   \* the arguments
  idx_1, idx_2,           \* how much of them has been read
  num_overlapped,         \* the count of the first pass
  superset, missing_1, missing_2

mergeVars == <<pass, indices_1, indices_2, idx_1, idx_2, num_overlapped,
               superset, missing_1, missing_2>>

Init ==
  /\ indices_1 \in Seq(Index) /\ Ascending(indices_1)
  /\ indices_2 \in Seq(Index) /\ Ascending(indices_2)
  /\ pass = "count" /\ idx_1 = 0 /\ idx_2 = 0 /\ num_overlapped = 0
  /\ superset = <<>> /\ missing_1 = <<>> /\ missing_2 = <<>>

Left1 == idx_1 < Len(indices_1)
Left2 == idx_2 < Len(indices_2)
Next1 == indices_1[idx_1 + 1]
Next2 == indices_2[idx_2 + 1]

-----------------------------------------------------------------------------
(* Which of the two arrays the next index is taken from.                   *)
Shared == Left1 /\ Left2 /\ Next1 = Next2

(* A slip: of two equal indices the second is taken for a missing one.     *)
Only2_Equal == Left2 /\ (Left1 => Next1 >= Next2)

Only2 == Left2 /\ (Left1 => Next1 > Next2)
Only1 == Left1 /\ (Left2 => Next1 < Next2)

(* A slip: every index is counted.                                         *)
Count_All ==
  /\ pass = "count" /\ Left1 /\ Left2
  /\ num_overlapped' = num_overlapped + 1
  /\ idx_1' = IF Only2 THEN idx_1 ELSE idx_1 + 1
  /\ idx_2' = IF Only1 THEN idx_2 ELSE idx_2 + 1
  /\ UNCHANGED <<pass, indices_1, indices_2, superset, missing_1, missing_2>>

(* The first pass stops when one of the arrays has been read.              *)
Count ==
  /\ pass = "count" /\ Left1 /\ Left2
  /\ num_overlapped' = IF Shared THEN num_overlapped + 1 ELSE num_overlapped
  /\ idx_1' = IF Only2 THEN idx_1 ELSE idx_1 + 1
  /\ idx_2' = IF Only1 THEN idx_2 ELSE idx_2 + 1
  /\ UNCHANGED <<pass, indices_1, indices_2, superset, missing_1, missing_2>>

Allocate ==
  /\ pass = "count" /\ ~(Left1 /\ Left2)
  /\ pass' = "fill" /\ idx_1' = 0 /\ idx_2' = 0
  /\ UNCHANGED <<indices_1, indices_2, num_overlapped, superset, missing_1, missing_2>>

(* The sizes of the arrays.                                                *)
superset_num_indices == Len(indices_1) + Len(indices_2) - num_overlapped
num_missing_indices_1 == superset_num_indices - Len(indices_1)
num_missing_indices_2 == superset_num_indices - Len(indices_2)

FillShared ==
  /\ pass = "fill" /\ Shared
  /\ superset' = Append(superset, Next1)
  /\ idx_1' = idx_1 + 1 /\ idx_2' = idx_2 + 1
  /\ UNCHANGED <<pass, indices_1, indices_2, num_overlapped, missing_1, missing_2>>

(* A slip: both arrays are advanced.                                       *)
Fill2_Both ==
  /\ pass = "fill" /\ Only2
  /\ superset' = Append(superset, Next2)
  /\ missing_1' = Append(missing_1, Next2)
  /\ idx_1' = idx_1 + 1 /\ idx_2' = idx_2 + 1
  /\ UNCHANGED <<pass, indices_1, indices_2, num_overlapped, missing_2>>

Fill2 ==
  /\ pass = "fill" /\ Only2
  /\ superset' = Append(superset, Next2)
  /\ missing_1' = Append(missing_1, Next2)
  /\ idx_2' = idx_2 + 1
  /\ UNCHANGED <<pass, indices_1, indices_2, idx_1, num_overlapped, missing_2>>

Fill1 ==
  /\ pass = "fill" /\ Only1
  /\ superset' = Append(superset, Next1)
  /\ missing_2' = Append(missing_2, Next1)
  /\ idx_1' = idx_1 + 1
  /\ UNCHANGED <<pass, indices_1, indices_2, idx_2, num_overlapped, missing_1>>

Verify ==
  /\ pass = "fill" /\ ~Left1 /\ ~Left2
  /\ pass' = "done"
  /\ UNCHANGED <<indices_1, indices_2, idx_1, idx_2, num_overlapped, superset,
                 missing_1, missing_2>>

Next == Count \/ Allocate \/ FillShared \/ Fill2 \/ Fill1 \/ Verify

Spec == Init /\ [][Next]_mergeVars
-----------------------------------------------------------------------------
(* Properties *)

Elements(s) == {s[i] : i \in 1..Len(s)}

(* The first n elements of s.                                              *)
Part(s, n) == {s[i] : i \in 1..n}

Types ==
  /\ pass \in {"count", "fill", "done"}
  /\ indices_1 \in Seq(Index) /\ indices_2 \in Seq(Index)
  /\ idx_1 \in 0..Len(indices_1) /\ idx_2 \in 0..Len(indices_2)
  /\ num_overlapped \in Nat
  /\ superset \in Seq(Index) /\ missing_1 \in Seq(Index) /\ missing_2 \in Seq(Index)

(* TypeOK: the state of a merge has its types, no index is read behind the *)
(* end of an array, and at every step of the second pass, nowhere else,    *)
(* what has been written is made of what has been read: the superset of    *)
(* both arrays, each missing list of the other array only.                 *)
TypeOK ==
  /\ Types
  /\ pass = "count" => superset = <<>> /\ missing_1 = <<>> /\ missing_2 = <<>>
  /\ pass # "count" =>
       /\ Elements(superset) = Part(indices_1, idx_1) \cup Part(indices_2, idx_2)
       /\ Elements(missing_1) \subseteq Part(indices_2, idx_2)
       /\ Elements(missing_2) \subseteq Part(indices_1, idx_1)

(* MergeRight: the results are the union and the two differences, and the  *)
(* union is ascending, as the next merge of it requires (the prerequisite  *)
(* of getSuperSet).                                                        *)
MergeRight ==
  pass = "done" =>
    /\ Elements(superset) = Elements(indices_1) \cup Elements(indices_2)
    /\ Elements(missing_1) = Elements(indices_2) \ Elements(indices_1)
    /\ Elements(missing_2) = Elements(indices_1) \ Elements(indices_2)
    /\ Ascending(superset)

(* ArraysFit: the second pass fills the arrays that were allocated for the *)
(* count of the first: nothing is written behind them, and at the end they *)
(* are full (the assertions at the end of getSuperSet).                    *)
ArraysFit ==
  pass # "count" =>
    /\ Len(superset) <= superset_num_indices
    /\ Len(missing_1) <= num_missing_indices_1
    /\ Len(missing_2) <= num_missing_indices_2
    /\ pass = "done" => /\ Len(superset) = superset_num_indices
                        /\ Len(missing_1) = num_missing_indices_1
                        /\ Len(missing_2) = num_missing_indices_2
=============================================================================
