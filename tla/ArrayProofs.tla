---------------------------- MODULE ArrayProofs ----------------------------
(***************************************************************************)
(* The merge of SuperSet is right for arrays of every length, in both of   *)
(* its passes.  What has been written is made of what has been read, and   *)
(* everything read of one array is below everything unread of the other:   *)
(* that is why the three tests of the loop tell a missing index.           *)
(* The conversions of Sparse are each other's inverses on sorted entries:  *)
(* a pointer behind a row counts the entries up to that row, and these are *)
(* the first ones.                                                         *)
(***************************************************************************)
EXTENDS MCArrays, FiniteSetTheorems, TLAPS

(* Everything in X is below the elements of s behind the first n.          *)
Below(X, s, n) == \A x \in X, j \in (n + 1)..Len(s) : x < s[j]

Filled ==
  /\ Elements(superset) = Part(indices_1, idx_1) \cup Part(indices_2, idx_2)
  /\ Elements(missing_1) = Part(indices_2, idx_2) \ Elements(indices_1)
  /\ Elements(missing_2) = Part(indices_1, idx_1) \ Elements(indices_2)
  /\ Below(Part(indices_1, idx_1), indices_2, idx_2)
  /\ Below(Part(indices_2, idx_2), indices_1, idx_1)
  /\ Ascending(superset)

IInv ==
  /\ Types
  /\ Ascending(indices_1) /\ Ascending(indices_2)
  /\ pass = "count" => superset = <<>> /\ missing_1 = <<>> /\ missing_2 = <<>>
  /\ pass # "count" => Filled
  /\ pass = "done" => idx_1 = Len(indices_1) /\ idx_2 = Len(indices_2)
-----------------------------------------------------------------------------
(* Sequences *)

LEMMA AppendElements ==
  ASSUME NEW S, NEW s \in Seq(S), NEW x \in S
  PROVE  /\ Append(s, x) \in Seq(S)
         /\ Elements(Append(s, x)) = Elements(s) \cup {x}
<1> DEFINE t == Append(s, x)
<1>1. /\ t \in Seq(S) /\ Len(t) = Len(s) + 1 /\ Len(s) \in Nat
      /\ \A i \in 1..Len(s) : t[i] = s[i]
      /\ t[Len(s) + 1] = x
  OBVIOUS
<1>2. \A y : y \in Elements(t) <=> y \in Elements(s) \cup {x}
  <2> HIDE DEF t
  <2> SUFFICES ASSUME NEW y
               PROVE  y \in Elements(t) <=> y \in Elements(s) \cup {x}
    OBVIOUS
  <2>1. ASSUME y \in Elements(t) PROVE y \in Elements(s) \cup {x}
    <3>1. PICK i \in 1..Len(t) : y = t[i]
      BY <2>1 DEF Elements
    <3>2. CASE i = Len(s) + 1
      BY <1>1, <3>1, <3>2
    <3>3. CASE i # Len(s) + 1
      <4>1. i \in 1..Len(s)
        BY <1>1, <3>1, <3>3
      <4> QED
        BY <1>1, <3>1, <4>1 DEF Elements
    <3> QED
      BY <3>2, <3>3
  <2>2. ASSUME y \in Elements(s) PROVE y \in Elements(t)
    <3>1. PICK i \in 1..Len(s) : y = s[i]
      BY <2>2 DEF Elements
    <3>2. i \in 1..Len(t) /\ y = t[i]
      BY <1>1, <3>1
    <3> QED
      BY <3>2 DEF Elements
  <2>3. x \in Elements(t)
    <3>1. Len(s) + 1 \in 1..Len(t)
      BY <1>1
    <3> QED
      BY <1>1, <3>1 DEF Elements
  <2> QED
    BY <2>1, <2>2, <2>3
<1> QED
  BY <1>1, <1>2

LEMMA AppendAscending ==
  ASSUME NEW s \in Seq(Index), NEW x \in Index, Ascending(s),
         \A y \in Elements(s) : y < x
  PROVE  Ascending(Append(s, x))
<1> DEFINE t == Append(s, x)
<1>1. /\ Len(t) = Len(s) + 1 /\ Len(s) \in Nat
      /\ \A i \in 1..Len(s) : t[i] = s[i]
      /\ t[Len(s) + 1] = x
  OBVIOUS
<1>2. \A i \in 1..Len(s) : s[i] < x
  BY DEF Elements
<1>3. ASSUME NEW i \in 1..Len(t), NEW j \in 1..Len(t), i < j PROVE t[i] < t[j]
  <2> HIDE DEF t
  <2>1. i \in 1..Len(s)
    BY <1>1, <1>3
  <2>2. CASE j = Len(s) + 1
    BY <1>1, <1>2, <2>1, <2>2
  <2>3. CASE j # Len(s) + 1
    <3>1. j \in 1..Len(s)
      BY <1>1, <1>3, <2>3
    <3> QED
      BY <1>1, <1>3, <2>1, <3>1 DEF Ascending
  <2> QED
    BY <2>2, <2>3
<1> QED
  BY <1>3 DEF Ascending

(* One more element is read.                                               *)
LEMMA PartGrows ==
  ASSUME NEW s \in Seq(Index), NEW n \in Nat, n < Len(s)
  PROVE  /\ Part(s, n + 1) = Part(s, n) \cup {s[n + 1]}
         /\ s[n + 1] \in Index /\ s[n + 1] \in Elements(s)
<1>1. Len(s) \in Nat /\ n + 1 \in 1..Len(s)
  OBVIOUS
<1>2. s[n + 1] \in Index
  BY <1>1
<1>3. s[n + 1] \in Elements(s)
  BY <1>1 DEF Elements
<1>4. 1..(n + 1) = (1..n) \cup {n + 1}
  OBVIOUS
<1>5. Part(s, n + 1) = Part(s, n) \cup {s[n + 1]}
  BY <1>4 DEF Part
<1> QED
  BY <1>2, <1>3, <1>5

(* What has been read of an ascending array is below the rest of it.       *)
LEMMA ReadIsBelow ==
  ASSUME NEW s \in Seq(Index), Ascending(s), NEW n \in 0..Len(s)
  PROVE  Below(Part(s, n), s, n)
<1>1. Len(s) \in Nat
  OBVIOUS
<1>2. ASSUME NEW i \in 1..n, NEW j \in (n + 1)..Len(s) PROVE s[i] < s[j]
  <2>1. i \in 1..Len(s) /\ j \in 1..Len(s) /\ i < j
    BY <1>1, <1>2
  <2> QED
    BY <2>1 DEF Ascending
<1> QED
  BY <1>2 DEF Below, Part

(* An index below the next one of an array is below all that is left.      *)
LEMMA BelowRest ==
  ASSUME NEW s \in Seq(Index), Ascending(s), NEW n \in 0..Len(s), NEW x \in Index,
         n < Len(s) => x < s[n + 1]
  PROVE  Below({x}, s, n)
<1>1. Len(s) \in Nat /\ x \in Int /\ \A i \in 1..Len(s) : s[i] \in Int
  <2>1. \A i \in 1..Len(s) : s[i] \in Index
    OBVIOUS
  <2>2. \A i \in Index : i \in Int
    BY IndexAssumption
  <2>3. \A i \in 1..Len(s) : s[i] \in Int
    BY <2>1, <2>2, Zenon
  <2>4. Len(s) \in Nat
    OBVIOUS
  <2> QED
    BY <2>2, <2>3, <2>4
<1>2. ASSUME NEW j \in (n + 1)..Len(s) PROVE x < s[j]
  <2>1. n < Len(s) /\ n + 1 \in 1..Len(s) /\ j \in 1..Len(s)
    BY <1>1, <1>2
  <2>2. CASE j = n + 1
    BY <2>1, <2>2
  <2>3. CASE j # n + 1
    <3>1. n + 1 < j
      BY <1>1, <1>2, <2>3
    <3>2. s[n + 1] < s[j]
      BY <2>1, <3>1 DEF Ascending
    <3> QED
      BY <1>1, <2>1, <3>2
  <2> QED
    BY <2>2, <2>3
<1> QED
  BY <1>2 DEF Below

(* An index above what has been read of an array and below the rest of it  *)
(* is not in it.                                                           *)
LEMMA NotThere ==
  ASSUME NEW s \in Seq(Index), NEW n \in 0..Len(s), NEW x \in Index,
         \A y \in Part(s, n) : y < x, Below({x}, s, n)
  PROVE  x \notin Elements(s)
<1>1. Len(s) \in Nat /\ x \in Int
  BY IndexAssumption
<1>2. SUFFICES ASSUME NEW i \in 1..Len(s), x = s[i] PROVE FALSE
  BY DEF Elements
<1>3. CASE i \in 1..n
  <2>1. s[i] < x
    BY <1>3 DEF Part
  <2> QED
    BY <1>1, <1>2, <2>1
<1>4. CASE i \notin 1..n
  <2>1. i \in (n + 1)..Len(s)
    BY <1>1, <1>4
  <2>2. x < s[i]
    BY <2>1 DEF Below
  <2> QED
    BY <1>1, <1>2, <2>2
<1> QED
  BY <1>3, <1>4
-----------------------------------------------------------------------------
(* The steps of the second pass *)

(* An index of one array that the other lacks is written: a is the array   *)
(* it comes from, b the other, with k and n elements read.                 *)
LEMMA TakesMissing ==
  ASSUME NEW a \in Seq(Index), NEW b \in Seq(Index), Ascending(a), Ascending(b),
         NEW k \in 0..Len(a), NEW n \in 0..Len(b), k < Len(a),
         n < Len(b) => a[k + 1] < b[n + 1],
         Below(Part(a, k), b, n), Below(Part(b, n), a, k)
  PROVE  /\ a[k + 1] \in Index
         /\ Part(a, k + 1) = Part(a, k) \cup {a[k + 1]}
         /\ a[k + 1] \notin Elements(b)
         /\ \A y \in Part(a, k) \cup Part(b, n) : y < a[k + 1]
         /\ Below(Part(a, k + 1), b, n) /\ Below(Part(b, n), a, k + 1)
<1> DEFINE x == a[k + 1]
<1>1. /\ x \in Index /\ Part(a, k + 1) = Part(a, k) \cup {x}
      /\ Len(a) \in Nat /\ k + 1 \in (k + 1)..Len(a)
  BY PartGrows
<1>2. Below(Part(a, k), a, k)
  BY ReadIsBelow
<1>3. \A y \in Part(a, k) \cup Part(b, n) : y < x
  BY <1>1, <1>2 DEF Below
<1>4. Below({x}, b, n)
  BY <1>1, BelowRest
<1>5. x \notin Elements(b)
  BY <1>1, <1>3, <1>4, NotThere
<1>6. Below(Part(a, k + 1), b, n)
  BY <1>1, <1>4 DEF Below
<1>7. Below(Part(b, n), a, k + 1)
  <2>1. (k + 2)..Len(a) \subseteq (k + 1)..Len(a) /\ (k + 1) + 1 = k + 2
    BY <1>1
  <2> QED
    BY <2>1 DEF Below
<1> QED
  BY <1>1, <1>3, <1>5, <1>6, <1>7

LEMMA Fill1Step == ASSUME IInv, Fill1 PROVE IInv'
<1> DEFINE x == Next1
<1>1. /\ Types /\ Filled /\ Ascending(indices_1) /\ Ascending(indices_2)
      /\ pass = "fill" /\ idx_1 < Len(indices_1)
      /\ idx_2 < Len(indices_2) => x < indices_2[idx_2 + 1]
      /\ idx_1 \in Nat /\ idx_1 + 1 \in 0..Len(indices_1)
  BY DEF IInv, Fill1, Only1, Left1, Left2, Next1, Next2, Types
<1>2. /\ x \in Index
      /\ Part(indices_1, idx_1 + 1) = Part(indices_1, idx_1) \cup {x}
      /\ x \notin Elements(indices_2)
      /\ \A y \in Part(indices_1, idx_1) \cup Part(indices_2, idx_2) : y < x
      /\ Below(Part(indices_1, idx_1 + 1), indices_2, idx_2)
      /\ Below(Part(indices_2, idx_2), indices_1, idx_1 + 1)
  BY <1>1, TakesMissing DEF Types, Filled, Next1
<1>3. x \in Elements(indices_1)
  BY <1>1, PartGrows DEF Types, Next1
<1> HIDE DEF x
<1>4. /\ pass' = "fill" /\ idx_1' = idx_1 + 1 /\ superset' = Append(superset, x)
      /\ missing_2' = Append(missing_2, x)
      /\ UNCHANGED <<indices_1, indices_2, idx_2, num_overlapped, missing_1>>
  BY <1>1 DEF Fill1, x
<1>5. Types'
  BY <1>1, <1>2, <1>4, AppendElements DEF Types
<1>6. Elements(superset') = Elements(superset) \cup {x}
  BY <1>1, <1>2, <1>4, AppendElements DEF Types
<1>7. Elements(missing_2') = Elements(missing_2) \cup {x}
  BY <1>1, <1>2, <1>4, AppendElements DEF Types
<1>8. Ascending(superset')
  BY <1>1, <1>2, <1>4, AppendAscending DEF Types, Filled
<1>9. /\ Part(indices_1, idx_1)' = Part(indices_1, idx_1 + 1)
      /\ Part(indices_2, idx_2)' = Part(indices_2, idx_2)
      /\ Elements(indices_1)' = Elements(indices_1)
      /\ Elements(indices_2)' = Elements(indices_2)
      /\ Elements(missing_1)' = Elements(missing_1)
  BY <1>4 DEF Part, Elements
<1>10. Filled'
  BY <1>1, <1>2, <1>3, <1>4, <1>6, <1>7, <1>8, <1>9 DEF Filled, Below
<1> QED
  BY <1>1, <1>4, <1>5, <1>10 DEF IInv, Ascending

LEMMA Fill2Step == ASSUME IInv, Fill2 PROVE IInv'
<1> DEFINE x == Next2
<1>1. /\ Types /\ Filled /\ Ascending(indices_1) /\ Ascending(indices_2)
      /\ pass = "fill" /\ idx_2 < Len(indices_2)
      /\ idx_2 \in Nat /\ idx_2 + 1 \in 0..Len(indices_2)
  BY DEF IInv, Fill2, Only2, Left2, Types
<1>2. idx_1 < Len(indices_1) => x < indices_1[idx_1 + 1]
  <2>1. idx_1 < Len(indices_1) => indices_1[idx_1 + 1] \in Int
    <3> SUFFICES ASSUME idx_1 < Len(indices_1) PROVE indices_1[idx_1 + 1] \in Index
      BY IndexAssumption
    <3>1. idx_1 \in Nat /\ indices_1 \in Seq(Index)
      BY <1>1 DEF Types
    <3> QED
      BY <3>1, PartGrows
  <2>2. x \in Int
    BY <1>1, PartGrows, IndexAssumption DEF Types, Next2
  <2> QED
    BY <2>1, <2>2 DEF Fill2, Only2, Left1, Next1
<1>3. /\ x \in Index
      /\ Part(indices_2, idx_2 + 1) = Part(indices_2, idx_2) \cup {x}
      /\ x \notin Elements(indices_1)
      /\ \A y \in Part(indices_2, idx_2) \cup Part(indices_1, idx_1) : y < x
      /\ Below(Part(indices_2, idx_2 + 1), indices_1, idx_1)
      /\ Below(Part(indices_1, idx_1), indices_2, idx_2 + 1)
  BY <1>1, <1>2, TakesMissing DEF Types, Filled, Next2
<1> HIDE DEF x
<1>4. /\ pass' = "fill" /\ idx_2' = idx_2 + 1 /\ superset' = Append(superset, x)
      /\ missing_1' = Append(missing_1, x)
      /\ UNCHANGED <<indices_1, indices_2, idx_1, num_overlapped, missing_2>>
  BY <1>1 DEF Fill2, x
<1>5. Types'
  BY <1>1, <1>3, <1>4, AppendElements DEF Types
<1>6. Elements(superset') = Elements(superset) \cup {x}
  BY <1>1, <1>3, <1>4, AppendElements DEF Types
<1>7. Elements(missing_1') = Elements(missing_1) \cup {x}
  BY <1>1, <1>3, <1>4, AppendElements DEF Types
<1>8. Ascending(superset')
  BY <1>1, <1>3, <1>4, AppendAscending DEF Types, Filled
<1>9. x \in Elements(indices_2)
  BY <1>1, PartGrows DEF Types, x, Next2
<1>10. /\ Part(indices_1, idx_1)' = Part(indices_1, idx_1)
       /\ Part(indices_2, idx_2)' = Part(indices_2, idx_2 + 1)
       /\ Elements(indices_1)' = Elements(indices_1)
       /\ Elements(indices_2)' = Elements(indices_2)
       /\ Elements(missing_2)' = Elements(missing_2)
  BY <1>4 DEF Part, Elements
<1>11. Filled'
  BY <1>1, <1>3, <1>4, <1>6, <1>7, <1>8, <1>9, <1>10 DEF Filled, Below
<1> QED
  BY <1>1, <1>4, <1>5, <1>11 DEF IInv, Ascending

LEMMA FillSharedStep == ASSUME IInv, FillShared PROVE IInv'
<1> DEFINE x == Next1
<1>1. /\ Types /\ Filled /\ Ascending(indices_1) /\ Ascending(indices_2)
      /\ pass = "fill" /\ x = Next2
      /\ idx_1 < Len(indices_1) /\ idx_1 \in Nat /\ idx_1 + 1 \in 0..Len(indices_1)
      /\ idx_2 < Len(indices_2) /\ idx_2 \in Nat /\ idx_2 + 1 \in 0..Len(indices_2)
  BY DEF IInv, FillShared, Shared, Left1, Left2, Types
<1>2. /\ x \in Index /\ x \in Elements(indices_1) /\ x \in Elements(indices_2)
      /\ Part(indices_1, idx_1 + 1) = Part(indices_1, idx_1) \cup {x}
      /\ Part(indices_2, idx_2 + 1) = Part(indices_2, idx_2) \cup {x}
  BY <1>1, PartGrows DEF Types, Next1, Next2
<1>3. \A y \in Part(indices_1, idx_1) \cup Part(indices_2, idx_2) : y < x
  <2>1. idx_1 + 1 \in (idx_1 + 1)..Len(indices_1)
    BY <1>1 DEF Types
  <2>2. Below(Part(indices_1, idx_1), indices_1, idx_1)
    BY <1>1, ReadIsBelow DEF Types
  <2> QED
    BY <1>1, <2>1, <2>2 DEF Filled, Below, Next1
<1>4. /\ Below(Part(indices_1, idx_1 + 1), indices_2, idx_2 + 1)
      /\ Below(Part(indices_2, idx_2 + 1), indices_1, idx_1 + 1)
  <2>1. /\ Below(Part(indices_1, idx_1 + 1), indices_1, idx_1 + 1)
        /\ Below(Part(indices_2, idx_2 + 1), indices_2, idx_2 + 1)
    BY <1>1, ReadIsBelow DEF Types
  <2>2. Below({x}, indices_1, idx_1 + 1) /\ Below({x}, indices_2, idx_2 + 1)
    BY <1>2, <2>1 DEF Below
  <2>3. /\ ((idx_1 + 1) + 1)..Len(indices_1) \subseteq (idx_1 + 1)..Len(indices_1)
        /\ ((idx_2 + 1) + 1)..Len(indices_2) \subseteq (idx_2 + 1)..Len(indices_2)
    BY <1>1 DEF Types
  <2>4. /\ Below(Part(indices_1, idx_1), indices_2, idx_2 + 1)
        /\ Below(Part(indices_2, idx_2), indices_1, idx_1 + 1)
    BY <1>1, <2>3 DEF Filled, Below
  <2> QED
    BY <1>2, <2>2, <2>4 DEF Below
<1> HIDE DEF x
<1>5. /\ pass' = "fill" /\ idx_1' = idx_1 + 1 /\ idx_2' = idx_2 + 1
      /\ superset' = Append(superset, x)
      /\ UNCHANGED <<indices_1, indices_2, num_overlapped, missing_1, missing_2>>
  BY <1>1 DEF FillShared, x
<1>6. Types'
  BY <1>1, <1>2, <1>5, AppendElements DEF Types
<1>7. Elements(superset') = Elements(superset) \cup {x}
  BY <1>1, <1>2, <1>5, AppendElements DEF Types
<1>8. Ascending(superset')
  BY <1>1, <1>2, <1>3, <1>5, AppendAscending DEF Types, Filled
<1>9. /\ Part(indices_1, idx_1)' = Part(indices_1, idx_1 + 1)
      /\ Part(indices_2, idx_2)' = Part(indices_2, idx_2 + 1)
      /\ Elements(indices_1)' = Elements(indices_1)
      /\ Elements(indices_2)' = Elements(indices_2)
      /\ Elements(missing_1)' = Elements(missing_1)
      /\ Elements(missing_2)' = Elements(missing_2)
  BY <1>5 DEF Part, Elements
<1>10. Filled'
  BY <1>1, <1>2, <1>4, <1>5, <1>7, <1>8, <1>9 DEF Filled, Below
<1> QED
  BY <1>1, <1>5, <1>6, <1>10 DEF IInv, Ascending
-----------------------------------------------------------------------------
(* The invariant *)

LEMMA InitIInv == Init => IInv
  BY DEF Init, IInv, Types

LEMMA CountStep == ASSUME IInv, Count PROVE IInv'
<1>1. Types'
  <2>1. /\ num_overlapped' \in Nat
        /\ idx_1' \in 0..Len(indices_1) /\ idx_2' \in 0..Len(indices_2)
    BY DEF IInv, Types, Count, Left1, Left2
  <2> QED
    BY <2>1 DEF IInv, Types, Count
<1> QED
  BY <1>1 DEF IInv, Count, Ascending

LEMMA AllocateStep == ASSUME IInv, Allocate PROVE IInv'
<1>1. Types'
  BY DEF IInv, Types, Allocate
<1>2. /\ superset' = <<>> /\ missing_1' = <<>> /\ missing_2' = <<>>
      /\ idx_1' = 0 /\ idx_2' = 0 /\ pass' = "fill"
  BY DEF IInv, Allocate
<1>3. \A s : Part(s, 0) = {}
  BY DEF Part
<1>4. Elements(<<>>) = {} /\ Ascending(<<>>)
  BY DEF Elements, Ascending
<1>5. Filled'
  BY <1>2, <1>3, <1>4 DEF Filled, Below
<1> QED
  BY <1>1, <1>2, <1>5 DEF IInv, Allocate, Ascending

LEMMA VerifyStep == ASSUME IInv, Verify PROVE IInv'
<1>1. Types'
  BY DEF IInv, Types, Verify
<1>2. idx_1 = Len(indices_1) /\ idx_2 = Len(indices_2)
  BY DEF IInv, Types, Verify, Left1, Left2
<1>3. /\ Part(indices_1, idx_1)' = Part(indices_1, idx_1)
      /\ Part(indices_2, idx_2)' = Part(indices_2, idx_2)
      /\ Elements(indices_1)' = Elements(indices_1)
      /\ Elements(indices_2)' = Elements(indices_2)
      /\ Elements(missing_1)' = Elements(missing_1)
      /\ Elements(missing_2)' = Elements(missing_2)
      /\ Elements(superset)' = Elements(superset)
  BY DEF Verify, Part, Elements
<1>4. Filled'
  BY <1>3 DEF IInv, Verify, Filled, Below, Ascending
<1> QED
  BY <1>1, <1>2, <1>4 DEF IInv, Verify, Ascending

LEMMA NextIInv == IInv /\ [Next]_mergeVars => IInv'
<1> SUFFICES ASSUME IInv, [Next]_mergeVars PROVE IInv'
  OBVIOUS
<1>1. CASE UNCHANGED mergeVars
  <2>1. UNCHANGED <<pass, indices_1, indices_2, idx_1, idx_2, num_overlapped,
                    superset, missing_1, missing_2>>
    BY <1>1 DEF mergeVars
  <2>2. /\ Part(indices_1, idx_1)' = Part(indices_1, idx_1)
        /\ Part(indices_2, idx_2)' = Part(indices_2, idx_2)
        /\ Elements(indices_1)' = Elements(indices_1)
        /\ Elements(indices_2)' = Elements(indices_2)
        /\ Elements(missing_1)' = Elements(missing_1)
        /\ Elements(missing_2)' = Elements(missing_2)
        /\ Elements(superset)' = Elements(superset)
    BY <2>1 DEF Part, Elements
  <2>3. Types'
    BY <2>1 DEF IInv, Types
  <2>4. pass # "count" => Filled'
    BY <2>1, <2>2 DEF IInv, Filled, Below, Ascending
  <2> QED
    BY <2>1, <2>3, <2>4 DEF IInv, Ascending
<1> QED
  BY <1>1, CountStep, AllocateStep, FillSharedStep, Fill1Step, Fill2Step, VerifyStep
  DEF Next

LEMMA Inductive == Spec => []IInv
  BY InitIInv, NextIInv, PTL DEF Spec

(* The state of a merge keeps its types, no index runs past the end of an  *)
(* array that is read, and what the second pass has written is, at every   *)
(* step, made of what it has read of the arrays, whatever these are.       *)
THEOREM MergeTypeOK == Spec => []TypeOK
<1>1. IInv => TypeOK
  BY DEF IInv, Filled, TypeOK
<1> QED
  BY <1>1, Inductive, PTL

(* getSuperSet returns the union and the two differences, and the union    *)
(* ascending, for every two ascending arrays.                              *)
THEOREM MergeIsRight == Spec => []MergeRight
<1>1. IInv => MergeRight
  BY DEF IInv, Filled, MergeRight, Part, Elements
<1> QED
  BY <1>1, Inductive, PTL

-----------------------------------------------------------------------------
(***************************************************************************)
(* The arrays that SuperSet allocates have the sizes that it needs.  Both  *)
(* passes take the shared indices off the common rest of the arrays one by *)
(* one: the first counts them, and the second finds as many again.         *)
(***************************************************************************)

(* The elements of s behind the first n.                                   *)
Rest(s, n) == {s[i] : i \in (n + 1)..Len(s)}

(* The indices that are shared and not yet read.                           *)
Common(k, n) == Rest(indices_1, k) \cap Rest(indices_2, n)

(* What has been counted, or written once for two, and what is still to be *)
(* found are all the shared indices.                                       *)
Counted ==
  /\ pass = "count" =>
       num_overlapped + Cardinality(Common(idx_1, idx_2)) = Cardinality(Common(0, 0))
  /\ pass # "count" =>
       /\ num_overlapped = Cardinality(Common(0, 0))
       /\ idx_1 + idx_2 + Cardinality(Common(idx_1, idx_2)) =
            Len(superset) + num_overlapped
       /\ Len(missing_1) = Len(superset) - idx_1
       /\ Len(missing_2) = Len(superset) - idx_2

SizeInv == IInv /\ Counted
-----------------------------------------------------------------------------
(* The rest of an array *)

(* The rest of an array has no more elements than places.                  *)
LEMMA RestSize ==
  ASSUME NEW s \in Seq(Index), NEW n \in 0..Len(s)
  PROVE  /\ IsFiniteSet(Rest(s, n))
         /\ Cardinality(Rest(s, n)) \in Nat
         /\ Cardinality(Rest(s, n)) <= Len(s) - n
<1> DEFINE D == (n + 1)..Len(s)
           f == [i \in D |-> s[i]]
<1>1. Len(s) \in Nat /\ n \in Nat /\ n <= Len(s)
  OBVIOUS
<1>2. f \in Surjection(D, Rest(s, n))
  BY DEF Surjection, Rest
<1>3. IsFiniteSet(D) /\ Cardinality(D) = Len(s) - n
  <2>1. /\ IsFiniteSet(D)
        /\ Cardinality(D) = IF n + 1 > Len(s) THEN 0 ELSE Len(s) - (n + 1) + 1
    <3>1. n + 1 \in Int /\ Len(s) \in Int
      BY <1>1
    <3> QED
      BY <3>1, FS_Interval, Zenon
  <2> QED
    BY <1>1, <2>1
<1> HIDE DEF D, f
<1>4. IsFiniteSet(Rest(s, n)) /\ Cardinality(Rest(s, n)) <= Cardinality(D)
  BY <1>2, <1>3, FS_Surjection
<1> QED
  BY <1>3, <1>4, FS_CardinalityType

(* One element leaves the rest of an ascending array when it is read.      *)
LEMMA RestShrinks ==
  ASSUME NEW s \in Seq(Index), Ascending(s), NEW n \in Nat, n < Len(s)
  PROVE  /\ Rest(s, n) = Rest(s, n + 1) \cup {s[n + 1]}
         /\ s[n + 1] \notin Rest(s, n + 1)
<1>1. Len(s) \in Nat /\ n + 1 \in 1..Len(s)
  OBVIOUS
<1>2. (n + 1)..Len(s) = ((n + 1) + 1)..Len(s) \cup {n + 1}
  BY <1>1
<1>3. Rest(s, n) = Rest(s, n + 1) \cup {s[n + 1]}
  BY <1>2 DEF Rest
<1>4. ASSUME NEW i \in ((n + 1) + 1)..Len(s), s[n + 1] = s[i] PROVE FALSE
  <2>1. i \in 1..Len(s) /\ n + 1 < i
    BY <1>1, <1>4
  <2>2. s[n + 1] < s[i]
    BY <1>1, <2>1 DEF Ascending
  <2>3. s[n + 1] \in Int
    BY PartGrows, IndexAssumption
  <2> QED
    BY <1>4, <2>2, <2>3
<1> QED
  BY <1>3, <1>4 DEF Rest

(* An index below the rest of an array is not in it.                       *)
LEMMA BelowNotInRest ==
  ASSUME NEW s \in Seq(Index), NEW n \in Nat, NEW x \in Index, Below({x}, s, n)
  PROVE  x \notin Rest(s, n)
<1>1. x \in Int
  BY IndexAssumption
<1>2. \A j \in (n + 1)..Len(s) : x < s[j]
  BY DEF Below
<1> QED
  BY <1>1, <1>2 DEF Rest

(* The places of the two arrays, and the sizes of what they share.         *)
LEMMA Places ==
  ASSUME IInv
  PROVE  /\ indices_1 \in Seq(Index) /\ Ascending(indices_1)
         /\ indices_2 \in Seq(Index) /\ Ascending(indices_2)
         /\ Len(indices_1) \in Nat /\ idx_1 \in 0..Len(indices_1)
         /\ Len(indices_2) \in Nat /\ idx_2 \in 0..Len(indices_2)
  BY DEF IInv, Types

LEMMA CommonSize ==
  ASSUME IInv, NEW k \in 0..Len(indices_1), NEW n \in 0..Len(indices_2)
  PROVE  /\ IsFiniteSet(Common(k, n))
         /\ Cardinality(Common(k, n)) \in Nat
         /\ Cardinality(Common(k, n)) <= Len(indices_1) - k
         /\ Cardinality(Common(k, n)) <= Len(indices_2) - n
<1>1. /\ IsFiniteSet(Rest(indices_1, k)) /\ Cardinality(Rest(indices_1, k)) \in Nat
      /\ Cardinality(Rest(indices_1, k)) <= Len(indices_1) - k
  BY Places, RestSize
<1>2. /\ IsFiniteSet(Rest(indices_2, n)) /\ Cardinality(Rest(indices_2, n)) \in Nat
      /\ Cardinality(Rest(indices_2, n)) <= Len(indices_2) - n
  BY Places, RestSize
<1>3. /\ IsFiniteSet(Common(k, n))
      /\ Cardinality(Common(k, n)) <= Cardinality(Rest(indices_1, k))
  BY <1>1, FS_Intersection DEF Common
<1>4. Cardinality(Common(k, n)) <= Cardinality(Rest(indices_2, n))
  BY <1>2, FS_Intersection DEF Common
<1>5. Cardinality(Common(k, n)) \in Nat
  BY <1>3, FS_CardinalityType
<1> QED
  BY <1>1, <1>2, <1>3, <1>4, <1>5, Places
-----------------------------------------------------------------------------
(* How a step changes what is shared and not read *)

LEMMA SharedTaken ==
  ASSUME IInv, Shared
  PROVE  Cardinality(Common(idx_1, idx_2)) =
           Cardinality(Common(idx_1 + 1, idx_2 + 1)) + 1
<1> DEFINE x == Next1
<1>1. /\ idx_1 \in Nat /\ idx_1 < Len(indices_1) /\ idx_1 + 1 \in 0..Len(indices_1)
      /\ idx_2 \in Nat /\ idx_2 < Len(indices_2) /\ idx_2 + 1 \in 0..Len(indices_2)
      /\ x = indices_1[idx_1 + 1] /\ x = indices_2[idx_2 + 1]
  BY Places DEF Shared, Left1, Left2, Next1, Next2
<1> HIDE DEF x
<1>2. /\ Rest(indices_1, idx_1) = Rest(indices_1, idx_1 + 1) \cup {x}
      /\ x \notin Rest(indices_1, idx_1 + 1)
  <2>1. /\ Rest(indices_1, idx_1) =
             Rest(indices_1, idx_1 + 1) \cup {indices_1[idx_1 + 1]}
        /\ indices_1[idx_1 + 1] \notin Rest(indices_1, idx_1 + 1)
    BY <1>1, Places, RestShrinks
  <2> QED
    BY <1>1, <2>1, Zenon
<1>3. Rest(indices_2, idx_2) = Rest(indices_2, idx_2 + 1) \cup {x}
  <2>1. Rest(indices_2, idx_2) =
          Rest(indices_2, idx_2 + 1) \cup {indices_2[idx_2 + 1]}
    BY <1>1, Places, RestShrinks
  <2> QED
    BY <1>1, <2>1, Zenon
<1>4. /\ Common(idx_1, idx_2) = Common(idx_1 + 1, idx_2 + 1) \cup {x}
      /\ x \notin Common(idx_1 + 1, idx_2 + 1)
  BY <1>2, <1>3 DEF Common
<1>5. IsFiniteSet(Common(idx_1 + 1, idx_2 + 1))
  BY <1>1, CommonSize
<1> QED
  BY <1>4, <1>5, FS_AddElement

(* An index of one array alone: a is that array, b the other.              *)
LEMMA AloneTaken ==
  ASSUME NEW a \in Seq(Index), NEW b \in Seq(Index), Ascending(a), Ascending(b),
         NEW k \in 0..Len(a), NEW n \in 0..Len(b), k < Len(a),
         n < Len(b) => a[k + 1] < b[n + 1]
  PROVE  Rest(a, k) \cap Rest(b, n) = Rest(a, k + 1) \cap Rest(b, n)
<1>1. Rest(a, k) = Rest(a, k + 1) \cup {a[k + 1]} /\ a[k + 1] \in Index
  BY RestShrinks, PartGrows
<1>2. Below({a[k + 1]}, b, n)
  BY <1>1, BelowRest
<1>3. a[k + 1] \notin Rest(b, n)
  BY <1>1, <1>2, BelowNotInRest
<1> QED
  BY <1>1, <1>3

LEMMA Only1Taken ==
  ASSUME IInv, Only1 PROVE Common(idx_1, idx_2) = Common(idx_1 + 1, idx_2)
  BY Places, AloneTaken DEF Only1, Left1, Left2, Next1, Next2, Common

LEMMA Only2Taken ==
  ASSUME IInv, Only2 PROVE Common(idx_1, idx_2) = Common(idx_1, idx_2 + 1)
<1>1. /\ idx_2 < Len(indices_2)
      /\ idx_1 < Len(indices_1) => indices_2[idx_2 + 1] < indices_1[idx_1 + 1]
  <2>1. ASSUME idx_1 < Len(indices_1) PROVE indices_1[idx_1 + 1] \in Int
    <3>1. indices_1[idx_1 + 1] \in Index
      BY <2>1, Places, PartGrows
    <3> QED
      BY <3>1, IndexAssumption
  <2>2. ASSUME idx_2 < Len(indices_2) PROVE indices_2[idx_2 + 1] \in Int
    <3>1. indices_2[idx_2 + 1] \in Index
      BY <2>2, Places, PartGrows
    <3> QED
      BY <3>1, IndexAssumption
  <2> QED
    BY <2>1, <2>2 DEF Only2, Left1, Left2, Next1, Next2
<1>2. Rest(indices_2, idx_2) \cap Rest(indices_1, idx_1) =
        Rest(indices_2, idx_2 + 1) \cap Rest(indices_1, idx_1)
  BY <1>1, Places, AloneTaken
<1> QED
  BY <1>2 DEF Common
-----------------------------------------------------------------------------
(* The invariant *)

LEMMA CountedInit == ASSUME Init, IInv PROVE Counted
<1>1. Cardinality(Common(0, 0)) \in Nat
  BY Places, CommonSize DEF Init
<1> QED
  BY <1>1 DEF Init, Counted

(* Of two arrays with something left, the next index is of one or of both. *)
LEMMA CountCounted == ASSUME IInv, Counted, Count PROVE Counted'
<1>1. /\ Left1 /\ Left2 /\ pass = "count" /\ pass' = "count"
      /\ num_overlapped \in Nat
      /\ num_overlapped' = IF Shared THEN num_overlapped + 1 ELSE num_overlapped
      /\ idx_1' = (IF Only2 THEN idx_1 ELSE idx_1 + 1)
      /\ idx_2' = (IF Only1 THEN idx_2 ELSE idx_2 + 1)
      /\ UNCHANGED <<indices_1, indices_2>>
  BY DEF Count, IInv, Types
<1>2. \/ Shared /\ ~Only1 /\ ~Only2
      \/ Only1 /\ ~Shared /\ ~Only2
      \/ Only2 /\ ~Shared /\ ~Only1
  <2>1. Next1 \in Index /\ Next2 \in Index
    BY <1>1, Places, PartGrows DEF Left1, Left2, Next1, Next2
  <2>2. Next1 \in Int /\ Next2 \in Int
    BY <2>1, IndexAssumption
  <2> QED
    BY <1>1, <2>2 DEF Shared, Only1, Only2
<1>3. num_overlapped' + Cardinality(Common(idx_1', idx_2')) =
        num_overlapped + Cardinality(Common(idx_1, idx_2))
  <2>1. CASE Shared /\ ~Only1 /\ ~Only2
    <3>1. Cardinality(Common(idx_1, idx_2)) = Cardinality(Common(idx_1', idx_2')) + 1
      BY <1>1, <2>1, SharedTaken
    <3>2. idx_1' \in 0..Len(indices_1) /\ idx_2' \in 0..Len(indices_2)
      BY <1>1, <2>1, Places DEF Left1, Left2
    <3>3. Cardinality(Common(idx_1', idx_2')) \in Nat
      BY <3>2, CommonSize
    <3> QED
      BY <1>1, <2>1, <3>1, <3>3
  <2>2. CASE Only1 /\ ~Shared /\ ~Only2
    BY <1>1, <2>2, Only1Taken
  <2>3. CASE Only2 /\ ~Shared /\ ~Only1
    BY <1>1, <2>3, Only2Taken
  <2> QED
    BY <1>2, <2>1, <2>2, <2>3
<1>4. /\ Common(idx_1, idx_2)' = Common(idx_1', idx_2')
      /\ Common(0, 0)' = Common(0, 0)
  BY <1>1 DEF Common, Rest
<1> QED
  BY <1>1, <1>3, <1>4 DEF Counted

(* The first pass may stop early: an array that has been read shares no    *)
(* more indices with the other.                                            *)
LEMMA AllocateCounted == ASSUME IInv, Counted, Allocate PROVE Counted'
<1>1. /\ pass = "count" /\ pass' = "fill" /\ idx_1' = 0 /\ idx_2' = 0
      /\ superset' = <<>> /\ missing_1' = <<>> /\ missing_2' = <<>>
      /\ num_overlapped \in Nat
      /\ UNCHANGED <<indices_1, indices_2, num_overlapped>>
  BY DEF IInv, Types, Allocate
<1>2. Cardinality(Common(idx_1, idx_2)) = 0
  <2>1. /\ Cardinality(Common(idx_1, idx_2)) \in Nat
        /\ Cardinality(Common(idx_1, idx_2)) <= Len(indices_1) - idx_1
        /\ Cardinality(Common(idx_1, idx_2)) <= Len(indices_2) - idx_2
    BY Places, CommonSize
  <2>2. idx_1 = Len(indices_1) \/ idx_2 = Len(indices_2)
    BY Places DEF Allocate, Left1, Left2
  <2> QED
    BY <2>1, <2>2, Places
<1>3. num_overlapped = Cardinality(Common(0, 0))
  BY <1>1, <1>2 DEF Counted
<1>4. /\ Common(idx_1, idx_2)' = Common(0, 0)
      /\ Common(0, 0)' = Common(0, 0)
  BY <1>1 DEF Common, Rest
<1> QED
  BY <1>1, <1>3, <1>4 DEF Counted

(* A step of the second pass: cursors i and j, c shared indices unread, n   *)
(* of the union written.                                                   *)
LEMMA Tally ==
  ASSUME NEW i \in Nat, NEW j \in Nat, NEW c \in Nat, NEW n \in Nat, NEW o \in Nat
  PROVE  /\ i + j + (c + 1) = n + o => (i + 1) + (j + 1) + c = (n + 1) + o
         /\ i + j + c = n + o => /\ (i + 1) + j + c = (n + 1) + o
                                 /\ i + (j + 1) + c = (n + 1) + o
         /\ n - i = (n + 1) - (i + 1) /\ (n - i) + 1 = (n + 1) - i
         /\ n - j = (n + 1) - (j + 1) /\ (n - j) + 1 = (n + 1) - j
  OBVIOUS

LEMMA FillSharedCounted == ASSUME IInv, Counted, FillShared PROVE Counted'
<1>1. /\ pass = "fill" /\ pass' = "fill" /\ Shared
      /\ idx_1' = idx_1 + 1 /\ idx_2' = idx_2 + 1
      /\ Len(superset') = Len(superset) + 1 /\ Len(superset) \in Nat
      /\ num_overlapped \in Nat /\ idx_1 \in Nat /\ idx_2 \in Nat
      /\ UNCHANGED <<indices_1, indices_2, num_overlapped, missing_1, missing_2>>
  BY DEF FillShared, IInv, Types
<1>2. Cardinality(Common(idx_1, idx_2)) = Cardinality(Common(idx_1 + 1, idx_2 + 1)) + 1
  BY <1>1, SharedTaken
<1>3. Cardinality(Common(idx_1 + 1, idx_2 + 1)) \in Nat
  <2>1. idx_1 + 1 \in 0..Len(indices_1) /\ idx_2 + 1 \in 0..Len(indices_2)
    BY <1>1, Places DEF Shared, Left1, Left2
  <2> QED
    BY <2>1, CommonSize
<1>4. /\ Common(idx_1, idx_2)' = Common(idx_1 + 1, idx_2 + 1)
      /\ Common(0, 0)' = Common(0, 0)
  BY <1>1 DEF Common, Rest
<1>5. /\ num_overlapped = Cardinality(Common(0, 0))
      /\ idx_1 + idx_2 + Cardinality(Common(idx_1, idx_2)) =
           Len(superset) + num_overlapped
      /\ Len(missing_1) = Len(superset) - idx_1
      /\ Len(missing_2) = Len(superset) - idx_2
  BY <1>1 DEF Counted
<1> DEFINE c == Cardinality(Common(idx_1 + 1, idx_2 + 1))
           n == Len(superset)
<1>6. /\ (idx_1 + 1) + (idx_2 + 1) + c = (n + 1) + num_overlapped
      /\ Len(missing_1) = (n + 1) - (idx_1 + 1)
      /\ Len(missing_2) = (n + 1) - (idx_2 + 1)
  <2>1. c \in Nat /\ n \in Nat /\ idx_1 + idx_2 + (c + 1) = n + num_overlapped
    BY <1>1, <1>2, <1>3, <1>5
  <2> HIDE DEF c
  <2> QED
    BY <1>1, <1>5, <2>1, Tally
<1> QED
  BY <1>1, <1>4, <1>5, <1>6 DEF Counted

LEMMA Fill1Counted == ASSUME IInv, Counted, Fill1 PROVE Counted'
<1>1. /\ pass = "fill" /\ pass' = "fill" /\ Only1 /\ idx_1' = idx_1 + 1
      /\ Len(superset') = Len(superset) + 1 /\ Len(superset) \in Nat
      /\ Len(missing_2') = Len(missing_2) + 1 /\ Len(missing_2) \in Nat
      /\ num_overlapped \in Nat /\ idx_1 \in Nat /\ idx_2 \in Nat
      /\ UNCHANGED <<indices_1, indices_2, idx_2, num_overlapped, missing_1>>
  BY DEF Fill1, IInv, Types
<1>2. Cardinality(Common(idx_1, idx_2)) \in Nat
  BY Places, CommonSize
<1>3. /\ Common(idx_1, idx_2)' = Common(idx_1, idx_2)
      /\ Common(0, 0)' = Common(0, 0)
  <2>1. Common(idx_1, idx_2) = Common(idx_1 + 1, idx_2)
    BY <1>1, Only1Taken
  <2> QED
    BY <1>1, <2>1 DEF Common, Rest
<1>4. /\ num_overlapped = Cardinality(Common(0, 0))
      /\ idx_1 + idx_2 + Cardinality(Common(idx_1, idx_2)) =
           Len(superset) + num_overlapped
      /\ Len(missing_1) = Len(superset) - idx_1
      /\ Len(missing_2) = Len(superset) - idx_2
  BY <1>1 DEF Counted
<1>5. /\ idx_1' + idx_2 + Cardinality(Common(idx_1, idx_2)) =
           Len(superset') + num_overlapped
      /\ Len(missing_1) = Len(superset') - idx_1'
      /\ Len(missing_2') = Len(superset') - idx_2
  <2>1. /\ idx_1' = idx_1 + 1 /\ Len(superset') = Len(superset) + 1
        /\ Len(missing_2') = Len(missing_2) + 1
        /\ Len(superset) \in Nat /\ num_overlapped \in Nat
        /\ idx_1 \in Nat /\ idx_2 \in Nat
    BY <1>1
  <2> DEFINE c == Cardinality(Common(idx_1, idx_2))
             n == Len(superset)
  <2>2. /\ (idx_1 + 1) + idx_2 + c = (n + 1) + num_overlapped
        /\ Len(missing_1) = (n + 1) - (idx_1 + 1)
        /\ Len(missing_2) + 1 = (n + 1) - idx_2
    <3> HIDE DEF c
    <3>1. c \in Nat /\ n \in Nat /\ idx_1 + idx_2 + c = n + num_overlapped
      BY <1>2, <1>4, <2>1 DEF c
    <3> QED
      BY <1>4, <2>1, <3>1, Tally
  <2> QED
    BY <2>1, <2>2
<1> QED
  BY <1>1, <1>3, <1>4, <1>5 DEF Counted

LEMMA Fill2Counted == ASSUME IInv, Counted, Fill2 PROVE Counted'
<1>1. /\ pass = "fill" /\ pass' = "fill" /\ Only2 /\ idx_2' = idx_2 + 1
      /\ Len(superset') = Len(superset) + 1 /\ Len(superset) \in Nat
      /\ Len(missing_1') = Len(missing_1) + 1 /\ Len(missing_1) \in Nat
      /\ num_overlapped \in Nat /\ idx_1 \in Nat /\ idx_2 \in Nat
      /\ UNCHANGED <<indices_1, indices_2, idx_1, num_overlapped, missing_2>>
  BY DEF Fill2, IInv, Types
<1>2. Cardinality(Common(idx_1, idx_2)) \in Nat
  BY Places, CommonSize
<1>3. /\ Common(idx_1, idx_2)' = Common(idx_1, idx_2)
      /\ Common(0, 0)' = Common(0, 0)
  <2>1. Common(idx_1, idx_2) = Common(idx_1, idx_2 + 1)
    BY <1>1, Only2Taken
  <2> QED
    BY <1>1, <2>1 DEF Common, Rest
<1>4. /\ num_overlapped = Cardinality(Common(0, 0))
      /\ idx_1 + idx_2 + Cardinality(Common(idx_1, idx_2)) =
           Len(superset) + num_overlapped
      /\ Len(missing_1) = Len(superset) - idx_1
      /\ Len(missing_2) = Len(superset) - idx_2
  BY <1>1 DEF Counted
<1> DEFINE c == Cardinality(Common(idx_1, idx_2))
           n == Len(superset)
<1>5. /\ idx_1 + (idx_2 + 1) + c = (n + 1) + num_overlapped
      /\ Len(missing_1) + 1 = (n + 1) - idx_1
      /\ Len(missing_2) = (n + 1) - (idx_2 + 1)
  <2> HIDE DEF c
  <2>1. c \in Nat /\ n \in Nat /\ idx_1 + idx_2 + c = n + num_overlapped
    BY <1>1, <1>2, <1>4 DEF c
  <2>2. idx_1 + (idx_2 + 1) + c = (n + 1) + num_overlapped
    BY <1>1, <2>1, Tally
  <2>3. (n - idx_1) + 1 = (n + 1) - idx_1 /\ n - idx_2 = (n + 1) - (idx_2 + 1)
    BY <1>1, Tally
  <2> QED
    BY <1>4, <2>2, <2>3
<1> QED
  BY <1>1, <1>3, <1>4, <1>5 DEF Counted

LEMMA NextSizeInv == SizeInv /\ [Next]_mergeVars => SizeInv'
<1> SUFFICES ASSUME IInv, Counted, [Next]_mergeVars PROVE Counted'
  BY NextIInv DEF SizeInv
<1>1. CASE UNCHANGED mergeVars
  BY <1>1 DEF mergeVars, Counted, Common, Rest
<1>2. CASE Verify
  BY <1>2 DEF Verify, Counted, Common, Rest
<1> QED
  BY <1>1, <1>2, CountCounted, AllocateCounted, FillSharedCounted, Fill1Counted,
     Fill2Counted DEF Next

(* The arrays that getSuperSet allocates between its passes are never      *)
(* written behind their end and are full in the end, whatever the          *)
(* arguments: its assertions hold for every two ascending arrays.          *)
THEOREM ArraysAlwaysFit == Spec => []ArraysFit
<1>1. Init => SizeInv
  BY InitIInv, CountedInit DEF SizeInv
<1>2. SizeInv => ArraysFit
  <2> SUFFICES ASSUME IInv, Counted, pass # "count" PROVE ArraysFit
    BY DEF SizeInv, ArraysFit
  <2> DEFINE C == Cardinality(Common(idx_1, idx_2))
  <2>1. /\ C \in Nat /\ C <= Len(indices_1) - idx_1 /\ C <= Len(indices_2) - idx_2
    BY Places, CommonSize
  <2>2. /\ idx_1 + idx_2 + C = Len(superset) + num_overlapped
        /\ Len(missing_1) = Len(superset) - idx_1
        /\ Len(missing_2) = Len(superset) - idx_2
    BY DEF Counted
  <2>3. pass = "done" => idx_1 = Len(indices_1) /\ idx_2 = Len(indices_2)
    BY DEF IInv
  <2>4. /\ Len(superset) \in Nat /\ num_overlapped \in Nat
        /\ idx_1 \in Nat /\ idx_2 \in Nat
    BY DEF IInv, Types
  <2> HIDE DEF C
  <2>5. /\ Len(superset) <= superset_num_indices
        /\ Len(missing_1) <= num_missing_indices_1
        /\ Len(missing_2) <= num_missing_indices_2
    BY <2>1, <2>2, <2>4, Places DEF superset_num_indices, num_missing_indices_1,
       num_missing_indices_2
  <2>6. ASSUME pass = "done"
        PROVE  /\ Len(superset) = superset_num_indices
               /\ Len(missing_1) = num_missing_indices_1
               /\ Len(missing_2) = num_missing_indices_2
    <3>1. C = 0
      BY <2>1, <2>3, <2>6, Places
    <3> QED
      BY <2>2, <2>3, <2>4, <2>6, <3>1, Places, SMTT(30) DEF superset_num_indices,
         num_missing_indices_1, num_missing_indices_2
  <2> QED
    BY <2>5, <2>6 DEF ArraysFit
<1> QED
  BY <1>1, <1>2, NextSizeInv, PTL DEF Spec
-----------------------------------------------------------------------------
(* Conversions of a matrix *)

(* How many elements of S come before p.                                   *)
Rank(S, p) == Matrix!Cardinality({q \in S : Matrix!Before(q, p)})

RowNumbers(S) == [i \in 1..Cardinality(S) |-> Matrix!Sorted(S)[i][1]]
ColumnNumbers(S) == [i \in 1..Cardinality(S) |-> Matrix!Sorted(S)[i][2]]

(* The arrays are those of the sorted entries, in either format.           *)
Converted ==
  /\ m \in 1..MaxRows /\ entries \in SUBSET ((0..m - 1) \X Columns)
  /\ isCSR \in BOOLEAN
  /\ row = IF isCSR THEN Matrix!coo2csr(RowNumbers(entries), m) ELSE RowNumbers(entries)
  /\ col = ColumnNumbers(entries)

LEMMA SmallestOf ==
  ASSUME NEW S \in SUBSET Nat, S # {}
  PROVE  \E least \in S : \A x \in S : least <= x
<1>1. PICK least \in S : \A x \in S : <<x, least>> \notin OpToRel(<, Nat)
  BY NatLessThanWellFounded, WFMin
<1>2. \A x \in S : ~(x < least)
  BY <1>1 DEF OpToRel
<1> QED
  BY <1>2

(* A set of positions that has every position below one it has.            *)
(* The instance has its own copies of two operators of the library.        *)
LEMMA SameOperators ==
  /\ \A S : Matrix!Cardinality(S) = Cardinality(S)
  /\ \A S : Matrix!Min(S) = Min(S)
<1>1. \A S : Matrix!Cardinality(S) = Cardinality(S)
  BY DEF Matrix!Cardinality, Cardinality
<1>2. \A S : Matrix!Min(S) = Min(S)
  BY DEF Matrix!Min, Min
<1> QED
  BY <1>1, <1>2

LEMMA InitialSegment ==
  ASSUME NEW n \in Nat, NEW S \in SUBSET (1..n),
         \A i \in S, j \in 1..n : j < i => j \in S
  PROVE  /\ Cardinality(S) \in 0..n
         /\ S = 1..Cardinality(S)
<1> DEFINE U == (1..n + 1) \ S
<1>1. U \in SUBSET Nat /\ n + 1 \in U
  OBVIOUS
<1>2. PICK k \in U : \A x \in U : k <= x
  <2> HIDE DEF U
  <2> QED
    BY <1>1, SmallestOf
<1>3. k \in 1..n + 1 /\ k \notin S
  BY <1>2
<1>4. \A j \in 1..n : j < k => j \in S
  BY <1>2, <1>3
<1>5. \A j \in S : j < k
  BY <1>3
<1>6. S = 1..k - 1
  <2>1. \A j \in S : j \in 1..k - 1
    BY <1>3, <1>5
  <2>2. \A j \in 1..k - 1 : j \in S
    BY <1>3, <1>4
  <2> QED
    BY <2>1, <2>2
<1>7. Cardinality(1..k - 1) = k - 1
  <2>1. 1 \in Int /\ k - 1 \in Int /\ (1 > k - 1 => k - 1 = 0)
    BY <1>3
  <2> QED
    BY <2>1, FS_Interval
<1> QED
  BY <1>3, <1>6, <1>7

LEMMA BeforeOrders ==
  /\ \A p, q \in Int \X Int : p = q \/ Matrix!Before(p, q) \/ Matrix!Before(q, p)
  /\ \A p \in Int \X Int : ~Matrix!Before(p, p)
  /\ \A p, q, r \in Int \X Int :
       Matrix!Before(p, q) /\ Matrix!Before(q, r) => Matrix!Before(p, r)
  /\ \A p, q \in Int \X Int : Matrix!Before(p, q) => p[1] <= q[1]
  BY DEF Matrix!Before

LEMMA RanksAscend ==
  ASSUME NEW S \in SUBSET (Int \X Int), IsFiniteSet(S),
         NEW p \in S, NEW q \in S, Matrix!Before(p, q)
  PROVE  Rank(S, p) < Rank(S, q)
<1> DEFINE P == {x \in S : Matrix!Before(x, p)}
           Q == {x \in S : Matrix!Before(x, q)}
<1>1. P \in SUBSET Q
  BY BeforeOrders
<1>2. p \in Q /\ p \notin P
  BY BeforeOrders
<1>3. IsFiniteSet(Q) /\ IsFiniteSet(P)
  BY FS_Subset
<1> HIDE DEF P, Q
<1>4. Cardinality(P) <= Cardinality(Q) /\ Cardinality(P) # Cardinality(Q)
  BY <1>1, <1>2, <1>3, FS_Subset
<1>5. Cardinality(P) \in Nat /\ Cardinality(Q) \in Nat
  BY <1>3, FS_CardinalityType
<1> QED
  BY <1>4, <1>5, SameOperators DEF Rank, P, Q

LEMMA RanksCount ==
  ASSUME NEW S \in SUBSET (Int \X Int), IsFiniteSet(S)
  PROVE  /\ Cardinality(S) \in Nat
         /\ \A p \in S : Rank(S, p) \in 0..Cardinality(S) - 1
         /\ \A k \in 0..Cardinality(S) - 1 : \E p \in S : Rank(S, p) = k
<1> DEFINE n == Cardinality(S)
           f == [p \in S |-> Rank(S, p)]
<1>1. n \in Nat
  BY FS_CardinalityType
<1>2. ASSUME NEW p \in S
      PROVE  Rank(S, p) \in 0..n - 1
  <2> DEFINE P == {x \in S : Matrix!Before(x, p)}
  <2>1. P \in SUBSET S /\ p \notin P
    BY BeforeOrders
  <2> HIDE DEF P
  <2>2. IsFiniteSet(P) /\ Cardinality(P) <= n /\ Cardinality(P) # n
    BY <2>1, FS_Subset
  <2>3. Cardinality(P) \in Nat
    BY <2>2, FS_CardinalityType
  <2>4. Cardinality(P) \in 0..n - 1
    BY <1>1, <2>2, <2>3
  <2> QED
    BY <2>4, SameOperators DEF Rank, P
<1>3. f \in Injection(S, 0..n - 1)
  <2>1. \A p, q \in S : Rank(S, p) = Rank(S, q) => p = q
    <3> SUFFICES ASSUME NEW p \in S, NEW q \in S, Rank(S, p) = Rank(S, q), p # q
                 PROVE  FALSE
      OBVIOUS
    <3>1. Matrix!Before(p, q) \/ Matrix!Before(q, p)
      BY BeforeOrders
    <3>2. Rank(S, p) \in Int /\ Rank(S, q) \in Int
      BY <1>2
    <3> QED
      BY <3>1, <3>2, RanksAscend
  <2> QED
    BY <1>2, <2>1 DEF Injection, IsInjective
<1>4. IsFiniteSet(0..n - 1) /\ Cardinality(0..n - 1) = n
  <2>1. 0 \in Int /\ n - 1 \in Int /\ (0 > n - 1 => n = 0)
    BY <1>1
  <2> HIDE DEF n
  <2> QED
    BY <1>1, <2>1, FS_Interval
<1>5. f \in Surjection(S, 0..n - 1)
  <2> HIDE DEF f
  <2> QED
    BY <1>3, <1>4, FS_Injection
<1>6. \A k \in 0..n - 1 : \E p \in S : f[p] = k
  <2> HIDE DEF f
  <2> QED
    BY <1>5 DEF Surjection
<1> QED
  BY <1>1, <1>2, <1>6

(* What is sorted is what was given, and its rows do not descend.          *)
LEMMA SortedIs ==
  ASSUME NEW S \in SUBSET (Int \X Int), IsFiniteSet(S)
  PROVE  /\ \A i \in 1..Cardinality(S) : Matrix!Sorted(S)[i] \in S
         /\ \A p \in S : \E i \in 1..Cardinality(S) : Matrix!Sorted(S)[i] = p
         /\ \A i, j \in 1..Cardinality(S) : i < j => RowNumbers(S)[i] <= RowNumbers(S)[j]
<1> DEFINE n == Cardinality(S)
           s == Matrix!Sorted(S)
<1>1. n \in Nat
  BY RanksCount
<1>2. \A i \in 1..n : s[i] = CHOOSE p \in S : Rank(S, p) = i - 1
  <2>1. s = [i \in 1..Matrix!Cardinality(S) |-> CHOOSE p \in S : Rank(S, p) = i - 1]
    BY Zenon DEF Matrix!Sorted, Rank
  <2> HIDE DEF s
  <2> QED
    BY <2>1, SameOperators
<1> HIDE DEF s
<1>3. ASSUME NEW i \in 1..n
      PROVE  s[i] \in S /\ Rank(S, s[i]) = i - 1
  <2>1. i - 1 \in 0..n - 1
    BY <1>1
  <2>2. \E p \in S : Rank(S, p) = i - 1
    BY <2>1, RanksCount
  <2> QED
    BY <1>2, <2>2
<1>4. ASSUME NEW p \in S, NEW q \in S, Rank(S, p) = Rank(S, q)
      PROVE  p = q
  <2>1. Rank(S, p) \in Int /\ Rank(S, q) \in Int
    BY RanksCount
  <2>2. ~Matrix!Before(p, q) /\ ~Matrix!Before(q, p)
    BY <1>4, <2>1, RanksAscend
  <2> QED
    BY <2>2, BeforeOrders
<1>5. ASSUME NEW p \in S
      PROVE  \E i \in 1..n : s[i] = p
  <2>1. Rank(S, p) + 1 \in 1..n /\ (Rank(S, p) + 1) - 1 = Rank(S, p)
    BY <1>1, RanksCount
  <2>2. s[Rank(S, p) + 1] \in S /\ Rank(S, s[Rank(S, p) + 1]) = Rank(S, p)
    BY <1>3, <2>1
  <2> QED
    BY <1>4, <2>1, <2>2
<1>6. ASSUME NEW i \in 1..n, NEW j \in 1..n, i < j
      PROVE  s[i][1] <= s[j][1]
  <2>1. /\ s[i] \in S /\ Rank(S, s[i]) = i - 1
        /\ s[j] \in S /\ Rank(S, s[j]) = j - 1
    BY <1>3
  <2>2. ~(Rank(S, s[j]) < Rank(S, s[i])) /\ s[i] # s[j]
    BY <1>6, <2>1
  <2>3. ~Matrix!Before(s[j], s[i])
    BY <2>1, <2>2, RanksAscend
  <2> QED
    BY <2>1, <2>2, <2>3, BeforeOrders
<1> QED
  BY <1>3, <1>5, <1>6 DEF RowNumbers, s

(* C are the pointers to the n row numbers R of a matrix with k rows.      *)
PointTo(C, R, n, k) ==
  /\ C \in Seq(Nat) /\ Len(C) = k + 1
  /\ C[1] = 0 /\ C[k + 1] = n
  /\ \A r \in 1..k : C[r] <= C[r + 1]
  /\ \A i \in 1..n : Matrix!RowOfEntry(C, i) = R[i]

(* The row of an entry is read off the pointers that count the entries.    *)
LEMMA PointersTellRows ==
  ASSUME NEW n \in Nat, NEW k \in Nat \ {0}, NEW R \in [1..n -> 0..k - 1],
         \A i, j \in 1..n : i < j => R[i] <= R[j]
  PROVE  PointTo(Matrix!coo2csr(R, k), R, n, k)
<1> DEFINE C == Matrix!coo2csr(R, k)
           Before(r) == {i \in 1..n : R[i] + 1 < r}
<1>1. \A r \in 1..k + 1 : C[r] = Cardinality(Before(r))
  <2>1. \A r \in 1..k + 1 : C[r] = Matrix!Cardinality({i \in DOMAIN R : R[i] + 1 < r})
    BY DEF Matrix!coo2csr
  <2>2. \A r : {i \in DOMAIN R : R[i] + 1 < r} = Before(r)
    OBVIOUS
  <2> HIDE DEF C, Before
  <2> QED
    BY <2>1, <2>2, SameOperators
<1>2. \A r \in 1..k + 1 : C[r] \in 0..n /\ Before(r) = 1..C[r]
  <2> SUFFICES ASSUME NEW r \in 1..k + 1
               PROVE  Cardinality(Before(r)) \in 0..n /\ Before(r) = 1..Cardinality(Before(r))
    BY <1>1
  <2>1. Before(r) \in SUBSET (1..n)
    OBVIOUS
  <2>2. \A i \in Before(r), j \in 1..n : j < i => j \in Before(r)
    OBVIOUS
  <2> HIDE DEF Before
  <2> QED
    BY <2>1, <2>2, InitialSegment
<1>3. DOMAIN C = 1..k + 1 /\ C \in [1..k + 1 -> Nat]
  <2>1. C = [r \in 1..k + 1 |-> C[r]]
    BY DEF Matrix!coo2csr
  <2> HIDE DEF C
  <2> QED
    BY <1>2, <2>1
<1>4. ASSUME NEW r \in 1..k + 1, NEW i \in 1..n
      PROVE  C[r] >= i <=> R[i] + 1 < r
  <2>1. i \in 1..C[r] <=> R[i] + 1 < r
    BY <1>2
  <2>2. C[r] \in Nat
    BY <1>3
  <2> QED
    BY <2>1, <2>2
<1> HIDE DEF C, Before
<1>5. C \in Seq(Nat) /\ Len(C) = k + 1
  BY <1>3
<1>6. C[1] = 0
  <2>1. 1 \in 1..k + 1 /\ Before(1) = {}
    BY DEF Before
  <2> QED
    BY <1>1, <2>1, FS_EmptySet
<1>7. C[k + 1] = n
  <2>1. k + 1 \in 1..k + 1 /\ Before(k + 1) = 1..n
    BY DEF Before
  <2>2. C[k + 1] \in 0..n /\ 1..n = 1..C[k + 1]
    BY <1>2, <2>1
  <2> QED
    BY <2>2
<1>8. ASSUME NEW r \in 1..k
      PROVE  C[r] <= C[r + 1]
  <2>1. r \in 1..k + 1 /\ r + 1 \in 1..k + 1
    OBVIOUS
  <2>2. Before(r) \subseteq Before(r + 1)
    BY DEF Before
  <2>3. C[r] \in 0..n /\ C[r + 1] \in 0..n /\ 1..C[r] \subseteq 1..C[r + 1]
    BY <1>2, <2>1, <2>2
  <2> QED
    BY <2>3, SMTT(30)
<1>9. ASSUME NEW i \in 1..n
      PROVE  Matrix!RowOfEntry(C, i) = R[i]
  <2> DEFINE behind == {r \in 0..Len(C) - 2 : C[r + 2] >= i}
  <2>1. behind = {r \in 0..k - 1 : R[i] <= r}
    <3>1. Len(C) - 2 = k - 1
      BY <1>5
    <3>2. \A r \in 0..k - 1 : C[r + 2] >= i <=> R[i] <= r
      <4> SUFFICES ASSUME NEW r \in 0..k - 1
                   PROVE  C[r + 2] >= i <=> R[i] <= r
        OBVIOUS
      <4>1. r + 2 \in 1..k + 1 /\ R[i] \in Int
        OBVIOUS
      <4>2. C[r + 2] >= i <=> R[i] + 1 < r + 2
        BY <1>4, <4>1
      <4> QED
        BY <4>1, <4>2
    <3> QED
      BY <3>1, <3>2
  <2>2. R[i] \in behind /\ \A r \in behind : R[i] <= r /\ r \in Int
    <3>1. R[i] \in 0..k - 1 /\ R[i] <= R[i]
      OBVIOUS
    <3> HIDE DEF behind
    <3> QED
      BY <2>1, <3>1
  <2> HIDE DEF behind
  <2>3. Min(behind) = R[i]
    <3>1. \A x \in behind : (\A y \in behind : x <= y) => x = R[i]
      BY <2>2
    <3> QED
      BY <2>2, <3>1 DEF Min
  <2> QED
    BY <2>3, SameOperators DEF Matrix!RowOfEntry, behind
<1> QED
  BY <1>5, <1>6, <1>7, <1>8, <1>9 DEF C, PointTo

(* What the sorted arrays of a matrix are.                                 *)
LEMMA ArraysOf ==
  ASSUME m \in 1..MaxRows, entries \in SUBSET ((0..m - 1) \X Columns)
  PROVE  LET n == Cardinality(entries)
             R == RowNumbers(entries)
             K == ColumnNumbers(entries)
         IN  /\ n \in Nat /\ Matrix!Cardinality(entries) = n
             /\ R \in [1..n -> 0..m - 1] /\ K \in [1..n -> Columns]
             /\ \A i, j \in 1..n : i < j => R[i] <= R[j]
             /\ {<<R[i], K[i]>> : i \in 1..n} = entries
<1> DEFINE n == Cardinality(entries)
           s == Matrix!Sorted(entries)
           R == RowNumbers(entries)
           K == ColumnNumbers(entries)
<1>1. entries \in SUBSET (Int \X Int)
  <2>1. 0..m - 1 \subseteq Int /\ Columns \subseteq Int
    BY MatrixAssumption
  <2> QED
    BY <2>1
<1>2. IsFiniteSet(entries)
  <2>1. 0 \in Int /\ m - 1 \in Int
    BY MatrixAssumption
  <2>2. IsFiniteSet((0..m - 1) \X Columns)
    BY <2>1, FS_Interval, FS_Product, MatrixAssumption
  <2> QED
    BY <2>2, FS_Subset
<1>3. n \in Nat /\ Matrix!Cardinality(entries) = n
  BY <1>1, <1>2, RanksCount, SameOperators
<1>4. /\ \A i \in 1..n : s[i] \in entries
      /\ \A p \in entries : \E i \in 1..n : s[i] = p
      /\ \A i, j \in 1..n : i < j => R[i] <= R[j]
  BY <1>1, <1>2, SortedIs
<1>5. R = [i \in 1..n |-> s[i][1]] /\ K = [i \in 1..n |-> s[i][2]]
  BY DEF RowNumbers, ColumnNumbers
<1> HIDE DEF n, s, R, K
<1>6. \A i \in 1..n : R[i] \in 0..m - 1 /\ K[i] \in Columns /\ s[i] = <<R[i], K[i]>>
  BY <1>4, <1>5
<1>7. R \in [1..n -> 0..m - 1] /\ K \in [1..n -> Columns]
  BY <1>5, <1>6
<1>8. {<<R[i], K[i]>> : i \in 1..n} = entries
  BY <1>4, <1>6
<1> QED
  BY <1>3, <1>4, <1>7, <1>8 DEF n, R, K

LEMMA ConvertedInit == Matrix!Init => Converted
<1> SUFFICES ASSUME Matrix!Init
             PROVE  Converted
  OBVIOUS
<1>1. /\ m \in 1..MaxRows /\ entries \in SUBSET ((0..m - 1) \X Columns)
      /\ isCSR = FALSE
      /\ row = [i \in 1..Matrix!Cardinality(entries) |-> Matrix!Sorted(entries)[i][1]]
      /\ col = [i \in 1..Matrix!Cardinality(entries) |-> Matrix!Sorted(entries)[i][2]]
  BY DEF Matrix!Init
<1>2. row = RowNumbers(entries) /\ col = ColumnNumbers(entries)
  BY <1>1, SameOperators DEF RowNumbers, ColumnNumbers
<1> QED
  BY <1>1, <1>2 DEF Converted

(* csr2coo finds the rows that coo2csr has counted.                        *)
LEMMA ConvertsBack ==
  ASSUME Converted, isCSR
  PROVE  Matrix!csr2coo(row, Matrix!nnz) = RowNumbers(entries)
<1> DEFINE n == Cardinality(entries)
           R == RowNumbers(entries)
<1>1. /\ n \in Nat /\ R \in [1..n -> 0..m - 1]
      /\ \A i, j \in 1..n : i < j => R[i] <= R[j]
      /\ ColumnNumbers(entries) \in [1..n -> Columns]
      /\ m \in Nat \ {0} /\ row = Matrix!coo2csr(R, m) /\ col = ColumnNumbers(entries)
  BY ArraysOf, MatrixAssumption DEF Converted
<1> HIDE DEF n, R
<1>2. \A i \in 1..n : Matrix!RowOfEntry(row, i) = R[i]
  <2>1. PointTo(Matrix!coo2csr(R, m), R, n, m)
    BY <1>1, PointersTellRows
  <2> QED
    BY <1>1, <2>1 DEF PointTo
<1>3. Matrix!nnz = n
  BY <1>1 DEF Matrix!nnz
<1>4. Matrix!csr2coo(row, n) = [i \in 1..n |-> Matrix!RowOfEntry(row, i)]
  BY DEF Matrix!csr2coo
<1> QED
  BY <1>1, <1>2, <1>3, <1>4 DEF R

LEMMA ConvertedNext == Converted /\ [Matrix!Next]_Matrix!matrixVars => Converted'
<1> SUFFICES ASSUME Converted, [Matrix!Next]_Matrix!matrixVars
             PROVE  Converted'
  OBVIOUS
<1>1. CASE Matrix!to_csr
  BY <1>1 DEF Matrix!to_csr, Converted
<1>2. CASE Matrix!to_coo
  BY <1>2, ConvertsBack DEF Matrix!to_coo, Converted
<1>3. CASE Matrix!to_coo_Rejects
  BY <1>3 DEF Matrix!to_coo_Rejects, Converted
<1>4. CASE Matrix!AlreadyThere
  BY <1>4 DEF Matrix!AlreadyThere, Converted
<1>5. CASE UNCHANGED Matrix!matrixVars
  BY <1>5 DEF Matrix!matrixVars, Converted
<1> QED
  BY <1>1, <1>2, <1>3, <1>4, <1>5 DEF Matrix!Next

LEMMA ConvertedMeans == Converted => SameEntries
<1> SUFFICES ASSUME Converted
             PROVE  SameEntries
  OBVIOUS
<1> DEFINE n == Cardinality(entries)
           R == RowNumbers(entries)
           K == ColumnNumbers(entries)
<1>1. /\ n \in Nat /\ Matrix!Cardinality(entries) = n
      /\ R \in [1..n -> 0..m - 1] /\ K \in [1..n -> Columns]
      /\ \A i, j \in 1..n : i < j => R[i] <= R[j]
      /\ {<<R[i], K[i]>> : i \in 1..n} = entries
      /\ m \in Nat \ {0} /\ col = K /\ isCSR \in BOOLEAN
      /\ row = IF isCSR THEN Matrix!coo2csr(R, m) ELSE R
  BY ArraysOf, MatrixAssumption DEF Converted
<1> HIDE DEF n, R, K
<1>2. Matrix!nnz = n
  BY <1>1 DEF Matrix!nnz
<1>3. Matrix!Valid /\ \A i \in 1..n : Matrix!RowOf(i) = R[i]
  <2>1. CASE isCSR
    <3>1. /\ row \in Seq(Nat) /\ Len(row) = m + 1 /\ row[1] = 0 /\ row[m + 1] = n
          /\ \A r \in 1..m : row[r] <= row[r + 1]
          /\ \A i \in 1..n : Matrix!RowOfEntry(row, i) = R[i]
      <4>1. PointTo(Matrix!coo2csr(R, m), R, n, m)
        BY <1>1, PointersTellRows
      <4> QED
        BY <1>1, <2>1, <4>1 DEF PointTo
    <3> QED
      BY <1>2, <2>1, <3>1 DEF Matrix!Valid, Matrix!RowOf
  <2>2. CASE ~isCSR
    <3>1. row = R /\ Len(R) = n /\ \A i \in 1..n : R[i] \in 0..m - 1
      BY <1>1, <2>2
    <3> QED
      BY <1>2, <2>2, <3>1 DEF Matrix!Valid, Matrix!RowOf
  <2> QED
    BY <2>1, <2>2
<1>4. {<<Matrix!RowOf(i), col[i]>> : i \in 1..n} = entries
  BY <1>1, <1>3
<1> QED
  BY <1>1, <1>2, <1>3, <1>4 DEF SameEntries, Matrix!SameEntries

(* However often and in whatever order a matrix of any size is converted   *)
(* between its two formats, refusals included, its arrays are valid and    *)
(* those of the entries that were given (MatrixBase).                      *)
THEOREM ConversionsKeepEntries == Matrix!Spec => []SameEntries
  BY ConvertedInit, ConvertedNext, ConvertedMeans, PTL DEF Matrix!Spec

=============================================================================
