------------------------------- MODULE Sparse -------------------------------
(***************************************************************************)
(* MatrixBase: a matrix on the host is kept as a list of entries (COO) or  *)
(* with the row numbers replaced by row pointers (CSR); both share the     *)
(* array of columns.  to_csr and to_coo replace the row array in place.    *)
(* coo2csr and csr2coo of FMRule.cpp compute the same two arrays.          *)
(* Row and column numbers count from 0 as in the code, the positions of    *)
(* the arrays from 1.  The matrix is on the host: nothing in the           *)
(* repository sets isOnDevice.                                             *)
(***************************************************************************)
EXTENDS Integers, Sequences, FiniteSets, FiniteSetsExt

CONSTANTS MaxRows,  \* a bound of m
          Columns   \* the column numbers

VARIABLES
  m,        \* the number of rows
  isCSR,
  row,      \* CSR: m + 1 pointers; COO: a row number per entry
  col,      \* the column of each entry
  result,   \* what the last conversion returned
  entries   \* the matrix that was given: no code has this

matrixVars == <<m, isCSR, row, col, result, entries>>

nnz == Len(col)

(* A slip: the count of a row is kept at the row and not behind it.        *)
coo2csr_InPlace(coo_row, row_size) ==
  [r \in 1..row_size + 1 |-> Cardinality({i \in DOMAIN coo_row : coo_row[i] < r})]

(* coo2csr: pointer r counts the entries of the rows before row r.         *)
coo2csr(coo_row, row_size) ==
  [r \in 1..row_size + 1 |-> Cardinality({i \in DOMAIN coo_row : coo_row[i] + 1 < r})]

(* csr2coo: entry i is in the first row whose end is behind it.  The loop  *)
(* stops at the row of the last entry.                                     *)
RowOfEntry(csr_row, i) == Min({r \in 0..Len(csr_row) - 2 : csr_row[r + 2] >= i})

csr2coo(csr_row, count) == [i \in 1..count |-> RowOfEntry(csr_row, i)]

LastRow(csr_row, count) == IF count = 0 THEN 0 ELSE RowOfEntry(csr_row, count)
-----------------------------------------------------------------------------
(* The arrays of a set of entries, sorted by row and then by column.       *)
Before(p, q) == p[1] < q[1] \/ (p[1] = q[1] /\ p[2] < q[2])

Sorted(S) ==
  [i \in 1..Cardinality(S) |->
     CHOOSE p \in S : Cardinality({q \in S : Before(q, p)}) = i - 1]

Init ==
  /\ m \in 1..MaxRows
  /\ entries \in SUBSET ((0..m - 1) \X Columns)
  /\ isCSR = FALSE
  /\ row = [i \in 1..Cardinality(entries) |-> Sorted(entries)[i][1]]
  /\ col = [i \in 1..Cardinality(entries) |-> Sorted(entries)[i][2]]
  /\ result = 0

to_csr ==
  /\ ~isCSR
  /\ row' = coo2csr(row, m)
  /\ isCSR' = TRUE /\ result' = 0
  /\ UNCHANGED <<m, col, entries>>

(* The loop did not end at the last row, or the rows do not hold all of    *)
(* the entries: the new array is dropped and the matrix stays as it is.    *)
Rejected == LastRow(row, nnz) + 1 # m \/ row[LastRow(row, nnz) + 2] # nnz

to_coo ==
  /\ isCSR /\ ~Rejected
  /\ row' = csr2coo(row, nnz)
  /\ isCSR' = FALSE /\ result' = 0
  /\ UNCHANGED <<m, col, entries>>

to_coo_Rejects ==
  /\ isCSR /\ Rejected
  /\ result' = -3
  /\ UNCHANGED <<m, isCSR, row, col, entries>>

(* The matrix is in the wanted format already.                             *)
AlreadyThere ==
  /\ result' = -2
  /\ UNCHANGED <<m, isCSR, row, col, entries>>

Next == to_csr \/ to_coo \/ to_coo_Rejects \/ AlreadyThere

Spec == Init /\ [][Next]_matrixVars
-----------------------------------------------------------------------------
(* Properties *)

RowOf(i) == IF isCSR THEN RowOfEntry(row, i) ELSE row[i]

(* The arrays have the lengths their format asks for, and what they hold   *)
(* is in the matrix: the rows of COO are rows of it, the pointers of CSR   *)
(* ascend from 0 to the number of entries.                                 *)
Valid ==
  IF isCSR
  THEN /\ Len(row) = m + 1 /\ row[1] = 0 /\ row[m + 1] = nnz
       /\ \A r \in 1..m : row[r] <= row[r + 1]
  ELSE Len(row) = nnz /\ \A i \in 1..nnz : row[i] \in 0..m - 1

(* SameEntries: the arrays are valid and those of the matrix that was      *)
(* given, however often and in whatever order it is converted, a refused   *)
(* conversion included (to_coo refuses a matrix whose last row is empty).  *)
SameEntries ==
  /\ Valid
  /\ nnz = Cardinality(entries)
  /\ {<<RowOf(i), col[i]>> : i \in 1..nnz} = entries
=============================================================================
