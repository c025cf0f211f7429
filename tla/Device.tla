------------------------------- MODULE Device -------------------------------
(***************************************************************************)
(* The device memory of one thread of FMQuery and the two CUDA streams of  *)
(* its CuSparseCore.  The host enqueues kernels and copies and goes on;    *)
(* each stream runs what it was given in order, and only sync() and a      *)
(* count returned to the host order the two.  The product of two matrices  *)
(* (AlignAndMultiply) extends its left operand on the main stream and its  *)
(* right one on the associate stream, and frees everything on the main     *)
(* stream; two scratch buffers of the core serve both.  DataFlow says what *)
(* is computed; here a matrix is the block of device memory that its       *)
(* arrays live in.                                                         *)
(***************************************************************************)
EXTENDS Integers, Sequences, FiniteSets, SequencesExt

CONSTANTS
  Block,      \* bound: device memory
  Products,   \* bound: products of one build or query
  BufferSize  \* TRANSACTION_BUFFER_SIZE

ASSUME DeviceAssumption ==
  /\ IsFiniteSet(Block) /\ Products \in Nat /\ BufferSize \in Nat \ {0}

Stream == {"main", "associate"}
Scratch == {"buffer1", "buffer2"}

(* Work that was enqueued: the blocks a kernel or copy reads and writes.   *)
Work == [reads : SUBSET Block, writes : SUBSET Block]

(* A matrix: no block or one, and whether nnz is positive.                 *)
Matrix == [block : SUBSET Block, entries : BOOLEAN]
None == [block |-> {}, entries |-> FALSE]

VARIABLES
  zeros,     \* do the rows of this trace and their products come without entries?
  core,      \* the CuSparseCore: none, that of BuildSubTree, that of an FMQuery
  pc,        \* where the host is in AlignAndMultiply
  queue,     \* queue[s]: the work of stream s that has not finished
  allocated, \* the blocks in use, as the host sees it
  buffer,    \* buffer1 and buffer2 of the core
  A, B,      \* MatrixA, MatrixB
  miss,      \* miss[s]: the operand on stream s lacks indices
  extend,    \* extend[s]: matA_extend, matB_extend, locals
  sum,       \* sum[s]: what add returned
  extended,  \* extended[s]: what extended_matA_ptr, extended_matB_ptr point at
  product,   \* the product
  buffered,  \* the matrices of DBCore's transaction_buffer
  buffer_idx, \* its rows
  result,    \* the root of the last query, which belongs to the command line
  round      \* products so far

deviceVars == <<zeros, core, pc, queue, allocated, buffer, A, B, miss, extend, sum, extended,
                product, buffered, buffer_idx, result, round>>

(* Whether a matrix that is loaded or computed has entries.                *)
HasEntries == IF zeros THEN BOOLEAN ELSE {TRUE}

TypeOK ==
  /\ zeros \in BOOLEAN /\ core \in {"none", "build", "query"}
  /\ pc \in {"idle", "load", "align", "addA", "diagB", "addB", "multiply", "release",
             "firstChild", "firstCommit", "secondChild", "secondCommit"}
  /\ \A s \in Stream : /\ queue[s] \in Seq(Work) /\ miss[s] \in BOOLEAN
                       /\ extend[s] \subseteq Block /\ sum[s] \subseteq Block
                       /\ extended[s] \in {"operand", "extend", "sum"}
  /\ allocated \subseteq Block /\ result \subseteq Block
  /\ \A t \in Scratch : buffer[t] \subseteq Block
  /\ {A, B, product} \subseteq Matrix
  /\ buffered \subseteq Block /\ buffer_idx \in 0..BufferSize
  /\ round \in 0..Products

Nothing == [s \in Stream |-> {}]

Init ==
  /\ zeros \in BOOLEAN /\ core = "none"
  /\ pc = "idle" /\ queue = [s \in Stream |-> <<>>]
  /\ allocated = {} /\ buffer = [t \in Scratch |-> {}]
  /\ A = None /\ B = None /\ miss = [s \in Stream |-> FALSE]
  /\ extend = Nothing /\ sum = Nothing /\ extended = [s \in Stream |-> "operand"]
  /\ product = None
  /\ buffered = {} /\ buffer_idx = 0 /\ result = {} /\ round = 0

-----------------------------------------------------------------------------
(* CUDA (external) *)

Idle(s) == queue[s] = <<>>

(* The allocator may give out any block that is not in use, also one that  *)
(* was freed on the other stream and is still to be read or written there: *)
(* more than CUDA does.                                                    *)
Free == Block \ allocated

Enqueue(s, reads, writes) ==
  queue' = [queue EXCEPT ![s] = Append(@, [reads |-> reads, writes |-> writes])]

(* A stream finishes the work it was given first.                          *)
Finish(s) ==
  /\ queue[s] # <<>>
  /\ queue' = [queue EXCEPT ![s] = Tail(@)]
  /\ UNCHANGED <<zeros, core, pc, allocated, buffer, A, B, miss, extend, sum, extended,
                 product, buffered, buffer_idx, result, round>>

-----------------------------------------------------------------------------
(* CuSparseCore *)

(* The constructor allocates both buffers.  Its streams are new: those of  *)
(* the core before have ended.                                             *)
Construct ==
  /\ core = "none" /\ \A s \in Stream : Idle(s)
  /\ core' \in {"build", "query"}
  /\ \E b1, b2 \in Free :
       /\ b1 # b2
       /\ buffer' = [t \in Scratch |-> IF t = "buffer1" THEN {b1} ELSE {b2}]
       /\ allocated' = allocated \cup {b1, b2}
  /\ UNCHANGED <<zeros, pc, queue, A, B, miss, extend, sum, extended, product,
                 buffered, buffer_idx, result, round>>

(* Those of the buffers in grown are too small: each is freed and then     *)
(* allocated anew, and after it a block for the matrix that is computed.   *)
Renewed(grown, new, b) ==
  LET kept == allocated \ UNION {buffer[t] : t \in grown}
  IN  /\ \A t \in grown : new[t] # b /\ \A u \in grown \ {t} : new[t] # new[u]
      /\ buffer' = [t \in Scratch |-> IF t \in grown THEN {new[t]} ELSE buffer[t]]
      /\ (Range(new) \cup {b}) \cap kept = {}
      /\ allocated' = kept \cup Range(new) \cup {b}

(* Work on stream s that computes the block b from reads, with the buffers *)
(* used.                                                                   *)
Compute(s, used, reads, b) ==
  \E grown \in SUBSET used : \E new \in [grown -> Block] :
    /\ Renewed(grown, new, b)
    /\ Enqueue(s, reads, {b} \cup UNION {buffer'[t] : t \in used})

(* A slip: both streams use one buffer.                                    *)
ScratchOf_One(s) == "buffer1"

ScratchOf(s) == IF s = "associate" THEN "buffer2" ELSE "buffer1"

-----------------------------------------------------------------------------
(* Loading *)

(* LoadToDevice and fromDB: a matrix with entries is copied on the main    *)
(* stream.                                                                 *)
Loaded(matrix) ==
  \E entries \in HasEntries :
    IF entries
    THEN \E b \in Free :
           /\ matrix = [block |-> {b}, entries |-> TRUE]
           /\ allocated' = allocated \cup {b}
           /\ Enqueue("main", {}, {b})
    ELSE matrix = None /\ UNCHANGED <<allocated, queue>>

(* QueryInRange has deleted the last result.                               *)
LoadFirst ==
  /\ pc = "idle" /\ core # "none" /\ pc' = "load" /\ round' = 0
  /\ core = "query" => result = {}
  /\ Loaded(A')
  /\ UNCHANGED <<zeros, core, buffer, B, miss, extend, sum, extended, product,
                 buffered, buffer_idx, result>>

LoadSecond ==
  /\ pc = "load" /\ round < Products /\ pc' = "align" /\ round' = round + 1
  /\ Loaded(B')
  /\ UNCHANGED <<zeros, core, buffer, A, miss, extend, sum, extended, product,
                 buffered, buffer_idx, result>>

-----------------------------------------------------------------------------
(* AlignAndMultiply *)

Operand(s) == IF s = "main" THEN A ELSE B

(* sync(), before an operand is looked at and before the product.          *)
Synced == \A s \in Stream : Idle(s)

(* setMainDiagonal on the stream of the operand, if indices are missing;   *)
(* an operand without entries needs no more.                               *)
Diagonal(s, add, next) ==
  \/ /\ miss' = [miss EXCEPT ![s] = FALSE]
     /\ extended' = [extended EXCEPT ![s] = "operand"]
     /\ pc' = next
     /\ UNCHANGED <<allocated, queue, extend>>
  \/ \E b \in Free :
       /\ miss' = [miss EXCEPT ![s] = TRUE]
       /\ extend' = [extend EXCEPT ![s] = {b}]
       /\ allocated' = allocated \cup {b}
       /\ Enqueue(s, {}, {b})
       /\ IF Operand(s).entries
          THEN pc' = add /\ UNCHANGED extended
          ELSE pc' = next /\ extended' = [extended EXCEPT ![s] = "extend"]

DiagonalA ==
  /\ pc = "align" /\ Synced /\ Diagonal("main", "addA", "diagB")
  /\ UNCHANGED <<zeros, core, buffer, A, B, sum, product, buffered, buffer_idx, result, round>>

DiagonalB ==
  /\ pc = "diagB" /\ Diagonal("associate", "addB", "multiply")
  /\ UNCHANGED <<zeros, core, buffer, A, B, sum, product, buffered, buffer_idx, result, round>>

(* add: the number of entries is returned to the host, so that what the    *)
(* stream was given before has finished; the sum itself is enqueued.       *)
Add(s) ==
  /\ Idle(s)
  /\ \E b \in Block :
       /\ Compute(s, {ScratchOf(s)}, Operand(s).block \cup extend[s], b)
       /\ sum' = [sum EXCEPT ![s] = {b}]
  /\ extended' = [extended EXCEPT ![s] = "sum"]
  /\ UNCHANGED <<zeros, core, A, B, miss, extend, product, buffered, buffer_idx, result, round>>

AddA == pc = "addA" /\ pc' = "diagB" /\ Add("main")

AddB == pc = "addB" /\ pc' = "multiply" /\ Add("associate")

(* The memory of *extended_matA_ptr, of *extended_matB_ptr.                *)
Extended(s) ==
  CASE extended[s] = "operand" -> Operand(s).block
    [] extended[s] = "extend"  -> extend[s]
    [] extended[s] = "sum"     -> sum[s]

(* An operand that is all zero makes the product empty, and nothing is     *)
(* computed; otherwise spgemm, on the main stream: _spgemm_safe with       *)
(* buffer1, _spgemm with both, also when it falls back to the other.       *)
Multiply ==
  /\ pc = "multiply" /\ pc' = "release"
  /\ IF \E s \in Stream : ~miss[s] /\ ~Operand(s).entries
     THEN product' = None /\ UNCHANGED <<allocated, queue, buffer>>
     ELSE /\ Synced
          /\ \E b \in Block, nonzero \in HasEntries, used \in {{"buffer1"}, Scratch} :
               /\ Compute("main", used, Extended("main") \cup Extended("associate"), b)
               /\ product' = [block |-> {b}, entries |-> nonzero]
  /\ UNCHANGED <<zeros, core, A, B, miss, extend, sum, extended, buffered, buffer_idx,
                 result, round>>

(* A slip: the entries of the other operand are looked at.                 *)
Deleted_Swapped(s) == miss[s] /\ \E t \in Stream \ {s} : Operand(t).entries

(* The test under which *extended_matA_ptr or *extended_matB_ptr is freed  *)
(* and deleted; matA_extend and matB_extend have another one.              *)
Deleted(s) == Operand(s).entries /\ miss[s]

(* freeDeviceMem, under its four tests, and then the destructors of        *)
(* matA_extend and matB_extend, which free what they still have.           *)
Release ==
  /\ pc = "release" /\ pc' = "firstChild"
  /\ LET freed == (UNION {extend[s] : s \in {t \in Stream : miss[t]}})
                    \cup (UNION {Extended(s) : s \in {t \in Stream : Deleted(t)}})
         destroyed == (UNION {extend[s] : s \in Stream}) \ freed
     IN  allocated' = allocated \ (freed \cup destroyed)
  /\ extend' = Nothing /\ sum' = Nothing
  /\ UNCHANGED <<zeros, core, queue, buffer, A, B, miss, extended, product, buffered,
                 buffer_idx, result, round>>

-----------------------------------------------------------------------------
(* The callers *)

(* A slip: one row more than the buffer has room for.                      *)
Full_Late(rows) == rows > BufferSize

Full(rows) == rows >= BufferSize

(* A child is deleted, which frees with cudaFree and waits for nothing, or *)
(* it is given to StoreFromDevice, which converts it (toCoo) if it has     *)
(* entries, and a full buffer is committed.  B stands for a product of its *)
(* own subtree, too.                                                       *)
Child(child, commit, next) ==
  \/ /\ allocated' = allocated \ child.block /\ pc' = next
     /\ UNCHANGED <<queue, buffered, buffer_idx>>
  \/ /\ core = "build"
     /\ buffered' = buffered \cup child.block /\ buffer_idx' = buffer_idx + 1
     /\ pc' = IF Full(buffer_idx') THEN commit ELSE next
     /\ IF child.entries THEN Enqueue("main", child.block, child.block) ELSE UNCHANGED queue
     /\ UNCHANGED allocated

FirstChild ==
  /\ pc = "firstChild" /\ Child(A, "firstCommit", "secondChild")
  /\ A' = None
  /\ UNCHANGED <<zeros, core, buffer, B, miss, extend, sum, extended, product, result, round>>

SecondChild ==
  /\ pc = "secondChild" /\ Child(B, "secondCommit", "load")
  /\ A' = product /\ B' = None /\ product' = None
  /\ UNCHANGED <<zeros, core, buffer, miss, extend, sum, extended, result, round>>

(* Commit: toHost copies to the host, which waits for it, and frees.       *)
Commit ==
  /\ pc \in {"firstCommit", "secondCommit"} /\ (buffered = {} \/ Idle("main"))
  /\ pc' = IF pc = "firstCommit" THEN "secondChild" ELSE "load"
  /\ allocated' = allocated \ buffered
  /\ buffered' = {} /\ buffer_idx' = 0
  /\ UNCHANGED <<zeros, core, queue, buffer, A, B, miss, extend, sum, extended, product,
                 result, round>>

(* The end of BuildSubTree: its root is stored or freed; the destructor of *)
(* DBCore commits; that of CuSparseCore frees the scratch buffers.         *)
EndBuild ==
  /\ pc = "load" /\ core = "build" /\ pc' = "idle" /\ core' = "none"
  /\ buffered = {} \/ Idle("main")
  /\ allocated' = allocated \ (A.block \cup buffered \cup UNION {buffer[t] : t \in Scratch})
  /\ A' = None /\ buffered' = {} /\ buffer_idx' = 0
  /\ buffer' = [t \in Scratch |-> {}]
  /\ UNCHANGED <<zeros, queue, B, miss, extend, sum, extended, product, result, round>>

(* The end of Query: toCoo asserts the arrays of the root; a copy goes to  *)
(* the host and sync() waits; the root stays on the device and belongs to  *)
(* the caller.                                                             *)
EndQuery ==
  /\ pc = "load" /\ core = "query" /\ pc' = "idle"
  /\ A.block # {} /\ Synced
  /\ result' = A.block /\ A' = None
  /\ UNCHANGED <<zeros, core, queue, allocated, buffer, B, miss, extend, sum, extended,
                 product, buffered, buffer_idx, round>>

(* The assertion fails: the process and its core are gone.                 *)
QueryDies ==
  /\ pc = "load" /\ core = "query" /\ A.block = {} /\ pc' = "idle" /\ core' = "none"
  /\ queue' = [s \in Stream |-> <<>>] /\ allocated' = {}
  /\ buffer' = [t \in Scratch |-> {}]
  /\ A' = None /\ result' = {}
  /\ UNCHANGED <<zeros, B, miss, extend, sum, extended, product, buffered, buffer_idx, round>>

(* QueryInRange deletes the result of a query.                             *)
DeleteResult ==
  /\ pc = "idle" /\ result # {}
  /\ allocated' = allocated \ result /\ result' = {}
  /\ UNCHANGED <<zeros, core, pc, queue, buffer, A, B, miss, extend, sum, extended, product,
                 buffered, buffer_idx, round>>

(* An FMQuery is deleted, and its core; the last result is not.            *)
Destruct ==
  /\ pc = "idle" /\ core = "query" /\ core' = "none"
  /\ allocated' = allocated \ UNION {buffer[t] : t \in Scratch}
  /\ buffer' = [t \in Scratch |-> {}]
  /\ UNCHANGED <<zeros, pc, queue, A, B, miss, extend, sum, extended, product,
                 buffered, buffer_idx, result, round>>

Next == \/ Construct \/ LoadFirst \/ LoadSecond \/ DiagonalA \/ AddA \/ DiagonalB \/ AddB
        \/ Multiply \/ Release \/ FirstChild \/ SecondChild \/ Commit
        \/ EndBuild \/ EndQuery \/ QueryDies \/ DeleteResult \/ Destruct
        \/ \E s \in Stream : Finish(s)

Spec == Init /\ [][Next]_deviceVars
-----------------------------------------------------------------------------
(* Properties *)

Conflict(v, w) == (v.writes \cap (w.reads \cup w.writes)) \cup (w.writes \cap v.reads)

(* NoRace: where every matrix has entries, work of the two streams that    *)
(* may run at the same time never touches the same memory, unless both     *)
(* only read it: what is enqueued on one waits for what it needs from the  *)
(* other (the two sync() calls), memory is not given away while the other  *)
(* stream uses it, and the scratch buffers, which spgemm uses on the main  *)
(* stream and add on either, and which both may free, are never shared at  *)
(* the same time.                                                          *)
NoRace ==
  ~zeros => \A v \in Range(queue["main"]), w \in Range(queue["associate"]) :
              Conflict(v, w) = {}

(* The memory of what the program still has a pointer to.                  *)
InUse ==
  A.block \cup B.block \cup product.block \cup buffered \cup result
    \cup (UNION {buffer[t] : t \in Scratch}) \cup (UNION {extend[s] \cup sum[s] : s \in Stream})

(* NoLeak: what is allocated is at any time what the program still uses:   *)
(* the tests of AlignAndMultiply free no matrix of its caller and forget   *)
(* no sum, and the objects that are deleted are those that add created,    *)
(* never a local or an operand.                                            *)
NoLeak ==
  /\ allocated = InUse
  /\ pc = "release" => \A s \in Stream : Deleted(s) <=> extended[s] = "sum"
=============================================================================
