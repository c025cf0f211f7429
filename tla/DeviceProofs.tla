---------------------------- MODULE DeviceProofs ----------------------------
(***************************************************************************)
(* Whatever memory there is and however many products a build makes: every *)
(* block in use belongs to one matrix or buffer of the model and to one    *)
(* only, and the pointers of AlignAndMultiply say which of its matrices    *)
(* are to be deleted, which is why nothing leaks; and work on the          *)
(* associate stream exists only between the two waits, over the right      *)
(* operand, its temporaries and buffer2, which is why the two streams      *)
(* never race.                                                             *)
(***************************************************************************)
EXTENDS Device, FiniteSetTheorems, TLAPS

Steps == {"idle", "load", "align", "addA", "diagB", "addB", "multiply", "release",
          "firstChild", "firstCommit", "secondChild", "secondCommit"}

Types ==
  /\ zeros \in BOOLEAN /\ core \in {"none", "build", "query"} /\ pc \in Steps
  /\ queue \in [Stream -> Seq(Work)] /\ miss \in [Stream -> BOOLEAN]
  /\ extend \in [Stream -> SUBSET Block] /\ sum \in [Stream -> SUBSET Block]
  /\ extended \in [Stream -> {"operand", "extend", "sum"}]
  /\ buffer \in [Scratch -> SUBSET Block]
  /\ allocated \subseteq Block /\ result \subseteq Block
  /\ A \in Matrix /\ B \in Matrix /\ product \in Matrix
  /\ buffered \subseteq Block
  /\ round \in 0..Products

OnStream(s) == extend[s] \cup sum[s]

(* Every block in use belongs to one matrix or buffer, ...                 *)
Owned ==
  allocated = A.block \cup B.block \cup product.block \cup buffered \cup result
                \cup OnStream("main") \cup OnStream("associate")
                \cup buffer["buffer1"] \cup buffer["buffer2"]

(* ... and to one only.                                                    *)
Apart ==
  /\ buffer["buffer1"] \cap buffer["buffer2"] = {}
  /\ result \cap (buffer["buffer1"] \cup buffer["buffer2"]) = {}
  /\ buffered \cap (result \cup buffer["buffer1"] \cup buffer["buffer2"]) = {}
  /\ OnStream("associate") \cap (buffered \cup result \cup buffer["buffer1"]
                                  \cup buffer["buffer2"]) = {}
  /\ OnStream("main") \cap (OnStream("associate") \cup buffered \cup result
                             \cup buffer["buffer1"] \cup buffer["buffer2"]) = {}
  /\ product.block \cap (OnStream("main") \cup OnStream("associate") \cup buffered
                          \cup result \cup buffer["buffer1"] \cup buffer["buffer2"]) = {}
  /\ B.block \cap (product.block \cup OnStream("main") \cup OnStream("associate")
                    \cup buffered \cup result \cup buffer["buffer1"]
                    \cup buffer["buffer2"]) = {}
  /\ A.block \cap (B.block \cup product.block \cup OnStream("main")
                    \cup OnStream("associate") \cup buffered \cup result
                    \cup buffer["buffer1"] \cup buffer["buffer2"]) = {}

(* Which matrices and buffers exist at which step.                         *)
Exists ==
  /\ pc \in {"idle", "firstCommit", "secondChild"} => A = None
  /\ pc \in {"idle", "load", "secondCommit"} => B = None
  /\ pc \notin {"release", "firstChild", "firstCommit", "secondChild"} => product = None
  /\ pc \notin {"addA", "diagB", "addB", "multiply", "release"} => extend["main"] = {}
  /\ pc \notin {"diagB", "addB", "multiply", "release"} => sum["main"] = {}
  /\ pc \notin {"addB", "multiply", "release"} => extend["associate"] = {}
  /\ pc \notin {"multiply", "release"} => sum["associate"] = {}
  /\ core # "build" => buffered = {}
  /\ core = "query" /\ pc # "idle" => result = {}
  /\ core = "none" => pc = "idle" /\ buffer["buffer1"] = {} /\ buffer["buffer2"] = {}

(* The pointer to an extended operand is one to a sum exactly when the     *)
(* test under which it is freed and deleted holds.                         *)
Points(s) ==
  /\ sum[s] # {} => extended[s] = "sum"
  /\ extended[s] = "sum" <=> miss[s] /\ Operand(s).entries

Pointers ==
  /\ pc = "addA" => miss["main"] /\ A.entries
  /\ pc = "addB" => miss["associate"] /\ B.entries
  /\ pc \in {"diagB", "addB", "multiply", "release"} => Points("main")
  /\ pc \in {"multiply", "release"} => Points("associate")

(* The buffer has room for one more row unless it is about to be emptied.  *)
Room ==
  /\ buffer_idx \in 0..BufferSize
  /\ pc \notin {"firstCommit", "secondCommit"} => buffer_idx < BufferSize

(* Work that touches nothing but the blocks given.                         *)
Touches(work, blocks) ==
  \A i \in 1..Len(work) : work[i].reads \subseteq blocks /\ work[i].writes \subseteq blocks

(* Where every matrix has entries, every product waits for both streams.   *)
Entries ==
  /\ pc \in {"load", "align", "addA", "diagB", "addB", "multiply", "release", "firstChild",
            "secondCommit"} => A.entries
  /\ pc \in {"align", "addA", "diagB", "addB", "multiply"} => B.entries
  /\ pc \in {"release", "firstChild", "firstCommit", "secondChild"} => product.entries

OfMain == A.block \cup OnStream("main") \cup buffer["buffer1"]
OfAssociate == B.block \cup OnStream("associate") \cup buffer["buffer2"]

Ordered ==
  /\ pc \notin {"addB", "multiply"} => queue["associate"] = <<>>
  /\ pc \in {"addA", "diagB", "addB", "multiply"} => Touches(queue["main"], OfMain)
  /\ Touches(queue["associate"], OfAssociate)

IInv ==
  /\ Types /\ Owned /\ Apart /\ Exists /\ Pointers /\ Room
  /\ zeros = FALSE => Entries /\ Ordered
-----------------------------------------------------------------------------
(* Queues and sets of blocks *)

LEMMA AppendTouches ==
  ASSUME NEW q \in Seq(Work), NEW reads \in SUBSET Block, NEW writes \in SUBSET Block
  PROVE  LET r == Append(q, [reads |-> reads, writes |-> writes])
         IN  /\ r \in Seq(Work)
             /\ \A blocks : /\ Touches(q, blocks)
                            /\ reads \subseteq blocks /\ writes \subseteq blocks
                            => Touches(r, blocks)
<1> DEFINE w == [reads |-> reads, writes |-> writes]
           r == Append(q, w)
<1>1. w \in Work /\ w.reads = reads /\ w.writes = writes
  BY DEF Work
<1> HIDE DEF w
<1>2. /\ r \in Seq(Work) /\ Len(r) = Len(q) + 1 /\ Len(q) \in Nat
      /\ \A i \in 1..Len(q) : r[i] = q[i]
      /\ r[Len(q) + 1] = w
  BY <1>1
<1>3. ASSUME NEW blocks, Touches(q, blocks), reads \subseteq blocks, writes \subseteq blocks
      PROVE  Touches(r, blocks)
  <2> SUFFICES ASSUME NEW i \in 1..Len(r)
               PROVE  r[i].reads \subseteq blocks /\ r[i].writes \subseteq blocks
    BY DEF Touches
  <2>1. CASE i = Len(q) + 1
    BY <1>1, <1>2, <1>3, <2>1
  <2>2. CASE i # Len(q) + 1
    <3>1. i \in 1..Len(q)
      BY <1>2, <2>2
    <3> QED
      BY <1>2, <1>3, <3>1 DEF Touches
  <2> QED
    BY <2>1, <2>2
<1> QED
  BY <1>2, <1>3 DEF w

LEMMA TailTouches ==
  ASSUME NEW q \in Seq(Work), q # <<>>
  PROVE  Tail(q) \in Seq(Work) /\ \A blocks : Touches(q, blocks) => Touches(Tail(q), blocks)
<1>1. /\ Tail(q) \in Seq(Work) /\ Len(Tail(q)) = Len(q) - 1 /\ Len(q) \in Nat
      /\ \A i \in 1..Len(q) - 1 : Tail(q)[i] = q[i + 1]
  OBVIOUS
<1>2. \A i \in 1..Len(q) - 1 : i + 1 \in 1..Len(q)
  BY <1>1
<1> QED
  BY <1>1, <1>2 DEF Touches

LEMMA EmptyTouches == \A blocks : Touches(<<>>, blocks)
  BY DEF Touches

LEMMA TouchesMore ==
  ASSUME NEW q, NEW S, NEW T, Touches(q, S), S \subseteq T
  PROVE  Touches(q, T)
  BY DEF Touches

LEMMA StreamsAre ==
  /\ Stream = {"main", "associate"} /\ "main" # "associate"
  /\ "main" \in Stream /\ "associate" \in Stream
  /\ Scratch = {"buffer1", "buffer2"} /\ "buffer1" # "buffer2"
  /\ "buffer1" \in Scratch /\ "buffer2" \in Scratch
  BY DEF Stream, Scratch

LEMMA BuffersAre ==
  /\ UNION {buffer[t] : t \in Scratch} = buffer["buffer1"] \cup buffer["buffer2"]
  /\ UNION {extend[s] \cup sum[s] : s \in Stream} = OnStream("main") \cup OnStream("associate")
  /\ UNION {extend[s] : s \in Stream} = extend["main"] \cup extend["associate"]
  BY DEF Stream, Scratch, OnStream

-----------------------------------------------------------------------------
(* CUDA *)

LEMMA EnqueueKeeps ==
  ASSUME Types, NEW s \in Stream, NEW reads \in SUBSET Block, NEW writes \in SUBSET Block,
         Enqueue(s, reads, writes)
  PROVE  /\ queue' \in [Stream -> Seq(Work)]
         /\ \A t \in Stream : t # s => queue'[t] = queue[t]
<1> DEFINE r == Append(queue[s], [reads |-> reads, writes |-> writes])
<1>1. queue[s] \in Seq(Work)
  BY DEF Types
<1>2. r \in Seq(Work)
  BY <1>1, AppendTouches
<1>3. queue' = [queue EXCEPT ![s] = r]
  BY DEF Enqueue
<1> HIDE DEF r
<1>4. queue'[s] = r /\ \A t \in Stream : t # s => queue'[t] = queue[t]
  BY <1>3 DEF Types
<1>5. queue' \in [Stream -> Seq(Work)]
  BY <1>2, <1>3 DEF Types
<1> QED
  BY <1>4, <1>5

LEMMA EnqueueTouches ==
  ASSUME Types, NEW s \in Stream, NEW reads \in SUBSET Block, NEW writes \in SUBSET Block,
         Enqueue(s, reads, writes),
         NEW blocks, Touches(queue[s], blocks), reads \subseteq blocks, writes \subseteq blocks
  PROVE  Touches(queue'[s], blocks)
<1> DEFINE r == Append(queue[s], [reads |-> reads, writes |-> writes])
<1>1. queue[s] \in Seq(Work)
  BY DEF Types
<1>2. Touches(r, blocks)
  BY <1>1, AppendTouches
<1>3. queue' = [queue EXCEPT ![s] = r]
  BY DEF Enqueue
<1> HIDE DEF r
<1>4. queue'[s] = r
  BY <1>3 DEF Types
<1> QED
  BY <1>2, <1>4

(* What is kept when scratch buffers are allocated anew.                   *)
Kept ==
  A.block \cup B.block \cup product.block \cup buffered \cup result
    \cup OnStream("main") \cup OnStream("associate")

LEMMA KeptApart ==
  ASSUME IInv
  PROVE  /\ allocated = Kept \cup buffer["buffer1"] \cup buffer["buffer2"]
         /\ Kept \cap (buffer["buffer1"] \cup buffer["buffer2"]) = {}
         /\ buffer["buffer1"] \cap buffer["buffer2"] = {}
  BY DEF IInv, Owned, Apart, Kept

(* The scratch buffers after a computation, and the block of its result,   *)
(* are apart from each other and from what is kept.                        *)
LEMMA RenewedApart ==
  ASSUME IInv, NEW grown \in SUBSET Scratch, NEW new \in [grown -> Block], NEW b \in Block,
         Renewed(grown, new, b)
  PROVE  /\ buffer' \in [Scratch -> SUBSET Block]
         /\ allocated' = Kept \cup buffer'["buffer1"] \cup buffer'["buffer2"] \cup {b}
         /\ Kept \cap (buffer'["buffer1"] \cup buffer'["buffer2"] \cup {b}) = {}
         /\ buffer'["buffer1"] \cap buffer'["buffer2"] = {}
         /\ b \notin buffer'["buffer1"] /\ b \notin buffer'["buffer2"]
         /\ \A t \in Scratch \ grown : buffer'[t] = buffer[t]
<1> DEFINE gone == UNION {buffer[t] : t \in grown}
           left == allocated \ gone
<1>1. /\ \A t \in grown : new[t] # b /\ \A u \in grown \ {t} : new[t] # new[u]
      /\ buffer' = [t \in Scratch |-> IF t \in grown THEN {new[t]} ELSE buffer[t]]
      /\ (Range(new) \cup {b}) \cap left = {}
      /\ allocated' = left \cup Range(new) \cup {b}
  BY DEF Renewed
<1>2. Range(new) = {new[t] : t \in grown} /\ \A t \in grown : new[t] \in Block
  BY DEF Range
<1>3. \A t \in Scratch : buffer[t] \in SUBSET Block
  BY DEF IInv, Types
<1>4. /\ \A t \in Scratch : buffer'[t] = IF t \in grown THEN {new[t]} ELSE buffer[t]
      /\ buffer' \in [Scratch -> SUBSET Block]
  BY <1>1, <1>2, <1>3
<1>5. \A c : c \in gone <=> ("buffer1" \in grown /\ c \in buffer["buffer1"])
                            \/ ("buffer2" \in grown /\ c \in buffer["buffer2"])
  BY StreamsAre
<1>6. \A c : c \in Range(new) <=> ("buffer1" \in grown /\ c = new["buffer1"])
                                  \/ ("buffer2" \in grown /\ c = new["buffer2"])
  BY <1>2, StreamsAre
<1>7. /\ "buffer1" \in grown => new["buffer1"] # b /\ new["buffer1"] \in Range(new)
      /\ "buffer2" \in grown => new["buffer2"] # b /\ new["buffer2"] \in Range(new)
      /\ "buffer1" \in grown /\ "buffer2" \in grown => new["buffer1"] # new["buffer2"]
  BY <1>1, <1>2, StreamsAre
<1> DEFINE x == buffer["buffer1"]  y == buffer["buffer2"]
           nx == buffer'["buffer1"]  ny == buffer'["buffer2"]
<1>8. /\ nx = IF "buffer1" \in grown THEN {new["buffer1"]} ELSE x
      /\ ny = IF "buffer2" \in grown THEN {new["buffer2"]} ELSE y
  BY <1>4, StreamsAre
<1>9. /\ (Range(new) \cup {b}) \cap (allocated \ gone) = {}
      /\ allocated' = (allocated \ gone) \cup Range(new) \cup {b}
  BY <1>1
<1>10. /\ allocated = Kept \cup x \cup y /\ Kept \cap (x \cup y) = {} /\ x \cap y = {}
  BY KeptApart
<1> HIDE DEF gone, left, x, y, nx, ny
<1>11. \A c : c \in allocated \ gone <=>
           c \in Kept \/ ("buffer1" \notin grown /\ c \in x)
                      \/ ("buffer2" \notin grown /\ c \in y)
  BY <1>5, <1>10 DEF x, y
<1>12. allocated' = Kept \cup nx \cup ny \cup {b}
  BY <1>6, <1>8, <1>9, <1>11
<1>13. Kept \cap (nx \cup ny \cup {b}) = {}
  BY <1>7, <1>8, <1>9, <1>10, <1>11
<1>14. nx \cap ny = {}
  BY <1>7, <1>8, <1>9, <1>10, <1>11
<1>15. b \notin nx /\ b \notin ny
  BY <1>7, <1>8, <1>9, <1>11
<1> QED
  BY <1>4, <1>12, <1>13, <1>14, <1>15 DEF nx, ny

(* What a computation on stream s leaves: the memory, ...                  *)
LEMMA Computed ==
  ASSUME IInv, NEW s \in Stream, NEW used \in SUBSET Scratch, NEW reads \in SUBSET Block,
         NEW b \in Block, Compute(s, used, reads, b)
  PROVE  /\ buffer' \in [Scratch -> SUBSET Block]
         /\ allocated' = Kept \cup buffer'["buffer1"] \cup buffer'["buffer2"] \cup {b}
         /\ Kept \cap (buffer'["buffer1"] \cup buffer'["buffer2"] \cup {b}) = {}
         /\ buffer'["buffer1"] \cap buffer'["buffer2"] = {}
         /\ b \notin buffer'["buffer1"] /\ b \notin buffer'["buffer2"]
         /\ \A t \in Scratch \ used : buffer'[t] = buffer[t]
<1>1. PICK grown \in SUBSET used :
        \E new \in [grown -> Block] : Renewed(grown, new, b)
  BY DEF Compute
<1>2. PICK new \in [grown -> Block] : Renewed(grown, new, b)
  BY <1>1
<1>3. grown \in SUBSET Scratch
  OBVIOUS
<1>4. /\ buffer' \in [Scratch -> SUBSET Block]
      /\ allocated' = Kept \cup buffer'["buffer1"] \cup buffer'["buffer2"] \cup {b}
      /\ Kept \cap (buffer'["buffer1"] \cup buffer'["buffer2"] \cup {b}) = {}
      /\ buffer'["buffer1"] \cap buffer'["buffer2"] = {}
      /\ b \notin buffer'["buffer1"] /\ b \notin buffer'["buffer2"]
      /\ \A t \in Scratch \ grown : buffer'[t] = buffer[t]
  BY <1>2, <1>3, RenewedApart
<1> QED
  BY <1>4

(* ... and the queues.                                                     *)
LEMMA ComputedQueue ==
  ASSUME IInv, NEW s \in Stream, NEW used \in SUBSET Scratch, NEW reads \in SUBSET Block,
         NEW b \in Block, Compute(s, used, reads, b)
  PROVE  /\ queue' \in [Stream -> Seq(Work)]
         /\ \A t \in Stream : t # s => queue'[t] = queue[t]
<1> DEFINE writes == {b} \cup UNION {buffer'[t] : t \in used}
<1>1. Enqueue(s, reads, writes)
  BY DEF Compute
<1>2. buffer' \in [Scratch -> SUBSET Block]
  BY Computed
<1>3. writes \in SUBSET Block
  BY <1>2
<1>4. Types
  BY DEF IInv
<1> HIDE DEF writes
<1> QED
  BY <1>1, <1>3, <1>4, EnqueueKeeps

LEMMA ComputedTouches ==
  ASSUME IInv, NEW s \in Stream, NEW t \in Scratch, NEW reads \in SUBSET Block,
         NEW b \in Block, Compute(s, {t}, reads, b),
         NEW blocks, Touches(queue[s], blocks), reads \subseteq blocks,
         {b} \cup buffer'[t] \subseteq blocks
  PROVE  Touches(queue'[s], blocks)
<1> DEFINE writes == {b} \cup UNION {buffer'[u] : u \in {t}}
<1>1. Enqueue(s, reads, writes)
  BY DEF Compute
<1>2. {t} \in SUBSET Scratch /\ buffer' \in [Scratch -> SUBSET Block]
  <2>1. {t} \in SUBSET Scratch
    OBVIOUS
  <2> QED
    BY <2>1, Computed
<1>3. writes = {b} \cup buffer'[t] /\ writes \in SUBSET Block
  BY <1>2
<1>4. Types
  BY DEF IInv
<1> HIDE DEF writes
<1> QED
  BY <1>1, <1>3, <1>4, EnqueueTouches

LEMMA FinishKeeps ==
  ASSUME IInv, NEW s \in Stream, Finish(s)
  PROVE  IInv'
<1> DEFINE r == Tail(queue[s])
<1>1. queue[s] \in Seq(Work) /\ queue[s] # <<>>
  BY DEF IInv, Types, Finish
<1>2. r \in Seq(Work) /\ \A blocks : Touches(queue[s], blocks) => Touches(r, blocks)
  BY <1>1, TailTouches
<1>3. queue' = [queue EXCEPT ![s] = r]
  BY DEF Finish
<1> HIDE DEF r
<1>4. queue'[s] = r /\ \A t \in Stream : t # s => queue'[t] = queue[t]
  BY <1>3 DEF IInv, Types
<1>5. queue' \in [Stream -> Seq(Work)]
  BY <1>2, <1>3 DEF IInv, Types
<1>6. UNCHANGED <<zeros, core, pc, allocated, buffer, A, B, miss, extend, sum, extended,
                  product, buffered, buffer_idx, result, round>>
  BY DEF Finish
<1>7. ASSUME zeros = FALSE
      PROVE  Ordered'
  <2>1. Ordered
    BY <1>7 DEF IInv
  <2>2. \A t \in Stream : \A blocks : Touches(queue[t], blocks) => Touches(queue'[t], blocks)
    BY <1>2, <1>4
  <2>3. queue["associate"] = <<>> => queue'["associate"] = <<>>
    BY <1>1, <1>4, StreamsAre
  <2>4. OfMain' = OfMain /\ OfAssociate' = OfAssociate
    BY <1>6 DEF OfMain, OfAssociate, OnStream
  <2> QED
    BY <1>6, <2>1, <2>2, <2>3, <2>4, StreamsAre DEF Ordered
<1>8. Types'
  BY <1>5, <1>6 DEF IInv, Types
<1>9. Owned' /\ Apart' /\ Exists' /\ Pointers' /\ Room'
  BY <1>6 DEF IInv, Owned, Apart, Exists, Pointers, Points, Operand, Room, OnStream
<1>10. zeros' = FALSE => Entries'
  BY <1>6 DEF IInv, Entries
<1> QED
  BY <1>6, <1>7, <1>8, <1>9, <1>10 DEF IInv

LEMMA InitIInv == Init => IInv
<1> SUFFICES ASSUME Init PROVE IInv
  OBVIOUS
<1>1. BufferSize \in Nat \ {0} /\ Products \in Nat
  BY DeviceAssumption
<1>2. Types
  BY <1>1 DEF Init, Types, Steps, Stream, None, Matrix, Nothing
<1>3. /\ OnStream("main") = {} /\ OnStream("associate") = {}
      /\ extend["main"] = {} /\ extend["associate"] = {}
      /\ sum["main"] = {} /\ sum["associate"] = {}
      /\ buffer["buffer1"] = {} /\ buffer["buffer2"] = {}
  BY StreamsAre DEF Init, Nothing, OnStream
<1>4. Owned /\ Apart /\ Exists /\ Pointers
  BY <1>3 DEF Init, Owned, Apart, Exists, Pointers, None
<1>5. Room
  BY <1>1 DEF Init, Room
<1>6. Entries
  BY DEF Init, Entries
<1>7. Ordered
  BY EmptyTouches, StreamsAre DEF Init, Ordered
<1> QED
  BY <1>2, <1>4, <1>5, <1>6, <1>7 DEF IInv
-----------------------------------------------------------------------------
(* The core and loading *)

(* A block that is given out belongs to nothing.                           *)
LEMMA FreshBlock ==
  ASSUME IInv, NEW b \in Free
  PROVE  /\ b \in Block /\ b \notin allocated
         /\ b \notin A.block /\ b \notin B.block /\ b \notin product.block
         /\ b \notin buffered /\ b \notin result
         /\ b \notin OnStream("main") /\ b \notin OnStream("associate")
         /\ b \notin buffer["buffer1"] /\ b \notin buffer["buffer2"]
         /\ {} \in SUBSET Block /\ {b} \in SUBSET Block
  BY DEF IInv, Owned, Free

LEMMA ConstructKeeps ==
  ASSUME IInv, Construct
  PROVE  IInv'
<1> USE DEF IInv
<1>1. /\ core = "none" /\ core' \in {"build", "query"} /\ queue["associate"] = <<>>
      /\ UNCHANGED <<zeros, pc, queue, A, B, miss, extend, sum, extended, product,
                     buffered, buffer_idx, result, round>>
  BY StreamsAre DEF Construct, Idle
<1>2. PICK b1, b2 \in Free :
        /\ b1 # b2
        /\ buffer' = [t \in Scratch |-> IF t = "buffer1" THEN {b1} ELSE {b2}]
        /\ allocated' = allocated \cup {b1, b2}
  BY DEF Construct
<1>3. /\ buffer' \in [Scratch -> SUBSET Block]
      /\ buffer'["buffer1"] = {b1} /\ buffer'["buffer2"] = {b2}
  BY <1>2, FreshBlock, StreamsAre
<1>4. pc = "idle" /\ buffer["buffer1"] = {} /\ buffer["buffer2"] = {}
  BY <1>1 DEF Exists
<1>5. Types'
  BY <1>1, <1>2, <1>3, FreshBlock DEF Types
<1>6. OnStream("main")' = OnStream("main") /\ OnStream("associate")' = OnStream("associate")
  BY <1>1 DEF OnStream
<1>7. Owned'
  BY <1>1, <1>2, <1>3, <1>4, <1>6 DEF Owned
<1>8. Apart'
  <2>1. /\ b1 \notin A.block /\ b1 \notin B.block /\ b1 \notin product.block
        /\ b1 \notin buffered /\ b1 \notin result
        /\ b1 \notin OnStream("main") /\ b1 \notin OnStream("associate")
    BY FreshBlock
  <2>2. /\ b2 \notin A.block /\ b2 \notin B.block /\ b2 \notin product.block
        /\ b2 \notin buffered /\ b2 \notin result
        /\ b2 \notin OnStream("main") /\ b2 \notin OnStream("associate")
    BY FreshBlock
  <2> QED
    BY <1>1, <1>2, <1>3, <1>6, <2>1, <2>2 DEF Apart
<1>9. Exists' /\ Pointers' /\ Room'
  BY <1>1, <1>4 DEF Exists, Pointers, Room
<1>10. ASSUME zeros = FALSE PROVE Entries' /\ Ordered'
  BY <1>1, <1>4, <1>10, EmptyTouches DEF Entries, Ordered
<1> QED
  BY <1>1, <1>5, <1>7, <1>8, <1>9, <1>10

LEMMA LoadFirstKeeps ==
  ASSUME IInv, LoadFirst
  PROVE  IInv'
<1> USE DEF IInv
<1>1. /\ pc = "idle" /\ core # "none" /\ pc' = "load" /\ round' = 0
      /\ core = "query" => result = {}
      /\ UNCHANGED <<zeros, core, buffer, B, miss, extend, sum, extended, product,
                     buffered, buffer_idx, result>>
  BY DEF LoadFirst
<1>2. \/ A' = None /\ UNCHANGED <<allocated, queue>> /\ zeros = TRUE
      \/ \E b \in Free :
           /\ A' = [block |-> {b}, entries |-> TRUE]
           /\ allocated' = allocated \cup {b}
           /\ Enqueue("main", {}, {b})
  BY DEF LoadFirst, Loaded, HasEntries, Types
<1>3. A = None /\ A.block = {}
  BY <1>1 DEF Exists, None
<1>4. OnStream("main")' = OnStream("main") /\ OnStream("associate")' = OnStream("associate")
  BY <1>1 DEF OnStream
<1>5. Exists' /\ Pointers' /\ Room' /\ round' \in 0..Products
  BY <1>1, DeviceAssumption DEF Exists, Pointers, Room, Types
<1>6. CASE A' = None /\ UNCHANGED <<allocated, queue>> /\ zeros = TRUE
  <2>1. Types'
    BY <1>1, <1>5, <1>6 DEF Types, Steps, None, Matrix
  <2>2. Owned' /\ Apart'
    BY <1>1, <1>3, <1>4, <1>6 DEF Owned, Apart
  <2> QED
    BY <1>1, <1>5, <1>6, <2>1, <2>2
<1>7. ASSUME NEW b \in Free,
             A' = [block |-> {b}, entries |-> TRUE],
             allocated' = allocated \cup {b},
             Enqueue("main", {}, {b})
      PROVE  IInv'
  <2>1. /\ b \in Block /\ {} \in SUBSET Block /\ {b} \in SUBSET Block
    BY FreshBlock
  <2>2. /\ queue' \in [Stream -> Seq(Work)] /\ queue'["associate"] = queue["associate"]
    BY <1>7, <2>1, EnqueueKeeps, StreamsAre
  <2>3. A' \in Matrix /\ A'.block = {b} /\ A'.entries
    BY <1>7, <2>1 DEF Matrix
  <2>4. Types'
    BY <1>1, <1>5, <1>7, <2>1, <2>2, <2>3 DEF Types, Steps
  <2>5. Owned'
    BY <1>1, <1>3, <1>4, <1>7, <2>3 DEF Owned
  <2>6. Apart'
    <3>1. /\ b \notin A.block /\ b \notin B.block /\ b \notin product.block
          /\ b \notin buffered /\ b \notin result
          /\ b \notin OnStream("main") /\ b \notin OnStream("associate")
          /\ b \notin buffer["buffer1"] /\ b \notin buffer["buffer2"]
      BY FreshBlock
    <3> QED
      BY <1>1, <1>3, <1>4, <2>3, <3>1 DEF Apart
  <2>7. ASSUME zeros = FALSE PROVE Entries' /\ Ordered'
    BY <1>1, <2>2, <2>3, <2>7, EmptyTouches DEF Entries, Ordered
  <2> QED
    BY <1>1, <1>5, <2>4, <2>5, <2>6, <2>7
<1> QED
  BY <1>2, <1>6, <1>7

LEMMA LoadSecondKeeps ==
  ASSUME IInv, LoadSecond
  PROVE  IInv'
<1> USE DEF IInv
<1>1. /\ pc = "load" /\ pc' = "align" /\ round' = round + 1 /\ round < Products
      /\ UNCHANGED <<zeros, core, buffer, A, miss, extend, sum, extended, product,
                     buffered, buffer_idx, result>>
  BY DEF LoadSecond
<1>2. \/ B' = None /\ UNCHANGED <<allocated, queue>> /\ zeros = TRUE
      \/ \E b \in Free :
           /\ B' = [block |-> {b}, entries |-> TRUE]
           /\ allocated' = allocated \cup {b}
           /\ Enqueue("main", {}, {b})
  BY DEF LoadSecond, Loaded, HasEntries, Types
<1>3. B = None /\ B.block = {}
  BY <1>1 DEF Exists, None
<1>4. OnStream("main")' = OnStream("main") /\ OnStream("associate")' = OnStream("associate")
  BY <1>1 DEF OnStream
<1>5. Exists' /\ Pointers' /\ Room' /\ round' \in 0..Products
  BY <1>1, DeviceAssumption DEF Exists, Pointers, Room, Types
<1>6. CASE B' = None /\ UNCHANGED <<allocated, queue>> /\ zeros = TRUE
  <2>1. Types'
    BY <1>1, <1>5, <1>6 DEF Types, Steps, None, Matrix
  <2>2. Owned' /\ Apart'
    BY <1>1, <1>3, <1>4, <1>6 DEF Owned, Apart
  <2> QED
    BY <1>1, <1>5, <1>6, <2>1, <2>2
<1>7. ASSUME NEW b \in Free,
             B' = [block |-> {b}, entries |-> TRUE],
             allocated' = allocated \cup {b},
             Enqueue("main", {}, {b})
      PROVE  IInv'
  <2>1. /\ b \in Block /\ {} \in SUBSET Block /\ {b} \in SUBSET Block
    BY FreshBlock
  <2>2. /\ queue' \in [Stream -> Seq(Work)] /\ queue'["associate"] = queue["associate"]
    BY <1>7, <2>1, EnqueueKeeps, StreamsAre
  <2>3. B' \in Matrix /\ B'.block = {b} /\ B'.entries
    BY <1>7, <2>1 DEF Matrix
  <2>4. Types'
    BY <1>1, <1>5, <1>7, <2>1, <2>2, <2>3 DEF Types, Steps
  <2>5. Owned'
    BY <1>1, <1>3, <1>4, <1>7, <2>3 DEF Owned
  <2>6. Apart'
    <3>1. /\ b \notin A.block /\ b \notin B.block /\ b \notin product.block
          /\ b \notin buffered /\ b \notin result
          /\ b \notin OnStream("main") /\ b \notin OnStream("associate")
          /\ b \notin buffer["buffer1"] /\ b \notin buffer["buffer2"]
      BY FreshBlock
    <3> QED
      BY <1>1, <1>3, <1>4, <2>3, <3>1 DEF Apart
  <2>7. ASSUME zeros = FALSE PROVE Entries' /\ Ordered'
    BY <1>1, <2>2, <2>3, <2>7, EmptyTouches DEF Entries, Ordered
  <2> QED
    BY <1>1, <1>5, <2>4, <2>5, <2>6, <2>7
<1> QED
  BY <1>2, <1>6, <1>7

-----------------------------------------------------------------------------
(* AlignAndMultiply *)

LEMMA DiagonalAKeeps ==
  ASSUME IInv, DiagonalA
  PROVE  IInv'
<1> USE DEF IInv
<1>1. /\ pc = "align" /\ Diagonal("main", "addA", "diagB")
      /\ queue["main"] = <<>> /\ queue["associate"] = <<>>
      /\ UNCHANGED <<zeros, core, buffer, A, B, sum, product, buffered, buffer_idx,
                     result, round>>
  BY StreamsAre DEF DiagonalA, Synced, Idle
<1>2. /\ extend["main"] = {} /\ sum["main"] = {}
      /\ Operand("main") = A /\ Operand("main")' = A /\ Operand("associate")' = Operand("associate")
  BY <1>1, StreamsAre DEF Exists, Operand
<1>3. \/ /\ miss' = [miss EXCEPT !["main"] = FALSE]
         /\ extended' = [extended EXCEPT !["main"] = "operand"]
         /\ pc' = "diagB"
         /\ UNCHANGED <<allocated, queue, extend>>
      \/ \E b \in Free :
           /\ miss' = [miss EXCEPT !["main"] = TRUE]
           /\ extend' = [extend EXCEPT !["main"] = {b}]
           /\ allocated' = allocated \cup {b}
           /\ Enqueue("main", {}, {b})
           /\ IF A.entries
              THEN pc' = "addA" /\ UNCHANGED extended
              ELSE pc' = "diagB" /\ extended' = [extended EXCEPT !["main"] = "extend"]
  BY <1>1, <1>2 DEF Diagonal
<1>4. ASSUME miss' = [miss EXCEPT !["main"] = FALSE],
             extended' = [extended EXCEPT !["main"] = "operand"],
             pc' = "diagB",
             UNCHANGED <<allocated, queue, extend>>
      PROVE  IInv'
  <2>1. Types'
    BY <1>1, <1>4, StreamsAre DEF Types, Steps
  <2>2. /\ OnStream("main")' = OnStream("main")
        /\ OnStream("associate")' = OnStream("associate")
    BY <1>1, <1>4 DEF OnStream
  <2>3. Owned' /\ Apart'
    BY <1>1, <1>4, <2>2 DEF Owned, Apart
  <2>4. Exists' /\ Room'
    BY <1>1, <1>4 DEF Exists, Room
  <2>5. /\ miss'["main"] = FALSE /\ extended'["main"] = "operand"
        /\ miss'["associate"] = miss["associate"] /\ extended'["associate"] = extended["associate"]
    BY <1>4, StreamsAre DEF Types
  <2>6. Points("main")' /\ (Points("associate") => Points("associate")')
    BY <1>1, <1>2, <2>5 DEF Points
  <2>7. Pointers'
    BY <1>1, <1>4, <2>6 DEF Pointers
  <2>8. ASSUME zeros = FALSE PROVE Entries' /\ Ordered'
    <3>1. OfMain' = OfMain /\ OfAssociate' = OfAssociate
      BY <1>1, <2>2 DEF OfMain, OfAssociate
    <3> QED
      BY <1>1, <1>4, <2>8, <3>1, EmptyTouches DEF Entries, Ordered
  <2> QED
    BY <1>1, <2>1, <2>3, <2>4, <2>7, <2>8
<1>5. ASSUME NEW b \in Free,
             miss' = [miss EXCEPT !["main"] = TRUE],
             extend' = [extend EXCEPT !["main"] = {b}],
             allocated' = allocated \cup {b},
             Enqueue("main", {}, {b}),
             IF A.entries
             THEN pc' = "addA" /\ UNCHANGED extended
             ELSE pc' = "diagB" /\ extended' = [extended EXCEPT !["main"] = "extend"]
      PROVE  IInv'
  <2>1. b \in Block /\ {} \in SUBSET Block /\ {b} \in SUBSET Block
    BY FreshBlock
  <2>2. /\ queue' \in [Stream -> Seq(Work)] /\ queue'["associate"] = queue["associate"]
        /\ \A blocks : Touches(queue["main"], blocks) /\ {b} \subseteq blocks
                       => Touches(queue'["main"], blocks)
    <3>1. Types /\ "main" \in Stream /\ Enqueue("main", {}, {b})
      BY <1>5, StreamsAre
    <3>2. /\ queue' \in [Stream -> Seq(Work)]
          /\ \A t \in Stream : t # "main" => queue'[t] = queue[t]
      BY <2>1, <3>1, EnqueueKeeps
    <3>3. ASSUME NEW blocks, Touches(queue["main"], blocks), {b} \subseteq blocks
          PROVE  Touches(queue'["main"], blocks)
      <4> DEFINE reads == {}
                 writes == {b}
      <4>1. /\ reads \in SUBSET Block /\ writes \in SUBSET Block
            /\ reads \subseteq blocks /\ writes \subseteq blocks
            /\ Enqueue("main", reads, writes)
        BY <2>1, <3>1, <3>3
      <4> HIDE DEF reads, writes
      <4> QED
        BY <3>1, <3>3, <4>1, EnqueueTouches
    <3> QED
      BY <3>2, <3>3, StreamsAre
  <2>3. /\ extend' \in [Stream -> SUBSET Block] /\ miss' \in [Stream -> BOOLEAN]
        /\ extended' \in [Stream -> {"operand", "extend", "sum"}]
        /\ extend'["main"] = {b} /\ extend'["associate"] = extend["associate"]
        /\ miss'["main"] = TRUE /\ miss'["associate"] = miss["associate"]
        /\ extended'["associate"] = extended["associate"]
        /\ ~A.entries => extended'["main"] = "extend"
    BY <1>5, <2>1, StreamsAre DEF Types
  <2>4. /\ pc' \in {"addA", "diagB"} /\ (pc' = "addA" <=> A.entries)
    BY <1>5 DEF Types, Matrix
  <2>5. Types'
    BY <1>1, <1>5, <2>1, <2>2, <2>3, <2>4 DEF Types, Steps
  <2>6. /\ OnStream("main") = {} /\ OnStream("main")' = {b}
        /\ OnStream("associate")' = OnStream("associate")
    BY <1>1, <1>2, <2>3 DEF OnStream
  <2>7. Owned'
    BY <1>1, <1>5, <2>6 DEF Owned
  <2>8. Apart'
    <3>1. /\ b \notin A.block /\ b \notin B.block /\ b \notin product.block
          /\ b \notin buffered /\ b \notin result
          /\ b \notin OnStream("main") /\ b \notin OnStream("associate")
          /\ b \notin buffer["buffer1"] /\ b \notin buffer["buffer2"]
      BY FreshBlock
    <3> QED
      BY <1>1, <2>6, <3>1 DEF Apart
  <2>9. Exists' /\ Room'
    BY <1>1, <1>2, <2>3, <2>4 DEF Exists, Room
  <2>10. Pointers'
    <3>1. pc' = "diagB" => Points("main")'
      BY <1>1, <1>2, <2>3, <2>4 DEF Points
    <3>2. Points("associate") => Points("associate")'
      BY <1>1, <1>2, <2>3 DEF Points
    <3> QED
      BY <1>1, <2>3, <2>4, <3>1, <3>2 DEF Pointers
  <2>11. ASSUME zeros = FALSE PROVE Entries' /\ Ordered'
    <3>1. Entries'
      BY <1>1, <2>4, <2>11 DEF Entries
    <3>2. Touches(queue'["main"], OfMain')
      BY <1>1, <2>2, <2>6, EmptyTouches DEF OfMain
    <3>3. queue'["associate"] = <<>>
      BY <1>1, <2>2
    <3> QED
      BY <2>4, <3>1, <3>2, <3>3, EmptyTouches DEF Ordered
  <2> QED
    BY <1>1, <2>5, <2>7, <2>8, <2>9, <2>10, <2>11
<1> QED
  BY <1>3, <1>4, <1>5

LEMMA DiagonalBKeeps ==
  ASSUME IInv, DiagonalB
  PROVE  IInv'
<1> USE DEF IInv
<1>1. /\ pc = "diagB" /\ Diagonal("associate", "addB", "multiply")
      /\ UNCHANGED <<zeros, core, buffer, A, B, sum, product, buffered, buffer_idx,
                     result, round>>
  BY StreamsAre DEF DiagonalB, Synced, Idle
<1>2. /\ extend["associate"] = {} /\ sum["associate"] = {}
      /\ Operand("associate") = B /\ Operand("associate")' = B /\ Operand("main")' = Operand("main")
  BY <1>1, StreamsAre DEF Exists, Operand
<1>3. \/ /\ miss' = [miss EXCEPT !["associate"] = FALSE]
         /\ extended' = [extended EXCEPT !["associate"] = "operand"]
         /\ pc' = "multiply"
         /\ UNCHANGED <<allocated, queue, extend>>
      \/ \E b \in Free :
           /\ miss' = [miss EXCEPT !["associate"] = TRUE]
           /\ extend' = [extend EXCEPT !["associate"] = {b}]
           /\ allocated' = allocated \cup {b}
           /\ Enqueue("associate", {}, {b})
           /\ IF B.entries
              THEN pc' = "addB" /\ UNCHANGED extended
              ELSE pc' = "multiply" /\ extended' = [extended EXCEPT !["associate"] = "extend"]
  BY <1>1, <1>2 DEF Diagonal
<1>4. ASSUME miss' = [miss EXCEPT !["associate"] = FALSE],
             extended' = [extended EXCEPT !["associate"] = "operand"],
             pc' = "multiply",
             UNCHANGED <<allocated, queue, extend>>
      PROVE  IInv'
  <2>1. Types'
    BY <1>1, <1>4, StreamsAre DEF Types, Steps
  <2>2. /\ OnStream("main")' = OnStream("main")
        /\ OnStream("associate")' = OnStream("associate")
    BY <1>1, <1>4 DEF OnStream
  <2>3. Owned' /\ Apart'
    BY <1>1, <1>4, <2>2 DEF Owned, Apart
  <2>4. Exists' /\ Room'
    BY <1>1, <1>4 DEF Exists, Room
  <2>5. /\ miss'["associate"] = FALSE /\ extended'["associate"] = "operand"
        /\ miss'["main"] = miss["main"] /\ extended'["main"] = extended["main"]
    BY <1>4, StreamsAre DEF Types
  <2>6. Points("associate")' /\ (Points("main") => Points("main")')
    BY <1>1, <1>2, <2>5 DEF Points
  <2>7. Pointers'
    BY <1>1, <1>4, <2>6 DEF Pointers
  <2>8. ASSUME zeros = FALSE PROVE Entries' /\ Ordered'
    <3>1. OfMain' = OfMain /\ OfAssociate' = OfAssociate
      BY <1>1, <2>2 DEF OfMain, OfAssociate
    <3> QED
      BY <1>1, <1>4, <2>8, <3>1, EmptyTouches DEF Entries, Ordered
  <2> QED
    BY <1>1, <2>1, <2>3, <2>4, <2>7, <2>8
<1>5. ASSUME NEW b \in Free,
             miss' = [miss EXCEPT !["associate"] = TRUE],
             extend' = [extend EXCEPT !["associate"] = {b}],
             allocated' = allocated \cup {b},
             Enqueue("associate", {}, {b}),
             IF B.entries
             THEN pc' = "addB" /\ UNCHANGED extended
             ELSE pc' = "multiply" /\ extended' = [extended EXCEPT !["associate"] = "extend"]
      PROVE  IInv'
  <2>1. b \in Block /\ {} \in SUBSET Block /\ {b} \in SUBSET Block
    BY FreshBlock
  <2>2. /\ queue' \in [Stream -> Seq(Work)] /\ queue'["main"] = queue["main"]
        /\ \A blocks : Touches(queue["associate"], blocks) /\ {b} \subseteq blocks
                       => Touches(queue'["associate"], blocks)
    <3>1. Types /\ "associate" \in Stream /\ Enqueue("associate", {}, {b})
      BY <1>5, StreamsAre
    <3>2. /\ queue' \in [Stream -> Seq(Work)]
          /\ \A t \in Stream : t # "associate" => queue'[t] = queue[t]
      BY <2>1, <3>1, EnqueueKeeps
    <3>3. ASSUME NEW blocks, Touches(queue["associate"], blocks), {b} \subseteq blocks
          PROVE  Touches(queue'["associate"], blocks)
      <4> DEFINE reads == {}
                 writes == {b}
      <4>1. /\ reads \in SUBSET Block /\ writes \in SUBSET Block
            /\ reads \subseteq blocks /\ writes \subseteq blocks
            /\ Enqueue("associate", reads, writes)
        BY <2>1, <3>1, <3>3
      <4> HIDE DEF reads, writes
      <4> QED
        BY <3>1, <3>3, <4>1, EnqueueTouches
    <3> QED
      BY <3>2, <3>3, StreamsAre
  <2>3. /\ extend' \in [Stream -> SUBSET Block] /\ miss' \in [Stream -> BOOLEAN]
        /\ extended' \in [Stream -> {"operand", "extend", "sum"}]
        /\ extend'["associate"] = {b} /\ extend'["main"] = extend["main"]
        /\ miss'["associate"] = TRUE /\ miss'["main"] = miss["main"]
        /\ extended'["main"] = extended["main"]
        /\ ~B.entries => extended'["associate"] = "extend"
    BY <1>5, <2>1, StreamsAre DEF Types
  <2>4. /\ pc' \in {"addB", "multiply"} /\ (pc' = "addB" <=> B.entries)
    BY <1>5 DEF Types, Matrix
  <2>5. Types'
    BY <1>1, <1>5, <2>1, <2>2, <2>3, <2>4 DEF Types, Steps
  <2>6. /\ OnStream("associate") = {} /\ OnStream("associate")' = {b}
        /\ OnStream("main")' = OnStream("main")
    BY <1>1, <1>2, <2>3 DEF OnStream
  <2>7. Owned'
    BY <1>1, <1>5, <2>6 DEF Owned
  <2>8. Apart'
    <3>1. /\ b \notin A.block /\ b \notin B.block /\ b \notin product.block
          /\ b \notin buffered /\ b \notin result
          /\ b \notin OnStream("main") /\ b \notin OnStream("associate")
          /\ b \notin buffer["buffer1"] /\ b \notin buffer["buffer2"]
      BY FreshBlock
    <3> QED
      BY <1>1, <2>6, <3>1 DEF Apart
  <2>9. Exists' /\ Room'
    BY <1>1, <1>2, <2>3, <2>4 DEF Exists, Room
  <2>10. Pointers'
    <3>1. pc' = "multiply" => Points("associate")'
      BY <1>1, <1>2, <2>3, <2>4 DEF Points
    <3>2. Points("main") => Points("main")'
      BY <1>1, <1>2, <2>3 DEF Points
    <3> QED
      BY <1>1, <2>3, <2>4, <3>1, <3>2 DEF Pointers
  <2>11. ASSUME zeros = FALSE PROVE Entries' /\ Ordered'
    <3>1. Entries'
      BY <1>1, <2>4, <2>11 DEF Entries
    <3>2. OfMain' = OfMain /\ OfAssociate' = OfAssociate \cup {b}
      BY <1>1, <2>6 DEF OfMain, OfAssociate
    <3>3. Touches(queue["associate"], OfAssociate \cup {b})
      BY <2>11, TouchesMore DEF Ordered
    <3> QED
      BY <1>1, <2>2, <2>4, <2>11, <3>1, <3>2, <3>3 DEF Ordered
  <2> QED
    BY <1>1, <2>5, <2>7, <2>8, <2>9, <2>10, <2>11
<1> QED
  BY <1>3, <1>4, <1>5

LEMMA AddAKeeps ==
  ASSUME IInv, AddA
  PROVE  IInv'
<1> USE DEF IInv
<1>1. /\ pc = "addA" /\ pc' = "diagB" /\ queue["main"] = <<>>
      /\ extended' = [extended EXCEPT !["main"] = "sum"]
      /\ UNCHANGED <<zeros, core, A, B, miss, extend, product, buffered, buffer_idx, result,
                     round>>
  BY DEF AddA, Add, Idle
<1>2. /\ sum["main"] = {} /\ miss["main"] /\ A.entries
      /\ Operand("main") = A /\ Operand("main")' = A /\ Operand("associate")' = Operand("associate")
  BY <1>1, StreamsAre DEF Exists, Pointers, Operand
<1> DEFINE reads == A.block \cup extend["main"]
<1>3. PICK b \in Block : /\ Compute("main", {"buffer1"}, reads, b)
                        /\ sum' = [sum EXCEPT !["main"] = {b}]
  BY <1>2, StreamsAre DEF AddA, Add, ScratchOf
<1>4. /\ reads \in SUBSET Block /\ {"buffer1"} \in SUBSET Scratch
      /\ "buffer1" \in Scratch /\ "main" \in Stream
  BY StreamsAre DEF Types, Matrix
<1> HIDE DEF reads
<1>5. /\ buffer' \in [Scratch -> SUBSET Block]
      /\ allocated' = Kept \cup buffer'["buffer1"] \cup buffer'["buffer2"] \cup {b}
      /\ Kept \cap (buffer'["buffer1"] \cup buffer'["buffer2"] \cup {b}) = {}
      /\ buffer'["buffer1"] \cap buffer'["buffer2"] = {}
      /\ b \notin buffer'["buffer1"] /\ b \notin buffer'["buffer2"]
      /\ buffer'["buffer2"] = buffer["buffer2"]
      /\ queue' \in [Stream -> Seq(Work)] /\ queue'["associate"] = queue["associate"]
      /\ \A blocks : /\ Touches(queue["main"], blocks) /\ reads \subseteq blocks
                     /\ {b} \cup buffer'["buffer1"] \subseteq blocks
                     => Touches(queue'["main"], blocks)
  <2>1. /\ buffer' \in [Scratch -> SUBSET Block]
        /\ allocated' = Kept \cup buffer'["buffer1"] \cup buffer'["buffer2"] \cup {b}
        /\ Kept \cap (buffer'["buffer1"] \cup buffer'["buffer2"] \cup {b}) = {}
        /\ buffer'["buffer1"] \cap buffer'["buffer2"] = {}
        /\ b \notin buffer'["buffer1"] /\ b \notin buffer'["buffer2"]
        /\ \A t \in Scratch \ {"buffer1"} : buffer'[t] = buffer[t]
    BY <1>3, <1>4, Computed
  <2>2. /\ queue' \in [Stream -> Seq(Work)]
        /\ \A t \in Stream : t # "main" => queue'[t] = queue[t]
    BY <1>3, <1>4, ComputedQueue
  <2>3. ASSUME NEW blocks, Touches(queue["main"], blocks), reads \subseteq blocks,
               {b} \cup buffer'["buffer1"] \subseteq blocks
        PROVE  Touches(queue'["main"], blocks)
    BY <1>3, <1>4, <2>3, ComputedTouches
  <2> QED
    BY <2>1, <2>2, <2>3, StreamsAre
<1>6. /\ sum' \in [Stream -> SUBSET Block]
      /\ sum'["main"] = {b} /\ sum'["associate"] = sum["associate"]
      /\ extended' \in [Stream -> {"operand", "extend", "sum"}]
      /\ extended'["main"] = "sum" /\ extended'["associate"] = extended["associate"]
  BY <1>1, <1>3, StreamsAre DEF Types
<1>7. Kept \subseteq Block
  BY StreamsAre DEF Kept, Types, Matrix, OnStream
<1>8. Types'
  <2>1. allocated' \subseteq Block
    BY <1>5, <1>7, StreamsAre
  <2> QED
    BY <1>1, <1>5, <1>6, <2>1 DEF Types, Steps
<1>9. /\ OnStream("main") = extend["main"] /\ OnStream("main")' = OnStream("main") \cup {b}
      /\ OnStream("associate")' = OnStream("associate")
  BY <1>1, <1>2, <1>6 DEF OnStream
<1>10. Owned'
  BY <1>1, <1>5, <1>9 DEF Owned, Kept
<1>11. Apart'
  BY <1>1, <1>5, <1>9 DEF Apart, Kept
<1>12. Exists' /\ Room'
  BY <1>1, <1>2, <1>6 DEF Exists, Room
<1>13. Pointers'
  <2>1. Points("main")' /\ (Points("associate") => Points("associate")')
    BY <1>1, <1>2, <1>6 DEF Points
  <2> QED
    BY <1>1, <2>1 DEF Pointers
<1>14. ASSUME zeros = FALSE PROVE Entries' /\ Ordered'
  <2>1. Entries'
    BY <1>1, <1>14 DEF Entries
  <2>2. Touches(queue'["main"], OfMain')
    BY <1>1, <1>5, <1>9, EmptyTouches DEF OfMain, reads
  <2>3. OfAssociate' = OfAssociate
    BY <1>1, <1>5, <1>9 DEF OfAssociate
  <2> QED
    BY <1>1, <1>5, <1>14, <2>1, <2>2, <2>3, EmptyTouches DEF Ordered
<1> QED
  BY <1>1, <1>8, <1>10, <1>11, <1>12, <1>13, <1>14

LEMMA AddBKeeps ==
  ASSUME IInv, AddB
  PROVE  IInv'
<1> USE DEF IInv
<1>1. /\ pc = "addB" /\ pc' = "multiply" /\ queue["associate"] = <<>>
      /\ extended' = [extended EXCEPT !["associate"] = "sum"]
      /\ UNCHANGED <<zeros, core, A, B, miss, extend, product, buffered, buffer_idx, result,
                     round>>
  BY DEF AddB, Add, Idle
<1>2. /\ sum["associate"] = {} /\ miss["associate"] /\ B.entries
      /\ Operand("associate") = B /\ Operand("associate")' = B /\ Operand("main")' = Operand("main")
  BY <1>1, StreamsAre DEF Exists, Pointers, Operand
<1> DEFINE reads == B.block \cup extend["associate"]
<1>3. PICK b \in Block : /\ Compute("associate", {"buffer2"}, reads, b)
                        /\ sum' = [sum EXCEPT !["associate"] = {b}]
  BY <1>2, StreamsAre DEF AddB, Add, ScratchOf
<1>4. /\ reads \in SUBSET Block /\ {"buffer2"} \in SUBSET Scratch
      /\ "buffer2" \in Scratch /\ "associate" \in Stream
  BY StreamsAre DEF Types, Matrix
<1> HIDE DEF reads
<1>5. /\ buffer' \in [Scratch -> SUBSET Block]
      /\ allocated' = Kept \cup buffer'["buffer1"] \cup buffer'["buffer2"] \cup {b}
      /\ Kept \cap (buffer'["buffer1"] \cup buffer'["buffer2"] \cup {b}) = {}
      /\ buffer'["buffer1"] \cap buffer'["buffer2"] = {}
      /\ b \notin buffer'["buffer1"] /\ b \notin buffer'["buffer2"]
      /\ buffer'["buffer1"] = buffer["buffer1"]
      /\ queue' \in [Stream -> Seq(Work)] /\ queue'["main"] = queue["main"]
      /\ \A blocks : /\ Touches(queue["associate"], blocks) /\ reads \subseteq blocks
                     /\ {b} \cup buffer'["buffer2"] \subseteq blocks
                     => Touches(queue'["associate"], blocks)
  <2>1. /\ buffer' \in [Scratch -> SUBSET Block]
        /\ allocated' = Kept \cup buffer'["buffer1"] \cup buffer'["buffer2"] \cup {b}
        /\ Kept \cap (buffer'["buffer1"] \cup buffer'["buffer2"] \cup {b}) = {}
        /\ buffer'["buffer1"] \cap buffer'["buffer2"] = {}
        /\ b \notin buffer'["buffer1"] /\ b \notin buffer'["buffer2"]
        /\ \A t \in Scratch \ {"buffer2"} : buffer'[t] = buffer[t]
    BY <1>3, <1>4, Computed
  <2>2. /\ queue' \in [Stream -> Seq(Work)]
        /\ \A t \in Stream : t # "associate" => queue'[t] = queue[t]
    BY <1>3, <1>4, ComputedQueue
  <2>3. ASSUME NEW blocks, Touches(queue["associate"], blocks), reads \subseteq blocks,
               {b} \cup buffer'["buffer2"] \subseteq blocks
        PROVE  Touches(queue'["associate"], blocks)
    BY <1>3, <1>4, <2>3, ComputedTouches
  <2> QED
    BY <2>1, <2>2, <2>3, StreamsAre
<1>6. /\ sum' \in [Stream -> SUBSET Block]
      /\ sum'["associate"] = {b} /\ sum'["main"] = sum["main"]
      /\ extended' \in [Stream -> {"operand", "extend", "sum"}]
      /\ extended'["associate"] = "sum" /\ extended'["main"] = extended["main"]
  BY <1>1, <1>3, StreamsAre DEF Types
<1>7. Kept \subseteq Block
  BY StreamsAre DEF Kept, Types, Matrix, OnStream
<1>8. Types'
  <2>1. allocated' \subseteq Block
    BY <1>5, <1>7, StreamsAre
  <2> QED
    BY <1>1, <1>5, <1>6, <2>1 DEF Types, Steps
<1>9. /\ OnStream("associate") = extend["associate"] /\ OnStream("associate")' = OnStream("associate") \cup {b}
      /\ OnStream("main")' = OnStream("main")
  BY <1>1, <1>2, <1>6 DEF OnStream
<1>10. Owned'
  BY <1>1, <1>5, <1>9 DEF Owned, Kept
<1>11. Apart'
  BY <1>1, <1>5, <1>9 DEF Apart, Kept
<1>12. Exists' /\ Room'
  BY <1>1, <1>2, <1>6 DEF Exists, Room
<1>13. Pointers'
  <2>1. Points("associate")' /\ (Points("main") => Points("main")')
    BY <1>1, <1>2, <1>6 DEF Points
  <2> QED
    BY <1>1, <2>1 DEF Pointers
<1>14. ASSUME zeros = FALSE PROVE Entries' /\ Ordered'
  <2>1. Entries'
    BY <1>1, <1>14 DEF Entries
  <2>2. Touches(queue'["associate"], OfAssociate')
    BY <1>1, <1>5, <1>9, EmptyTouches DEF OfAssociate, reads
  <2>3. OfMain' = OfMain
    BY <1>1, <1>5, <1>9 DEF OfMain
  <2> QED
    BY <1>1, <1>5, <1>14, <2>1, <2>2, <2>3, EmptyTouches DEF Ordered
<1> QED
  BY <1>1, <1>8, <1>10, <1>11, <1>12, <1>13, <1>14

LEMMA MultiplyKeeps ==
  ASSUME IInv, Multiply
  PROVE  IInv'
<1> USE DEF IInv
<1> DEFINE reads == Extended("main") \cup Extended("associate")
<1>1. /\ pc = "multiply" /\ pc' = "release"
      /\ UNCHANGED <<zeros, core, A, B, miss, extend, sum, extended, buffered, buffer_idx,
                     result, round>>
  BY DEF Multiply
<1>2. product = None /\ product.block = {}
  BY <1>1 DEF Exists, None
<1>3. reads \in SUBSET Block
  BY StreamsAre DEF Extended, Operand, Types, Matrix
<1>4. \/ /\ ~A.entries \/ ~B.entries
         /\ product' = None /\ UNCHANGED <<allocated, queue, buffer>>
      \/ /\ Synced
         /\ \E b \in Block, nonzero \in HasEntries, used \in {{"buffer1"}, Scratch} :
              /\ Compute("main", used, reads, b)
              /\ product' = [block |-> {b}, entries |-> nonzero]
  BY StreamsAre DEF Multiply, Operand
<1> HIDE DEF reads
<1>5. /\ OnStream("main")' = OnStream("main") /\ OnStream("associate")' = OnStream("associate")
  BY <1>1 DEF OnStream
<1>6. Room'
  BY <1>1 DEF Room
<1>7. Pointers'
  BY <1>1 DEF Pointers, Points, Operand
<1>8. CASE (~A.entries \/ ~B.entries) /\ product' = None /\ UNCHANGED <<allocated, queue, buffer>>
  <2>1. Types'
    BY <1>1, <1>2, <1>8 DEF Types, Steps
  <2>2. Owned' /\ Apart' /\ Exists'
    BY <1>1, <1>2, <1>5, <1>8 DEF Owned, Apart, Exists
  <2>3. zeros # FALSE
    BY <1>1, <1>8 DEF Entries
  <2> QED
    BY <1>1, <1>6, <1>7, <2>1, <2>2, <2>3
<1>9. ASSUME Synced, NEW b \in Block, NEW nonzero \in HasEntries,
             NEW used \in {{"buffer1"}, Scratch},
             Compute("main", used, reads, b),
             product' = [block |-> {b}, entries |-> nonzero]
      PROVE  IInv'
  <2>1. used \in SUBSET Scratch
    BY StreamsAre
  <2>2. /\ buffer' \in [Scratch -> SUBSET Block]
        /\ allocated' = Kept \cup buffer'["buffer1"] \cup buffer'["buffer2"] \cup {b}
        /\ Kept \cap (buffer'["buffer1"] \cup buffer'["buffer2"] \cup {b}) = {}
        /\ buffer'["buffer1"] \cap buffer'["buffer2"] = {}
        /\ b \notin buffer'["buffer1"] /\ b \notin buffer'["buffer2"]
        /\ queue' \in [Stream -> Seq(Work)] /\ queue'["associate"] = queue["associate"]
    BY <1>3, <1>9, <2>1, Computed, ComputedQueue, StreamsAre
  <2>3. nonzero \in BOOLEAN /\ (zeros = FALSE => nonzero = TRUE)
    BY <1>9 DEF HasEntries
  <2>4. queue["associate"] = <<>>
    BY <1>9, StreamsAre DEF Synced, Idle
  <2>5. product' \in Matrix /\ product'.block = {b} /\ product'.entries = nonzero
    BY <1>9, <2>3 DEF Matrix
  <2>6. Types'
    <3>1. Kept \subseteq Block
      BY StreamsAre DEF Kept, Types, Matrix, OnStream
    <3>2. allocated' \subseteq Block
      BY <2>2, <3>1, StreamsAre
    <3> QED
      BY <1>1, <2>2, <2>5, <3>2 DEF Types, Steps
  <2>7. Owned'
    BY <1>1, <1>2, <1>5, <2>2, <2>5 DEF Owned, Kept
  <2>8. Apart'
    BY <1>1, <1>5, <2>2, <2>5 DEF Apart, Kept
  <2>9. Exists'
    BY <1>1 DEF Exists
  <2>10. ASSUME zeros = FALSE PROVE Entries' /\ Ordered'
    BY <1>1, <2>2, <2>3, <2>4, <2>5, <2>10, EmptyTouches DEF Entries, Ordered
  <2> QED
    BY <1>1, <1>6, <1>7, <2>6, <2>7, <2>8, <2>9, <2>10
<1> QED
  BY <1>4, <1>8, <1>9

(* The tests free every temporary, and nothing else.                       *)
LEMMA ReleasedIs ==
  ASSUME IInv, Release
  PROVE  allocated' = allocated \ (OnStream("main") \cup OnStream("associate"))
<1> USE DEF IInv
<1> DEFINE one == UNION {extend[s] : s \in {t \in Stream : miss[t]}}
           two == UNION {Extended(s) : s \in {t \in Stream : Deleted(t)}}
           all == UNION {extend[s] : s \in Stream}
<1>1. allocated' = allocated \ ((one \cup two) \cup (all \ (one \cup two)))
  BY DEF Release
<1>2. one \subseteq all /\ all = extend["main"] \cup extend["associate"]
  BY BuffersAre
<1>3. \A s \in Stream : Points(s)
  BY StreamsAre DEF Release, Pointers
<1>4. \A s \in Stream : Deleted(s) => Extended(s) = sum[s]
  BY <1>3 DEF Points, Deleted, Extended
<1>5. \A s \in Stream : sum[s] # {} => Deleted(s)
  BY <1>3 DEF Points, Deleted
<1>6. two = sum["main"] \cup sum["associate"]
  <2>1. two \subseteq sum["main"] \cup sum["associate"]
    BY <1>4, StreamsAre
  <2>2. \A s \in Stream : sum[s] \subseteq two
    BY <1>4, <1>5
  <2> QED
    BY <2>1, <2>2, StreamsAre
<1> HIDE DEF one, two, all
<1> QED
  BY <1>1, <1>2, <1>6 DEF OnStream

LEMMA ReleaseKeeps ==
  ASSUME IInv, Release
  PROVE  IInv'
<1> USE DEF IInv
<1>1. /\ pc = "release" /\ pc' = "firstChild"
      /\ allocated' = allocated \ (OnStream("main") \cup OnStream("associate"))
      /\ extend' = Nothing /\ sum' = Nothing
      /\ UNCHANGED <<zeros, core, queue, buffer, A, B, miss, extended, product, buffered,
                     buffer_idx, result, round>>
  BY ReleasedIs DEF Release
<1>2. /\ extend'["main"] = {} /\ extend'["associate"] = {}
      /\ sum'["main"] = {} /\ sum'["associate"] = {}
      /\ extend' \in [Stream -> SUBSET Block] /\ sum' \in [Stream -> SUBSET Block]
  BY <1>1, StreamsAre DEF Nothing
<1>3. Types'
  BY <1>1, <1>2 DEF Types, Steps
<1>4. OnStream("main")' = {} /\ OnStream("associate")' = {}
  BY <1>1, <1>2 DEF OnStream
<1>5. Owned' /\ Apart'
  BY <1>1, <1>4 DEF Owned, Apart
<1>6. Exists' /\ Pointers' /\ Room'
  BY <1>1, <1>2 DEF Exists, Pointers, Room
<1>7. ASSUME zeros = FALSE PROVE Entries' /\ Ordered'
  BY <1>1, <1>7, EmptyTouches DEF Entries, Ordered
<1> QED
  BY <1>1, <1>3, <1>5, <1>6, <1>7
-----------------------------------------------------------------------------
(* The callers *)

LEMMA FirstChildKeeps ==
  ASSUME IInv, FirstChild
  PROVE  IInv'
<1> USE DEF IInv
<1>1. /\ pc = "firstChild" /\ Child(A, "firstCommit", "secondChild")
      /\ A' = None
      /\ UNCHANGED <<zeros, core, buffer, B, miss, extend, sum, extended, product, result,
                     round>>
  BY DEF FirstChild
<1>2. A.block \in SUBSET Block /\ None \in Matrix /\ None.block = {}
  BY DEF Types, Matrix, None
<1>3. \/ /\ allocated' = allocated \ A.block /\ pc' = "secondChild"
         /\ UNCHANGED <<queue, buffered, buffer_idx>>
      \/ /\ core = "build"
         /\ buffered' = buffered \cup A.block /\ buffer_idx' = buffer_idx + 1
         /\ pc' = IF Full(buffer_idx') THEN "firstCommit" ELSE "secondChild"
         /\ Enqueue("main", A.block, A.block) \/ UNCHANGED queue
         /\ UNCHANGED allocated
  BY <1>1 DEF Child
<1>4. /\ queue' \in [Stream -> Seq(Work)] /\ queue'["associate"] = queue["associate"]
  <2>1. Enqueue("main", A.block, A.block) =>
          queue' \in [Stream -> Seq(Work)] /\ queue'["associate"] = queue["associate"]
    BY <1>2, EnqueueKeeps, StreamsAre
  <2> QED
    BY <1>3, <2>1 DEF Types
<1>5. pc' \in {"firstCommit", "secondChild"} /\ pc' \in Steps
  BY <1>3 DEF Steps
<1>6. OnStream("main")' = OnStream("main") /\ OnStream("associate")' = OnStream("associate")
  BY <1>1 DEF OnStream
<1>7. Types'
  BY <1>1, <1>2, <1>3, <1>4, <1>5 DEF Types
<1>8. Owned' /\ Apart'
  BY <1>1, <1>2, <1>3, <1>6 DEF Owned, Apart
<1>9. Exists' /\ Pointers'
  BY <1>1, <1>3, <1>5 DEF Exists, Pointers
<1>10. Room'
  <2>1. buffer_idx \in 0..BufferSize /\ buffer_idx < BufferSize
    BY <1>1 DEF Room
  <2> QED
    BY <1>3, <2>1, DeviceAssumption DEF Room, Full
<1>11. ASSUME zeros = FALSE PROVE Entries' /\ Ordered'
  BY <1>1, <1>4, <1>5, <1>11, EmptyTouches DEF Entries, Ordered
<1> QED
  BY <1>1, <1>7, <1>8, <1>9, <1>10, <1>11

LEMMA SecondChildKeeps ==
  ASSUME IInv, SecondChild
  PROVE  IInv'
<1> USE DEF IInv
<1>1. /\ pc = "secondChild" /\ Child(B, "secondCommit", "load")
      /\ A' = product /\ B' = None /\ product' = None
      /\ UNCHANGED <<zeros, core, buffer, miss, extend, sum, extended, result, round>>
  BY DEF SecondChild
<1>2. B.block \in SUBSET Block /\ None \in Matrix /\ None.block = {}
  BY DEF Types, Matrix, None
<1>3. \/ /\ allocated' = allocated \ B.block /\ pc' = "load"
         /\ UNCHANGED <<queue, buffered, buffer_idx>>
      \/ /\ core = "build"
         /\ buffered' = buffered \cup B.block /\ buffer_idx' = buffer_idx + 1
         /\ pc' = IF Full(buffer_idx') THEN "secondCommit" ELSE "load"
         /\ Enqueue("main", B.block, B.block) \/ UNCHANGED queue
         /\ UNCHANGED allocated
  BY <1>1 DEF Child
<1>4. /\ queue' \in [Stream -> Seq(Work)] /\ queue'["associate"] = queue["associate"]
  <2>1. Enqueue("main", B.block, B.block) =>
          queue' \in [Stream -> Seq(Work)] /\ queue'["associate"] = queue["associate"]
    BY <1>2, EnqueueKeeps, StreamsAre
  <2> QED
    BY <1>3, <2>1 DEF Types
<1>5. pc' \in {"secondCommit", "load"} /\ pc' \in Steps
  BY <1>3 DEF Steps
<1>6. OnStream("main")' = OnStream("main") /\ OnStream("associate")' = OnStream("associate")
  BY <1>1 DEF OnStream
<1>7. Types'
  BY <1>1, <1>2, <1>3, <1>4, <1>5 DEF Types
<1>8. Owned' /\ Apart'
  BY <1>1, <1>2, <1>3, <1>6 DEF Owned, Apart, Exists
<1>9. Exists' /\ Pointers'
  BY <1>1, <1>3, <1>5 DEF Exists, Pointers
<1>10. Room'
  <2>1. buffer_idx \in 0..BufferSize /\ buffer_idx < BufferSize
    BY <1>1 DEF Room
  <2> QED
    BY <1>3, <2>1, DeviceAssumption DEF Room, Full
<1>11. ASSUME zeros = FALSE PROVE Entries' /\ Ordered'
  BY <1>1, <1>4, <1>5, <1>11, EmptyTouches DEF Entries, Ordered
<1> QED
  BY <1>1, <1>7, <1>8, <1>9, <1>10, <1>11

LEMMA CommitKeeps ==
  ASSUME IInv, Commit
  PROVE  IInv'
<1> USE DEF IInv
<1>1. /\ pc \in {"firstCommit", "secondCommit"}
      /\ pc' = IF pc = "firstCommit" THEN "secondChild" ELSE "load"
      /\ allocated' = allocated \ buffered
      /\ buffered' = {} /\ buffer_idx' = 0
      /\ UNCHANGED <<zeros, core, queue, buffer, A, B, miss, extend, sum, extended, product,
                     result, round>>
  BY DEF Commit
<1>2. Types'
  BY <1>1 DEF Types, Steps
<1>3. OnStream("main")' = OnStream("main") /\ OnStream("associate")' = OnStream("associate")
  BY <1>1 DEF OnStream
<1>4. Owned' /\ Apart'
  BY <1>1, <1>3 DEF Owned, Apart
<1>5. Exists' /\ Pointers'
  BY <1>1 DEF Exists, Pointers
<1>6. Room'
  BY <1>1, DeviceAssumption DEF Room
<1>7. ASSUME zeros = FALSE PROVE Entries' /\ Ordered'
  BY <1>1, <1>7, EmptyTouches DEF Entries, Ordered
<1> QED
  BY <1>1, <1>2, <1>4, <1>5, <1>6, <1>7

LEMMA EndBuildKeeps ==
  ASSUME IInv, EndBuild
  PROVE  IInv'
<1> USE DEF IInv
<1>1. /\ pc = "load" /\ core = "build" /\ pc' = "idle" /\ core' = "none"
      /\ allocated' = allocated \ (A.block \cup buffered \cup buffer["buffer1"]
                                     \cup buffer["buffer2"])
      /\ A' = None /\ buffered' = {} /\ buffer_idx' = 0
      /\ UNCHANGED <<zeros, queue, B, miss, extend, sum, extended, product, result, round>>
  BY BuffersAre DEF EndBuild
<1>2. /\ buffer' \in [Scratch -> SUBSET Block]
      /\ buffer'["buffer1"] = {} /\ buffer'["buffer2"] = {}
      /\ None \in Matrix /\ None.block = {}
  BY StreamsAre DEF EndBuild, None, Matrix
<1>3. Types'
  BY <1>1, <1>2 DEF Types, Steps
<1>4. OnStream("main")' = OnStream("main") /\ OnStream("associate")' = OnStream("associate")
  BY <1>1 DEF OnStream
<1>5. /\ B' = B /\ product' = product /\ B.block = {} /\ product.block = {}
      /\ A'.block = {} /\ OnStream("main") = {} /\ OnStream("associate") = {}
  BY <1>1, <1>2 DEF Exists, OnStream
<1>6. Owned' /\ Apart' /\ Exists' /\ Pointers'
  <2>1. /\ allocated = A.block \cup buffered \cup result \cup buffer["buffer1"]
                         \cup buffer["buffer2"]
        /\ result \cap (A.block \cup buffered \cup buffer["buffer1"]
                        \cup buffer["buffer2"]) = {}
    BY <1>5 DEF Owned, Apart
  <2>2. allocated' = result
    BY <1>1, <2>1
  <2>3. Owned' /\ Apart'
    BY <1>1, <1>2, <1>4, <1>5, <2>2 DEF Owned, Apart
  <2>4. Exists' /\ Pointers'
    BY <1>1, <1>2 DEF Exists, Pointers
  <2> QED
    BY <2>3, <2>4
<1>7. Room'
  BY <1>1, DeviceAssumption DEF Room
<1>8. ASSUME zeros = FALSE PROVE Entries' /\ Ordered'
  BY <1>1, <1>8, EmptyTouches DEF Entries, Ordered
<1> QED
  BY <1>1, <1>3, <1>6, <1>7, <1>8

LEMMA EndQueryKeeps ==
  ASSUME IInv, EndQuery
  PROVE  IInv'
<1> USE DEF IInv
<1>1. /\ pc = "load" /\ core = "query" /\ pc' = "idle" /\ result = {}
      /\ result' = A.block /\ A' = None
      /\ UNCHANGED <<zeros, core, queue, allocated, buffer, B, miss, extend, sum, extended,
                     product, buffered, buffer_idx, round>>
  BY DEF EndQuery, Exists
<1>2. None \in Matrix /\ None.block = {} /\ A.block \in SUBSET Block
  BY DEF Types, None, Matrix
<1>3. Types'
  BY <1>1, <1>2 DEF Types, Steps
<1>4. OnStream("main")' = OnStream("main") /\ OnStream("associate")' = OnStream("associate")
  BY <1>1 DEF OnStream
<1>5. Owned' /\ Apart'
  BY <1>1, <1>2, <1>4 DEF Owned, Apart
<1>6. Exists' /\ Pointers' /\ Room'
  BY <1>1 DEF Exists, Pointers, Room
<1>7. ASSUME zeros = FALSE PROVE Entries' /\ Ordered'
  BY <1>1, <1>7, EmptyTouches DEF Entries, Ordered
<1> QED
  BY <1>1, <1>3, <1>5, <1>6, <1>7

LEMMA QueryDiesKeeps ==
  ASSUME IInv, QueryDies
  PROVE  IInv'
<1> USE DEF IInv
<1>1. /\ pc = "load" /\ core = "query" /\ pc' = "idle" /\ core' = "none"
      /\ allocated' = {}
      /\ A' = None /\ result' = {}
      /\ UNCHANGED <<zeros, B, miss, extend, sum, extended, product, buffered, buffer_idx,
                     round>>
  BY DEF QueryDies
<1>2. /\ buffer' \in [Scratch -> SUBSET Block] /\ queue' \in [Stream -> Seq(Work)]
      /\ buffer'["buffer1"] = {} /\ buffer'["buffer2"] = {} /\ queue'["associate"] = <<>>
      /\ None \in Matrix /\ None.block = {}
  BY StreamsAre DEF QueryDies, None, Matrix
<1>3. Types'
  BY <1>1, <1>2 DEF Types, Steps
<1>4. OnStream("main")' = OnStream("main") /\ OnStream("associate")' = OnStream("associate")
  BY <1>1 DEF OnStream
<1>5. /\ A'.block = {} /\ B'.block = {} /\ product'.block = {} /\ buffered' = {}
      /\ OnStream("main") = {} /\ OnStream("associate") = {}
  BY <1>1, <1>2 DEF Exists, OnStream
<1>6. Owned' /\ Apart'
  BY <1>1, <1>2, <1>4, <1>5 DEF Owned, Apart
<1>7. Exists' /\ Pointers' /\ Room'
  BY <1>1, <1>2 DEF Exists, Pointers, Room
<1>8. ASSUME zeros = FALSE PROVE Entries' /\ Ordered'
  BY <1>1, <1>2, EmptyTouches DEF Entries, Ordered
<1> QED
  BY <1>1, <1>3, <1>6, <1>7, <1>8

LEMMA DeleteResultKeeps ==
  ASSUME IInv, DeleteResult
  PROVE  IInv'
<1> USE DEF IInv
<1>1. /\ pc = "idle" /\ allocated' = allocated \ result /\ result' = {}
      /\ UNCHANGED <<zeros, core, pc, queue, buffer, A, B, miss, extend, sum, extended, product,
                     buffered, buffer_idx, round>>
  BY DEF DeleteResult
<1>2. Types'
  BY <1>1 DEF Types, Steps
<1>3. OnStream("main")' = OnStream("main") /\ OnStream("associate")' = OnStream("associate")
  BY <1>1 DEF OnStream
<1>4. Owned' /\ Apart'
  BY <1>1, <1>3 DEF Owned, Apart
<1>5. Exists' /\ Pointers' /\ Room'
  BY <1>1 DEF Exists, Pointers, Room
<1>6. ASSUME zeros = FALSE PROVE Entries' /\ Ordered'
  BY <1>1, <1>6, EmptyTouches DEF Entries, Ordered
<1> QED
  BY <1>1, <1>2, <1>4, <1>5, <1>6

LEMMA DestructKeeps ==
  ASSUME IInv, Destruct
  PROVE  IInv'
<1> USE DEF IInv
<1>1. /\ pc = "idle" /\ core = "query" /\ core' = "none"
      /\ allocated' = allocated \ (buffer["buffer1"] \cup buffer["buffer2"])
      /\ UNCHANGED <<zeros, pc, queue, A, B, miss, extend, sum, extended, product,
                     buffered, buffer_idx, result, round>>
  BY BuffersAre DEF Destruct
<1>2. /\ buffer' \in [Scratch -> SUBSET Block]
      /\ buffer'["buffer1"] = {} /\ buffer'["buffer2"] = {}
  BY StreamsAre DEF Destruct
<1>3. Types'
  BY <1>1, <1>2 DEF Types, Steps
<1>4. OnStream("main")' = OnStream("main") /\ OnStream("associate")' = OnStream("associate")
  BY <1>1 DEF OnStream
<1>5. Owned' /\ Apart'
  <2>1. allocated' = A.block \cup B.block \cup product.block \cup buffered \cup result
                       \cup OnStream("main") \cup OnStream("associate")
    BY <1>1 DEF Owned, Apart
  <2> QED
    BY <1>1, <1>2, <1>4, <2>1 DEF Owned, Apart
<1>6. Exists' /\ Pointers' /\ Room'
  BY <1>1, <1>2 DEF Exists, Pointers, Room
<1>7. ASSUME zeros = FALSE PROVE Entries' /\ Ordered'
  BY <1>1, <1>7, EmptyTouches DEF Entries, Ordered
<1> QED
  BY <1>1, <1>3, <1>5, <1>6, <1>7
-----------------------------------------------------------------------------
(* Every step, and what follows *)

LEMMA NextIInv == IInv /\ [Next]_deviceVars => IInv'
<1> SUFFICES ASSUME IInv, [Next]_deviceVars PROVE IInv'
  OBVIOUS
<1>1. CASE UNCHANGED deviceVars
  <2>1. UNCHANGED <<zeros, core, pc, queue, allocated, buffer, A, B, miss, extend, sum, extended,
                    product, buffered, buffer_idx, result, round>>
    BY <1>1 DEF deviceVars
  <2>2. Types' /\ Owned' /\ Apart'
    BY <2>1 DEF IInv, Types, Owned, Apart, OnStream
  <2>3. Exists' /\ Pointers' /\ Room'
    BY <2>1 DEF IInv, Exists, Pointers, Points, Operand, Room
  <2>4. zeros = FALSE => Entries' /\ Ordered'
    BY <2>1 DEF IInv, Entries, Ordered, OfMain, OfAssociate, OnStream
  <2> QED
    BY <2>1, <2>2, <2>3, <2>4 DEF IInv
<1>2. ASSUME NEW s \in Stream, Finish(s) PROVE IInv'
  BY <1>2, FinishKeeps
<1>3. CASE Construct \/ LoadFirst \/ LoadSecond
  BY <1>3, ConstructKeeps, LoadFirstKeeps, LoadSecondKeeps
<1>4. CASE DiagonalA \/ AddA \/ DiagonalB \/ AddB
  BY <1>4, DiagonalAKeeps, AddAKeeps, DiagonalBKeeps, AddBKeeps
<1>5. CASE Multiply \/ Release
  BY <1>5, MultiplyKeeps, ReleaseKeeps
<1>6. CASE FirstChild \/ SecondChild \/ Commit
  BY <1>6, FirstChildKeeps, SecondChildKeeps, CommitKeeps
<1>7. CASE EndBuild \/ EndQuery \/ QueryDies
  BY <1>7, EndBuildKeeps, EndQueryKeeps, QueryDiesKeeps
<1>8. CASE DeleteResult \/ Destruct
  BY <1>8, DeleteResultKeeps, DestructKeeps
<1> QED
  BY <1>1, <1>2, <1>3, <1>4, <1>5, <1>6, <1>7, <1>8 DEF Next

LEMMA Inductive == Spec => []IInv
  BY InitIInv, NextIInv, PTL DEF Spec

(* However many products are made and rows stored, the buffer of a         *)
(* transaction never counts more rows than it has room for: after each     *)
(* child that is stored, a full buffer is committed (FMQuery's callers).   *)
THEOREM DeviceTypeOK == Spec => []TypeOK
<1>1. IInv => TypeOK
  <2> SUFFICES ASSUME IInv PROVE TypeOK
    OBVIOUS
  <2>1. \A s \in Stream : /\ queue[s] \in Seq(Work) /\ miss[s] \in BOOLEAN
                          /\ extend[s] \subseteq Block /\ sum[s] \subseteq Block
                          /\ extended[s] \in {"operand", "extend", "sum"}
    BY DEF IInv, Types
  <2>2. \A t \in Scratch : buffer[t] \subseteq Block
    BY DEF IInv, Types
  <2> QED
    BY <2>1, <2>2 DEF IInv, Types, Steps, Room, TypeOK
<1> QED
  BY <1>1, Inductive, PTL

(* Where every matrix has entries, what the two streams may run at the     *)
(* same time touches no common block that either writes, whatever memory   *)
(* the allocator gives out and whenever a scratch buffer is too small: the *)
(* two sync() calls of AlignAndMultiply are enough, because add on the     *)
(* associate stream has buffer2 for its own and what it frees waits for    *)
(* that stream; nothing is asked of the order in which freed memory is     *)
(* given out again.                                                        *)
THEOREM StreamsNeverRace == Spec => []NoRace
<1>1. IInv => NoRace
  <2> SUFFICES ASSUME IInv, zeros = FALSE,
                      NEW v \in Range(queue["main"]), NEW w \in Range(queue["associate"])
               PROVE  Conflict(v, w) = {}
    BY DEF NoRace, IInv, Types
  <2>1. Ordered /\ Apart /\ Types
    BY DEF IInv
  <2>2. queue["main"] \in Seq(Work) /\ queue["associate"] \in Seq(Work)
    BY <2>1, StreamsAre DEF Types
  <2>3. PICK i \in 1..Len(queue["main"]) : v = queue["main"][i]
    BY <2>2 DEF Range
  <2>4. PICK j \in 1..Len(queue["associate"]) : w = queue["associate"][j]
    BY <2>2 DEF Range
  <2>5. pc \in {"addB", "multiply"}
    BY <2>1, <2>4 DEF Ordered
  <2>6. v.reads \cup v.writes \subseteq OfMain
    BY <2>1, <2>3, <2>5 DEF Ordered, Touches
  <2>7. w.reads \cup w.writes \subseteq OfAssociate
    BY <2>1, <2>4 DEF Ordered, Touches
  <2>8. OfMain \cap OfAssociate = {}
    BY <2>1 DEF Apart, OfMain, OfAssociate
  <2> QED
    BY <2>6, <2>7, <2>8 DEF Conflict
<1> QED
  BY <1>1, Inductive, PTL

(* Whatever was missing from the operands and whichever of them had        *)
(* entries, the four tests of AlignAndMultiply free its temporaries and    *)
(* nothing of its caller, and the objects deleted are exactly those that   *)
(* add created: at any time, what is allocated is what the program still   *)
(* points to.                                                              *)
THEOREM MemoryIsReturned == Spec => []NoLeak
<1>1. IInv => NoLeak
  <2> SUFFICES ASSUME IInv PROVE NoLeak
    OBVIOUS
  <2>1. allocated = InUse
    BY BuffersAre DEF IInv, Owned, InUse
  <2>2. ASSUME pc = "release", NEW s \in Stream
        PROVE  Deleted(s) <=> extended[s] = "sum"
    <3>1. Points(s)
      BY <2>2, StreamsAre DEF IInv, Pointers
    <3> QED
      BY <3>1 DEF Points, Deleted
  <2> QED
    BY <2>1, <2>2 DEF NoLeak
<1> QED
  BY <1>1, Inductive, PTL
=============================================================================
