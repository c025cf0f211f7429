------------------------------ MODULE FlowTree ------------------------------
(***************************************************************************)
(* FlowMatrix's query tree.  A range of instructions is summarised by a    *)
(* binary tree of products that is computed on demand and cached in a      *)
(* table keyed by (start_pos, end_pos).  Several processes share the       *)
(* table: the TraceLoader that fills it with one row per instruction, and  *)
(* QueryCLI and Worker processes that run BuildTree and Query.  A process  *)
(* sees the rows others have committed; its own products wait in the       *)
(* transaction buffer of its DBCore.                                       *)
(*                                                                         *)
(* The recursions RecursiveBuildSubTree and RecursiveQuerySubTree run on   *)
(* an explicit stack of frames, one action between two accesses to the     *)
(* database or between a call and its return.                              *)
(***************************************************************************)
EXTENDS DataFlow

CONSTANTS
  Proc,        \* the processes that build and query
  Levels,      \* the num_not_stored_layer arguments given to BuildTree
  Spans,       \* the ranges FMQuery objects are made for
  Targets,     \* the ranges asked of Query
  BufferSize,  \* TRANSACTION_BUFFER_SIZE
  Batch        \* rules the TraceLoader commits at once (at most)

(* 1 << k, as an int *)
PowersOfTwo ==
  <<1, 2, 4, 8, 16, 32, 64, 128, 256, 512, 1024, 2048, 4096, 8192, 16384,
    32768, 65536, 131072, 262144, 524288, 1048576, 2097152, 4194304, 8388608,
    16777216, 33554432, 67108864, 134217728, 268435456, 536870912, 1073741824>>

ShiftOne(k) == PowersOfTwo[k + 1]

(* The layer a query builds with (29) is above the height of every tree.   *)
ASSUME TreeAssumption ==
  /\ N <= ShiftOne(29)
  /\ Levels \subseteq Int
  /\ Spans \subseteq Window /\ Targets \subseteq Window
  /\ BufferSize \in Nat \ {0}
  /\ Batch \in Nat \ {0}

VARIABLES
  db,      \* the table of the trace: a set of rows with their key
  loaded,  \* the TraceLoader has committed the rules of 1..loaded
  mode,    \* mode[p]: "idle", or the call p is inside of
  level,   \* level[p]: num_not_stored_layer
  span,    \* span[p]: the range of the whole tree, <<startPos, endPos>>
  target,  \* target[p]: the range asked for, <<target_start, target_end>>
  stack,   \* stack[p]: the frames of the recursion, outermost first
  buffer,  \* buffer[p]: transaction_buffer[0..buffer_idx-1]
  outcome, \* outcome[p]: how p's last call ended
  reply    \* reply[p]: the matrix p's last answered query returned

vars == <<db, loaded, mode, level, span, target, stack, buffer, outcome, reply>>

-----------------------------------------------------------------------------
(* The split of a range *)

(* The highest bit of a positive int.                                      *)
highestPowerOf2(x) ==
  IF x = 0 THEN 0
  ELSE ShiftOne(CHOOSE k \in 0..30 : ShiftOne(k) <= x /\ x < 2 * ShiftOne(k))

(* A slip: peel one instruction off instead of halving the range.          *)
Mid_Peels(left, right) == left + 1

Mid(left, right) == left + highestPowerOf2(right - left)

(* A slip: the layer is used as it was typed.                              *)
NotStoredLayer_Unclipped(l) == l

(* BuildTree clips the layer to 0..29; a negative one means "store none".  *)
NotStoredLayer(l) == IF l < 0 \/ l > 29 THEN 29 ELSE l

(* A slip: a query builds with the default layer of BuildTree.             *)
QueryLayer_Default == 0

QueryLayer == 29

StoresChildren(left, right, layer) == right - left + 1 > ShiftOne(layer)

StoresRoot(left, right, layer) == right - left + 1 > ShiftOne(layer + 1)

-----------------------------------------------------------------------------
(* Rows, frames and the types of the variables *)

DBRow == {r \in [left : 1..N, right : 1..N, m : SUBSET Pairs, v : SUBSET Vars] :
            r.m \subseteq r.v \X r.v}

Key(r) == <<r.left, r.right>>

KeyedRow(left, right, A) == [left |-> left, right |-> right, m |-> A.m, v |-> A.v]

(* op: the function; pc: where it is; lres and rres: what the calls on the *)
(* two children returned; res: what this call returns.                     *)
Frame == [op : {"build", "query"}, left : 1..N, right : 1..N,
          pc : {"load", "callLeft", "left", "callRight", "right", "join",
                "storeLeft", "storeRight", "done"},
          lres : Matrix, rres : Matrix, res : Matrix]

Call(op, left, right) ==
  [op |-> op, left |-> left, right |-> right, pc |-> "load",
   lres |-> NoMatrix, rres |-> NoMatrix, res |-> NoMatrix]

TypeOK ==
  /\ db \in SUBSET DBRow
  /\ loaded \in 0..N
  /\ mode \in [Proc -> {"idle", "build", "closing", "query"}]
  /\ level \in [Proc -> 0..29]
  /\ span \in [Proc -> Window]
  /\ target \in [Proc -> Window]
  /\ stack \in [Proc -> Seq(Frame)]
  /\ buffer \in [Proc -> Seq(DBRow)]
  /\ outcome \in [Proc -> {"none", "answered", "built", "aborted"}]
  /\ reply \in [Proc -> Matrix]

Init ==
  /\ db = {}
  /\ loaded = 0
  /\ mode = [p \in Proc |-> "idle"]
  /\ level = [p \in Proc |-> QueryLayer]
  /\ span = [p \in Proc |-> <<1, 1>>]
  /\ target = [p \in Proc |-> <<1, 1>>]
  /\ stack = [p \in Proc |-> <<>>]
  /\ buffer = [p \in Proc |-> <<>>]
  /\ outcome = [p \in Proc |-> "none"]
  /\ reply = [p \in Proc |-> NoMatrix]

-----------------------------------------------------------------------------
(* DBCore *)

Stored(left, right) == {r \in db : Key(r) = <<left, right>>}

(* INSERT OR IGNORE of a sequence of rows: a key keeps its first row.      *)
InsertOrIgnore(table, rows) ==
  table \cup
  {rows[i] : i \in {j \in 1..Len(rows) :
                      /\ \A r \in table : Key(r) # Key(rows[j])
                      /\ \A k \in 1..(j - 1) : Key(rows[k]) # Key(rows[j])}}

(* One transaction writes the buffered rows and the buffer is empty again.  *)
Commit(p, rows) ==
  /\ db' = InsertOrIgnore(db, rows)
  /\ buffer' = [buffer EXCEPT ![p] = <<>>]

(* A slip: a full buffer is emptied before it is committed.                *)
StoreFromDevice_Forgets(p, left, right, A) ==
  LET rows == Append(buffer[p], KeyedRow(left, right, A))
  IN  /\ buffer' = [buffer EXCEPT ![p] = IF Len(rows) >= BufferSize THEN <<>> ELSE rows]
      /\ UNCHANGED db

(* Append a row to the transaction buffer; a full buffer is committed.     *)
StoreFromDevice(p, left, right, A) ==
  LET rows == Append(buffer[p], KeyedRow(left, right, A))
  IN  IF Len(rows) >= BufferSize
      THEN Commit(p, rows)
      ELSE /\ buffer' = [buffer EXCEPT ![p] = rows]
           /\ UNCHANGED db

(* The transaction of the TraceLoader: the rules up to some instruction.   *)
CommitRules ==
  \E n \in (loaded + 1)..N :
    /\ n <= loaded + Batch
    /\ db' = db \cup {KeyedRow(i, i, Rules[i]) :
                         i \in ((loaded + 1)..n) \cap DOMAIN Rules}
    /\ loaded' = n
    /\ UNCHANGED <<mode, level, span, target, stack, buffer, outcome, reply>>

-----------------------------------------------------------------------------
(* The stack of frames *)

Top(p) == stack[p][Len(stack[p])]

SetTop(p, f) == stack' = [stack EXCEPT ![p][Len(stack[p])] = f]

(* The running call becomes f and calls g.                                 *)
CallFrom(p, f, g) ==
  stack' = [stack EXCEPT ![p] = Append([@ EXCEPT ![Len(@)] = f], g)]

Caller(p) == stack[p][Len(stack[p]) - 1]

(* The callee on top returns and its caller becomes f.                     *)
ReturnTo(p, f) ==
  stack' = [stack EXCEPT ![p] = Append(SubSeq(@, 1, Len(@) - 2), f)]

(* The call on top of p's stack is at pc.                                  *)
At(p, pc) == stack[p] # <<>> /\ Top(p).pc = pc

(* It has returned to a caller that is at pc.                              *)
Returned(p, pc) == At(p, "done") /\ Len(stack[p]) > 1 /\ Caller(p).pc = pc

(* The outermost call has returned.                                        *)
Finished(p) == At(p, "done") /\ Len(stack[p]) = 1

(* A slip: a node that sticks out of the target on the right is covered.   *)
Covered_LeftEdge(p, f) == target[p][1] <= f.left

Covered(p, f) == target[p][1] <= f.left /\ f.right <= target[p][2]

LeftChild(f) == Call(f.op, f.left, Mid(f.left, f.right) - 1)
RightChild(f) == Call(f.op, Mid(f.left, f.right), f.right)

(* Slips: an off-by-one at either edge of the target.                      *)
VisitsLeft_OneMore(p, f) == f.op = "build" \/ Mid(f.left, f.right) >= target[p][1]
VisitsRight_OneLess(p, f) == f.op = "build" \/ Mid(f.left, f.right) < target[p][2]

(* A query only descends into the children that overlap its target.        *)
VisitsLeft(p, f) == f.op = "build" \/ Mid(f.left, f.right) - 1 >= target[p][1]
VisitsRight(p, f) == f.op = "build" \/ Mid(f.left, f.right) <= target[p][2]

-----------------------------------------------------------------------------
(* The two recursions *)

(* A slip: a query that misses starts over instead of building the node.   *)
MissedNode_Retries(f) ==
  IF f.op = "build" THEN [f EXCEPT !.pc = "callLeft"] ELSE Call("query", f.left, f.right)

(* A build goes on with the children; a query calls a build of the node.   *)
MissedNode(f) ==
  IF f.op = "build" THEN [f EXCEPT !.pc = "callLeft"] ELSE Call("build", f.left, f.right)

(* A build and a covered node of a query look in the database first.       *)
LoadNode(p) ==
  /\ At(p, "load")
  /\ LET f == Top(p) IN
     /\ f.op = "build" \/ Covered(p, f)
     /\ \/ \E r \in Stored(f.left, f.right) :
             SetTop(p, [f EXCEPT !.pc = "done", !.res = LoadToDevice(r)])
        \/ /\ Stored(f.left, f.right) = {} /\ f.left = f.right
           /\ SetTop(p, [f EXCEPT !.pc = "done"])
        \/ /\ Stored(f.left, f.right) = {} /\ f.left < f.right
           /\ SetTop(p, MissedNode(f))
  /\ UNCHANGED <<db, loaded, mode, level, span, target, buffer, outcome, reply>>

OverlapNode(p) ==
  /\ At(p, "load")
  /\ Top(p).op = "query" /\ ~Covered(p, Top(p))
  /\ SetTop(p, [Top(p) EXCEPT !.pc = "callLeft"])
  /\ UNCHANGED <<db, loaded, mode, level, span, target, buffer, outcome, reply>>

CallLeft(p) ==
  /\ At(p, "callLeft")
  /\ LET f == Top(p) IN
       IF VisitsLeft(p, f)
       THEN CallFrom(p, [f EXCEPT !.pc = "left"], LeftChild(f))
       ELSE SetTop(p, [f EXCEPT !.pc = "callRight"])
  /\ UNCHANGED <<db, loaded, mode, level, span, target, buffer, outcome, reply>>

ReturnLeft(p) ==
  /\ Returned(p, "left")
  /\ ReturnTo(p, [Caller(p) EXCEPT !.pc = "callRight", !.lres = Top(p).res])
  /\ UNCHANGED <<db, loaded, mode, level, span, target, buffer, outcome, reply>>

CallRight(p) ==
  /\ At(p, "callRight")
  /\ LET f == Top(p) IN
       IF VisitsRight(p, f)
       THEN CallFrom(p, [f EXCEPT !.pc = "right"], RightChild(f))
       ELSE SetTop(p, [f EXCEPT !.pc = "join"])
  /\ UNCHANGED <<db, loaded, mode, level, span, target, buffer, outcome, reply>>

ReturnRight(p) ==
  /\ Returned(p, "right")
  /\ ReturnTo(p, [Caller(p) EXCEPT !.pc = "join", !.rres = Top(p).res])
  /\ UNCHANGED <<db, loaded, mode, level, span, target, buffer, outcome, reply>>

(* An invalid child contributes nothing: the other one, flag included, is  *)
(* the result.  A build still has to store or free the operands.           *)
Joined(f) ==
  CASE Invalid(f.lres) -> [f EXCEPT !.pc = "done", !.res = f.rres]
    [] ~Invalid(f.lres) /\ Invalid(f.rres) -> [f EXCEPT !.pc = "done", !.res = f.lres]
    [] OTHER -> [f EXCEPT !.pc = IF f.op = "build" THEN "storeLeft" ELSE "done",
                          !.res = AlignAndMultiply(f.lres, f.rres)]

Join(p) ==
  /\ At(p, "join")
  /\ SetTop(p, Joined(Top(p)))
  /\ UNCHANGED <<db, loaded, mode, level, span, target, buffer, outcome, reply>>

(* What came from the database is freed, the rest is stored if the layer   *)
(* of the node is one to store.                                            *)
StoreOrFree(p, left, right, A, stores) ==
  IF stores /\ ~A.fromDB
  THEN StoreFromDevice(p, left, right, A)
  ELSE UNCHANGED <<db, buffer>>

StoreLeft(p) ==
  /\ At(p, "storeLeft")
  /\ LET f == Top(p) IN
     /\ StoreOrFree(p, f.left, Mid(f.left, f.right) - 1, f.lres,
                    StoresChildren(f.left, f.right, level[p]))
     /\ SetTop(p, [f EXCEPT !.pc = "storeRight"])
  /\ UNCHANGED <<loaded, mode, level, span, target, outcome, reply>>

StoreRight(p) ==
  /\ At(p, "storeRight")
  /\ LET f == Top(p) IN
     /\ StoreOrFree(p, Mid(f.left, f.right), f.right, f.rres,
                    StoresChildren(f.left, f.right, level[p]))
     /\ SetTop(p, [f EXCEPT !.pc = "done"])
  /\ UNCHANGED <<loaded, mode, level, span, target, outcome, reply>>

-----------------------------------------------------------------------------
(* BuildTree and Query *)

(* InitQueryRange only accepts ranges up to GetTraceSize; a Worker is      *)
(* given such a range on its command line.                                 *)
InTrace(w) == w[1] <= w[2] /\ \E r \in db : r.left = r.right /\ w[2] <= r.left

StartBuild(p, w, l) ==
  /\ mode[p] = "idle"
  /\ InTrace(w)
  /\ mode' = [mode EXCEPT ![p] = "build"]
  /\ level' = [level EXCEPT ![p] = NotStoredLayer(l)]
  /\ span' = [span EXCEPT ![p] = w]
  /\ target' = [target EXCEPT ![p] = w]
  /\ stack' = [stack EXCEPT ![p] = <<Call("build", w[1], w[2])>>]
  /\ outcome' = [outcome EXCEPT ![p] = "none"]
  /\ UNCHANGED <<db, loaded, buffer, reply>>

(* The root is stored under a stricter test than its children, then the    *)
(* connection is closed, which commits what is left in the buffer.         *)
StoreRoot(p) ==
  /\ mode[p] = "build" /\ Finished(p) /\ ~Top(p).res.null
  /\ StoreOrFree(p, span[p][1], span[p][2], Top(p).res,
                 StoresRoot(span[p][1], span[p][2], level[p]))
  /\ stack' = [stack EXCEPT ![p] = <<>>]
  /\ mode' = [mode EXCEPT ![p] = "closing"]
  /\ UNCHANGED <<loaded, level, span, target, outcome, reply>>

(* A slip: the destructor closes the connection without a Commit.          *)
CloseDB_NoCommit(p) ==
  /\ mode[p] = "closing"
  /\ buffer' = [buffer EXCEPT ![p] = <<>>]
  /\ mode' = [mode EXCEPT ![p] = "idle"]
  /\ outcome' = [outcome EXCEPT ![p] = "built"]
  /\ UNCHANGED <<db, loaded, level, span, target, stack, reply>>

CloseDB(p) ==
  /\ mode[p] = "closing"
  /\ Commit(p, buffer[p])
  /\ mode' = [mode EXCEPT ![p] = "idle"]
  /\ outcome' = [outcome EXCEPT ![p] = "built"]
  /\ UNCHANGED <<loaded, level, span, target, stack, reply>>

StartQuery(p, w, t) ==
  /\ mode[p] = "idle"
  /\ InTrace(w)
  /\ w[1] <= t[1] /\ t[1] <= t[2] /\ t[2] <= w[2]
  /\ mode' = [mode EXCEPT ![p] = "query"]
  /\ level' = [level EXCEPT ![p] = QueryLayer]
  /\ span' = [span EXCEPT ![p] = w]
  /\ target' = [target EXCEPT ![p] = t]
  /\ stack' = [stack EXCEPT ![p] = <<Call("query", w[1], w[2])>>]
  /\ outcome' = [outcome EXCEPT ![p] = "none"]
  /\ UNCHANGED <<db, loaded, buffer, reply>>

(* Query converts the result and copies it to the host.                    *)
AnswerQuery(p) ==
  /\ mode[p] = "query" /\ Finished(p) /\ Top(p).res.device
  /\ reply' = [reply EXCEPT ![p] = Top(p).res]
  /\ stack' = [stack EXCEPT ![p] = <<>>]
  /\ mode' = [mode EXCEPT ![p] = "idle"]
  /\ outcome' = [outcome EXCEPT ![p] = "answered"]
  /\ UNCHANGED <<db, loaded, level, span, target, buffer>>

(* The process is gone with everything it held; it can be started again.   *)
Die(p, how) ==
  /\ mode' = [mode EXCEPT ![p] = "idle"]
  /\ level' = [level EXCEPT ![p] = QueryLayer]
  /\ span' = [span EXCEPT ![p] = <<1, 1>>]
  /\ target' = [target EXCEPT ![p] = <<1, 1>>]
  /\ stack' = [stack EXCEPT ![p] = <<>>]
  /\ buffer' = [buffer EXCEPT ![p] = <<>>]
  /\ outcome' = [outcome EXCEPT ![p] = how]
  /\ reply' = [reply EXCEPT ![p] = NoMatrix]
  /\ UNCHANGED <<db, loaded>>

(* A NULL root is dereferenced; toCoo asserts that a query's result has a  *)
(* device array, and toHost that its columns were allocated (which the     *)
(* CUDA allocator may refuse for an empty product).                        *)
Abort(p) ==
  /\ Finished(p)
  /\ \/ mode[p] = "build" /\ Top(p).res.null
     \/ mode[p] = "query" /\ Top(p).res.m = {}
  /\ Die(p, "aborted")

(* A kill, a busy database at a commit or any other exit.                  *)
Crash(p) == mode[p] # "idle" /\ Die(p, "none")

-----------------------------------------------------------------------------
(* One step of the code p is running *)
Run(p) ==
  \/ LoadNode(p) \/ OverlapNode(p)
  \/ CallLeft(p) \/ ReturnLeft(p) \/ CallRight(p) \/ ReturnRight(p)
  \/ Join(p) \/ StoreLeft(p) \/ StoreRight(p)
  \/ StoreRoot(p) \/ CloseDB(p)
  \/ AnswerQuery(p) \/ Abort(p)

Next ==
  \/ CommitRules
  \/ \E p \in Proc :
       \/ \E w \in Spans, l \in Levels : StartBuild(p, w, l)
       \/ \E w \in Spans, t \in Targets : StartQuery(p, w, t)
       \/ Run(p)
       \/ Crash(p)

Spec == Init /\ [][Next]_vars

(* A call that has been made keeps running; nothing makes a user call, a   *)
(* loader go on or a process crash.                                        *)
FairSpec == Spec /\ \A p \in Proc : WF_vars(Run(p))

-----------------------------------------------------------------------------
(* Properties *)

(* CacheSound: every row of the table is the flow of exactly the range it  *)
(* is stored under, whoever computed it, from whatever mix of cached rows, *)
(* and whoever crashed meanwhile (StoreFromDevice, Commit, LoadToDevice).  *)
CacheSound == \A r \in db : Meaning(r) = Flows[Key(r)]

(* AnswerSound: the matrix Query returns is the flow of the range asked.   *)
AnswerSound ==
  \A p \in Proc : outcome[p] = "answered" => Meaning(reply[p]) = Flows[target[p]]

(* FramesOverlapTarget: RecursiveQuerySubTree is never called on a range   *)
(* disjoint from its target, where it would fall through to the split.     *)
FramesOverlapTarget ==
  \A p \in Proc : \A k \in 1..Len(stack[p]) :
    stack[p][k].left <= target[p][2] /\ target[p][1] <= stack[p][k].right

(* DepthLogarithmic: the recursion is as deep as the range is long in bits *)
(* (highestPowerOf2 splits), so a long trace cannot exhaust the C stack.   *)
DepthLogarithmic ==
  \A p \in Proc : stack[p] # <<>> =>
    ShiftOne(Len(stack[p]) - 1) < 2 * (span[p][2] - span[p][1] + 1)

(* QueryReadOnly: a query never adds rows to the transaction buffer of its *)
(* connection (it builds missing nodes with layer 29).                     *)
QueryReadOnly == \A p \in Proc : mode[p] = "query" => buffer[p] = <<>>

(* BufferedOnce: a build computes a node at most once, and never writes a  *)
(* row for a single instruction: those belong to the TraceLoader.          *)
BufferedOnce ==
  \A p \in Proc : \A i \in 1..Len(buffer[p]) :
    /\ buffer[p][i].left < buffer[p][i].right
    /\ \A j \in 1..(i - 1) : Key(buffer[p][j]) # Key(buffer[p][i])

(* Some instruction of the range has a row with valid indices.             *)
HasFlow(left, right) ==
  \E i \in (left..right) \cap DOMAIN Rules : Rules[i].v # {}

(* The node's own product is computed: it is not passed through from the   *)
(* only child that has one.                                                *)
Branching(left, right) ==
  IF left = right THEN HasFlow(left, left)
  ELSE HasFlow(left, Mid(left, right) - 1) /\ HasFlow(Mid(left, right), right)

CoarsestLayer == CHOOSE l \in {NotStoredLayer(k) : k \in Levels} :
                   \A k \in Levels : NotStoredLayer(k) <= l

(* CacheClosed: under a cached node, whose children are at a layer every   *)
(* build stores, the children are cached too.  A query that descends below *)
(* a cached node then finds rows and multiplies only along its two edges;  *)
(* a crash or a full buffer between the stores must not break it.          *)
CacheClosed ==
  \A r \in db :
    /\ r.left < r.right /\ Branching(r.left, r.right)
    /\ StoresChildren(r.left, r.right, CoarsestLayer)
    => LET mid == Mid(r.left, r.right) IN
       /\ Branching(r.left, mid - 1) => Stored(r.left, mid - 1) # {}
       /\ Branching(mid, r.right) => Stored(mid, r.right) # {}

(* BuiltIsCached: once BuildTree has returned, the root of its tree is in  *)
(* the table, so with CacheClosed everything under it is (BuildSubTree and *)
(* the Commit of the destructor of DBCore).                                *)
BuiltIsCached ==
  \A p \in Proc :
    /\ outcome[p] = "built"
    /\ StoresRoot(span[p][1], span[p][2], level[p])
    /\ Branching(span[p][1], span[p][2])
    => Stored(span[p][1], span[p][2]) # {}

(* CallsReturn: every BuildTree and Query ends (the recursion terminates,  *)
(* whatever the others commit between its steps).                          *)
CallsReturn == \A p \in Proc : mode[p] # "idle" ~> mode[p] = "idle"

(* QueriesAnswered: no query on a legal range takes the program down.      *)
QueriesAnswered == \A p \in Proc : outcome[p] # "aborted"

-----------------------------------------------------------------------------
(* The cache is invisible: FlowTree implements FlowService.                *)
Asked == [p \in Proc |-> IF mode[p] = "query" THEN {target[p]} ELSE {}]
Told == [p \in Proc |-> IF outcome[p] = "answered" THEN {Meaning(reply[p])} ELSE {}]

Service == INSTANCE FlowService WITH asked <- Asked, told <- Told

(* ImplementsService: every step of builds, queries, commits and crashes   *)
(* is a step of FlowService or changes nothing an analyst can see.         *)
ImplementsService == Service!Spec
=============================================================================
