# A TLA+ model of FlowMatrix

FlowMatrix answers questions of the form "does information flow from
instruction *i* to instruction *j* of this execution trace?".  Every instruction
is a sparse matrix over the variables of the trace (registers, bytes of memory,
system calls); the flow of a range of instructions is the product of their
matrices; products are computed over a binary tree of ranges and cached in the
SQLite table that holds the trace.  This directory models the whole way of a
trace, from the tracer's files through the loader, the table and the query tree
to the answer of a question, checks it with TLC and proves its main properties
with TLAPS.

All paths below are relative to the repository.

## 1. Inventory

| Component | Code | State | Operations | Correct when |
|---|---|---|---|---|
| Query tree | `FMDynamic/src/FMQuery.cpp` | the C stack of two recursions, matrices in device memory | `BuildTree`, `Query`, `RecursiveBuildSubTree`, `RecursiveQuerySubTree`, `AlignAndMultiply` | every row and answer is the flow of its range, whatever other processes do |
| Database layer, matrices | `FMDynamic/src/DBCore.cpp` | a buffer of 32 rows waiting for a transaction | `LoadToDevice`, `StoreFromDevice`, `Store`, `Commit` | the cache stays closed downwards; nothing is stored twice |
| SQLite connections | `DBCore.cpp`, all of its callers | three connections per process, unfinished statements, file locks | constructor, destructor, every `sqlite3_step` | nobody waits; a lock is refused only because of another process; a refused commit is noticed |
| Device memory and streams | `FMCuSparseLinAlg`, `FMQuery.cpp:40-185` | device arrays, two CUDA streams, two scratch buffers per core | `add`, `spgemm`, `setMainDiagonal`, `toCoo`, `freeDeviceMem`, `sync` | no race between streams, no leak |
| TraceLoader, trace generator | `FMDynamic/src/TraceLoader` | position in the trace, list of syscalls, an open transaction | syscalls, variables, one row per instruction, a commit every 1000 | readers meet whole batches; a killed load can be repeated |
| Taint rules, syscall hooks | `FMRule.cpp`, `ProtoRuleDB.cpp`, `SyscallHook.hpp` | one rule's matrix and "valid indices" | constructor, `getSuperSet`, `get_syscall_buffer` | rows speak only of variables of the trace |
| Variables, instruction set | `libFlowMatrix/src/VState.cpp`, `isa.cpp` | the map between variables and matrix indices | `init_reg_state`, `append` | ids and indices correspond |
| Host matrices | `libFlowMatrix/src/matrix_base.cpp` | three arrays and a format flag | `to_csr`, `to_coo` | a matrix keeps its entries |
| Trace files | `trace/FMtrace` | three files, each with a buffer of 8192 frames | create, write, flush, load, read, close | a reader gets a prefix of what was written |
| Command line | `FMDynamic/src/QueryCLI` | a global connection, a query with its own, names, settings, the last result | `SetDB`, `WorkOn`, `PrepareQuery`, `Query`, ...; `Worker` builds one range and exits | names and flows come from one trace; an answer has exactly the flows asked for |
| CLI library | `FMDynamic/include/cli` | menus, history | reads lines and calls commands | vendored, not modelled |

**How they interact.**  The tracer writes trace files; the TraceLoader reads
them and commits one row per instruction, in transactions.  `PrepareQuery`
opens a connection of its own, runs the build recursion and closes it, which
commits what is left in its buffer.  `Query` runs the query recursion on the
connection of the `FMQuery` object; where a covered node is not cached it runs
the build recursion from there, with the layer (29) at which nothing is stored.
Worker processes run builds on the same database file.  Processes share the
table, and with it SQLite's locks; FlowMatrix installs no busy handler, so a
lock that is refused is an error, and every error exits.

**What is hard here.**

- Builds and queries of several processes interleave on one table: a node's
  left child may be read before, and its right child after, another process
  committed half of the tree.  A wrong row is never corrected, because rows are
  only ever inserted, and an existing key is ignored.
- A process that dies loses up to 31 products that were computed but not
  committed, while rows above or below them may already be in the table.
- The recursions pass a child through when its sibling contributes nothing,
  *with* its "came from the database" flag; the flag decides what is stored.
- The two recursions split ranges at the largest power of two below their
  length, so the halves are uneven, and the query recursion descends only into
  the halves its target overlaps; the edges of all of this are off-by-one land.
- A row means more than its entries: outside its valid indices it is the
  identity.  A row with no entries may be "no effect" or "clears variables".
- `LoadToDevice` returns for a row without entries before it finalizes its
  SELECT, so that locks outlive the commands that took them.
- The command line keeps its state in globals that commands replace one at a
  time; the last result outlives its question.
- Kernels and copies are only enqueued; two streams are ordered by two calls of
  `sync()`, and memory is freed while work that uses it may still be queued.
  Both streams use scratch buffers of the core, which are freed and allocated
  anew whenever one is too small.  Which temporaries of a product exist, and
  which of them are freed, is decided in different places by different tests.
- Programs are killed in the middle of a frame, a transaction or a build, and
  are started again on what they left.

What makes each component correct is stated as the hazards of `PROJECT.json`,
each with the properties that would catch it.

## 2. Modules

    DataFlow ------ FlowService          (abstract: no cache at all)
       |    \            ^
       |     \           | INSTANCE, refinement
       |      FlowTree --+
       |         |
       |      FlowTreeInvariant --- MCFlowTree
       |         \--- FlowTreeProofs
    Question --- MCQuestion
       \--- QuestionProofs

    Variables --- TaintRule --- Loader --- MCLoader
                                  \--- LoaderProofs
    SuperSet --- MCArrays --- (INSTANCE) Sparse
                    \--- ArrayProofs
    Connections --- ConnectionsProofs
    Session --- MCSession
        \--- SessionProofs
    TraceFile --- MCTraceFile        Device --- MCDevice
        \--- TraceFileProofs             \--- DeviceProofs

One module stands for each component; what one takes for granted of another is
a property of the other.  `FlowTree` takes a range within the trace for granted
(`SpanInTrace` of `Session`), rules that arrive as a prefix (`WholeBatches` of
`Loader`), with flows only between valid indices (`NamesResolve` of `Loader`),
stores that are committed or end the process (`LossIsBounded` of
`Connections`), unions of index sets that are right (`MergeRight` of
`SuperSet`), and products whose operands are complete (`NoRace` of `Device`).
`Question` takes the answers of the tree from `DataFlow` (`AnswerSound` of
`FlowTree`).  `Loader` takes the frames it reads for a prefix of the recording
(`ReadsPrefix` of `TraceFile`).

**`DataFlow`** is the algebra.  A `Row` is what the database holds (entries
`m`, valid indices `v`); a `Matrix` is a row in memory with the state of its
pointers (`null`, `device`) and the `fromDB` flag.  `Extend`, `getSuperSet`,
`AlignAndMultiply` and `Invalid` follow the code.  `Meaning` turns a row into
the relation it stands for, and `Flow(l, r)` is the reference: *x* flows to *y*
across `l..r` if some path of variables follows every instruction.  It is
defined by paths, not by products, so it shares nothing with what it judges.

**`FlowTree`** is the core.

| Variable | Code |
|---|---|
| `db` | the table of the trace |
| `loaded` | how far the TraceLoader has committed |
| `mode[p]`, `level[p]`, `span[p]`, `target[p]` | the call a process is in, with `num_not_stored_layer`, the range of the tree and the range asked for |
| `stack[p]` | the C stack: one frame per activation of either recursion, with its program counter, the results of its two calls and its own |
| `buffer[p]` | `transaction_buffer` of the connection the call uses |
| `outcome[p]`, `reply[p]` | how the last call ended and what it returned |

`StartBuild` and `StartQuery` are calls of `BuildTree` and `Query`; `LoadNode`
is the look-up, `OverlapNode` the fall-through of a node that is not covered;
`CallLeft` ... `ReturnRight` the two recursive calls; `Join` the tests for
invalid children and the product; `StoreLeft`, `StoreRight`, `StoreRoot` the
stores, each of which may commit a full buffer; `CloseDB` the destructor that
commits the rest.  `CommitRules` is the TraceLoader.  `Crash` kills a process
at any point of a call, and `Abort` is an assertion or NULL dereference the
code reaches.  One action is what happens between two accesses to the shared
table (or between a call and its return), so every interleaving that can be
observed is there.

**`FlowService`** says what an analyst is promised: a question about `l..r`,
within what is loaded, is answered with `Flow(l, r)` or not at all.  It knows no
cache, no buffers and no tree.

**`FlowTreeInvariant`** holds the inductive invariants `IInv` and `CInv`
(section 5).

**`Connections`** is the locks.  A process has the connections `db`, `query`
and `build`; `conn[p][s]` says whether one is open, has statements that were
never finalized and was left on a row with a SHARED lock, and `leaked[p]` that
a pointer to such a connection was dropped.  `StartStatement` and
`LoadToDevice` are the two ends of a look-up, `Opened` the end of a
constructor, `BeginCommit`, `EndCommit` and `Committed` the three steps of
`Commit` at which SQLite takes RESERVED, takes EXCLUSIVE and releases.
`InitQueryRange`, `Query`, `MultiplyTwo` and `Start` are the commands, `Die` is
the `DIE` macro, `Crash` a kill.

**`Session`** is the command line between its prompts: one action per command.
`db`, `query` and `lastResult` are pointers, modelled as sets of at most one
object; a command that uses a NULL pointer, or runs SQL on a table that is not
there, ends the program.  `tables` are the traces of each file (a constructor
creates missing ones), `built` the ranges whose trees were built.

**`Question`** is what happens inside one question: `Ask` tests the arguments,
`ParseWord` looks up one word of a list, `Select` ends the parsing, `Pair`
asks the tree for one source and sink and filters the flows, `Skip` is a sink
before its source, `Throw` the exceptions.  `heap` and `lastResult` track the
matrix that is kept for the command `LastResult`.

**`Variables`**, **`TaintRule`**, **`Loader`** are the way from a recorded trace
to the tables: `append` gives a variable its run of indices; `FMRule` places a
rule on the variables an instruction refers to, register by register and
operand by operand, and `SyscallRow` ties a syscall's buffer and arguments to
its variable; the actions of `Loader` are `Start`, `StoreSyscall`,
`PrepareVState`, `StoreVState`, `LoadInstr` (with the commit of every batch),
`EndTransaction`, `ForgeInstr` (the trace generator) and `Kill`.  `Elements` is
what the loader finds when it looks for the next syscall: an element of its list
or, behind the end, no syscall or one of `Stray`.

**`TraceFile`** is the three files of a recording, with the handle's buffer,
stdio's buffer and the file apart, half a frame at a time.

**`Device`** is one thread's use of the GPU.  `Construct`, `Destruct`,
`EndBuild` and `QueryDies` begin and end a `CuSparseCore`; in between the host
walks through `AlignAndMultiply` and its callers, enqueueing work that reads and
writes blocks of memory, and `Finish` lets a stream complete its oldest work.
`add` uses `buffer1` on the main stream and `buffer2` on the associate one,
`spgemm` uses `buffer1` or both; `Compute` frees and allocates any of the
buffers used before it enqueues the kernel.  `Release` frees what the four tests
of `FMQuery.cpp:171-186` select and then what the destructors of the locals
`matA_extend` and `matB_extend` find.  The root of a query stays on the device
and belongs to the command line (`result`) until `DeleteResult`.

**`SuperSet`** is `FMRule::getSuperSet`, pass by pass, and **`Sparse`** the
conversions of a host matrix between COO and CSR.

Definitions whose name has a suffix after an underscore and whose comment
begins with "A slip" are variants of the definition that follows them, with a
plausible mistake; no specification uses them.  They are listed under
`mutants` in `PROJECT.json`, and each makes the property it is listed with fail.

## 3. What is abstracted

- *Values are positions.*  Every entry of a rule is `1.0` (`FMRule.cpp:190`),
  all entries are non-negative, sums and products do not cancel, and a query
  reports an entry when it is above a threshold.  A matrix is the set of
  positions of its entries.  Products so long that a float underflows, and the
  threshold itself, are left out.
- *Formats.*  `FlowTree` and `Question` leave out COO, CSR, device and host
  copies, except for the one thing the control flow depends on: whether a
  matrix has device arrays.  `Sparse` has the formats.
- *Memory.*  `FlowTree` tracks only NULL results, because they are
  dereferenced.  `Device` has allocation and streams and leaves out what the
  matrices contain: a matrix is the block its arrays live in, and whether it
  has entries.  A scratch buffer may be too small at any use, whatever its size
  was.
- *Behind the list of syscalls.*  What the loader reads there is no syscall, or
  is like a recorded one: it has the arguments of its prototype and a buffer
  above the ids of syscalls, which the program may or may not have touched
  (`LikeRecorded`).  Other garbage is not considered.  Dereferencing `end()` of
  the map of variables (`TraceLoader.cpp:171-174`) gives what libstdc++ gives,
  the number of variables, at which the assertions fail.
- *SQLite.*  In `FlowTree` a transaction is atomic, a process reads what others
  have committed, and a commit that is refused is a `Crash` (it exits,
  `DBCore.cpp:453-460`).  `Connections` has the locks, of the rollback-journal
  mode that is SQLite's default, and leaves out what is read and stored.
- *Registers.*  `Variables` has the registers of the default configuration and
  those the rules of the instances name, not the whole of `isa.cpp`.
- *Trace files.*  The file system keeps what it accepted, the disk does not
  fill up, and a file at whose end a reader has been stays at its end (`fread`
  keeps the end-of-file state).  The tracer itself is external; it uses the
  handles as `trace.hpp` offers them.
- *Words.*  A word of a question is one of five kinds (number, mnemonic, name,
  name with brackets, garbled); patterns with `*` are names here.
- *Environment.*  A query or a build is for a range within the trace as loaded
  when it starts: the CLI tests it (`QueryCLI.cpp:152`), and a Worker is given
  such a range.  A `Query` outside of its tree exits the program
  (`FMQuery.cpp:467`) and changes nothing; it is not an action.  The trace has
  at most 2^29 instructions (`TreeAssumption`), the height above which layer 29
  would store rows.  `RemoveAllCachedRules` is not reachable from any menu.
  The rules of an instruction are never rewritten: the loader inserts with
  `INSERT OR IGNORE`.

## 4. What TLC checks

| Run | Instance | Shows |
|---|---|---|
| `cache` | two processes, five instructions, trees over `1..5` and `2..5`, target `2..4`, buffers of two rows, layers 0 and 1, crashes at any step; process symmetry | `CacheSound`, `AnswerSound`: rows and answers are the flows of their ranges. `BufferedOnce`: no product is written twice and no instruction's row is written by a build. `CacheClosed`: whatever crashed, the children of a cached node are cached if they are at a layer to store. `BuiltIsCached`: a build that returned left its root in the table |
| `single` | one process, every span and target of a five-instruction trace in which one instruction is missing and one has no rule, loaded in up to three steps, layers "all" and "none" | `TypeOK`, `FramesOverlapTarget`, `DepthLogarithmic`, `QueryReadOnly`, and `IInv`, the inductive invariant of the proofs |
| `service` | two processes, trees over `1..4` and `2..4`, target `2..3`, all products stored, buffers of two rows, rules committed and processes killed at any step | `ImplementsService` (refinement of `FlowService`) and `CallsReturn`: every call ends, whatever the other process and the loader commit between its steps |
| `empty` | one process, every span and target of a four-instruction trace whose products become empty | *violated*: `QueriesAnswered`, see section 6 |
| `locks` | a session and a Worker on a file with or without rows without entries; buffer of two, three stores, one look-up per command; kills at any step | `LossIsBounded`: a build that returned has written all it stored, any other loses one transaction at most. `RefusedByOthers`: a lock is refused only while another process is in a command, unless the file has rows without entries. `CommandsEnd` |
| `session` | two files with a trace of the same name and different lengths, a name that is in neither, ranges of up to two instructions, every order of commands | `OneTrace`: flows and names of an answer come from one trace. `DbFollowsPath`, `SpanInTrace`, `PreparedIsBuilt` |
| `load` | three traces: rules for registers and memory with a lost address, syscalls that read, write, map, fail and have no buffer; as bytes and as bits; batches of two; three starts, kills at any step; behind the list of syscalls may lie one that matches an instruction, with a buffer, without, or with one that was never touched | `WholeBatches`, `NamesResolve`, `SyscallsApart` |
| `hook` | a trace with a single syscall | *violated*: `SyscallsAreHooked`, see section 6 |
| `questions` | six instructions, one without a row; some forty questions of all forms, legal and illegal | `AnswerIsTrue`: the records are the flows asked for, pair by pair, and no others. `MatricesFreed`, `QuestionsEnd` |
| `files` | three instruction frames, one syscall, one memory reference, buffers of two frames; the tracer may be killed and may start over, the reader may read meanwhile | `ReadsPrefix`, `WholeWhenClosed`, `ReadingEnds` |
| `memory` | twelve blocks, three products in a row, a transaction buffer of two; every pattern of missing indices, with and without matrices without entries; scratch buffers that grow at any use | `NoRace` (matrices with entries): work that may run on both streams at once shares no memory that either writes, scratch buffers included. `NoLeak`: at every step, what is allocated is what the program points to, and the tests for freeing agree with those for allocating |
| `arrays` | all pairs of ascending arrays over five indices; all matrices of up to three rows and two columns | `MergeRight`, `ArraysFit`; `SameEntries` |

**Why these bounds are enough to be interesting.**  A range of five splits into
4 + 1, 2 + 2, 1 + 1: it has nodes at three levels, uneven splits, and both
shapes of overlap.  A buffer of two rows is filled in the middle of a build
(the code's 32 would never fill on five instructions), so that commits fall
between the stores of siblings, and is left half full at the end.  The rules do
not commute: `copy`, `swap`, `mix` and rows that clear a variable are chosen so
that a product in the wrong order, of the wrong range or with a factor missing
has another meaning.  Two processes are enough for every pairwise interleaving
of builds and queries, and of locks: SQLite's locks are refused by one other
holder as well as by several.  In `locks` three stores are a full transaction
and a rest.  In `session` two files are needed for a connection and a query to
differ, and a shared name for the difference to go unnoticed.  Three starts of
the loader are a kill, a kill of the repetition, and a load that ends.  Three
frames over a buffer of two are a full buffer and a rest, on both sides; half
frames are enough to cut one.  In `service` the two trees share the nodes `3..4`
and `4..4`, so each process can look up a row before and after the other stores
it.  The most that is allocated at once are two scratch buffers, two operands,
four temporaries, a product, the last result and the waiting rows of a full
buffer less one; twelve blocks hold that and leave one to give out.
With too few the model would deadlock, which is checked.  Three products are
enough to fill a buffer of two and for the memory of one product to be given to
the next.  Blocks are interchangeable; instead of the permutations of a symmetry
set, `memory` uses a view that counts how many blocks have each use, which
determines a state up to a permutation.

**Fairness.**  `FlowTree.FairSpec` asks for weak fairness of `Run(p)`, the code
that a process in a call is executing: it is a running thread, and SQLite and
CUDA calls return.  `Connections.FairSpec` asks the same of `Run(p)`, a command
that has been given: SQLite without a busy handler answers at once.
`Question.Spec` asks it of each step of a question, which is one thread's
straight code.  `TraceFile.Spec` asks it of `Read`: a program that has opened a
trace reads it to the end and closes it.  Nothing is assumed of users, of the
tracer, of the loader or of kills.

Deadlock is checked wherever the system can always be given something to do.
`load`, `hook` and `arrays` switch it off: a loader that has used its starts and
a merge that is done have come to their end.

## 5. What is proved

For every trace, set of variables, set of processes, set of layers, spans and
targets, every buffer size, every set of files and trace names, and whatever
commands are given:

| Theorem | Module | Statement |
|---|---|---|
| `AlignedProductComposes` | `FlowTreeProofs` | the product of two rows means the composition of what the two mean |
| `FlowSplits` | `FlowTreeProofs` | the flow of a range is the composition of the flows of its parts |
| `Invariance` | `FlowTreeProofs` | `Spec => []IInv` |
| `TypeCorrect`, `CacheIsSound`, `AnswersAreSound`, `CallsOverlapTarget` | `FlowTreeProofs` | the invariants of the runs |
| `DepthStaysLogarithmic` | `FlowTreeProofs` | the recursions are never deeper than their range is long in bits |
| `QueriesOnlyRead` | `FlowTreeProofs` | a query puts no row into its transaction buffer |
| `TreeImplementsService` | `FlowTreeProofs` | `Spec => ImplementsService` |
| `NodesAreBufferedOnce` | `FlowTreeProofs` | a build buffers no product twice and no instruction's row |
| `CacheStaysClosed` | `FlowTreeProofs` | whatever crashed, the children of a cached node are cached if they are at a layer to store |
| `BuiltStaysCached` | `FlowTreeProofs` | a build that returned left its root in the table |
| `AnswersStayValid` | `FlowTreeProofs` | an answer speaks of exactly the variables of the rules of its range |
| `MergeTypeOK`, `MergeIsRight` | `ArrayProofs` | `getSuperSet` keeps its cursors in range, and all it writes is made of indices it has read; it returns the union and the differences, for ascending arrays of every length |
| `ArraysAlwaysFit` | `ArrayProofs` | the arrays it allocates between its passes are never overrun and are full in the end |
| `ConversionsKeepEntries` | `ArrayProofs` | conversions between COO and CSR, in any order and of a matrix of any size, keep its entries and the form of its arrays |
| `ConnectionsTypeOK`, `LossStaysBounded` | `ConnectionsProofs` | a build that returns has committed every row it stored; one that is killed or refused has lost at most one transaction |
| `RefusalsHaveCauses` | `ConnectionsProofs` | a lock is refused only while another process is in a command, unless the file holds rows without entries |
| `AnswersOfOneTrace` | `SessionProofs` | flows and names of an answer come from the same trace of the same file |
| `ConnectionFollowsPath` | `SessionProofs` | the global connection is open exactly when a path is set, and on that path |
| `SpansStayInTrace` | `SessionProofs` | the range of every query lies within its trace, which is what `FlowTree` takes for granted |
| `DoneMeansBuilt` | `SessionProofs` | after "Done.", with one process allowed, the tree of the query has been built |
| `SessionTypeOK` | `SessionProofs` | the globals keep their types; each pointer is to one object at most |
| `QuestionTypeOK`, `AnswersAreTrue` | `QuestionProofs` | the records of a well-formed question are, pair by pair, the flows between what its words select, and no others |
| `MatricesAreFreed` | `QuestionProofs` | at the prompt only the last result is allocated, however the question ended |
| `BatchesStayWhole` | `LoaderProofs` | wherever loads are killed and however often repeated, readers meet whole batches; a load that ends leaves the whole trace |
| `LoaderTypeOK` | `LoaderProofs` | a `VState` is a one-to-one map within its size; counters stay in range |
| `NamesAlwaysResolve` | `LoaderProofs` | where operands have room among the variables, every index of a stored row has exactly one name, and flows are between overridden indices |
| `SyscallsStayApart` | `LoaderProofs` | no two instructions share the variable of a recorded syscall, whatever lies behind the list; from the second on, each syscall with a buffer and a row has one |
| `DeviceTypeOK`, `StreamsNeverRace` | `DeviceProofs` | the transaction buffer never overflows; where matrices have entries, the two streams never touch a block that either writes, scratch buffers included and whenever these grow |
| `MemoryIsReturned` | `DeviceProofs` | at every step, what is allocated is what the program points to: the four tests of `AlignAndMultiply` free its temporaries and nothing of its caller, and the objects deleted are exactly those that `add` created |
| `TraceFileTypeOK`, `ReadsStayPrefix` | `TraceFileProofs` | what a reader gets is a prefix of what was written, and whole at the end of a file |
| `ClosedIsWhole` | `TraceFileProofs` | when the tracer has closed its trace, every frame is in its file and every buffer was deleted once |

**The argument.**  `CacheSound` alone is not inductive: what is stored next is
in a buffer, or is the result of a frame that has not returned.  `IInv` says of
every frame what it has accounted for at its program counter: the *share* of a
range is the part of it inside the target, a frame past its left call holds the
flow of the left share, and so on; a frame that waits is waiting for exactly
the call above it; rows in buffers are as sound as rows in the table; a row
never reaches past what is loaded, and every loaded rule is there (without
this, a missing row could not be read as "no effect").  The step from two
shares to the share of the node is `FlowSplits` at the split point, which lies
strictly inside the range (`MidInside`, from `HighestBit`), and the step from
matrices to relations is `AlignedProductComposes`, with `InvalidIsIdentity` for
the children that are passed through.

The refinement maps a query in progress to the question asked and an answered
one to the meaning of its reply; every other step is a stutter, a failure or a
load.

The depth is bounded although the halves are uneven: a half is at most a power
of two long, and that power is below the length of the node, so from the second
frame of a stack on, every frame at least halves a power of two (`Fits`).  A
query writes nothing because no range is longer than 1 << 29: no node is above
the layer a query builds with.

The cache stays closed because of an account that every build keeps (`CInv`):
what is wanted under a node is in the table or waits in the build's own buffer
when the result of that node is handed to its caller (`ResultOK`), and a buffer
reaches the table as a whole.  Two things need an argument.  A child whose
sibling contributes nothing takes the place of its parent, with its flag "came
from the database"; no row is missing because of it, as such a parent has no
product of its own (`Branching`).  And a row must not wait twice, or the second
would be dropped with rows that lean on it: what waits lies to the left of what
is still to be visited, or inside a part that has been finished (`NotDue`), and
the calls on a stack are for parts of each other (`Nested`).  The largest layer
any build uses stands for all of them (`CoarsestIsLargest`, from the
well-ordering of the layers).

The merge is right because everything that has been read of one array is below
everything that is unread of the other (`Below` in `ArrayProofs`): therefore
an element that is smaller than the other array's next one is missing from the
whole of the other array.  Its arrays fit because the number of shared indices
that are still unread, added to what a pass has found of them, never changes
(`Counted`): the first pass may stop when one array has been
read, as nothing is shared with an empty rest.

A conversion is right because the entries are sorted: those of the rows before a
given one are then the first entries (`InitialSegment`), so the pointer of a row
is at once their count and the place of the last of them, and the first row whose
end is behind an entry is its own (`PointersTellRows`).  That the arrays begin
sorted is counted out too: the ranks of `n` entries are the numbers below `n`,
each once (`RanksCount`).

No build loses more than a transaction because, while one runs, the rows it has
stored are those written and those buffered, and the buffer is written out
before it exceeds its size (`Books` in `ConnectionsProofs`).  A refusal needs
another process because a process outside its commands holds no lock (`Locks`),
the exception being the SELECTs that `LoadToDevice` leaves unfinished.  Both are
kept for the processes that do not move by one frame argument (`Kept`).

An answer is of one trace because the name in use, the global connection and the
query change together (`Together` in `SessionProofs`): the connection has the
path in use and the current name or none yet, and it agrees with the query
unless it has no name, in which state nothing can be read from it.

A question is answered truly because its two lists fill from the front: what has
been looked up, together with what the words still to come select, is what the
whole list selects (`Fills` in `QuestionProofs`), where a garbled word ends the
words for the code and for the meaning alike.  Once the pairs begin, the pairs
that are not left are those that have a record (`Recorded`), and between two of
them a single matrix is allocated (`Owned`).

Batches stay whole because the rows before the current instruction are in the
table or pending, and the pending ones lie before it (`RowsStored` in
`LoaderProofs`): a commit makes the table whole up to the current instruction, or
leaves it longer if an earlier load got further (`BatchIsWhole`).  The variables
are complete after a repetition because two loads of one trace grow the same
`VState` (`Complete`): a first difference would follow equal states and append
the same variable (`SmallestOf` gives the first one, in place of an induction).

What rows and names mean rests on where the variables are.  `append` keeps the
two maps of a `VState` each other's inverses (`Sound`), so registers, syscalls
and addresses lie one after another, each as wide as its kind (`AllInPlace`).
Two names that own one index would be two starts, each before the end of the
other (`OneOwns`); the largest start up to an index owns it (`SomeOwns`).
The operands of a rule are followed one by one (`OneByOne`): each puts its
bits on a register, or on its own bytes and the ones after them, and the
flows lie between places so found (`RuleRow`); no rule reaches the part where
syscalls have their variables (`Spots`).  The row of a syscall adds that
syscall's variable alone (`SyscallRowIs`).  That it belongs to one instruction
needs the walk of the loader: the syscalls up to `syscall_idx` are those before
the current instruction (`InStep`).  Where the memory behind the list matches an
instruction, its variable is the one after those the loader gives to syscalls of
its list, and a second match ends the load, as no further variable has such an
id (`MatchIs`, `NoSuchVariable`).  What lies there may be different in the next
load of the trace, so this last variable is excepted.  The invariant `JInv` joins these with what the tables hold (`GoodRow`,
`GoodNames`), and says of rows and names only what follows from the recording,
so that rows of an earlier load and names of a later one fit together.
`JInv` is kept only beside `IInv`, which makes the variables of two loads one.

Streams do not race because work on the associate stream exists only between
the two waits of `AlignAndMultiply`, when the main stream has none but that on
the left operand and `buffer1`, while its own is on the right operand and
`buffer2` (`Ordered` in `DeviceProofs`), and because every block in use belongs
to one matrix or buffer and to one only (`Owned`, `Apart`).  A buffer that grows
is freed at a point where its stream is idle (`Add`) or both are (`Multiply`);
what is given out instead is apart from all that is kept (`RenewedApart`).  No
memory is lost because a pointer to an extended operand is one to a sum exactly
when the test under which it is freed holds (`Points`), although that test looks
at the operand and at what it lacked, and not at the pointer.  The proof uses
nothing of the order in which the allocator gives out freed blocks.

A reader gets a prefix because of where the halves of the frames lie: those in
the file, then those in stdio's buffer, then those of the frames in the handle's
buffer, each in the place that its number gives it (`Numbered` in
`TraceFileProofs`), and because what the reader has taken is twice as many
halves as its position, with one to spare only at the end of the file
(`Follows`).  A buffer is deleted once because each handle is still to be closed
or has been (`Handles`).

**Assumptions.**  `TraceAssumption` (rules are rows over the variables, numbered
within `1..N`, with entries only between valid indices, as the constructor of
`FMRule` makes them: `NamesResolve`), `TreeAssumption` (section 3),
`IndexAssumption` (indices are integers), `ConnectionsAssumption` (no
process is both a command line and a worker; the sizes of a transaction and of
a build), `SessionAssumption` (files, trace names and their sizes),
`QuestionAssumption` (what can be typed; the syscalls of a trace in order of
their instructions), `LoaderAssumption` (the traces are records of the tracer:
instructions, syscalls in order, addresses in order, those of an instruction
among them; addresses and buffers lie above the ids of syscalls, 0x1000 plus
their number, and addresses above the next id too; what lies behind the list of
syscalls has such buffers, if any; syscalls that take a buffer have the three arguments or more of
their prototypes), `RuleAssumption` (rules
name registers and operands by numbers), `MatrixAssumption` (columns are finitely many integers),
`DeviceAssumption` (the blocks are finitely many; a transaction holds at least
one row) and `TraceFileAssumption` (a buffer holds at least one frame).  TLC
evaluates all assumptions in the runs.

`NamesAlwaysResolve` has a hypothesis of its own, `RoomForOperands`: the bytes
of a value in memory are variables, and a value of a single byte is not the last
of them.  It is no assumption of the module, as nothing in the loader ensures
it: at byte level bits 1 to 7 of a byte are put on the variable after it
(section 6).  `MCLoader` has TLC check that the traces of `load` meet it.
Without it the conclusion fails: of a trace of one instruction that moves a byte
to the only address, TLC finds a row with an index that has no name.  The other
theorems of `LoaderProofs` do not need it.

**How the invariants were found.**  Each inductive invariant was checked with
TLC as an invariant of the instance of a run before it was proved: `IInv` and
`CInv` of `FlowTree` on `single` and `cache`, those of `DeviceProofs`,
`TraceFileProofs` and `QuestionProofs` on `memory`, `files` and `questions`, `IInv`
and `JInv` of `LoaderProofs` on `load` (with the states of a `VState` computed
instead of quantified over), `Converted` of `ArrayProofs` on `arrays`.

**Only model-checked:** the liveness properties `CallsReturn`, `CommandsEnd`,
`QuestionsEnd` and `ReadingEnds`.  They rest on fairness and ENABLED, which the
prover does not handle.  What a recursive function computes (`appendAll`,
`OperandsOf`) is proved without an induction theorem: that its values exist, and
what they are, follows from the least position where it would fail
(`AppendAllChain`, `OperandsChain`).

## 6. Disagreements found

**A query that has no flow stops the program** (run `empty`).  `Query` converts
its result with `toCoo`, which asserts device arrays (`cuSparseMatrix.cu:176`),
before anyone looks at the number of entries.  A lone instruction that only
clears variables has none, and neither has a product that clears everything.
`FMQuery.cpp:279` expects empty products and warns of them, and the caller has
the answer for them: "does NOT affect" (`QueryCLI.cpp:671`).  A range without
any rule ends in the same place with a NULL pointer.

**The first syscall of a trace is not hooked** (run `hook`).  The list of
syscalls is filled from its first element (`TraceLoader.cpp:97-106`) and read
from its second (`int syscall_idx = 1`, line 132; line 148).  The first syscall
of every trace takes the path marked "Not a syscall" (line 288).  After the last
one, the element behind the end is read and, if it matches the instruction,
taken for a syscall: it gets the last variable, which belongs to no recorded
syscall.  Two loads of one trace may give it to two instructions, which is why
`SyscallsApart` excepts it.

The following were met while modelling.  The models do what the code does, and
no run of its own is kept for them.

- `LoadToDevice` returns for a row without entries before
  `sqlite3_finalize` (`DBCore.cpp:543`, `592`).  The SHARED lock stays, and the
  same session's next `PrepareQuery` is refused at its END TRANSACTION and
  exits.  `RefusedByOthers` names the exception.
- `WorkOn` looks for the name in use instead of the one asked for
  (`QueryCLI.cpp:92`): whether a name is found depends on earlier commands.
  Without a database it says so and uses the NULL pointer (line 103).
- `PrepareQuery` with a process limit above one forks, builds nothing and
  prints "Done." (`QueryCLI.cpp:183`, a TODO).
- A buffer that no instruction of the trace refers to fails the assertion at
  `TraceLoader.cpp:173`.
- The offset of a bit within a variable is computed with a function that rounds
  sizes up (`FMRule.cpp:93`, `157`): at byte level bits 1 to 7 of a byte are
  put on the variable after it; after the last variable there is none.
- The registers of a syscall row are at offsets in bytes (`TraceLoader.cpp:12`),
  also when a trace is loaded as bits, which then ends at an assertion.
- `GetVStateNameByID` narrows an id to a register number (`VState.cpp:255`).
- An instruction named by its index is not compared with the range of
  `QueryInRange` (`QueryCLI.cpp:356`).
- `README.md:128` asks for `INSTR call[53]`; brackets are parsed for syscalls
  only (`QueryCLI.cpp:335`).
- When an operand of a product has become empty, `AlignAndMultiply` does not
  wait for the other stream before it frees what that stream may still write
  (`FMQuery.cpp:123`, `171-180`).  `NoRace` is therefore stated for matrices
  with entries.
- `to_coo` refuses a matrix whose last row is empty, which its comment rules
  out (`matrix_base.cpp:52`).

## 7. Not modelled, and the plan

Left out:

- the CLI library under `include/cli`, which is vendored, and the CUDA kernels,
  which belong to a library;
- printing: `PrintOne`, `TracePrint` and the like are modelled as far as they
  open connections and can end the program (`Session`), `GetVStateNameByID` and
  `pp` not at all, except for the cross-check that `pp` makes;
- code that nothing calls: `RemoveAllCachedRules`, `AddSyscallsToSourceSinkSet`,
  `SetMemInfluence`, `GetSyscallId`, and the threads after the return of
  `BuildTree`;
- the tables of registers and syscalls, beyond what the instances use;
- the tracer, which is another program.

Next, in this order:

1. An abstract specification of the table, with atomic commits, that
   `Connections` implements and `FlowTree` starts from.
2. Several questions of one session on both modules, `Session` and `Question`.
