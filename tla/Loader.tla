------------------------------- MODULE Loader -------------------------------
(***************************************************************************)
(* The programs that fill a database: TraceLoader, from the files of a     *)
(* recorded trace, at the level of bytes or of bits, and TraceGenerator,   *)
(* from instructions of its own.  Each has three tables to fill: syscalls, *)
(* variables and rows.  A program may be killed between two steps and run  *)
(* again; what its open transaction holds is then lost.                    *)
(***************************************************************************)
EXTENDS TaintRule

CONSTANTS
  Traces,   \* the traces that may have been recorded
  Batch,    \* the loader commits before each instruction id it divides; 1000
  Stray,    \* bound: what the memory behind the list of syscalls may hold
  MaxRuns   \* bound: how often a program is started

(* A trace: its instructions in order, with the bytes and the addresses    *)
(* that each refers to; its syscalls in order; every address, ascending.   *)
Instr == [raw : STRING, mem_ref_addr : Seq(Nat)]
Syscall == [instr_id : Nat, id : STRING, rvalue : Nat \cup {-1}, nargs : Nat,
            args : Seq(Nat \cup {-1})]
Trace == [instrs : Seq(Instr), syscalls : Seq(Syscall), mem_refs : Seq(Nat)]

(* A syscall that takes a buffer has three arguments or more, and the      *)
(* buffer is above the ids of n syscalls.                                  *)
LikeRecorded(s, n) ==
  /\ get_syscall_buffer(s) => s.nargs = Len(s.args) /\ s.nargs >= 3
  /\ HasBuffer(s) => buffer_base(s) > SyscallBase + n

ASSUME LoaderAssumption ==
  /\ Batch \in Nat \ {0} /\ MaxRuns \in Nat
  /\ Traces \subseteq Trace /\ Stray \subseteq Syscall
  /\ \A t \in Traces :
       /\ Len(t.instrs) > 0
       /\ \A j, k \in DOMAIN t.syscalls : j < k => t.syscalls[j].instr_id < t.syscalls[k].instr_id
       /\ \A i \in 1..Len(t.mem_refs) - 1 : t.mem_refs[i] < t.mem_refs[i + 1]
       /\ \A i \in DOMAIN t.instrs : Range(t.instrs[i].mem_ref_addr) \subseteq Range(t.mem_refs)
       \* Addresses are above the ids of registers and syscalls, and one more.
       /\ \A i \in DOMAIN t.mem_refs : t.mem_refs[i] > SyscallBase + Len(t.syscalls) + 1
       /\ \A j \in DOMAIN t.syscalls : LikeRecorded(t.syscalls[j], Len(t.syscalls))
       /\ \A s \in Stray : LikeRecorded(s, Len(t.syscalls))

VARIABLES
  trace,        \* what was recorded
  pc,           \* what the running program is about to do, or how it ended
  target,       \* the name of the tables it fills
  vstate,
  syscall_list, \* the syscalls read so far
  syscall_idx,
  instr_id,     \* the next instruction
  pending,      \* the rows of the open transaction, by instruction
  tables,       \* what the database holds
  runs          \* how often a program was started

vars == <<trace, pc, target, vstate, syscall_list, syscall_idx, instr_id, pending,
          tables, runs>>

(* The loader appends "_bit" to the name of a trace it loads as bits.      *)
Names == {"trace", "trace_bit", "forged"}
GranuOf(name) == IF name = "trace_bit" THEN "bit" ELSE "byte"

(* TraceGenerator's rawbytes_list and memrefs.                             *)
forgeInstr == [i \in 1..3 |->
  [raw |-> <<"xor rdx, rdx", "mov rbx, rdx", "mov rcx, rbx">>[i], mem_ref_addr |-> <<>>]]

InstrsOf(name) == IF name = "forged" THEN forgeInstr ELSE trace.instrs
MemRefsOf(name) == IF name = "forged" THEN <<>> ELSE trace.mem_refs
SyscallsOf(name) == IF name = "forged" THEN <<>> ELSE trace.syscalls

NoTables == [sys |-> <<>>, vstate |-> <<>>, rows |-> <<>>]
NoVState == [granu |-> "byte", size |-> 0, id2offset |-> <<>>, offset2id |-> <<>>]
Stopped == {"idle", "done", "aborted"}

TypeOK ==
  /\ trace \in Traces
  /\ pc \in Stopped \cup {"syscalls", "vstate", "rules"}
  /\ target \in Names
  /\ DOMAIN vstate = {"granu", "size", "id2offset", "offset2id"}
  /\ Range(vstate.id2offset) \subseteq 0..vstate.size - 1 /\ CrossCheck(vstate)
  /\ syscall_idx \in 1..Len(trace.syscalls) + 1
  /\ instr_id \in 1..Len(InstrsOf(target)) + 1
  /\ DOMAIN pending \subseteq DOMAIN InstrsOf(target)
  /\ DOMAIN tables = Names
  /\ runs \in 0..MaxRuns

Init ==
  /\ trace \in Traces
  /\ pc = "idle" /\ target = "trace"
  /\ vstate = NoVState
  /\ syscall_list = <<>> /\ syscall_idx = 1 /\ instr_id = 1 /\ pending = <<>>
  /\ tables = [n \in Names |-> NoTables]
  /\ runs = 0

-----------------------------------------------------------------------------
(* Both programs begin with the registers and create missing tables.       *)
Start ==
  /\ pc \in Stopped /\ runs < MaxRuns
  /\ runs' = runs + 1
  /\ \E name \in Names :
       /\ target' = name
       /\ vstate' = init_reg_state(GranuOf(name))
  /\ pc' = "syscalls"
  /\ syscall_list' = <<>> /\ syscall_idx' = 1 /\ instr_id' = 1 /\ pending' = <<>>
  /\ UNCHANGED <<trace, tables>>

(* A syscall gets its variable and its row, which is committed at once.    *)
StoreSyscall ==
  LET next == Len(syscall_list) + 1
  IN  /\ pc = "syscalls" /\ next <= Len(SyscallsOf(target))
      /\ LET this_syscall == SyscallsOf(target)[next]
         IN  /\ syscall_list' = Append(syscall_list, this_syscall)
             /\ vstate' = append(vstate, next + SyscallBase, 1)
             /\ tables' = [tables EXCEPT ![target].sys =
                             IF \E i \in DOMAIN @ : @[i].instr_id = this_syscall.instr_id
                             THEN @ ELSE Append(@, this_syscall)]
      /\ UNCHANGED <<trace, pc, target, syscall_idx, instr_id, pending, runs>>

(* Every byte of memory is a variable.                                     *)
WithMemory(vs, mem_refs) == appendAll(vs, mem_refs, [i \in 1..Len(mem_refs) |-> 8])

PrepareVState ==
  /\ pc = "syscalls" /\ Len(syscall_list) = Len(SyscallsOf(target))
  /\ vstate' = WithMemory(vstate, MemRefsOf(target))
  /\ pc' = "vstate"
  /\ UNCHANGED <<trace, target, syscall_list, syscall_idx, instr_id, pending, tables, runs>>

(* A variable ends where the next one starts.                              *)
SizeAt(vs, start) ==
  LET later == {o \in DOMAIN vs.offset2id : o > start}
  IN  (IF later = {} THEN vs.size ELSE Min(later)) - start

(* One transaction.                                                        *)
StoreVState ==
  /\ pc = "vstate"
  /\ tables' = [tables EXCEPT ![target].vstate =
       [start \in DOMAIN @ \cup DOMAIN vstate.offset2id |->
          IF start \in DOMAIN @ THEN @[start]
          ELSE [size |-> SizeAt(vstate, start), id |-> vstate.offset2id[start]]]]
  /\ pc' = "rules"
  /\ UNCHANGED <<trace, target, vstate, syscall_list, syscall_idx, instr_id, pending, runs>>

-----------------------------------------------------------------------------
(* The loop over the instructions *)

(* syscall_list is filled from 0 and read from 1: the first syscall is     *)
(* never found, and after the last one the memory behind the list is read. *)
NoSyscall == [instr_id |-> 0, id |-> "none", rvalue |-> 0, nargs |-> 0, args |-> <<>>]
Elements ==
  LET next == syscall_idx + 1
  IN  IF next <= Len(syscall_list) THEN {syscall_list[next]}
      ELSE {NoSyscall} \cup (IF syscall_list = <<>> THEN {} ELSE Stray)

(* A slip: every syscall is given the variable of the first.               *)
RowOf_OneVariable(instr, this_syscall) ==
  IF this_syscall.instr_id = instr_id /\ HasBuffer(this_syscall)
  THEN SyscallRow(this_syscall, vstate.id2offset[1 + SyscallBase], vstate)
  ELSE IF loadRule(instr.raw)
  THEN FMRule(Rules[instr.raw], instr.mem_ref_addr, vstate)
  ELSE Row({}, {})

(* The row of the current instruction; a syscall is given the variable     *)
(* with the id syscall_idx + 0x1000, and the loader dies if there is none. *)
RowOf(instr, this_syscall) ==
  LET found == this_syscall.instr_id = instr_id
      id == syscall_idx + SyscallBase
  IN  IF found /\ id \notin DOMAIN vstate.id2offset THEN Abort
      ELSE IF found /\ HasBuffer(this_syscall)
      THEN SyscallRow(this_syscall, vstate.id2offset[id], vstate)
      ELSE IF loadRule(instr.raw)
      THEN FMRule(Rules[instr.raw], instr.mem_ref_addr, vstate)
      ELSE Row({}, {})

(* INSERT OR IGNORE: the first row of an instruction stays.               *)
Merged(name, rows) ==
  [tables EXCEPT ![name].rows =
     [i \in DOMAIN @ \cup DOMAIN rows |-> IF i \in DOMAIN @ THEN @[i] ELSE rows[i]]]

(* A slip: the row is stored before the batch is committed.                *)
LoadInstr_StoresFirst ==
  /\ pc = "rules" /\ target # "forged" /\ instr_id <= Len(trace.instrs)
  /\ \E this_syscall \in Elements :
       LET made == RowOf(trace.instrs[instr_id], this_syscall)
           commits == instr_id % Batch = 0
           all == Override(pending, instr_id, made.row)
       IN  /\ IF made.die
              THEN /\ pc' = "aborted"
                   /\ pending' = <<>> /\ UNCHANGED <<syscall_idx, instr_id>>
              ELSE /\ pending' = IF commits THEN <<>> ELSE all
                   /\ syscall_idx' = IF this_syscall.instr_id = instr_id
                                     THEN syscall_idx + 1 ELSE syscall_idx
                   /\ instr_id' = instr_id + 1
                   /\ UNCHANGED pc
           /\ tables' = IF commits THEN Merged(target, all) ELSE tables
  /\ UNCHANGED <<trace, target, vstate, syscall_list, runs>>

(* One instruction of TraceLoader.                                         *)
LoadInstr ==
  LET commits == instr_id % Batch = 0
  IN  /\ pc = "rules" /\ target # "forged" /\ instr_id <= Len(trace.instrs)
      /\ tables' = IF commits THEN Merged(target, pending) ELSE tables
      /\ \E this_syscall \in Elements :
           LET made == RowOf(trace.instrs[instr_id], this_syscall)
           IN  IF made.die
               THEN /\ pc' = "aborted" /\ pending' = <<>>
                    /\ UNCHANGED <<syscall_idx, instr_id>>
               ELSE /\ pending' = Override(IF commits THEN <<>> ELSE pending, instr_id, made.row)
                    /\ syscall_idx' = IF this_syscall.instr_id = instr_id
                                      THEN syscall_idx + 1 ELSE syscall_idx
                    /\ instr_id' = instr_id + 1
                    /\ UNCHANGED pc
      /\ UNCHANGED <<trace, target, vstate, syscall_list, runs>>

(* The last EndTransaction.                                                *)
EndTransaction ==
  /\ pc = "rules" /\ target # "forged" /\ instr_id > Len(trace.instrs)
  /\ tables' = Merged(target, pending)
  /\ pending' = <<>>
  /\ pc' = "done"
  /\ UNCHANGED <<trace, target, vstate, syscall_list, syscall_idx, instr_id, runs>>

(* One instruction of TraceGenerator, which uses no transactions.          *)
ForgeInstr ==
  LET made == IF loadRule(forgeInstr[instr_id].raw)
              THEN FMRule(Rules[forgeInstr[instr_id].raw], <<>>, vstate) ELSE Row({}, {})
  IN  /\ pc = "rules" /\ target = "forged"
      /\ IF made.die
         THEN pc' = "aborted" /\ UNCHANGED <<instr_id, tables>>
         ELSE /\ tables' = Merged(target, [i \in {instr_id} |-> made.row])
              /\ instr_id' = instr_id + 1
              /\ pc' = IF instr_id = Len(forgeInstr) THEN "done" ELSE pc
      /\ UNCHANGED <<trace, target, vstate, syscall_list, syscall_idx, pending, runs>>

Kill ==
  /\ pc \notin Stopped
  /\ pc' = "idle"
  /\ pending' = <<>>
  /\ UNCHANGED <<trace, target, vstate, syscall_list, syscall_idx, instr_id, tables, runs>>

Next == \/ Start \/ StoreSyscall \/ PrepareVState \/ StoreVState
        \/ LoadInstr \/ EndTransaction \/ ForgeInstr \/ Kill

Spec == Init /\ [][Next]_vars

-----------------------------------------------------------------------------
(* What readers of the tables do *)

(* GetOffsetName: the variables that own an index; it dies of none and     *)
(* asserts that there is one.                                              *)
OwnersOf(name, index) ==
  {start \in DOMAIN tables[name].vstate :
     /\ start <= index
     /\ start + tables[name].vstate[start].size > index}

(* GetSyscallsByname finds the instructions of a syscall, and              *)
(* GetInfluenceRangeByInstrIdx the indices of an instruction.              *)
Rowed(name) == DOMAIN tables[name].rows

-----------------------------------------------------------------------------
(* Properties *)

(* WholeBatches: whoever reads the database meets a whole number of        *)
(* batches of a trace, or all of it: never a trace with a gap, and never   *)
(* part of a batch, even after kills and reloads (CacheSound of the query  *)
(* tree needs the first).  A load that ends by itself leaves the whole     *)
(* trace, whatever was killed before: every syscall once and in order,     *)
(* every variable, and a row for every instruction.                        *)
WholeBatches ==
  /\ \A name \in {"trace", "trace_bit"} :
       \E last \in 0..Len(trace.instrs) :
         /\ Rowed(name) = 1..last
         /\ last \in {0, Len(trace.instrs)} \/ (last + 1) % Batch = 0
  /\ pc = "done" =>
       /\ tables[target].sys = SyscallsOf(target)
       /\ DOMAIN tables[target].vstate = DOMAIN vstate.offset2id
       /\ Rowed(target) = DOMAIN InstrsOf(target)

(* NamesResolve: every index that a stored row speaks of has exactly one   *)
(* name, so that GetOffsetName neither dies nor fails its assertion, and   *)
(* no row has a flow between indices it does not override: what the        *)
(* products of rows rely on.                                               *)
NamesResolve ==
  \A name \in Names : \A i \in Rowed(name) :
    LET row == tables[name].rows[i]
    IN  /\ \A index \in row.valid : Cardinality(OwnersOf(name, index)) = 1
        /\ row.flows \subseteq row.valid \X row.valid

(* What NamesResolve takes of a trace: the bytes of a value in memory are  *)
(* variables, and the last of all variables is not a value of one byte,    *)
(* as the bits of a single byte are put on two variables.                  *)
RoomForOperands(t) ==
  \A i \in DOMAIN t.instrs, p \in DOMAIN t.mem_refs :
    LET instr == t.instrs[i]
    IN  loadRule(instr.raw) /\ t.mem_refs[p] \in Range(instr.mem_ref_addr) =>
          \A memVal \in Range(Rules[instr.raw].mems) : isMemValue(memVal) =>
            p + GetSizeWithinGranu(getMemSize(memVal) * 8 - 1, "byte") <= Len(t.mem_refs)

(* The variables of syscalls that the row of an instruction overrides.     *)
HookedBy(name, i) ==
  LET ids == {tables[name].vstate[start].id :
                start \in UNION {OwnersOf(name, x) : x \in tables[name].rows[i].valid}}
  IN  {id \in ids : SyscallBase < id /\ id <= SyscallBase + Len(trace.syscalls)}

(* SyscallsApart: no two instructions share the variable of a syscall:     *)
(* what reaches it in one row cannot leave it in another that belongs to   *)
(* another syscall; and from the second syscall on, each that has a buffer *)
(* and a row has a variable.  The last variable is that of no syscall: the *)
(* loader gives it to what it reads behind its list, which may differ from *)
(* one load to the next.                                                   *)
SyscallsApart ==
  LET last == SyscallBase + Len(trace.syscalls)
  IN  \A name \in {"trace", "trace_bit"} :
        /\ \A i, j \in Rowed(name) :
             i # j => HookedBy(name, i) \cap HookedBy(name, j) \subseteq {last}
        /\ \A k \in 2..Len(trace.syscalls) :
             LET s == trace.syscalls[k]
             IN  HasBuffer(s) /\ s.instr_id \in Rowed(name)
                   => HookedBy(name, s.instr_id) \ {last} # {}

(* SyscallsAreHooked: every syscall with a buffer has a row that overrides *)
(* the variable of a syscall: the path that the loader marks "Not a        *)
(* syscall" is taken only by what is none.                                 *)
SyscallsAreHooked ==
  \A k \in DOMAIN trace.syscalls :
    LET s == trace.syscalls[k]
    IN  HasBuffer(s) /\ s.instr_id \in Rowed("trace") => HookedBy("trace", s.instr_id) # {}

=============================================================================
