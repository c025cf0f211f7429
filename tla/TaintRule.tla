----------------------------- MODULE TaintRule -----------------------------
(***************************************************************************)
(* How an instruction of a trace becomes a row: a taint rule, written for  *)
(* the bits of the registers and memory operands that an instruction       *)
(* names, is placed on the variables of the trace (FMRule), or the buffer  *)
(* and the arguments of a syscall are tied to the syscall's variable       *)
(* (TraceLoader).  A row is a set of flows, pairs <<use, def>>, with the   *)
(* set of indices it overrides.                                            *)
(***************************************************************************)
EXTENDS Variables, FiniteSets, FiniteSetsExt

CONSTANT Rules   \* what the directory of rules holds: raw bytes -> rule

ProtoRule == [regs : Seq(Nat), mems : Seq(Nat), use_def : SUBSET (Nat \X Nat)]

ASSUME RuleAssumption == \A raw \in DOMAIN Rules : Rules[raw] \in ProtoRule

EmptyRow == [flows |-> {}, valid |-> {}]
Row(flows, valid) == [die |-> FALSE, row |-> [flows |-> flows, valid |-> valid]]
Abort == [die |-> TRUE, row |-> EmptyRow]

(* ProtoRuleDB: there may be no rule for the bytes.                        *)
loadRule(raw) == raw \in DOMAIN Rules

-----------------------------------------------------------------------------
(* FMRule's constructor *)

(* Bits 0..width-1 of the variable id, put at the positions from here on.  *)
Place(m, id, width, vs) ==
  LET at == [i \in m.current_offset .. m.current_offset + width - 1 |->
               vs.id2offset[id] + GetSizeWithinGranu(i - m.current_offset, vs.granu)]
  IN  [m EXCEPT !.local2global = [p \in DOMAIN @ \cup DOMAIN at |->
                                    IF p \in DOMAIN at THEN at[p] ELSE @[p]],
                !.overrided_set = @ \cup Range(at)]

Nowhere == [current_offset |-> 0, local2global |-> <<>>, overrided_set |-> {},
            mem_ref_idx |-> 0, isSucc |-> TRUE, die |-> FALSE]

MapRegister(m, reg, vs) ==
  IF m.die \/ reg \notin DOMAIN getEncloseReg
  THEN [m EXCEPT !.die = TRUE]
  ELSE LET enclosing == getEncloseReg[reg]
       IN  IF enclosing \notin DOMAIN vs.id2offset
           THEN [m EXCEPT !.die = TRUE]
           ELSE [Place(m, enclosing, getRegSize[enclosing], vs)
                   EXCEPT !.current_offset = @ + getRegSize[reg]]

(* The loop is left at the first value the trace has no address for.       *)
MapMemory(m, memVal, mem_ref_addr, vs) ==
  LET mem_size == getMemSize(memVal) * 8
      next == m.mem_ref_idx + 1
  IN  IF m.die \/ ~m.isSucc THEN m
      ELSE IF ~isMemValue(memVal) THEN [m EXCEPT !.current_offset = @ + mem_size]
      ELSE IF next > Len(mem_ref_addr) THEN [m EXCEPT !.isSucc = FALSE]
      ELSE IF mem_ref_addr[next] \notin DOMAIN vs.id2offset THEN [m EXCEPT !.die = TRUE]
      ELSE [Place(m, mem_ref_addr[next], mem_size, vs)
              EXCEPT !.current_offset = @ + mem_size, !.mem_ref_idx = next]

(* What becomes of the operands of a rule, the registers first.            *)
OperandsOf(rule, mem_ref_addr, vs) ==
  LET regs == Len(rule.regs)
      mapped[n \in 0 .. regs + Len(rule.mems)] ==
        IF n = 0 THEN Nowhere
        ELSE IF n <= regs THEN MapRegister(mapped[n - 1], rule.regs[n], vs)
        ELSE MapMemory(mapped[n - 1], rule.mems[n - regs], mem_ref_addr, vs)
  IN  mapped[regs + Len(rule.mems)]

(* The flows whose two ends have a place; slots of addresses have none.    *)
FlowsOf(rule, m) ==
  {<<m.local2global[ud[1]], m.local2global[ud[2]]>> :
     ud \in {ud \in rule.use_def : {ud[1], ud[2]} \subseteq DOMAIN m.local2global}}

(* A slip: the flows that were found are kept and the overrides are not.   *)
FMRule_GivesUpHalfway(rule, mem_ref_addr, vs) ==
  LET m == OperandsOf(rule, mem_ref_addr, vs)
  IN  IF m.die THEN Abort
      ELSE Row(FlowsOf(rule, m), IF m.isSucc THEN m.overrided_set ELSE {})

FMRule(rule, mem_ref_addr, vs) ==
  LET m == OperandsOf(rule, mem_ref_addr, vs)
  IN  IF m.die THEN Abort ELSE Row(FlowsOf(rule, m), m.overrided_set)

-----------------------------------------------------------------------------
(* SyscallHook.hpp: the buffer a syscall reads into or writes from.  -1 is *)
(* the failure of a syscall and the absence of a buffer.                   *)

mmsghdr == 64   \* sizeof(struct mmsghdr)

ReadsInto == {"read", "recvfrom", "recvmsg", "pread64", "recvmmsg", "mmap"}
WritesFrom == {"write", "sendto", "sendmsg", "pwrite64", "sendmmsg"}

get_syscall_buffer(s) == s.id \in ReadsInto \cup WritesFrom

buffer_base(s) ==
  IF s.rvalue = -1 THEN -1 ELSE IF s.id = "mmap" THEN s.rvalue ELSE s.args[2]

buffer_size(s) ==
  IF s.rvalue = -1 THEN -1
  ELSE IF s.id = "mmap" THEN s.args[2]
  ELSE IF s.id \in {"recvmmsg", "sendmmsg"} THEN s.rvalue * mmsghdr
  ELSE s.rvalue

HasBuffer(s) == /\ get_syscall_buffer(s)
                /\ buffer_base(s) \notin {0, -1}
                /\ buffer_size(s) \notin {0, -1}

-----------------------------------------------------------------------------
(* TraceLoader: the row of a syscall that has a buffer. *)

DEFAULT_REG_OFFSET == [RAX |-> 0, RCX |-> 16, RDX |-> 24, RDI |-> 32, RSI |-> 40,
                       R8 |-> 64, R9 |-> 72]

(* The argument registers, in the order in which arguments claim them.     *)
ArgumentRegisters == <<"RDI", "RSI", "RDX", "RCX", "R8", "R9">>

From(base, n) == {base + i : i \in 0..n-1}

(* The indices of the buffer: from the first variable in it to the one     *)
(* before the first variable past it.  Where there is none past it, the    *)
(* key of end() is read; libstdc++ has the number of variables there,      *)
(* which is less than any address.                                         *)
BufferIndices(s, vs) ==
  LET ids == DOMAIN vs.id2offset
      base == buffer_base(s)
      past == {id \in ids : id > base + buffer_size(s) - 1}
      it_base == Min({id \in ids : id >= base})
      it_end == Min(past)
  IN  IF \* One of the assertions fails.
         \/ past = {}
         \/ it_base > base + buffer_size(s) - 1
         \/ vs.id2offset[it_end] - vs.id2offset[it_base] > buffer_size(s)
      THEN {}
      ELSE From(vs.id2offset[it_base],
                GetSizeWithinGranu((vs.id2offset[it_end] - vs.id2offset[it_base]) * 8, vs.granu))

(* The arguments flow to the syscall's index and keep their values, the    *)
(* result is what flows from it; a buffer that is read into comes from the *)
(* syscall, one that is written flows to it and keeps its value.           *)
SyscallRow(s, syscall_offset, vs) ==
  LET width == GetSizeWithinGranu(64, vs.granu)
      argument(k) == From(DEFAULT_REG_OFFSET[ArgumentRegisters[k]], width)
      arguments == UNION {argument(k) : k \in 1..s.nargs}
      result == From(DEFAULT_REG_OFFSET["RAX"], width)
      buffer == BufferIndices(s, vs)
      kept == arguments \cup (IF s.id \in WritesFrom THEN buffer ELSE {})
      made == result \cup (IF s.id \in WritesFrom THEN {} ELSE buffer)
      valid == {syscall_offset} \cup arguments \cup result \cup buffer
  IN  IF \/ buffer = {}
         \/ s.nargs > Len(ArgumentRegisters)
         \/ Cardinality(valid) # 1 + Cardinality(buffer) + width * (s.nargs + 1)
      THEN Abort
      ELSE Row({<<i, i>> : i \in kept \cup {syscall_offset}}
                 \cup {<<i, syscall_offset>> : i \in kept}
                 \cup {<<syscall_offset, i>> : i \in made},
               valid)

=============================================================================
