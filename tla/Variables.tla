----------------------------- MODULE Variables -----------------------------
(***************************************************************************)
(* The variables of a trace (VState) and the registers they are made of    *)
(* (isa.cpp).  A variable is a register, a byte of memory that the trace   *)
(* refers to, or a syscall; it owns a run of indices of the trace's        *)
(* matrices.  Granularity decides how many: one for each bit, or one for   *)
(* each byte.                                                              *)
(***************************************************************************)
EXTENDS Integers, Sequences, SequencesExt

FMGranularity == {"bit", "byte"}

(* Used for sizes, and by FMRule for the position of a bit in a variable.  *)
GetSizeWithinGranu(sizeInBit, granularity) ==
  LET RealSize == IF granularity = "bit" THEN sizeInBit ELSE sizeInBit \div 8
  IN  IF RealSize = 0 /\ sizeInBit > 0 THEN 1 ELSE RealSize

-----------------------------------------------------------------------------
(* isa.cpp.  The tables are cut down to the registers of the instances.    *)

getRegName ==
  [id \in {1, 2, 15, 23, 39, 40, 41, 42, 43, 44, 47, 48, 98, 99} |->
     CASE id = 1 -> "AH"   [] id = 2 -> "AL"   [] id = 15 -> "AX"
       [] id = 23 -> "EAX" [] id = 39 -> "RAX" [] id = 40 -> "RBP"
       [] id = 41 -> "RBX" [] id = 42 -> "RCX" [] id = 43 -> "RDI"
       [] id = 44 -> "RDX" [] id = 47 -> "RSI" [] id = 48 -> "RSP"
       [] id = 98 -> "R8"  [] id = 99 -> "R9"]

getRegId == [name \in Range(getRegName) |->
               CHOOSE id \in DOMAIN getRegName : getRegName[id] = name]

getRegSize ==
  [id \in DOMAIN getRegName |->
     CASE id \in {1, 2} -> 8 [] id = 15 -> 16 [] id = 23 -> 32 [] OTHER -> 64]

getEncloseReg ==
  [id \in DOMAIN getRegName |-> IF id \in {1, 2, 15, 23} THEN 39 ELSE id]

(* A memory operand: its size in bytes, whether the slot stands for the    *)
(* value or for the address, and its number.                               *)
getMemSize(memVal) == memVal \div 65536
isMemValue(memVal) == (memVal \div 16384) % 2 = 1

-----------------------------------------------------------------------------
(* VState *)

gpr_strs == <<"RAX", "RBX", "RCX", "RDX", "RDI", "RSI", "RSP", "RBP", "R8", "R9">>

Override(f, key, value) == [k \in DOMAIN f \cup {key} |-> IF k = key THEN value ELSE f[k]]

(* A slip: the next variable is put on the last index of this one.         *)
append_Overlaps(vs, id, size_in_bit) ==
  [vs EXCEPT
     !.id2offset = Override(@, id, vs.size),
     !.offset2id = Override(@, vs.size, id),
     !.size = @ + GetSizeWithinGranu(size_in_bit, vs.granu) - 1]

append(vs, id, size_in_bit) ==
  [vs EXCEPT
     !.id2offset = Override(@, id, vs.size),
     !.offset2id = Override(@, vs.size, id),
     !.size = @ + (LET s == GetSizeWithinGranu(size_in_bit, vs.granu)
                   IN  IF s > 1 THEN s ELSE 1)]

(* One variable after another.                                             *)
appendAll(vs, ids, sizes) ==
  LET grown[n \in 0..Len(ids)] ==
        IF n = 0 THEN vs ELSE append(grown[n - 1], ids[n], sizes[n])
  IN  grown[Len(ids)]

(* A VState with its registers, the general purpose ones of the default    *)
(* configuration.                                                          *)
gpr_ids == [i \in 1..Len(gpr_strs) |-> getRegId[gpr_strs[i]]]

init_reg_state(granu) ==
  appendAll([granu |-> granu, size |-> 0, id2offset |-> <<>>, offset2id |-> <<>>],
            gpr_ids, [i \in 1..Len(gpr_strs) |-> getRegSize[gpr_ids[i]]])

(* Ids of syscalls: the k-th has id 0x1000 + k.                            *)
SyscallBase == 4096

(* pp() asserts this of every VState it prints.                            *)
CrossCheck(vs) == \A offset \in DOMAIN vs.offset2id :
                     vs.id2offset[vs.offset2id[offset]] = offset

=============================================================================
