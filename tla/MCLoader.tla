------------------------------ MODULE MCLoader ------------------------------
(* Instances of Loader: a handful of rules and traces of up to six         *)
(* instructions.  Addresses start at 0x5000.                               *)
EXTENDS Loader

value(bytes) == bytes * 65536 + 32768 + 16384
address == 8 * 65536 + 32768

Straight(use, def, n) == {<<use + i, def + i>> : i \in 0..n-1}
A == 20480

MCRules ==
  ("xor rdx, rdx" :> [regs |-> <<44>>, mems |-> <<>>, use_def |-> {}])
  @@ ("mov rbx, rdx" :> [regs |-> <<41, 44>>, mems |-> <<>>, use_def |-> Straight(64, 0, 64)])
  @@ ("mov ax, [m]" :> [regs |-> <<15>>, mems |-> <<address, value(2)>>,
                        use_def |-> Straight(80, 0, 16)])
  @@ ("push rbx" :> [regs |-> <<41, 48>>, mems |-> <<value(8)>>,
                     use_def |-> Straight(0, 128, 64) \cup Straight(64, 64, 64)])
  @@ ("mov [m], dl" :> [regs |-> <<44>>, mems |-> <<value(1)>>, use_def |-> Straight(0, 64, 8)])

I(raw, addrs) == [raw |-> raw, mem_ref_addr |-> addrs]
S(at, id, rvalue, args) ==
  [instr_id |-> at, id |-> id, rvalue |-> rvalue, nargs |-> Len(args), args |-> args]

(* Six instructions.  The first syscall has no buffer; the second reads    *)
(* four bytes of which the program touches two; the third writes those     *)
(* two.  push has lost its address.                                        *)
ReadAndWrite ==
  [instrs |-> <<I("syscall", <<>>), I("mov rbx, rdx", <<>>), I("syscall", <<>>),
                I("mov ax, [m]", <<A + 1>>), I("push rbx", <<>>), I("syscall", <<>>)>>,
   syscalls |-> <<S(1, "open", 3, <<A, 0, 0>>), S(3, "read", 4, <<3, A, 4>>),
                  S(6, "write", 2, <<3, A + 1, 2>>)>>,
   mem_refs |-> <<A + 1, A + 2, A + 8>>]

(* A mapping of six arguments, a failing read, an empty one.  The last     *)
(* instructions, behind the last syscall, change a mapped byte.            *)
MapsAndFails ==
  [instrs |-> <<I("syscall", <<>>), I("syscall", <<>>), I("syscall", <<>>),
                I("syscall", <<>>), I("mov [m], dl", <<A + 1>>),
                I("mov [m], dl", <<A + 2>>)>>,
   syscalls |-> <<S(1, "brk", 0, <<0>>), S(2, "mmap", A, <<0, 3, 0, 0, 0, 0>>),
                  S(3, "read", -1, <<3, A, 4>>), S(4, "sendmmsg", 0, <<3, A, 1>>)>>,
   mem_refs |-> <<A, A + 1, A + 2, A + 3>>]

(* A register rule alone: no syscall at all.                               *)
Sample1 == [instrs |-> <<I("mov rbx, rdx", <<>>), I("xor rdx, rdx", <<>>)>>,
            syscalls |-> <<>>, mem_refs |-> <<>>]

OnlySyscall ==
  [instrs |-> <<I("syscall", <<>>), I("mov ax, [m]", <<A>>)>>,
   syscalls |-> <<S(1, "read", 2, <<3, A, 2>>)>>, mem_refs |-> <<A, A + 1, A + 8>>]

(* Behind the list: a syscall for each of the last instructions of         *)
(* MapsAndFails, one without a buffer, and one whose buffer is nowhere.    *)
LeftBehind == {S(5, "read", 2, <<3, A, 2>>), S(6, "write", 3, <<3, A, 3>>),
               S(5, "open", 3, <<A, 0, 0>>), S(6, "read", 4, <<3, A + 16, 4>>)}

LoadTraces == {ReadAndWrite, MapsAndFails, Sample1}
OneSyscall == {OnlySyscall}

(* The hypothesis of NamesAlwaysResolve is met by the traces of the run.   *)
ASSUME RoomInTraces == \A t \in LoadTraces : RoomForOperands(t)
=============================================================================
