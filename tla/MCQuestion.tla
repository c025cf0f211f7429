----------------------------- MODULE MCQuestion -----------------------------
(* An instance of Question: six instructions, the second of which has no   *)
(* row; two reads, a write and a call.                                     *)
EXTENDS Question

R(entries, valid) == [m |-> entries, v |-> valid]
MCVars == {"a", "b", "s"}
MCRules == [i \in {1, 3, 4, 5, 6} |->
  CASE i = 1 -> R({<<"s", "s">>, <<"s", "a">>}, {"a", "s"})
    [] i = 3 -> R({<<"a", "a">>, <<"a", "b">>}, {"a", "b"})
    [] i = 4 -> R({<<"s", "s">>, <<"s", "a">>}, {"a", "s"})
    [] i = 5 -> R({<<"b", "a">>}, {"a", "b"})
    [] i = 6 -> R({<<"a", "a">>, <<"a", "s">>, <<"s", "s">>}, {"a", "s"})]
MCAsm == <<"syscall", "nop", "mov", "syscall", "call", "syscall">>
MCSyscalls == <<[instr_id |-> 1, name |-> "read"], [instr_id |-> 4, name |-> "read"],
                [instr_id |-> 6, name |-> "write"]>>
MCSpan == <<1, 6>>

W(kind, word, n) == [kind |-> kind, word |-> word, n |-> n]
read == W("name", "read", 0)
write == W("name", "write", 0)
Q(range, srcType, srcs, direction, destType, dests) ==
  [range |-> range, srcType |-> srcType, srcs |-> srcs, direction |-> direction,
   destType |-> destType, dests |-> dests]

MCQuestions ==
  {Q(range, "syscall", srcs, direction, "syscall", <<write>>) :
      range \in {<<>>, <<1, 6>>, <<2, 5>>}, srcs \in {<<read>>, <<W("nth", "read", 2)>>},
      direction \in Directions}
  \cup {Q(<<>>, "instr", srcs, direction, "instr", dests) :
      srcs \in {<<W("index", "", 1)>>, <<W("asm", "mov", 0), W("index", "", 1)>>},
      dests \in {<<W("index", "", 3)>>, <<W("asm", "syscall", 0)>>, <<W("index", "", 1)>>},
      direction \in Directions}
  \cup {Q(<<>>, "syscall", <<read, W("garbled", "", 0), write>>, "to", "instr", <<W("asm", "call", 0)>>),
        Q(<<>>, "syscall", <<W("nth", "read", 5)>>, "to", "syscall", <<write>>),
        Q(<<>>, "syscall", <<W("name", "open", 0)>>, "to", "syscall", <<write>>),
        Q(<<>>, "register", <<W("name", "rip", 0)>>, "to", "syscall", <<write>>),
        Q(<<>>, "syscall", <<read>>, "to", "memory", <<write>>),
        Q(<<0, 6>>, "syscall", <<read>>, "to", "syscall", <<write>>),
        Q(<<>>, "syscall", <<read>>, "sideways", "syscall", <<write>>),
        Q(<<>>, "syscall", <<read>>, "to", "nothing", <<write>>)}

=============================================================================
