---------------------------- MODULE MCFlowTree -----------------------------
(* Instances of FlowTree: two variables and a short trace whose rules do   *)
(* not commute, so that a product in the wrong order, of the wrong range   *)
(* or with a factor missing has a different meaning.                       *)
EXTENDS FlowTreeInvariant, TLC

MCRow(entries, valid) == [m |-> entries, v |-> valid]

MCVars == {"a", "b"}

copy == MCRow({<<"a", "a">>, <<"a", "b">>}, {"a", "b"})
clear == MCRow({}, {"a"})
clearB == MCRow({}, {"b"})
norule == MCRow({}, {})
swap == MCRow({<<"a", "b">>, <<"b", "a">>}, {"a", "b"})
mix == MCRow({<<"a", "a">>, <<"b", "a">>, <<"b", "b">>}, {"a", "b"})

(* Instruction 3 is missing from the trace.                                *)
GappedTrace == [i \in {1, 2, 4, 5} |-> CASE i = 1 -> copy
                                        [] i = 2 -> swap
                                        [] i = 4 -> norule
                                        [] i = 5 -> mix]

DenseTrace == <<copy, swap, clear, mix, copy>>

EmptyingTrace == <<swap, clear, clearB, copy>>

ShortTrace == <<swap, clear, swap, copy>>

TwoTreesOf5 == {<<1, 5>>, <<2, 5>>}
InsideOf5 == {<<2, 4>>}
TwoTreesOf4 == {<<1, 4>>, <<2, 4>>}
InsideOf4 == {<<2, 3>>}
Processes == Permutations(Proc)

TwoLevels == {0, 1}
NoneOrAll == {-1, 0}
StoreAll == {0}
=============================================================================
