------------------------------ MODULE MCDevice ------------------------------
(* An instance of Device.  Blocks of memory are interchangeable: what a    *)
(* state is depends on how many there are of each use only.  With so many  *)
(* blocks a view is cheaper than the permutations of a symmetry set.       *)
EXTENDS Device

Uses(b) ==
  << b \in allocated, b \in buffer["buffer1"], b \in buffer["buffer2"],
     b \in A.block, b \in B.block, b \in product.block, b \in buffered, b \in result,
     [s \in Stream |-> << b \in extend[s], b \in sum[s],
                          [i \in DOMAIN queue[s] |-> << b \in queue[s][i].reads,
                                                        b \in queue[s][i].writes >>] >>] >>

HowMany == {<<Uses(b), Cardinality({c \in Block : Uses(c) = Uses(b)})>> : b \in Block}

View == << zeros, core, pc, miss, extended, A.entries, B.entries, product.entries,
           buffer_idx, round, HowMany >>
=============================================================================
