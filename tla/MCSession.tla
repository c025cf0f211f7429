----------------------------- MODULE MCSession -----------------------------
(* An instance of Session: two files that have a trace of the same name    *)
(* and of different sizes.                                                 *)
EXTENDS Session

TwoFiles == [f \in Path |-> IF f = "a.db" THEN [n \in {"sample1"} |-> 2]
                           ELSE [n \in {"sample1", "sample2"} |-> 1]]
=============================================================================
