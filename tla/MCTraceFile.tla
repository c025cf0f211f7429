---------------------------- MODULE MCTraceFile ----------------------------
(* Three instructions (a full buffer and one more), a syscall and a memory *)
(* reference.                                                              *)
EXTENDS TraceFile

SomeFrames == [k \in Kind |-> IF k = "instr" THEN 3 ELSE 1]
=============================================================================
