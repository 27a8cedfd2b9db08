---------------------------- MODULE MC_Lifecycle ----------------------------
(* Model-checking instance of Lifecycle: a target of three workers, five   *)
(* processes the OS will fork, so that a second fork for the same slot and *)
(* workers beyond the target are both possible.                            *)
EXTENDS Lifecycle

CONSTANTS c1, c2, c3, c4, c5, Junk

MC_Pids == {c1, c2, c3, c4, c5}
MC_NumChildren == 3
PidZeroed == {EMPTY}

(* init_child_context() never sets pid: EMPTY, or heap garbage that is no  *)
(* pid the OS has handed out.                                              *)
PidGarbage == {EMPTY, Junk}
=============================================================================
