---------------------------- MODULE MC_SharedPool ----------------------------
(* Model-checking instance of SharedPool: three processes, two blocks, so  *)
(* that a block can be taken while another process holds a stale head and *)
(* a third still contends for the lock.                                    *)
EXTENDS SharedPool, TLC

CONSTANTS p1, p2, p3

MC_Procs == {p1, p2, p3}
MC_BlockCount == 2
=============================================================================
