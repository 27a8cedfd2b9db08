----------------------------- MODULE AbstractPool -----------------------------
(***************************************************************************)
(* The contract of the shared block pool (spec 4.1): a fixed set of        *)
(* blocks, each either free or held by exactly one process.  acquire hands *)
(* some free block to a process, release returns a held block.  How the    *)
(* free list is ordered or locked is not part of the promise.              *)
(***************************************************************************)
CONSTANTS
    Procs,      \* processes sharing the pool
    Blocks,     \* the blocks created with the pool
    None        \* owner of a free block

VARIABLE owner  \* owner[b]: the process holding block b, or None

AbsTypeOK == owner \in [Blocks -> Procs \cup {None}]

AbsInit == owner = [b \in Blocks |-> None]

AbsAcquire(p, b) ==
    /\ owner[b] = None
    /\ owner' = [owner EXCEPT ![b] = p]

AbsRelease(p, b) ==
    /\ owner[b] = p
    /\ owner' = [owner EXCEPT ![b] = None]

AbsNext == \E p \in Procs, b \in Blocks : AbsAcquire(p, b) \/ AbsRelease(p, b)

AbsSpec == AbsInit /\ [][AbsNext]_owner
=============================================================================
