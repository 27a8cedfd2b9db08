------------------------------ MODULE SharedPool ------------------------------
(***************************************************************************)
(* The shared block pool of src/src/memory.c: mem_create_shared_pool(),    *)
(* mem_get_shared_block() and mem_free_shared_block(), used by several     *)
(* processes over MAP_SHARED memory.  The free and allocated lists are     *)
(* CK_SLISTs sharing one linkage field; the pool lock is a ck_spinlock.    *)
(*                                                                         *)
(* mem_get_shared_block() tests the free list for emptiness and reads its  *)
(* head before it takes the lock; only CK_SLIST_REMOVE, the insertion on   *)
(* the allocated list and the unlock run under it.  CK_SLIST_REMOVE of an  *)
(* element that is not on the list walks off its end and dereferences      *)
(* NULL: the caller takes SIGSEGV with the spinlock held, and nothing ever *)
(* unlocks it.  A block is a number 1..BlockCount in creation order.       *)
(***************************************************************************)
EXTENDS Naturals, Sequences, SequencesExt

CONSTANTS
    Procs,       \* processes calling into the pool
    BlockCount,  \* block_count passed to mem_create_shared_pool()
    None         \* no process / no block

ASSUME BlockCount \in Nat \ {0}

Blocks == 1..BlockCount

VARIABLES
    free,    \* pool->free_list, head first
    alloc,   \* pool->allocated_list, head first
    lock,    \* holder of pool->lock, or None
    pc,      \* where each process is in the pool's functions
    seen,    \* the block a process read from the free list head
    relb,    \* the block a process is releasing
    owned    \* blocks each process was handed and has not released

vars == <<free, alloc, lock, pc, seen, relb, owned>>

(* Lines 172-196: block_count blocks, each pushed with CK_SLIST_INSERT_HEAD, *)
(* so the last one created is at the head; both lists start empty before.  *)
Init ==
    /\ free = [k \in 1..BlockCount |-> BlockCount + 1 - k]
    /\ alloc = <<>>
    /\ lock = None
    /\ pc = [p \in Procs |-> "idle"]
    /\ seen = [p \in Procs |-> None]
    /\ relb = [p \in Procs |-> None]
    /\ owned = [p \in Procs |-> {}]

-----------------------------------------------------------------------------
(* Lines 204-206: CK_SLIST_EMPTY read without the lock; NULL if empty.     *)
AcqCheck(p) ==
    /\ pc[p] = "idle"
    /\ pc' = [pc EXCEPT ![p] = IF free = <<>> THEN "idle" ELSE "head"]
    /\ UNCHANGED <<free, alloc, lock, seen, relb, owned>>

(* Line 212: CK_SLIST_FOREACH loads the head, still unlocked.  A list that *)
(* emptied since the check skips the body and returns NULL (line 231).     *)
AcqReadHead(p) ==
    /\ pc[p] = "head"
    /\ IF free = <<>>
         THEN /\ pc' = [pc EXCEPT ![p] = "idle"]
              /\ UNCHANGED seen
         ELSE /\ seen' = [seen EXCEPT ![p] = Head(free)]
              /\ pc' = [pc EXCEPT ![p] = "acq_lock"]
    /\ UNCHANGED <<free, alloc, lock, relb, owned>>

(* Line 215: ck_spinlock_lock() spins until the lock is free.              *)
AcqLock(p) ==
    /\ pc[p] = "acq_lock"
    /\ lock = None
    /\ lock' = p
    /\ pc' = [pc EXCEPT ![p] = "acq_remove"]
    /\ UNCHANGED <<free, alloc, seen, relb, owned>>

(* Mutant: the head removed with CK_SLIST_REMOVE_HEAD, whatever was read.  *)
AcqRemoveHead(p) ==
    /\ pc[p] = "acq_remove"
    /\ free # <<>>
    /\ free' = Tail(free)
    /\ alloc' = <<seen[p]>> \o alloc
    /\ owned' = [owned EXCEPT ![p] = @ \cup {seen[p]}]
    /\ lock' = None
    /\ pc' = [pc EXCEPT ![p] = "idle"]
    /\ UNCHANGED <<seen, relb>>

(* Mutant: a remove that tolerates an element missing from the list.      *)
AcqRemoveNoRecheck(p) ==
    /\ pc[p] = "acq_remove"
    /\ free' = Remove(free, seen[p])
    /\ alloc' = <<seen[p]>> \o alloc
    /\ owned' = [owned EXCEPT ![p] = @ \cup {seen[p]}]
    /\ lock' = None
    /\ pc' = [pc EXCEPT ![p] = "idle"]
    /\ UNCHANGED <<seen, relb>>

(* Lines 217-227: CK_SLIST_REMOVE of the block read at line 212, insertion *)
(* at the head of the allocated list, unlock, return.  If another process  *)
(* took that block meanwhile, the remove walks off the list and faults     *)
(* with the lock held.                                                     *)
AcqRemove(p) ==
    /\ pc[p] = "acq_remove"
    /\ IF seen[p] \in ToSet(free)
         THEN /\ free' = Remove(free, seen[p])
              /\ alloc' = <<seen[p]>> \o alloc
              /\ owned' = [owned EXCEPT ![p] = @ \cup {seen[p]}]
              /\ lock' = None
              /\ pc' = [pc EXCEPT ![p] = "idle"]
         ELSE /\ pc' = [pc EXCEPT ![p] = "faulted"]
              /\ UNCHANGED <<free, alloc, owned, lock>>
    /\ UNCHANGED <<seen, relb>>

(* A caller hands back a block it holds (the caller's bookkeeping rules    *)
(* out a second release, spec 4.1).                                       *)
RelStart(p, b) ==
    /\ pc[p] = "idle"
    /\ b \in owned[p]
    /\ relb' = [relb EXCEPT ![p] = b]
    /\ pc' = [pc EXCEPT ![p] = "rel_lock"]
    /\ UNCHANGED <<free, alloc, lock, seen, owned>>

(* Line 238.                                                               *)
RelLock(p) ==
    /\ pc[p] = "rel_lock"
    /\ lock = None
    /\ lock' = p
    /\ pc' = [pc EXCEPT ![p] = "rel_body"]
    /\ UNCHANGED <<free, alloc, seen, relb, owned>>

(* Mutant: the block pushed on the free list but left on the allocated one. *)
RelBodyNoRemove(p) ==
    /\ pc[p] = "rel_body"
    /\ free' = <<relb[p]>> \o free
    /\ owned' = [owned EXCEPT ![p] = @ \ {relb[p]}]
    /\ lock' = None
    /\ pc' = [pc EXCEPT ![p] = "idle"]
    /\ UNCHANGED <<alloc, seen, relb>>

(* Lines 240-249: off the allocated list, onto the free list head, unlock. *)
RelBody(p) ==
    /\ pc[p] = "rel_body"
    /\ alloc' = Remove(alloc, relb[p])
    /\ free' = <<relb[p]>> \o free
    /\ owned' = [owned EXCEPT ![p] = @ \ {relb[p]}]
    /\ lock' = None
    /\ pc' = [pc EXCEPT ![p] = "idle"]
    /\ UNCHANGED <<seen, relb>>

Step(p) ==
    \/ AcqCheck(p)
    \/ AcqReadHead(p)
    \/ AcqLock(p)
    \/ AcqRemove(p)
    \/ \E b \in Blocks : RelStart(p, b)
    \/ RelLock(p)
    \/ RelBody(p)

Next == \E p \in Procs : Step(p)

(* Each process runs its own code when it can.  A spinning process retries *)
(* the lock as long as it lives, so strong fairness on taking the lock     *)
(* leaves out starvation and keeps only what the lock's holder does.       *)
Spec ==
    /\ Init /\ [][Next]_vars
    /\ \A p \in Procs :
          /\ WF_vars(AcqCheck(p) \/ AcqReadHead(p) \/ AcqRemove(p) \/ RelBody(p))
          /\ SF_vars(AcqLock(p))
          /\ SF_vars(RelLock(p))

-----------------------------------------------------------------------------
(* Every block is on exactly one of the two lists, once (spec 3 and 8):    *)
(* no interleaving of unlocked reads with locked updates loses, duplicates *)
(* or cross-links a block.                                                 *)
BlockPartition ==
    /\ Len(free) + Len(alloc) = BlockCount
    /\ ToSet(free) \cup ToSet(alloc) = Blocks

(* No block is handed to two processes at once, and the allocated list is  *)
(* exactly the blocks some process holds: a stale head read at line 212    *)
(* never yields a block another process already got.                       *)
OwnedExclusive ==
    /\ \A p, q \in Procs : p # q => owned[p] \cap owned[q] = {}
    /\ UNION {owned[p] : p \in Procs} = ToSet(alloc)

(* The pool implements its contract: the holder of each block, read off    *)
(* the processes' bookkeeping, changes only by acquire and release.        *)
Holder(b) == IF \E p \in Procs : b \in owned[p]
               THEN CHOOSE p \in Procs : b \in owned[p]
               ELSE None

Abs == INSTANCE AbstractPool WITH owner <- [b \in Blocks |-> Holder(b)]

ImplementsAbstractPool == Abs!AbsSpec

(* A process spinning at line 215 or 238 gets the lock (spec 4.1 and 6:    *)
(* the lock only serialises list updates).  A caller that faults inside    *)
(* CK_SLIST_REMOVE never unlocks, and every later acquire and release of   *)
(* every process spins for ever.                                           *)
LockEventuallyAcquired ==
    \A p \in Procs :
        pc[p] \in {"acq_lock", "rel_lock"} ~> pc[p] \in {"acq_remove", "rel_body"}
=============================================================================
