------------------------------ MODULE Lifecycle ------------------------------
(***************************************************************************)
(* The worker lifecycle of src/src/syscall/syscall.c: the parent's         *)
(* start_main_syscall_loop() and create_syscall_children(), each child's   *)
(* init_syscall_child() and exit_child(), and kill_all_children().         *)
(*                                                                         *)
(* children[] and every child_ctx come from mem_alloc(), i.e. malloc(),    *)
(* and running_children is a static: after fork() each process has its    *)
(* own copy of all of them.  So the state is one copy per process: pslot   *)
(* and prun for the parent, cslot[c] and crun[c] for child c, the latter   *)
(* taken at fork time.  What a child runs between init and exit is         *)
(* TestLoop; here it is reduced to the two ways the loop ends: the stop    *)
(* flag, which is shared (it comes from the caller), or an error path.     *)
(* fork_pass_port() and recv_port() are outside the repository; the fork,  *)
(* the port handshake and the return are one step of the parent, and a    *)
(* fork fails when no process is free (Pids is the OS process limit).     *)
(***************************************************************************)
EXTENDS Naturals, FiniteSets

CONSTANTS
    NumChildren,  \* number_of_children, the core count
    Pids,         \* process identifiers the OS can hand to children
    EMPTY,        \* the EMPTY pid sentinel
    InitPid       \* what an uninitialised child_ctx->pid may hold

ASSUME NumChildren \in Nat \ {0}
ASSUME EMPTY \notin Pids /\ EMPTY \in InitPid

Slots == 0..NumChildren - 1

VARIABLES
    ppc,    \* the parent: "loop", "done" (left the loop) or "killed"
    pslot,  \* the parent's children[i]->pid
    prun,   \* the parent's running_children
    cpc,    \* each child process: "none" (no such process), "init", "running"
    cidx,   \* the slot index a child was forked for
    cslot,  \* each child's own copy of children[i]->pid
    crun,   \* each child's own copy of running_children
    stop    \* the shared stop flag

vars == <<ppc, pslot, prun, cpc, cidx, cslot, crun, stop>>

Live == {c \in Pids : cpc[c] # "none"}

(* setup_syscall_module(), lines 1008-1059: running_children is zeroed and *)
(* every child_ctx is malloc()ed; init_child_context() never sets pid.     *)
Init ==
    /\ ppc = "loop"
    /\ pslot \in [Slots -> InitPid]
    /\ prun = 0
    /\ cpc = [c \in Pids |-> "none"]
    /\ cidx = [c \in Pids |-> 0]
    /\ cslot = [c \in Pids |-> [s \in Slots |-> EMPTY]]
    /\ crun = [c \in Pids |-> 0]
    /\ stop = FALSE

-----------------------------------------------------------------------------
(* Lines 919-927 and 648-681: while stop is clear and the parent's count   *)
(* is below target, fork a child for the first slot whose pid, as the      *)
(* parent sees it, is EMPTY.  The child starts with a copy of the          *)
(* parent's memory.  With no EMPTY slot, or no process to fork, nothing    *)
(* happens and the loop polls again.                                       *)
Fork(c) ==
    /\ ppc = "loop"
    /\ ~stop
    /\ prun < NumChildren
    /\ \E s \in Slots : pslot[s] = EMPTY
    /\ cpc[c] = "none"
    /\ LET i == CHOOSE s \in Slots : pslot[s] = EMPTY /\
                                     \A t \in 0..s - 1 : pslot[t] # EMPTY
       IN  /\ cidx' = [cidx EXCEPT ![c] = i]
           /\ cslot' = [cslot EXCEPT ![c] = pslot]
           /\ crun' = [crun EXCEPT ![c] = prun]
    /\ cpc' = [cpc EXCEPT ![c] = "init"]
    /\ UNCHANGED <<ppc, pslot, prun, stop>>

(* Line 919: the loop ends once stop is set.                               *)
MainLoopExit ==
    /\ ppc = "loop"
    /\ stop
    /\ ppc' = "done"
    /\ UNCHANGED <<pslot, prun, cpc, cidx, cslot, crun, stop>>

ChildInit(c) ==
    /\ cpc[c] = "init"
    /\ cslot' = [cslot EXCEPT ![c][cidx[c]] = c]
    /\ crun' = [crun EXCEPT ![c] = @ + 1]
    /\ cpc' = [cpc EXCEPT ![c] = "running"]
    /\ UNCHANGED <<ppc, pslot, prun, cidx, stop>>

(* exit_child(), lines 132-161: the pid reset and the decrement (or, when  *)
(* get_child_ctx() or cleanup_kernel_probes() fails, neither) act on the   *)
(* child's own memory, which _exit() then discards.                        *)
ExitChild(c) ==
    /\ cpc' = [cpc EXCEPT ![c] = "none"]
    /\ cslot' = [cslot EXCEPT ![c] = [s \in Slots |-> EMPTY]]
    /\ crun' = [crun EXCEPT ![c] = 0]

(* Lines 511 and 576-577 (and 399, 420): the loop sees stop and exits.     *)
ChildStop(c) ==
    /\ cpc[c] = "running"
    /\ stop
    /\ ExitChild(c)
    /\ UNCHANGED <<ppc, pslot, prun, cidx, stop>>

(* Any worker-fatal error path of the test loop calls exit_child().        *)
ChildFail(c) ==
    /\ cpc[c] = "running"
    /\ ExitChild(c)
    /\ UNCHANGED <<ppc, pslot, prun, cidx, stop>>

(* kill_all_children(), lines 891-909: kill() every pid of the parent's    *)
(* table in order and return at the first failure.  A pid the parent       *)
(* knows kills that child.  EMPTY or an uninitialised value names no child *)
(* here; EMPTY is defined outside the repository, so kill() of it either   *)
(* fails, ending the walk, or (for 0 or -1) signals the whole process      *)
(* group, every child and the parent with it.                              *)
KillAll ==
    /\ ppc = "done"
    /\ LET Known(s) == pslot[s] \in Pids
           firstBad == IF \A s \in Slots : Known(s) THEN NumChildren
                       ELSE CHOOSE s \in Slots : ~Known(s) /\
                                                \A t \in 0..s - 1 : Known(t)
           upTo == {pslot[s] : s \in 0..firstBad - 1}
       IN  \E victims \in IF firstBad < NumChildren THEN {upTo, Pids} ELSE {upTo} :
              /\ cpc' = [c \in Pids |-> IF c \in victims THEN "none" ELSE cpc[c]]
              /\ cslot' = [c \in Pids |-> IF c \in victims
                                           THEN [s \in Slots |-> EMPTY] ELSE cslot[c]]
              /\ crun' = [c \in Pids |-> IF c \in victims THEN 0 ELSE crun[c]]
    /\ ppc' = "killed"
    /\ UNCHANGED <<pslot, prun, cidx, stop>>

(* The user interrupts the run: the stop flag is set.                      *)
SetStop ==
    /\ ~stop
    /\ stop' = TRUE
    /\ UNCHANGED <<ppc, pslot, prun, cpc, cidx, cslot, crun>>

Next ==
    \/ \E c \in Pids : Fork(c) \/ ChildInit(c) \/ ChildStop(c) \/ ChildFail(c)
    \/ MainLoopExit
    \/ KillAll
    \/ SetStop

(* No fairness: the port handshake of a fork may wait on the child, a      *)
(* smart worker waits in msg_recv() and a syscall without an alarm may     *)
(* never return, so no step of either process is sure to happen.           *)
Spec == Init /\ [][Next]_vars

-----------------------------------------------------------------------------
(* Never more workers alive than the target concurrency (spec 4.3: spawn   *)
(* replacements for EMPTY slots while the count is below target): the      *)
(* parent's slot table and count must see what its children did.           *)
WorkersBounded == Cardinality(Live) <= NumChildren

=============================================================================
