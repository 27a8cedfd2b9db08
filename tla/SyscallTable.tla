----------------------------- MODULE SyscallTable -----------------------------
(***************************************************************************)
(* The syscall table builder, get_syscall_table() in                       *)
(* src/src/syscall/syscall.c, and the read accessor get_entry().           *)
(*                                                                         *)
(* The builder walks the static descriptor table (entries start at [1],    *)
(* the header at [0] holds the count), skips descriptors whose status is   *)
(* OFF by decrementing number_of_syscalls, and stores the shadow entry for *)
(* descriptor position i at sys_entry[i].  A descriptor is abstracted to   *)
(* what the builder reads of it: its status, whether get_arg_context()     *)
(* resolves every one of its argument types, and its need_alarm flag.      *)
(* Names and argument generators are copied verbatim and left out.         *)
(***************************************************************************)
EXTENDS Naturals, Sequences, FiniteSets, TLC, Memory

CONSTANTS
    MaxDescs,   \* longest descriptor table enumerated
    ON, OFF,    \* descriptor status values
    Hole,       \* an uninitialised slot of the sys_entry pointer array
    NULL,       \* get_entry() returning NULL, for a bad index or no memory
    Garbage     \* a read past the end of the sys_entry array

ASSUME MaxDescs \in Nat \ {0}

(* What the builder reads of one static syscall_entry.                     *)
Descriptor == [status : {ON, OFF}, arg_context_found : BOOLEAN,
               need_alarm : BOOLEAN]

(* A shadow entry: the descriptor position it was built from, and the      *)
(* need_alarm value the entry ends up with.  entry_obj is built from       *)
(* .total_args and .syscall_name alone, so every other field, need_alarm   *)
(* included, keeps the zero value of the designated initializer.           *)
ShadowEntry(pos) == [pos |-> pos, need_alarm |-> FALSE]

VARIABLES
    descs,      \* the static table get_table() returns, entries [1..n]
    i,          \* loop index of get_syscall_table()
    count,      \* shadow_table->number_of_syscalls
    sys_entry,  \* shadow_table->sys_entry, indexed 0..n-1
    result,     \* "start", "building", "table" or "null" (returned NULL)
    answer      \* get_entry(k) for each k a caller has asked for

vars == <<descs, i, count, sys_entry, result, answer>>

Loops == Len(descs)

-----------------------------------------------------------------------------
(* get_entry(), lines 69-90: NULL when the index is above the count (an    *)
(* index equal to the count passes the check) or when the mem_alloc() of a *)
(* context it then overwrites fails; else the slot, read past the end of   *)
(* the array when k = Loops.                                               *)
GetEntry(k, mem) ==
    CASE k > count \/ ~mem -> NULL
      [] k < Loops          -> sys_entry[k]
      [] OTHER              -> Garbage

Init ==
    /\ descs \in UNION {[1..n -> Descriptor] : n \in 0..MaxDescs}
    /\ i = 0
    /\ count = 0
    /\ sys_entry = <<>>
    /\ result = "start"
    /\ answer = <<>>

(* Mutant: the count taken one past the entries, as if the header slot   *)
(* were counted.                                                           *)
BuildAllocCountOffByOne ==
    /\ result = "start"
    /\ \E shadow \in MemAllocSucceeds(1), index \in MemAllocSucceeds(Loops) :
       IF ~(shadow /\ index)
         THEN /\ result' = "null"
              /\ UNCHANGED <<count, sys_entry>>
         ELSE /\ result' = "building"
              /\ count' = Loops + 1
              /\ sys_entry' = [k \in 0..Loops - 1 |-> Hole]
    /\ UNCHANGED <<descs, i, answer>>

(* Lines 696-722: mem_alloc() of the shadow table, the count from the      *)
(* header, then mem_alloc() of the entry index; either NULL returns NULL,  *)
(* and mem_alloc(0) is NULL, so an empty table fails here.                 *)
BuildAlloc ==
    /\ result = "start"
    /\ \E shadow \in MemAllocSucceeds(1), index \in MemAllocSucceeds(Loops) :
       IF ~(shadow /\ index)
         THEN /\ result' = "null"
              /\ UNCHANGED <<count, sys_entry>>
         ELSE /\ result' = "building"
              /\ count' = Loops
              /\ sys_entry' = [k \in 0..Loops - 1 |-> Hole]
    /\ UNCHANGED <<descs, i, answer>>

(* Mutant: the OFF branch without its number_of_syscalls decrement.       *)
BuildSkipNoDecrement ==
    /\ result = "building"
    /\ i < Loops
    /\ descs[i + 1].status = OFF
    /\ i' = i + 1
    /\ UNCHANGED <<descs, count, sys_entry, result, answer>>

(* Lines 727-732: a descriptor that is OFF is skipped and the count drops, *)
(* but i still advances, leaving sys_entry[i] unset.                       *)
BuildSkip ==
    /\ result = "building"
    /\ i < Loops
    /\ descs[i + 1].status = OFF
    /\ count' = count - 1
    /\ i' = i + 1
    /\ UNCHANGED <<descs, sys_entry, result, answer>>

(* Lines 734-778: the entry is stored at the descriptor's own position i.  *)
BuildEntry ==
    /\ result = "building"
    /\ i < Loops
    /\ descs[i + 1].status = ON
    /\ TRUE \in MemAllocSucceeds(1)
    /\ descs[i + 1].arg_context_found
    /\ sys_entry' = [sys_entry EXCEPT ![i] = ShadowEntry(i)]
    /\ i' = i + 1
    /\ UNCHANGED <<descs, count, result, answer>>

(* Lines 745-750 and 762-769: the mem_alloc() of the entry or a           *)
(* get_arg_context() failing returns NULL from the builder.                *)
BuildEntryFail ==
    /\ result = "building"
    /\ i < Loops
    /\ descs[i + 1].status = ON
    /\ FALSE \in MemAllocSucceeds(1) \/ ~descs[i + 1].arg_context_found
    /\ result' = "null"
    /\ UNCHANGED <<descs, i, count, sys_entry, answer>>

(* Lines 782-789: the empty-table test looks at the loop index, which      *)
(* always equals the descriptor count here, not at the entries built.      *)
BuildFinish ==
    /\ result = "building"
    /\ i = Loops
    /\ result' = IF i = 0 THEN "null" ELSE "table"
    /\ UNCHANGED <<descs, i, count, sys_entry, answer>>

(* A caller (set_syscall, free_old_arguments, test_syscall) asking for     *)
(* entry k of the finished table, k up to the descriptor count.            *)
Lookup(k) ==
    /\ result = "table"
    /\ k \notin DOMAIN answer
    /\ \E mem \in MemAllocSucceeds(1) : answer' = answer @@ (k :> GetEntry(k, mem))
    /\ UNCHANGED <<descs, i, count, sys_entry, result>>

Next ==
    \/ BuildAlloc
    \/ BuildSkip
    \/ BuildEntry
    \/ BuildEntryFail
    \/ BuildFinish
    \/ \E k \in 0..Loops : Lookup(k)

Spec == Init /\ [][Next]_vars

-----------------------------------------------------------------------------
(* The reference definition of spec section 4.2: the enabled descriptors,  *)
(* in order, addressed from 0.                                             *)
EnabledPositions ==
    SelectSeq([k \in 1..Loops |-> k - 1], LAMBDA p : descs[p + 1].status = ON)

NumEnabled == Len(EnabledPositions)

TypeOK ==
    /\ descs \in UNION {[1..n -> Descriptor] : n \in 0..MaxDescs}
    /\ i \in 0..Loops
    /\ count \in 0..Loops
    /\ result \in {"start", "building", "table", "null"}
    /\ DOMAIN answer \subseteq 0..Loops

Finished == result = "table" /\ (DOMAIN answer) = 0..Loops

(* The count a finished table reports is the number of enabled            *)
(* descriptors (spec 8, first property): the decrement in the OFF branch   *)
(* must match exactly the descriptors the loop skipped.                    *)
CountMatchesEnabled ==
    result = "table" => count = NumEnabled

(* get_entry() over the finished table answers as spec 3 and 8 say: every  *)
(* index a caller may use, 0..count-1, reaches the k-th enabled descriptor  *)
(* (the shadow array is compacted and keeps shadow index to descriptor     *)
(* order) or is NULL because memory ran out, and every index from the      *)
(* count on is NULL.  Both failures return the same NULL.  The OFF branch *)
(* of the builder and the bounds test of get_entry() must agree on it.     *)
LookupMatchesEnabled ==
    Finished =>
        \A k \in 0..Loops :
            answer[k] \in IF k < count
                           THEN {ShadowEntry(EnabledPositions[k + 1]), NULL}
                           ELSE {NULL}
=============================================================================
