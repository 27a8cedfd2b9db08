------------------------------ MODULE TestLoop ------------------------------
(***************************************************************************)
(* The fuzz test loop of one worker process, src/src/syscall/syscall.c:    *)
(* start_syscall_child() (dumb mode), start_smart_syscall_child(),         *)
(* do_job() and process_genesis() (smart mode), with pick_syscall(),       *)
(* set_syscall(), generate_arguments(), test_syscall() and                 *)
(* free_old_arguments().                                                   *)
(*                                                                         *)
(* A fault signal raised while the syscall runs (or while a hole of the    *)
(* shadow table is dereferenced) is taken by the child signal handler,     *)
(* which sets ctx->did_jump and longjmp()s to the last setjmp(): the top   *)
(* of the loop function, or the top of process_genesis().  The handler     *)
(* lives outside src/ and is modelled from spec section 5.                 *)
(*                                                                         *)
(* Argument values are abstracted to what cleanup tells apart: a resource  *)
(* the generator allocated (a record naming the test, the position and the *)
(* type), a plain value, a value the mutator changed, or the junk left in  *)
(* a freshly malloc()ed copy buffer.                                       *)
(***************************************************************************)
EXTENDS Naturals, Sequences, FiniteSets, FiniteSetsExt, Memory

CONSTANTS
    SysEntry,      \* sys_table->sys_entry: index -> argument types, or Hole
    NumSyscalls,   \* sys_table->number_of_syscalls
    Hole,          \* an sys_entry slot the builder left unset
    Modes,         \* the run modes setup_syscall_module() may be given
    Jobs,          \* jobs the genetic module may post: [kind, syscall]
    MaxTests,      \* bound on the shared test_counter
    MaxArgs,       \* ARG_LIMIT as far as the model needs it
    InitDidJump,   \* values the uninitialised ctx->did_jump may hold
    EntryAlloc     \* outcomes allowed for get_entry()'s mem_alloc() in cleanup

ASSUME Modes \subseteq {"dumb", "smart"} /\ Modes # {}
ASSUME NumSyscalls \in Nat \ {0} /\ NumSyscalls <= Cardinality(DOMAIN SysEntry)
ASSUME MaxTests \in Nat \ {0}
ASSUME InitDidJump \subseteq BOOLEAN /\ InitDidJump # {}
ASSUME EntryAlloc \subseteq BOOLEAN /\ TRUE \in EntryAlloc

(* free_old_arguments(), lines 186-212: types released through a free_*    *)
(* function of the resource module, called on the copy.                    *)
FreedByCopy == {"FILE_DESC", "FILE_PATH", "DIR_PATH", "SOCKET"}

(* Types whose generator allocates something the spec (4.6) says cleanup   *)
(* releases: the resource types and the shared buffer.                     *)
Allocating == FreedByCopy \cup {"VOID_BUF"}

ArgPos == 0..MaxArgs - 1

(* &ctx->arg_value_array[i], the address of an argument slot in the        *)
(* malloc()ed context: never the start of a mapping.                       *)
SlotAddr(p) == [slot |-> p]

VARIABLES
    pc,          \* where the worker is in its loop
    resume_at,   \* where a longjmp() lands: the last setjmp() executed
    did_jump,    \* ctx->did_jump
    sysno,       \* ctx->syscall_number
    nargs,       \* ctx->total_args
    argi,        \* ctx->current_arg, the generate_arguments() loop index
    value,       \* ctx->arg_value_array, the live (mutable) values
    copy,        \* ctx->arg_copy_array, the originals cleanup acts on
    live,        \* resources generated and not yet released
    strays,      \* values passed to a free_* function that were not live
    tests,       \* *test_counter
    cur,         \* the test the worker's context belongs to
    logs,        \* log_results() calls per test (2 means two or more)
    cleans,      \* free_old_arguments() passes per test (same cap)
    job,         \* the job smart mode is working on
    stop,        \* *stop, the shared stop flag
    why,         \* why the worker called exit_child()
    mode         \* the static mode, set once by setup_syscall_module()

vars == <<mode, pc, resume_at, did_jump, sysno, nargs, argi, value, copy, live,
          strays, tests, cur, logs, cleans, job, stop, why>>

NoJob == [kind |-> "NONE", syscall |-> 0]

(* A resource handle produced for argument i of the upcoming test, and the *)
(* values that are no resource: junk in a fresh copy buffer, a plain       *)
(* generated value, a value the mutator changed.                           *)
Res(i, t) == [test |-> tests + 1, pos |-> i, type |-> t]
NonResource(kind) == [test |-> 0, pos |-> 0, type |-> kind]
JUNK == NonResource("JUNK")
PLAIN == NonResource("PLAIN")
MUTATED == NonResource("MUTATED")

(* A count a property only needs to tell apart as 0, 1 or more.            *)
Bump(c) == IF c < 2 THEN c + 1 ELSE 2

Args(k) == SysEntry[k]

-----------------------------------------------------------------------------
(* The child signal handler: set did_jump and longjmp() to the last        *)
(* setjmp() (spec 5, "checkpoint and resume").                             *)
JumpBack ==
    /\ did_jump' = TRUE
    /\ pc' = resume_at

(* exit_child(): the process ends; the OS reclaims descriptors, sockets    *)
(* and mappings, which is outside this module.                             *)
ExitChild(reason) ==
    /\ pc' = "exited"
    /\ why' = reason

(* Mutant: cleanup releasing the live values, as a free_* call on the    *)
(* possibly mutated arg_value_array would.                                 *)
FreeOldArgumentsOnLive ==
    LET at(T) == {q \in 0..nargs - 1 : Args(sysno)[q + 1] \in T}
        released == {value[p] : p \in at(FreedByCopy)}
        unmap(p, m) == MemFreeShared(m, SlotAddr(p))
    IN  /\ \E entry \in MemAllocSucceeds(1) \cap EntryAlloc :
              IF entry
                THEN /\ live' = FoldSet(unmap, live \ released, at({"VOID_BUF"}))
                     /\ strays' = strays \cup (released \ live)
                ELSE UNCHANGED <<live, strays>>
        /\ cleans' = [cleans EXCEPT ![cur] = Bump(@)]

(* free_old_arguments(), lines 163-239.  get_entry() first: its mem_alloc() *)
(* may fail, and the NULL makes the function return -1 before freeing      *)
(* anything (lines 171-176; every caller ignores the result).  Otherwise   *)
(* the copies of every FILE_DESC, FILE_PATH, DIR_PATH and SOCKET argument  *)
(* go to their free_* function.  VOID_BUF passes &arg_value_array[i], the  *)
(* address of the slot and not the buffer, to mem_free_shared(), whose     *)
(* munmap() releases nothing.  PID and every other type are no-ops.        *)
FreeOldArguments ==
    LET at(T) == {q \in 0..nargs - 1 : Args(sysno)[q + 1] \in T}
        released == {copy[p] : p \in at(FreedByCopy)}
        unmap(p, m) == MemFreeShared(m, SlotAddr(p))
    IN  /\ \E entry \in MemAllocSucceeds(1) \cap EntryAlloc :
              IF entry
                THEN /\ live' = FoldSet(unmap, live \ released, at({"VOID_BUF"}))
                     /\ strays' = strays \cup (released \ live)
                ELSE UNCHANGED <<live, strays>>
        /\ cleans' = [cleans EXCEPT ![cur] = Bump(@)]

-----------------------------------------------------------------------------
Init ==
    /\ mode \in Modes
    /\ pc = "top"
    /\ resume_at = "top"
    /\ did_jump \in InitDidJump
    /\ sysno \in {k \in DOMAIN SysEntry : Args(k) # Hole}
    /\ nargs = Len(Args(sysno))
    /\ argi = 0
    /\ value = [p \in ArgPos |-> JUNK]
    /\ copy = [p \in ArgPos |-> JUNK]
    /\ live = {}
    /\ strays = {}
    /\ tests = 0
    /\ cur = 0
    /\ logs = [k \in 0..MaxTests |-> 0]
    /\ cleans = [k \in 0..MaxTests |-> 0]
    /\ job = NoJob
    /\ stop = FALSE
    /\ why = "none"

(* Mutant: the resume path without its log_results() call.               *)
ResumeLogResultsSkipped ==
    /\ pc = "top"
    /\ mode = "dumb"
    /\ did_jump
    /\ pc' = "resume_cleanup"
    /\ UNCHANGED <<mode, resume_at, did_jump, sysno, nargs, argi, value, copy, live,
                   strays, tests, cur, logs, cleans, job, stop, why>>

(* Lines 490-499: back at the setjmp() of start_syscall_child() with       *)
(* did_jump set, the results of the test in flight are logged ...          *)
ResumeLogResults ==
    /\ pc = "top"
    /\ mode = "dumb"
    /\ did_jump
    /\ logs' = [logs EXCEPT ![cur] = Bump(@)]
    /\ pc' = "resume_cleanup"
    /\ UNCHANGED <<mode, resume_at, did_jump, sysno, nargs, argi, value, copy, live,
                   strays, tests, cur, cleans, job, stop, why>>

(* ... and its arguments cleaned up, lines 501-507.  get_entry() on a hole *)
(* hands back the uninitialised pointer, whose dereference faults again.   *)
ResumeCleanup ==
    /\ pc = "resume_cleanup"
    /\ IF Args(sysno) = Hole
         THEN /\ JumpBack
              /\ UNCHANGED <<mode, live, strays, cleans>>
         ELSE /\ FreeOldArguments
              /\ pc' = "loop"
              /\ UNCHANGED did_jump
    /\ UNCHANGED <<mode, resume_at, sysno, nargs, argi, value, copy, tests, cur,
                   logs, job, stop, why>>

(* Lines 483-491 and 391: a first entry, or smart mode, goes to the loop.  *)
Start ==
    /\ pc = "top"
    /\ mode = "smart" \/ ~did_jump
    /\ pc' = "loop"
    /\ UNCHANGED <<mode, resume_at, did_jump, sysno, nargs, argi, value, copy, live,
                   strays, tests, cur, logs, cleans, job, stop, why>>

(* Lines 399 and 511: the loop condition on the shared stop flag.          *)
LoopHead ==
    /\ pc = "loop"
    /\ IF stop
         THEN ExitChild("stop")
         ELSE /\ pc' = IF mode = "dumb" THEN "pick" ELSE "get_job"
              /\ UNCHANGED why
    /\ UNCHANGED <<mode, resume_at, did_jump, sysno, nargs, argi, value, copy, live,
                   strays, tests, cur, logs, cleans, job, stop>>

(* Mutant: ctx->total_args one larger than the entry's argument count.    *)
PickSyscallArgsOffByOne(k) ==
    /\ pc = "pick"
    /\ tests < MaxTests
    /\ sysno' = k
    /\ IF Args(k) = Hole
         THEN /\ JumpBack
              /\ UNCHANGED <<mode, nargs, argi>>
         ELSE /\ nargs' = Len(Args(k)) + 1
              /\ argi' = 0
              /\ pc' = "generate"
              /\ UNCHANGED did_jump
    /\ UNCHANGED <<mode, resume_at, value, copy, live, strays, tests, cur, logs,
                   cleans, job, stop, why>>

(* pick_syscall(), lines 793-817: rand_range() stores the index first,     *)
(* then the entry is read; a hole faults.                                  *)
PickSyscall(k) ==
    /\ pc = "pick"
    /\ tests < MaxTests
    /\ sysno' = k
    /\ IF Args(k) = Hole
         THEN /\ JumpBack
              /\ UNCHANGED <<mode, nargs, argi>>
         ELSE /\ nargs' = Len(Args(k))
              /\ argi' = 0
              /\ pc' = "generate"
              /\ UNCHANGED did_jump
    /\ UNCHANGED <<mode, resume_at, value, copy, live, strays, tests, cur, logs,
                   cleans, job, stop, why>>

(* Mutant: the generated value is not copied into arg_copy_array.        *)
GenerateArgNoCopy ==
    /\ pc \in {"generate", "g_generate"}
    /\ argi < nargs
    /\ LET t == Args(sysno)[argi + 1]
           v == IF t \in Allocating THEN Res(argi, t) ELSE PLAIN
       IN  /\ value' = [value EXCEPT ![argi] = v]
           /\ live' = IF t \in Allocating THEN live \cup {v} ELSE live
    /\ argi' = argi + 1
    /\ UNCHANGED <<mode, pc, resume_at, did_jump, sysno, nargs, copy, strays, tests,
                   cur, logs, cleans, job, stop, why>>

(* generate_arguments(), lines 819-847, one argument per step: the         *)
(* generator writes the live slot and the value is copied to the copy slot *)
(* before any mutation.                                                    *)
GenerateArg ==
    /\ pc \in {"generate", "g_generate"}
    /\ argi < nargs
    /\ LET t == Args(sysno)[argi + 1]
           v == IF t \in Allocating THEN Res(argi, t) ELSE PLAIN
       IN  /\ value' = [value EXCEPT ![argi] = v]
           /\ copy' = [copy EXCEPT ![argi] = v]
           /\ live' = IF t \in Allocating THEN live \cup {v} ELSE live
    /\ argi' = argi + 1
    /\ UNCHANGED <<mode, pc, resume_at, did_jump, sysno, nargs, strays, tests, cur,
                   logs, cleans, job, stop, why>>

GenerateDone ==
    /\ pc \in {"generate", "g_generate"}
    /\ argi = nargs
    /\ pc' = IF pc = "generate" THEN "mutate" ELSE "g_log_args"
    /\ UNCHANGED <<mode, resume_at, did_jump, sysno, nargs, argi, value, copy, live,
                   strays, tests, cur, logs, cleans, job, stop, why>>

(* mutate_arguments(), line 530: any subset of the live values changes.    *)
MutateArguments ==
    /\ pc = "mutate"
    /\ \E m \in SUBSET (0..nargs - 1) :
          value' = [p \in ArgPos |-> IF p \in m THEN MUTATED ELSE value[p]]
    /\ pc' = "log_args"
    /\ UNCHANGED <<mode, resume_at, did_jump, sysno, nargs, argi, copy, live,
                   strays, tests, cur, logs, cleans, job, stop, why>>

(* get_entry() and log_arguments() before the call, lines 316-331 and      *)
(* 537-553.                                                                *)
LogArguments ==
    /\ pc \in {"log_args", "g_log_args"}
    /\ pc' = IF pc = "log_args" THEN "invoke" ELSE "g_invoke"
    /\ UNCHANGED <<mode, resume_at, did_jump, sysno, nargs, argi, value, copy, live,
                   strays, tests, cur, logs, cleans, job, stop, why>>

(* test_syscall(), lines 857-889: the test counter is bumped before the    *)
(* call; the call returns (its value and error recorded in the context).   *)
(* need_alarm is never set in a shadow entry, so no alarm is armed.        *)
InvokeReturns ==
    /\ pc \in {"invoke", "g_invoke"}
    /\ tests < MaxTests
    /\ tests' = tests + 1
    /\ cur' = tests + 1
    /\ pc' = IF pc = "invoke" THEN "log_results" ELSE "g_cleanup"
    /\ UNCHANGED <<mode, resume_at, did_jump, sysno, nargs, argi, value, copy, live,
                   strays, logs, cleans, job, stop, why>>

(* The call raises a fault signal instead: the handler jumps back.         *)
InvokeFaults ==
    /\ pc \in {"invoke", "g_invoke"}
    /\ tests < MaxTests
    /\ tests' = tests + 1
    /\ cur' = tests + 1
    /\ JumpBack
    /\ UNCHANGED <<mode, resume_at, sysno, nargs, argi, value, copy, live, strays,
                   logs, cleans, job, stop, why>>

(* log_results() after a call that returned, lines 564-569.                *)
LogResults ==
    /\ pc = "log_results"
    /\ logs' = [logs EXCEPT ![cur] = Bump(@)]
    /\ pc' = "cleanup"
    /\ UNCHANGED <<mode, resume_at, did_jump, sysno, nargs, argi, value, copy, live,
                   strays, tests, cur, cleans, job, stop, why>>

(* free_old_arguments() at the end of an iteration, lines 573 and 352;     *)
(* its return value is ignored there.                                      *)
Cleanup ==
    /\ pc \in {"cleanup", "g_cleanup"}
    /\ FreeOldArguments
    /\ pc' = "loop"
    /\ UNCHANGED <<mode, resume_at, did_jump, sysno, nargs, argi, value, copy,
                   tests, cur, logs, job, stop, why>>

(* get_job(), lines 261-274: msg_recv() blocks until a job is posted.      *)
GetJob(j) ==
    /\ pc = "get_job"
    /\ job' = j
    /\ pc' = "do_job"
    /\ UNCHANGED <<mode, resume_at, did_jump, sysno, nargs, argi, value, copy, live,
                   strays, tests, cur, logs, cleans, stop, why>>

(* do_job(), lines 357-372, and its caller at 412-417: NEW_GENERATION is a *)
(* no-op, an unknown kind returns -1 and the worker exits.                 *)
DoJob ==
    /\ pc = "do_job"
    /\ CASE job.kind = "GENESIS"        -> (pc' = "genesis" /\ UNCHANGED why)
         [] job.kind = "NEW_GENERATION" -> (pc' = "loop" /\ UNCHANGED why)
         [] OTHER                       -> ExitChild("unknown_job")
    /\ UNCHANGED <<mode, resume_at, did_jump, sysno, nargs, argi, value, copy, live,
                   strays, tests, cur, logs, cleans, job, stop>>

(* process_genesis(), lines 292-298: a setjmp() of its own replaces the    *)
(* loop's checkpoint.                                                      *)
GenesisCheckpoint ==
    /\ pc = "genesis"
    /\ resume_at' = "g_set_syscall"
    /\ pc' = "g_set_syscall"
    /\ UNCHANGED <<mode, did_jump, sysno, nargs, argi, value, copy, live, strays,
                   tests, cur, logs, cleans, job, stop, why>>

(* set_syscall(), lines 241-259 via 300-306: an index above count - 1 is   *)
(* refused and the worker exits; a hole faults on the dereference.  A      *)
(* longjmp() back into process_genesis() lands here again with the same    *)
(* job, so the test is run once more.                                      *)
SetSyscall ==
    /\ pc = "g_set_syscall"
    /\ LET k == job.syscall IN
         IF k > NumSyscalls - 1
           THEN /\ ExitChild("bad_syscall")
                /\ UNCHANGED <<mode, did_jump, sysno, nargs, argi>>
           ELSE /\ sysno' = k
                /\ IF Args(k) = Hole
                     THEN /\ JumpBack
                          /\ UNCHANGED <<mode, nargs, argi, why>>
                     ELSE /\ nargs' = Len(Args(k))
                          /\ argi' = 0
                          /\ pc' = "g_generate"
                          /\ UNCHANGED <<mode, did_jump, why>>
    /\ UNCHANGED <<mode, resume_at, value, copy, live, strays, tests, cur, logs,
                   cleans, job, stop>>

(* Any external collaborator the loop calls returning -1: rand_range(),    *)
(* a generator, the mutator, log_arguments(), log_results() or msg_recv(). *)
(* Every one of these error paths calls exit_child().                      *)
CallFails ==
    /\ \/ pc \in {"pick", "generate", "g_generate", "mutate", "log_args",
                  "g_log_args", "log_results", "get_job"}
       \/ pc = "top" /\ mode = "dumb" /\ did_jump
    /\ ExitChild("call_failed")
    /\ UNCHANGED <<mode, resume_at, did_jump, sysno, nargs, argi, value, copy, live,
                   strays, tests, cur, logs, cleans, job, stop>>

(* The user presses ctrl-c: the parent sets the shared stop flag.          *)
SetStop ==
    /\ ~stop
    /\ stop' = TRUE
    /\ UNCHANGED <<mode, pc, resume_at, did_jump, sysno, nargs, argi, value, copy,
                   live, strays, tests, cur, logs, cleans, job, why>>

WorkerStep ==
    \/ ResumeLogResults
    \/ ResumeCleanup
    \/ Start
    \/ LoopHead
    \/ \E k \in 0..NumSyscalls - 1 : PickSyscall(k)
    \/ GenerateArg
    \/ GenerateDone
    \/ MutateArguments
    \/ LogArguments
    \/ InvokeReturns
    \/ InvokeFaults
    \/ LogResults
    \/ Cleanup
    \/ DoJob
    \/ GenesisCheckpoint
    \/ SetSyscall
    \/ CallFails

Next ==
    \/ WorkerStep
    \/ \E j \in Jobs : GetJob(j)
    \/ SetStop

(* Only safety is checked of the loop: a syscall without an alarm may      *)
(* block for ever, so not even the worker's own steps are assumed to       *)
(* happen.                                                                 *)
Spec == Init /\ [][Next]_vars

-----------------------------------------------------------------------------
Value == {JUNK, PLAIN, MUTATED} \cup
         [test : 1..MaxTests + 1, pos : ArgPos, type : Allocating]

TypeOK ==
    /\ mode \in Modes
    /\ pc \in {"top", "resume_cleanup", "loop", "pick", "generate", "mutate",
               "log_args", "invoke", "log_results", "cleanup", "get_job",
               "do_job", "genesis", "g_set_syscall", "g_generate",
               "g_log_args", "g_invoke", "g_cleanup", "exited"}
    /\ resume_at \in {"top", "g_set_syscall"}
    /\ did_jump \in BOOLEAN
    /\ value \in [ArgPos -> Value]
    /\ copy \in [ArgPos -> Value]
    /\ argi \in 0..nargs
    /\ nargs \in 0..MaxArgs
    /\ live \subseteq Value
    /\ tests \in 0..MaxTests
    /\ logs \in [0..MaxTests -> 0..2]
    /\ cleans \in [0..MaxTests -> 0..2]

(* Cleanup only ever hands a free_* function a resource this worker       *)
(* generated and still holds: never junk from an uninitialised copy, a     *)
(* mutated value, or a resource an earlier pass already released (spec     *)
(* 4.4 and 4.6: the copy is taken before mutation and cleaned once).       *)
NoStrayFree == strays = {}

(* No test is logged or cleaned twice, in either mode, whatever faults    *)
(* and jumps back happen; in dumb mode every test that reached the         *)
(* syscall also gets its one outcome log and cleanup pass, returned or     *)
(* faulted, before the loop starts the next test (spec 8, "Checkpoint      *)
(* resume").  Smart mode logs no outcome at all (a hazard of its own).     *)
OutcomeHandledOnce ==
    /\ \A k \in 1..tests : logs[k] <= 1 /\ cleans[k] <= 1
    /\ pc = "loop" /\ mode = "dumb" =>
          \A k \in 1..tests : logs[k] = 1 /\ cleans[k] = 1

(* Between two tests the worker holds no resource or shared buffer it      *)
(* generated: each one was released by cleanup (spec 4.6).                 *)
NoLeakBetweenTests ==
    pc = "loop" => live = {}
=============================================================================
