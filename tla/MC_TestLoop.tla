----------------------------- MODULE MC_TestLoop -----------------------------
(* Model-checking instances of TestLoop.  The shadow tables are built     *)
(* from the FreeBSD descriptors in src/src/syscall/freebsd/, reduced to    *)
(* what the builder and the loop read: the status and the argument types.  *)
EXTENDS TestLoop, TLC

EntryCreat   == [status |-> "ON",
                 args |-> <<"FILE_PATH", "MODE">>]
EntryMount   == [status |-> "ON",
                 args |-> <<"MOUNT_TYPE", "MOUNT_PATH", "MOUNT_FLAG", "VOID_BUF">>]
EntryRecvmsg == [status |-> "ON",
                 args |-> <<"SOCKET", "VOID_BUF", "SIZE", "RECV_FLAG">>]

(* What get_syscall_table() makes of a descriptor table: the entry for     *)
(* position i at sys_entry[i], an unset slot for an OFF one, and the count *)
(* of the ON ones.                                                         *)
ShadowTableOf(d) ==
    [k \in 0..Len(d) - 1 |-> IF d[k + 1].status = "ON" THEN d[k + 1].args
                                                       ELSE Hole]
CountOf(d) == Cardinality({k \in DOMAIN d : d[k].status = "ON"})

Switched(e) == [e EXCEPT !.status = "OFF"]

TableCreat      == ShadowTableOf(<<EntryCreat>>)
TableRecvmsg    == ShadowTableOf(<<EntryCreat, EntryRecvmsg>>)
CountCreat      == CountOf(<<EntryCreat>>)
CountRecvmsg    == CountOf(<<EntryCreat, EntryRecvmsg>>)

(* mount switched OFF ahead of creat: slot 0 unset, count 1.               *)
TableOffFirst   == ShadowTableOf(<<Switched(EntryMount), EntryCreat>>)

(* Jobs the genetic module may post: the two known kinds and one it does   *)
(* not know, for every index up to one past the count.                     *)
JobsFor(n) == [kind : {"GENESIS", "NEW_GENERATION", "BOGUS"}, syscall : 0..n]

NoJobs     == {}
JobsCreat  == JobsFor(CountCreat)
JobsRecvmsg == JobsFor(CountRecvmsg)
DidJumpClear  == {FALSE}

(* setup_syscall_module() may be given either mode.                        *)
MC_Modes == {"dumb", "smart"}

MC_MaxTests == 5
=============================================================================
