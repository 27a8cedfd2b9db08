--------------------------- MODULE MC_SyscallTable ---------------------------
(* Model-checking instance of SyscallTable: every descriptor table of up   *)
(* to four entries, each entry ON or OFF, with and without a resolvable    *)
(* argument context and a need_alarm flag.  The status values and the      *)
(* sentinels are model values in the cfg.                                  *)
EXTENDS SyscallTable

MC_MaxDescs == 4
=============================================================================
