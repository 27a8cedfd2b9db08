-------------------------- MODULE MC_PluginLoader --------------------------
(* Model-checking instance of PluginLoader: two plugins, a hidden ".so"    *)
(* (".x.so"), a file of another type and a name get_extension() rejects,   *)
(* any of them in the directory at the start, and up to two changes by     *)
(* other processes.                                                        *)
EXTENDS PluginLoader

CONSTANTS a, b, h, t, n

MC_Files == {a, b, h, t, n}
MC_Hidden == [f \in MC_Files |-> f = h]
MC_Ext == [f \in MC_Files |-> CASE f = t -> "other"
                                [] f = n -> "fail"
                                [] OTHER -> "so"]
MC_MaxChanges == 2
=============================================================================
