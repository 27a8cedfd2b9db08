----------------------------- MODULE PluginLoader -----------------------------
(***************************************************************************)
(* The plugin loader of src/src/plugin.c: count_plugins() walks the        *)
(* "src/plugins" directory and adds one to map->plugin_count per visible   *)
(* file whose extension starts with ".so"; load_all_plugins() walks the    *)
(* same directory again and fills map->plugins[0], [1], ... for each such  *)
(* file, with no test of the index against plugin_count.  plugins[] holds  *)
(* plugin_count entries, allocated by the caller between the two passes.   *)
(*                                                                         *)
(* The directory is shared with the rest of the system: another process    *)
(* may add or remove a file at any time.  readdir() returns the entries in *)
(* no fixed order, and whether it returns a file added or removed after    *)
(* opendir() is unspecified (POSIX), so the walk keeps the set of entries  *)
(* still to come and a change may or may not reach it.  A file is a model  *)
(* value; what the loader reads of it is whether its name starts with '.'  *)
(* and what get_extension() makes of it: ".so...", another extension, or a *)
(* failure.  Paths, names and dlopen() handles are left out.               *)
(***************************************************************************)
EXTENDS Naturals, FiniteSets, Functions, TLC

CONSTANTS
    Files,       \* file names that may appear in the directory
    Hidden,      \* Hidden[f]: d_name[0] == '.'
    Ext,         \* Ext[f]: "so", "other" or "fail" (get_extension() < 0)
    Present,     \* whether src/plugins exists, i.e. opendir() succeeds
    MaxChanges   \* bound on the directory changes made by other processes

ASSUME /\ Hidden \in [Files -> BOOLEAN]
       /\ Ext \in [Files -> {"so", "other", "fail"}]
       /\ Present \in BOOLEAN
       /\ MaxChanges \in Nat

VARIABLES
    dir,      \* the files now in src/plugins
    pc,       \* "count", "count_walk", "load", "load_walk", "done", "failed"
    pending,  \* entries the open directory stream has still to return
    count,    \* map->plugin_count
    i,        \* the slot index of load_all_plugins()
    plugins,  \* the slots of map->plugins written so far: index -> file
    changes,  \* directory changes made so far
    changed   \* whether the directory changed once the count began

vars == <<dir, pc, pending, count, i, plugins, changes, changed>>

(* The files both passes take for plugins.                                 *)
IsPlugin(f) == ~Hidden[f] /\ Ext[f] = "so"

Init ==
    /\ dir \in SUBSET Files
    /\ pc = "count"
    /\ pending = {}
    /\ count = 0
    /\ i = 0
    /\ plugins = [k \in {} |-> Files]
    /\ changes = 0
    /\ changed = FALSE

-----------------------------------------------------------------------------
(* count_plugins(), lines 41-49: opendir(), or return -1.                  *)
CountOpen ==
    /\ pc = "count"
    /\ pc' = IF Present THEN "count_walk" ELSE "failed"
    /\ pending' = dir
    /\ UNCHANGED <<dir, count, i, plugins, changes, changed>>

(* Lines 52-73: one readdir() entry.  A hidden name is skipped, a failed   *)
(* get_extension() returns -1, a ".so" prefix adds one to *count, which    *)
(* the function never zeroed.                                              *)
CountEntry(f) ==
    /\ pc = "count_walk"
    /\ f \in pending
    /\ pending' = pending \ {f}
    /\ pc' = IF ~Hidden[f] /\ Ext[f] = "fail" THEN "failed" ELSE "count_walk"
    /\ count' = IF IsPlugin(f) THEN count + 1 ELSE count
    /\ UNCHANGED <<dir, i, plugins, changes, changed>>

(* Lines 52 and 75: readdir() returns NULL, the count pass returns 0.      *)
CountDone ==
    /\ pc = "count_walk"
    /\ pending = {}
    /\ pc' = "load"
    /\ UNCHANGED <<dir, pending, count, i, plugins, changes, changed>>

(* load_all_plugins(), lines 92-115: with a zero count return 0 at once,   *)
(* else opendir(), or return -1.                                           *)
LoadOpen ==
    /\ pc = "load"
    /\ pc' = CASE count = 0 -> "done"
               [] Present   -> "load_walk"
               [] OTHER     -> "failed"
    /\ pending' = dir
    /\ UNCHANGED <<dir, count, i, plugins, changes, changed>>

(* Lines 118-135 and 188: a hidden or non-plugin entry is passed over, a   *)
(* failed get_extension() returns -1.                                      *)
LoadSkip(f) ==
    /\ pc = "load_walk"
    /\ f \in pending
    /\ ~IsPlugin(f)
    /\ pending' = pending \ {f}
    /\ pc' = IF ~Hidden[f] /\ Ext[f] = "fail" THEN "failed" ELSE "load_walk"
    /\ UNCHANGED <<dir, count, i, plugins, changes, changed>>

(* Mutant: the slot index not advanced after a load.                     *)
LoadPluginNoAdvance(f) ==
    /\ pc = "load_walk"
    /\ f \in pending
    /\ IsPlugin(f)
    /\ pending' = pending \ {f}
    /\ plugins' = (i :> f) @@ plugins
    /\ UNCHANGED <<dir, pc, count, i, changes, changed>>

(* Lines 137-187 for a ".so" entry: malloc, getcwd and the path string,    *)
(* then plugins[i]'s path and name are written, dlopen() succeeds, i++.    *)
LoadPlugin(f) ==
    /\ pc = "load_walk"
    /\ f \in pending
    /\ IsPlugin(f)
    /\ pending' = pending \ {f}
    /\ plugins' = (i :> f) @@ plugins
    /\ i' = i + 1
    /\ UNCHANGED <<dir, pc, count, changes, changed>>

(* Lines 140-185, the error returns for a ".so" entry: malloc(), getcwd()  *)
(* or the path asprintf() failing leaves plugins[i] alone; a failed        *)
(* dlopen() comes after plugins[i]'s path and name were written.           *)
LoadPluginFail(f) ==
    /\ pc = "load_walk"
    /\ f \in pending
    /\ IsPlugin(f)
    /\ pending' = pending \ {f}
    /\ \E wrote \in BOOLEAN :
          plugins' = IF wrote THEN (i :> f) @@ plugins ELSE plugins
    /\ pc' = "failed"
    /\ UNCHANGED <<dir, count, i, changes, changed>>

(* Lines 118 and 191: the walk ends, load_all_plugins() returns 0.         *)
LoadDone ==
    /\ pc = "load_walk"
    /\ pending = {}
    /\ pc' = "done"
    /\ UNCHANGED <<dir, pending, count, i, plugins, changes, changed>>

-----------------------------------------------------------------------------
(* Another process adds or removes a file.  An open stream may or may not  *)
(* report the change.                                                      *)
DirChange(f) ==
    /\ changes < MaxChanges
    /\ dir' = IF f \in dir THEN dir \ {f} ELSE dir \cup {f}
    /\ \E seen \in BOOLEAN :
          pending' = IF seen /\ pc \in {"count_walk", "load_walk"}
                       THEN IF f \in dir THEN pending \ {f} ELSE pending \cup {f}
                       ELSE pending
    /\ changes' = changes + 1
    /\ changed' = (changed \/ pc # "count")
    /\ UNCHANGED <<pc, count, i, plugins>>

Next ==
    \/ CountOpen
    \/ CountDone
    \/ LoadOpen
    \/ LoadDone
    \/ \E f \in Files : \/ CountEntry(f) \/ LoadSkip(f)
                        \/ LoadPlugin(f) \/ LoadPluginFail(f)
                        \/ DirChange(f)

Spec == Init /\ [][Next]_vars

-----------------------------------------------------------------------------
(* When nothing touched the directory during the two passes, a load that   *)
(* returns 0 has filled exactly plugins[0..plugin_count-1], one slot per   *)
(* visible ".so" file, each file once: the count pass and the load pass    *)
(* skip and take the same entries and the slot index advances per load.    *)
LoadMatchesCount ==
    (pc = "done" /\ ~changed) =>
        /\ DOMAIN plugins = 0..count - 1
        /\ IsInjective(plugins)
        /\ Range(plugins) = {f \in dir : IsPlugin(f)}

(* load_all_plugins() writes only slots below map->plugin_count, the size  *)
(* of the plugins[] array the count pass sized.                            *)
PluginSlotsInBounds ==
    \A k \in DOMAIN plugins : k < count
=============================================================================
