------------------------------- MODULE Memory -------------------------------
(***************************************************************************)
(* The memory primitives of src/src/memory.c that the modelled code calls, *)
(* as operators.  The heap and the mappings themselves belong to the       *)
(* modules that use them: a mapping is named by its start address.         *)
(***************************************************************************)
EXTENDS Naturals

(* mem_alloc(nbytes), lines 27-45: a request for zero bytes is refused     *)
(* with NULL; any other request gets a block unless malloc() fails.  The   *)
(* outcomes, TRUE for a block.                                             *)
MemAllocSucceeds(nbytes) == IF nbytes = 0 THEN {FALSE} ELSE BOOLEAN

(* mem_free_shared(ptr, nbytes), lines 98-106: NULL is ignored; otherwise  *)
(* munmap() removes the mapping that starts at ptr.  NULL, like any        *)
(* address that starts no mapping, releases none (munmap() fails or unmaps *)
(* nothing), so both cases are one set difference.                        *)
MemFreeShared(maps, ptr) == maps \ {ptr}
=============================================================================
