------------------------------ MODULE FileCopy ------------------------------
(***************************************************************************)
(* copy_file_to(src, dst) of src/src/io.c and the two helpers it calls:    *)
(* map_file_in() maps the source, map_file_out() creates the destination,  *)
(* extends it to the source's size with lseek(size - 1) and a one-byte     *)
(* write, maps it and memcpy()s the source into the mapping.  Both         *)
(* mappings are MAP_PRIVATE.                                               *)
(*                                                                         *)
(* A file is a sequence of bytes.  The kernel keeps two copies of each:    *)
(* what open(), read() and mmap() see (cache) and what survives a power    *)
(* loss (disk).  The kernel may write a file back at any time, fsync()     *)
(* writes it back at once, and a crash replaces cache by disk and ends the *)
(* process.  Every system call may fail; the model keeps the failure, not  *)
(* its cause, except where the arguments alone make it fail.              *)
(***************************************************************************)
EXTENDS Integers, Sequences, FiniteSets

CONSTANTS
    Bytes,       \* byte values; 0 is the byte write(fd, "", 1) writes
    MaxSize,     \* the longest file
    MaxCrashes,  \* bound on power losses
    NoReturn     \* ret before copy_file_to() has returned

ASSUME /\ 0 \in Bytes
       /\ MaxSize \in Nat \ {0}
       /\ MaxCrashes \in Nat
       /\ NoReturn \notin Int

Names == {"src", "dst"}

(* The contents a file may have.                                           *)
Contents == UNION {[1..n -> Bytes] : n \in 0..MaxSize}

VARIABLES
    cache,    \* [Names -> Contents]: the file as processes see it
    disk,     \* [Names -> Contents]: the file as a crash leaves it
    pc,       \* the step copy_file_to() is at, "done", "failed", "crashed"
    fds,      \* the open descriptors, by the file they refer to
    maps,     \* the mappings: [file, data]
    size,     \* file_size, set by map_file_in()
    ret,      \* what copy_file_to() returned: NoReturn, 0 or -1
    crashes   \* power losses so far

vars == <<cache, disk, pc, fds, maps, size, ret, crashes>>

Mapping == [file : Names, data : Contents]

TypeOK ==
    /\ cache \in [Names -> Contents]
    /\ disk \in [Names -> Contents]
    /\ pc \in {"open_src", "map_in", "open_dst", "extend", "map_out",
               "copy", "fsync", "done", "failed", "crashed"}
    /\ fds \subseteq Names
    /\ maps \subseteq Mapping
    /\ size \in 0..MaxSize
    /\ ret \in {NoReturn, 0, -1}
    /\ crashes \in 0..MaxCrashes

(* Both files exist with any contents, all of it on disk.                  *)
Init ==
    /\ cache \in [Names -> Contents]
    /\ disk = cache
    /\ pc = "open_src"
    /\ fds = {}
    /\ maps = {}
    /\ size = 0
    /\ ret = NoReturn
    /\ crashes = 0

(* mmap(0, n, PROT_READ | PROT_WRITE, MAP_PRIVATE, fd, 0) of file f.  A    *)
(* length of zero is EINVAL; a private mapping starts as the file's pages. *)
MmapPrivate(f) == [file |-> f, data |-> cache[f]]
MmapFails(n) == IF n = 0 THEN {TRUE} ELSE BOOLEAN

(* A return of -1 from copy_file_to(): the auto_close cleanup of `file`    *)
(* closes the source; every other descriptor and mapping stays.            *)
Fail ==
    /\ pc' = "failed"
    /\ ret' = -1
    /\ fds' = fds \ {"src"}

-----------------------------------------------------------------------------
(* Lines 122-127: open(src, O_RDONLY).                                     *)
OpenSrc ==
    /\ pc = "open_src"
    /\ \/ Fail /\ UNCHANGED maps
       \/ pc' = "map_in" /\ fds' = fds \cup {"src"} /\ UNCHANGED <<maps, ret>>
    /\ UNCHANGED <<cache, disk, size, crashes>>

(* map_file_in(), lines 54-73, called at 129-134: get_file_size() and a    *)
(* private read-write mapping of the whole source.                         *)
MapFileIn ==
    /\ pc = "map_in"
    /\ size' = Len(cache["src"])
    /\ \E statFails \in BOOLEAN, mmapFails \in MmapFails(Len(cache["src"])) :
          IF statFails \/ mmapFails
          THEN Fail /\ UNCHANGED maps
          ELSE /\ maps' = maps \cup {MmapPrivate("src")}
               /\ pc' = "open_dst"
               /\ UNCHANGED <<fds, ret>>
    /\ UNCHANGED <<cache, disk, crashes>>

(* map_file_out(), lines 79-84: open(dst, O_RDWR | O_CREAT | O_TRUNC).     *)
OpenDst ==
    /\ pc = "open_dst"
    /\ \/ Fail /\ UNCHANGED <<cache, maps>>
       \/ /\ cache' = [cache EXCEPT !["dst"] = <<>>]
          /\ fds' = fds \cup {"dst"}
          /\ pc' = "extend"
          /\ UNCHANGED <<maps, ret>>
    /\ UNCHANGED <<disk, size, crashes>>

(* The file after lseek(fd, off, SEEK_SET) and write(fd, "", 1): a hole    *)
(* of zeros up to off, then the byte 0.                                    *)
WriteAt(c, off) == [k \in 1..off + 1 |-> IF k <= Len(c) THEN c[k] ELSE 0]

(* Mutant: the file extended to off + 1 bytes, as lseek(fd, size, ...)    *)
(* would.                                                                  *)
ExtendPastSize ==
    /\ pc = "extend"
    /\ \/ Fail /\ UNCHANGED cache
       \/ /\ cache' = [cache EXCEPT !["dst"] = WriteAt(@, size)]
          /\ pc' = "map_out"
          /\ UNCHANGED <<fds, ret>>
    /\ UNCHANGED <<disk, maps, size, crashes>>

(* Mutant: lseek() alone, without the write that extends the file.       *)
ExtendSeekOnly ==
    /\ pc = "extend"
    /\ \/ Fail /\ UNCHANGED cache
       \/ pc' = "map_out" /\ UNCHANGED <<cache, fds, ret>>
    /\ UNCHANGED <<disk, maps, size, crashes>>

(* Lines 86-97.  size is at least one here: map_file_in() refused zero.    *)
Extend ==
    /\ pc = "extend"
    /\ \/ Fail /\ UNCHANGED cache
       \/ /\ cache' = [cache EXCEPT !["dst"] = WriteAt(@, size - 1)]
          /\ pc' = "map_out"
          /\ UNCHANGED <<fds, ret>>
    /\ UNCHANGED <<disk, maps, size, crashes>>

(* Lines 99-104: the private mapping of the destination.                   *)
MapOut ==
    /\ pc = "map_out"
    /\ \/ Fail /\ UNCHANGED maps
       \/ /\ maps' = maps \cup {MmapPrivate("dst")}
          /\ pc' = "copy"
          /\ UNCHANGED <<fds, ret>>
    /\ UNCHANGED <<cache, disk, size, crashes>>

(* Lines 106-112: memcpy() of the source's bytes into the private pages   *)
(* of the destination mapping, which munmap() then discards, and close();  *)
(* the helper returns 0.  The file itself is left as Extend made it.       *)
CopyOut ==
    /\ pc = "copy"
    /\ maps' = {m \in maps : m.file # "dst"}
    /\ fds' = fds \ {"dst"}
    /\ pc' = "fsync"
    /\ UNCHANGED <<cache, disk, size, ret, crashes>>

(* Mutant: the source mapping left in place on the way out.              *)
FsyncKeepsMapping ==
    /\ pc = "fsync"
    /\ \/ Fail /\ UNCHANGED <<disk, maps>>
       \/ /\ disk' = [disk EXCEPT !["src"] = cache["src"]]
          /\ fds' = fds \ {"src"}
          /\ ret' = 0
          /\ pc' = "done"
          /\ UNCHANGED maps
    /\ UNCHANGED <<cache, size, crashes>>

(* Lines 143-152: fsync(file), which is the source descriptor, then        *)
(* munmap() of the source mapping; copy_file_to() returns 0 and closes     *)
(* the source.                                                             *)
Fsync ==
    /\ pc = "fsync"
    /\ \/ Fail /\ UNCHANGED <<disk, maps>>
       \/ /\ disk' = [disk EXCEPT !["src"] = cache["src"]]
          /\ maps' = {m \in maps : m.file # "src"}
          /\ fds' = fds \ {"src"}
          /\ ret' = 0
          /\ pc' = "done"
    /\ UNCHANGED <<cache, size, crashes>>

-----------------------------------------------------------------------------
(* The kernel writes a file's pages back on its own schedule.              *)
Writeback(f) ==
    /\ disk[f] # cache[f]
    /\ disk' = [disk EXCEPT ![f] = cache[f]]
    /\ UNCHANGED <<cache, pc, fds, maps, size, ret, crashes>>

(* A power loss: what was not written back is lost and the process is     *)
(* gone with its descriptors and mappings.  What copy_file_to() returned,  *)
(* its caller has already acted on.                                        *)
Crash ==
    /\ crashes < MaxCrashes
    /\ pc # "crashed"
    /\ cache' = disk
    /\ pc' = "crashed"
    /\ fds' = {}
    /\ maps' = {}
    /\ crashes' = crashes + 1
    /\ UNCHANGED <<disk, size, ret>>

Next ==
    \/ OpenSrc \/ MapFileIn \/ OpenDst \/ Extend \/ MapOut \/ CopyOut
    \/ Fsync \/ Crash
    \/ \E f \in Names : Writeback(f)

Spec == Init /\ [][Next]_vars

-----------------------------------------------------------------------------
(* A copy that returns 0 leaves the destination exactly as long as the     *)
(* source: the lseek(size - 1) and one-byte write of map_file_out() reach  *)
(* size and not one byte more or less.                                     *)
CopyKeepsSize ==
    pc = "done" => Len(cache["dst"]) = Len(cache["src"])

(* A copy that returns 0 has closed both descriptors and unmapped both     *)
(* files, across map_file_in(), map_file_out() and copy_file_to()'s own    *)
(* cleanup.                                                                *)
SuccessReleasesAll ==
    pc = "done" => fds = {} /\ maps = {}

(* Once copy_file_to() has returned 0, the destination holds the source's  *)
(* bytes, now and after a power loss: what the caller of a copy relies on. *)
CopyDurable ==
    ret = 0 => cache["dst"] = cache["src"]
=============================================================================
