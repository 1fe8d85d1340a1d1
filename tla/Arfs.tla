------------------------------ MODULE Arfs ------------------------------
(***************************************************************************)
(* ARFS in use: the shell and the write syscall create, replace and remove *)
(* files and directories; a sector write can fail; the machine can lose    *)
(* power between any two sector writes and start again from the disk.      *)
(*                                                                         *)
(* One operation at a time: the kernel runs them to completion on one      *)
(* processor, so the only interleaving is with a loss of power.            *)
(***************************************************************************)
EXTENDS ArfsCore

CONSTANTS
    Paths,        \* paths the callers use
    ShippedPath,  \* the directory on the disk image
    Files,        \* the files they write, with their type: `write' and the write
                  \* syscall make text files, `writehex' binary ones
    Blank,        \* what a data sector holds before anything was written to it
    Anything,     \* nothing is promised about a path
    MaxErrors,    \* device errors in one behaviour
    MaxLosses     \* losses of power in one behaviour

VARIABLES
    disk,      \* the physical disk
    fs,        \* struct arfs_context: mounted, and the entries in memory
    allowed,   \* path -> what its callers may find there
    torn,      \* "disk" when the manifest there is a mixture of two manifests,
               \* "mounted" once the kernel has started from one
    errors,    \* device errors left
    losses     \* losses of power left

vars == <<disk, fs, allowed, torn, errors, losses>>

Absent == [kind |-> "absent"]
Directory == [kind |-> "directory"]
File(type, contents) == [kind |-> "file", type |-> type, contents |-> contents]

(***************************************************************************)
(* What a caller sees at a path through the table in memory.               *)
(***************************************************************************)
Seen(path) ==
    IF arfs_list(fs.entries, path).ok THEN Directory
    ELSE LET r == CHOOSE r \in arfs_read_file(disk, fs.entries, path) : ~r.fault
         IN  IF r.ok THEN File(r.type, r.contents) ELSE Absent

ManifestOnDisk(d) ==
    [s \in 1..ManifestSectors |-> d[RegionFirst + ManifestLba + s - 1]]

BlankSector == [u \in 1..SectorSize |-> Blank]

\* The image the disk is shipped with: a manifest of one directory.
ShippedDisk(entries) ==
    [s \in 0..DiskSectors - 1 |->
        LET lba == s - RegionFirst
        IN  IF lba = SuperblockLba THEN Superblock
            ELSE IF lba \in ManifestLba .. ManifestLba + ManifestSectors - 1
                THEN ManifestImage(ManifestText(entries))[lba - ManifestLba + 1]
            ELSE BlankSector]

Init ==
    /\ fs = [mounted |-> TRUE,
             entries |-> <<[kind |-> "directory", path |-> ShippedPath, type |-> "binary",
                            lba |-> 0, size |-> 0]>>]
    /\ allowed = [q \in Paths |-> IF q = ShippedPath THEN {Directory} ELSE {Absent}]
    /\ disk = ShippedDisk(fs.entries)
    /\ torn = "no"
    /\ errors = MaxErrors
    /\ losses = MaxLosses

(***************************************************************************)
(* After a metadata write that failed, the table in memory and the one on  *)
(* disk may disagree about a path; a restart goes by the disk.             *)
(***************************************************************************)
EntryAt(entries, path) == SelectSeq(entries, LAMBDA e : e.path = path)

AllowedAfterRestart ==
    LET found == MountView(disk).entries
    IN  [q \in Paths |-> IF EntryAt(fs.entries, q) = EntryAt(found, q) THEN allowed[q]
                                                                       ELSE {Anything}]

\* Is the manifest on disk whole after the outcome `o'?  A failure that wrote
\* nothing leaves it as it was.
TornAfter(o) ==
    CASE o.text # <<>> /\ ManifestOnDisk(o.disk) = ManifestImage(o.text) -> "no"
      [] ManifestOnDisk(o.disk) = ManifestOnDisk(disk) -> torn
      [] OTHER -> "disk"

Mounting(t) == IF t = "no" THEN "no" ELSE "mounted"

(***************************************************************************)
(* An operation runs to its end: the caller is told whether it was done.   *)
(* If not, the path keeps what it had, except that a write in place may    *)
(* have replaced a part of it.                                             *)
(***************************************************************************)
Complete(path, promise, inPlace, outcomes) ==
    \E o \in outcomes :
        /\ errors > 0 \/ ~o.fault
        /\ errors' = IF o.fault THEN errors - 1 ELSE errors
        /\ UNCHANGED losses
        /\ disk' = o.disk
        /\ torn' = TornAfter(o)
        /\ fs' = [fs EXCEPT !.entries = o.entries]
        /\ allowed' = IF o.ok THEN [allowed EXCEPT ![path] = {promise}]
                      ELSE IF inPlace /\ o.disk # disk
                        THEN [allowed EXCEPT ![path] = {Anything}]
                      ELSE allowed

(***************************************************************************)
(* Power is lost during the operation: the disk is one that a failed write *)
(* could leave as well, and the kernel starts again by mounting it.        *)
(***************************************************************************)
CutShort(path, promise, inPlace, outcomes) ==
    LET after == AllowedAfterRestart
    IN  \E o \in {[disk |-> c.disk, text |-> c.text] : c \in outcomes} :
        /\ losses > 0
        /\ losses' = losses - 1
        /\ UNCHANGED errors
        /\ disk' = o.disk
        /\ torn' = Mounting(TornAfter(o))
        /\ fs' = MountView(o.disk)
        /\ allowed' = [after EXCEPT ![path] =
                            IF inPlace THEN {Anything} ELSE @ \cup {promise}]

\* Bound: what a kernel does after it mounted a torn manifest is not explored.
Perform(path, promise, inPlace, outcomes) ==
    /\ fs.mounted /\ torn # "mounted"
    /\ \/ Complete(path, promise, inPlace, outcomes)
       \/ CutShort(path, promise, inPlace, outcomes)

\* The write reuses the sectors of the file it replaces.
InPlace(path, contents) ==
    /\ contents # <<>>
    /\ keeps_sectors(fs.entries, find_entry(fs.entries, path), SectorsFor(Len(contents)))

WriteBytes(path, file) ==
    Perform(path, file, InPlace(path, file.contents),
            arfs_write_bytes(disk, fs.entries, path, file.type, file.contents))

CreateDirectory(path) ==
    Perform(path, Directory, FALSE, arfs_create_directory(disk, fs.entries, path))

RemovePath(path) == Perform(path, Absent, FALSE, arfs_remove(disk, fs.entries, path))

\* A restart while nothing is written.  The reads of the mount can fail too,
\* and the kernel then runs from the read-only boot catalog.
Restart ==
    \E m \in arwill_arfs_mount(disk) :
        /\ losses > 0
        /\ losses' = losses - 1
        /\ UNCHANGED errors
        /\ fs' = m
        /\ allowed' = AllowedAfterRestart
        /\ torn' = Mounting(torn)
        /\ UNCHANGED disk

Next ==
    \/ \E p \in Paths, file \in Files : WriteBytes(p, file)
    \/ \E p \in Paths : CreateDirectory(p)
    \/ \E p \in Paths : RemovePath(p)
    \/ Restart

Spec == Init /\ [][Next]_vars

-----------------------------------------------------------------------------
\* Nothing is claimed once the kernel runs on, or would start from, a torn
\* manifest: ADR-0029 leaves that case out.
TypeOK ==
    /\ DOMAIN disk = 0..DiskSectors - 1
    /\ fs.mounted \in BOOLEAN
    /\ Len(fs.entries) <= MaxEntries
    /\ ~fs.mounted => fs.entries = <<>>
    /\ DOMAIN allowed = Paths
    /\ torn \in {"no", "disk", "mounted"}
    /\ errors \in 0..MaxErrors /\ losses \in 0..MaxLosses


\* The table describes a tree on disjoint sectors: paths occur once, every
\* entry below the root has a directory above it (a directory is removed only
\* when empty), no two files share a sector, and none reaches into the
\* superblock, the manifest or past the region (first fit, rewriting in place
\* and the rollback after a failed manifest write together).
TableConsistent ==
    torn # "mounted" => \A i \in DOMAIN fs.entries :
        /\ find_entry(fs.entries, fs.entries[i].path) = i
        /\ parent_directory_exists(fs.entries, fs.entries[i].path)
        /\ Extent(fs.entries[i]) \subseteq DataLba .. RegionSectors - 1
        /\ \A j \in DOMAIN fs.entries \ {i} :
                Extent(fs.entries[i]) \cap Extent(fs.entries[j]) = {}


\* The free run that `storage' reports is the longest file that can be
\* allocated, no shorter and no longer.
StatsPredictAllocation ==
    fs.mounted => \A n \in 1..RegionSectors :
        (allocate_sectors(fs.entries, n) # 0) <=> n <= arfs_storage_stats(fs.entries)

\* The table of kernel/arfs.c after every operation: a tree on disjoint sectors, with
\* statistics that tell what can be allocated.
TableSound == TypeOK /\ TableConsistent /\ StatsPredictAllocation

\* No operation, failed or cut short, has changed a sector outside the region
\* (the boot files of ADR-0056) or the superblock: the shift and the two range
\* checks of region_write.
OutsideUntouched ==
    \A s \in 0..DiskSectors - 1 :
        /\ s - RegionFirst \notin 0 .. RegionSectors - 1 => disk[s] = BlankSector
        /\ s = RegionFirst + SuperblockLba => disk[s] = Superblock

\* ADR-0029: "A failed metadata write can leave unreferenced data, but not a
\* manifest that points to data which was never written."
ManifestPointsToWrittenData ==
    \A e \in Range(MountView(disk).entries) : \A s \in Extent(e) :
        s >= DataLba /\ (s < RegionSectors => Blank \notin Range(disk[RegionFirst + s]))
=============================================================================
