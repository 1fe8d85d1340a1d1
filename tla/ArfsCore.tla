---------------------------- MODULE ArfsCore ----------------------------
(***************************************************************************)
(* ARFS, the filesystem of kernel/arfs.c, as operators on the table of     *)
(* entries kept in memory (`entries', a sequence) and on the disk.         *)
(*                                                                         *)
(* Data abstraction.  A path is the sequence of its names, the root is     *)
(* <<>>.  File contents are sequences of units, SectorSize units to a      *)
(* sector, padded with Nul.  The manifest text is a sequence of tokens,    *)
(* ManifestTokens to a sector, so that a manifest write cut between two    *)
(* sectors leaves a mixture of two texts that parse_manifest then reads.   *)
(* Inside one token nothing is torn.                                       *)
(*                                                                         *)
(* An operation returns the set of its outcomes: `ok' is what the caller   *)
(* is told, `entries' and `disk' what is left, `fault' whether the device  *)
(* reported an error, `text' the manifest it tried to write (<<>> if it    *)
(* did not get that far).                                                  *)
(***************************************************************************)
EXTENDS BlockDevice, SequencesExt, FiniteSetsExt

CONSTANTS
    SectorSize,          \* arfs_sector_size, in units of file contents
    ManifestTokens,      \* the same sector, in manifest tokens
    SuperblockLba,       \* arfs_superblock_lba
    ManifestLba, ManifestSectors, DataLba,   \* what the superblock says
    MaxManifestSectors,  \* arfs_max_manifest_sectors
    MaxEntries,          \* arfs_max_entries
    MaxNames,            \* arfs_max_path_length, in names of a path
    ReadCapacity,        \* arfs_file_buffer_capacity
    WriteCapacity,       \* arfs_write_buffer_capacity
    Nul, Superblock      \* the padding unit and the superblock's contents

ASSUME LayoutAssumption ==
    /\ SectorSize \in Nat \ {0} /\ ManifestTokens \in Nat \ {0}
    /\ SuperblockLba < ManifestLba
    /\ ManifestLba + ManifestSectors <= DataLba

SectorsFor(size) == (size + SectorSize - 1) \div SectorSize

(***************************************************************************)
(* The manifest text.                                                      *)
(***************************************************************************)
EndOfLine == <<"nl">>
EndOfText == <<"nul">>

entry_line(e) ==
    IF e.kind = "directory"
        THEN <<<<"D">>, <<"path", e.path>>, EndOfLine>>
        ELSE <<<<"F">>, <<"path", e.path>>, <<"type", e.type>>,
               <<"num", e.lba>>, <<"num", e.size>>, EndOfLine>>

ManifestText(entries) == FlattenSeq([i \in DOMAIN entries |-> entry_line(entries[i])])

\* The text as the sectors of the manifest area, the rest cleared.
ManifestImage(text) ==
    [s \in 1..ManifestSectors |->
        [t \in 1..ManifestTokens |->
            LET at == (s - 1) * ManifestTokens + t
            IN  IF at <= Len(text) THEN text[at] ELSE EndOfText]]

persist_manifest(disk, entries) ==
    LET text == ManifestText(entries)
    IN  IF Len(text) >= MaxManifestSectors * ManifestTokens
            THEN {w @@ [text |-> <<>>] : w \in Refused(disk)}
            ELSE {w @@ [text |-> text] :
                    w \in arwill_block_write(disk, ManifestLba, ManifestImage(text))}

\* A token in the place of a path is a path, whatever it was written as.
TokenPath(token) == IF token[1] = "path" THEN token[2] ELSE <<token>>

IsNumber(token) == token[1] = "num"

(***************************************************************************)
(* One line: `bad' when the whole manifest has to be rejected.  Tokens     *)
(* past the ones a line needs are ignored, a directory without a path gets *)
(* an empty one.                                                           *)
(***************************************************************************)
BadLine == [kind |-> "bad"]

parse_line(line) ==
    CASE line[1] = <<"D">> ->
            [kind |-> "directory", type |-> "binary", lba |-> 0, size |-> 0,
             path |-> IF Len(line) >= 2 THEN TokenPath(line[2]) ELSE <<>>]
      [] line[1] = <<"F">> ->
            IF /\ Len(line) >= 5 /\ line[3][1] = "type"
               /\ IsNumber(line[4]) /\ IsNumber(line[5])
                THEN [kind |-> "file", type |-> line[3][2], lba |-> line[4][2],
                      size |-> line[5][2], path |-> TokenPath(line[2])]
                ELSE BadLine
      [] OTHER -> BadLine

\* The lines of a text up to its end, empty ones skipped.
ManifestLines(text) ==
    LET stop == SelectInSeq(text, LAMBDA t : t = EndOfText)
        body == IF stop = 0 THEN text ELSE SubSeq(text, 1, stop - 1)
        lines[i \in 0..Len(body)] ==
            IF i = 0 THEN <<<<>>>>
            ELSE LET read == lines[i - 1]
                 IN  IF body[i] = EndOfLine THEN Append(read, <<>>)
                     ELSE [read EXCEPT ![Len(read)] = Append(@, body[i])]
    IN  SelectSeq(lines[Len(body)], LAMBDA line : line # <<>>)

\* NotMounted stands for a mount that returned no filesystem.
NotMounted == [mounted |-> FALSE, entries |-> <<>>]

\* A manifest with a bad line, without a line, or with too many is rejected
\* and nothing of it is kept.
parse_manifest(text) ==
    LET lines == ManifestLines(text)
        parsed == [i \in DOMAIN lines |-> parse_line(lines[i])]
    IN  IF \/ Len(parsed) > MaxEntries \/ Len(parsed) = 0
           \/ \E i \in DOMAIN parsed : parsed[i].kind = "bad"
            THEN NotMounted
            ELSE [mounted |-> TRUE, entries |-> parsed]

(***************************************************************************)
(* Mounting, from the probe of the disk on: a set, because the disk may    *)
(* not answer and either read can fail.                                    *)
(***************************************************************************)
arwill_arfs_mount(disk) ==
    UNION {
        IF \/ ~arwill_block_region_init(sectors) \/ DataLba >= RegionSectors
           \/ ManifestSectors \notin 1..MaxManifestSectors
           \/ ~super.ok \/ super.data # <<Superblock>>
            THEN {NotMounted}
            ELSE {IF manifest.ok THEN parse_manifest(FlattenSeq(manifest.data))
                                 ELSE NotMounted :
                    manifest \in arwill_block_read(disk, ManifestLba, ManifestSectors)} :
        sectors \in arwill_qemu_ata_block_device_init,
        super \in arwill_block_read(disk, SuperblockLba, 1)}

\* The mount a disk that answers gives: what a restart would find.
MountView(disk) ==
    LET results == arwill_arfs_mount(disk)
    IN  CHOOSE m \in results : m.mounted \/ \A n \in results : ~n.mounted

(***************************************************************************)
(* Lookup.                                                                 *)
(***************************************************************************)
\* The first entry with the path, 0 when there is none.
find_entry(entries, path) == SelectInSeq(entries, LAMBDA e : e.path = path)

entry_is_child_of(e, path) == e.path # <<>> /\ Front(e.path) = path

path_is_valid(path) == Len(path) \in 1..MaxNames

parent_directory_exists(entries, path) ==
    \/ Len(path) = 1
    \/ LET at == find_entry(entries, Front(path))
       IN  at # 0 /\ entries[at].kind = "directory"

arfs_list(entries, path) ==
    LET at == find_entry(entries, path)
    IN  IF path # <<>> /\ (at = 0 \/ entries[at].kind # "directory")
            THEN [ok |-> FALSE, listing |-> <<>>]
            ELSE [ok |-> TRUE,
                  listing |-> SelectSeq(entries, LAMBDA e : entry_is_child_of(e, path))]

NoFile == [ok |-> FALSE, type |-> "text", contents |-> <<>>, fault |-> FALSE]

arfs_read_file(disk, entries, path) ==
    LET at == find_entry(entries, path)
        e == entries[at]
    IN  IF at = 0 THEN {NoFile}
        ELSE IF e.kind # "file" \/ e.size >= ReadCapacity THEN {NoFile}
        ELSE IF e.size = 0
            THEN {[ok |-> TRUE, type |-> e.type, contents |-> <<>>, fault |-> FALSE]}
        ELSE {IF r.ok THEN [ok |-> TRUE, type |-> e.type, fault |-> FALSE,
                            contents |-> SubSeq(FlattenSeq(r.data), 1, e.size)]
                      ELSE [NoFile EXCEPT !.fault = r.fault] :
                r \in arwill_block_read(disk, e.lba, SectorsFor(e.size))}

(***************************************************************************)
(* Space.  Free sectors are those no entry in memory covers.               *)
(***************************************************************************)
entry_sector_count(e) == IF e.kind = "file" THEN SectorsFor(e.size) ELSE 0

Extent(e) == e.lba .. e.lba + entry_sector_count(e) - 1

sector_range_is_free(entries, first, count) ==
    \A i \in DOMAIN entries : Extent(entries[i]) \cap (first .. first + count - 1) = {}

\* The file at index `at' is rewritten where it is.
keeps_sectors(entries, at, count) ==
    at # 0 /\ entry_sector_count(entries[at]) >= count

\* First fit after DataLba; 0 when no run is long enough.
allocate_sectors(entries, count) ==
    LET fits == {c \in DataLba .. RegionSectors - count :
                    sector_range_is_free(entries, c, count)}
    IN  IF fits = {} THEN 0 ELSE Min(fits)

\* The longest run of free sectors, counted sector by sector.
arfs_storage_stats(entries) ==
    LET run[s \in DataLba - 1 .. RegionSectors - 1] ==
            IF s >= DataLba /\ sector_range_is_free(entries, s, 1) THEN run[s - 1] + 1
                                                                   ELSE 0
    IN  Max({run[s] : s \in DataLba - 1 .. RegionSectors - 1})

(***************************************************************************)
(* Operations that change the disk.                                        *)
(***************************************************************************)
Fail(disk, entries) ==
    [ok |-> FALSE, disk |-> disk, entries |-> entries, fault |-> FALSE, text |-> <<>>]


\* Write the manifest of `next'; memory goes back to `entries' if that fails.
Commit(disk, entries, next) ==
    {[ok |-> w.ok, disk |-> w.disk, fault |-> w.fault, text |-> w.text,
      entries |-> IF w.ok THEN next ELSE entries] : w \in persist_manifest(disk, next)}

\* The contents in a cleared write buffer, cut into sectors.
WriteImage(contents) ==
    [s \in 1..SectorsFor(Len(contents)) |->
        [u \in 1..SectorSize |->
            LET at == (s - 1) * SectorSize + u
            IN  IF at <= Len(contents) THEN contents[at] ELSE Nul]]


(***************************************************************************)
(* Whole-file write: in place when the file already has enough sectors,    *)
(* otherwise into free ones; the data first, the manifest after it.        *)
(***************************************************************************)
arfs_write_bytes(disk, entries, path, type, contents) ==
    LET at == find_entry(entries, path)
        sectors == SectorsFor(Len(contents))
        lba == IF sectors = 0 THEN 0
               ELSE IF keeps_sectors(entries, at, sectors) THEN entries[at].lba
                    ELSE allocate_sectors(entries, sectors)
        entry == [kind |-> "file", path |-> path, type |-> type,
                  lba |-> lba, size |-> Len(contents)]
        next == IF at = 0 THEN Append(entries, entry) ELSE [entries EXCEPT ![at] = entry]
    IN  IF \/ ~path_is_valid(path) \/ ~parent_directory_exists(entries, path)
           \/ Len(contents) >= ReadCapacity \/ Len(contents) > WriteCapacity
           \/ at # 0 /\ entries[at].kind # "file"
           \/ at = 0 /\ Len(entries) >= MaxEntries
           \/ sectors # 0 /\ lba = 0
            THEN {Fail(disk, entries)}
        ELSE IF sectors = 0 THEN Commit(disk, entries, next)
        ELSE UNION {IF w.ok THEN Commit(w.disk, entries, next)
                    ELSE {[Fail(w.disk, entries) EXCEPT !.fault = w.fault]} :
                        w \in arwill_block_write(disk, lba, WriteImage(contents))}

arfs_create_directory(disk, entries, path) ==
    IF \/ ~path_is_valid(path) \/ find_entry(entries, path) # 0
       \/ ~parent_directory_exists(entries, path) \/ Len(entries) >= MaxEntries
        THEN {Fail(disk, entries)}
        ELSE Commit(disk, entries,
                Append(entries, [kind |-> "directory", path |-> path, type |-> "binary",
                                 lba |-> 0, size |-> 0]))

\* Wrong variant, for the mutation runs: a directory that is not empty is removed.
arfs_remove_any(disk, entries, path) ==
    LET at == find_entry(entries, path)
    IN  IF at = 0 THEN {Fail(disk, entries)}
        ELSE Commit(disk, entries, RemoveAt(entries, at))

\* A directory goes only when nothing is left in it.
arfs_remove(disk, entries, path) ==
    LET at == find_entry(entries, path)
    IN  IF \/ at = 0
           \/ /\ entries[at].kind = "directory"
              /\ \E i \in DOMAIN entries : entry_is_child_of(entries[i], path)
            THEN {Fail(disk, entries)}
            ELSE Commit(disk, entries, RemoveAt(entries, at))
=============================================================================
