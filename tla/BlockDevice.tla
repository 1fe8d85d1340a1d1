--------------------------- MODULE BlockDevice ---------------------------
(***************************************************************************)
(* The path of a sector from a caller to the disk: the range checks of     *)
(* kernel/block_device.c, the region that confines ARFS to a part of the   *)
(* system disk, and the ATA driver, which moves one sector per command.    *)
(*                                                                         *)
(* A disk is a function from sector numbers to sector contents.  Writing   *)
(* returns the set of outcomes [ok, disk, fault]: a multi-sector write is  *)
(* a loop of single-sector commands, so it can stop between any two, and   *)
(* the command that fails may or may not have reached the medium (the      *)
(* error can come from the cache flush that follows the data).  `fault'    *)
(* tells a device error from a request the code refuses.                   *)
(***************************************************************************)
EXTENDS Integers, Sequences

CONSTANTS
    DiskSectors,    \* sectors of the physical disk (IDENTIFY words 60, 61)
    RegionFirst,    \* ARWILL_ARFS_REGION_LBA
    RegionSectors   \* ARWILL_ARFS_REGION_SECTORS

ASSUME RegionAssumption ==
    /\ DiskSectors \in Nat /\ RegionFirst \in Nat /\ RegionSectors \in Nat \ {0}
    /\ RegionFirst <= DiskSectors

range_fits(sectors, lba, count) == count # 0 /\ lba + count <= sectors

Refused(disk) == {[ok |-> FALSE, disk |-> disk, fault |-> FALSE]}

(***************************************************************************)
(* The ATA commands.  Every wait polls the status register a bounded       *)
(* number of times and gives up on an error bit or on a missing device.    *)
(***************************************************************************)
ata_wait_not_busy == BOOLEAN
ata_wait_data_request == BOOLEAN

ata_flush_cache == {ready /\ done : ready, done \in ata_wait_not_busy}

\* 0 stands for a device that does not identify itself.
ata_identify ==
    {IF ready /\ request THEN DiskSectors ELSE 0 :
        ready \in ata_wait_not_busy, request \in ata_wait_data_request}

\* One disk is attached; the other positions that are probed do not answer.
arwill_qemu_ata_block_device_init == ata_identify

\* A wait that fails before the data is sent leaves the sector alone; once it
\* has been sent, the flush only decides what is reported.
ata_write_one_sector(disk, lba, data) ==
    {LET sent == ready /\ request
     IN  [ok |-> sent /\ flushed, fault |-> ~(sent /\ flushed),
          disk |-> IF sent THEN [disk EXCEPT ![lba] = data] ELSE disk] :
        ready \in ata_wait_not_busy, request \in ata_wait_data_request,
        flushed \in ata_flush_cache}

\* The loop stops at the first sector that fails.
qemu_ata_write(disk, lba, data) ==
    LET after[n \in 0..Len(data)] ==
            IF n = 0 THEN {[ok |-> TRUE, disk |-> disk, fault |-> FALSE]}
            ELSE UNION {IF w.ok THEN ata_write_one_sector(w.disk, lba + n - 1, data[n])
                                ELSE {w} : w \in after[n - 1]}
    IN  after[Len(data)]

\* A read that fails part-way has filled the buffer for nobody: the callers
\* look at it only when all sectors arrived.
ata_read_one_sector ==
    {ready /\ request : ready \in ata_wait_not_busy, request \in ata_wait_data_request}

qemu_ata_read(disk, lba, count) ==
    {IF arrived THEN [ok |-> TRUE, fault |-> FALSE,
                      data |-> [n \in 1..count |-> disk[lba + n - 1]]]
                ELSE [ok |-> FALSE, fault |-> TRUE, data |-> <<>>] :
        arrived \in ata_read_one_sector}

(***************************************************************************)
(* The region.  It cannot be created when it reaches past the end of the   *)
(* disk, or when there is no disk.                                         *)
(***************************************************************************)
arwill_block_region_init(sectors) ==
    /\ sectors # 0 /\ RegionSectors # 0
    /\ RegionFirst <= sectors
    /\ RegionSectors <= sectors - RegionFirst

(***************************************************************************)
(* arwill_block_write on the region: checked against the region, moved by  *)
(* its first sector, and checked again against the disk.                   *)
(***************************************************************************)
parent_write(disk, lba, data) ==
    IF range_fits(DiskSectors, lba, Len(data)) THEN qemu_ata_write(disk, lba, data)
                                               ELSE Refused(disk)

\* Wrong variant, for the mutation runs: the region's first sector is not added.
region_write_unshifted(disk, lba, data) == parent_write(disk, lba, data)

region_write(disk, lba, data) == parent_write(disk, RegionFirst + lba, data)

arwill_block_write(disk, lba, data) ==
    IF range_fits(RegionSectors, lba, Len(data)) THEN region_write(disk, lba, data)
                                                 ELSE Refused(disk)

arwill_block_read(disk, lba, count) ==
    IF /\ range_fits(RegionSectors, lba, count)
       /\ range_fits(DiskSectors, RegionFirst + lba, count)
        THEN qemu_ata_read(disk, RegionFirst + lba, count)
        ELSE {[ok |-> FALSE, data |-> <<>>, fault |-> FALSE]}
=============================================================================
