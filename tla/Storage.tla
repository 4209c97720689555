------------------------------ MODULE Storage ------------------------------
(***************************************************************************)
(* The storage devices of kernel/storage.c over one ATA drive.  HDD0 is    *)
(* the drive itself.  VDISK0 keeps every sector twice: on the drive, from  *)
(* LBA OFFSET on, and in a buffer in memory that answers when the drive    *)
(* does not.                                                               *)
(*                                                                         *)
(* The polls of the status register (ata_wait_ready, ata_wait_drq) are the *)
(* drive's to answer, and each may time out: a write has a set of outcomes *)
(* and a read a parameter that says whether the drive answers.             *)
(***************************************************************************)
EXTENDS Integers, Sequences, FiniteSets

CONSTANTS
    TotalSectors,   \* sectors of a device (2048)
    OFFSET,         \* LBA of VDISK0's sector 0 (100)
    Values,         \* what a sector can hold
    Blank           \* a sector of zeros

ASSUME StorageAssumption ==
    TotalSectors \in Nat \ {0} /\ OFFSET \in Nat /\ Blank \in Values

HDD0 == "HDD0"
VDISK0 == "VDISK0"
Sectors == 0..(TotalSectors - 1)
LBAs == 0..(TotalSectors + OFFSET - 1)
NotWritten == "not written"   \* no value

VARIABLES
    drive,    \* 1 when there is an ATA drive
    devices,  \* storage_devices, in the order they were found
    disk,     \* the drive's sectors, by LBA
    buffer,   \* persistent_storage_buffer, by sector
    acked     \* history: by device and sector, the value of the last write
              \* in this session if it returned 0 and the drive had no error

vars == <<drive, devices, disk, buffer, acked>>

-----------------------------------------------------------------------------
(* The drivers. *)

\* ata_write_sector: the drive does not become ready or asks for no data; it
\* takes the data and does not become ready again; or all goes well.  A drive
\* that took the data and could not write it becomes ready, with
\* ATA_STATUS_ERR, which ata_wait_ready does not look at: err = 1.
ata_write_sector(sector, value) ==
    LET stored == [disk EXCEPT ![sector] = value] IN
    {[ret |-> -1, err |-> 0, disk |-> disk]} \cup
    (IF drive = 1 /\ sector \in LBAs
     THEN {[ret |-> -1, err |-> 0, disk |-> stored], [ret |-> 0, err |-> 0, disk |-> stored],
           [ret |-> 0, err |-> 1, disk |-> disk]}
     ELSE {})

\* ata_read_sector, when the drive answers in time or not.
ata_read_sector(sector, answers) ==
    IF answers /\ drive = 1 /\ sector \in LBAs
    THEN [ret |-> 0, value |-> disk[sector]] ELSE [ret |-> -1, value |-> Blank]

\* Mutant of usb_storage_write_sector: the buffer is only written when the drive
\* fails.
usb_storage_write_sector_NoBackup(sector, value) ==
    {[ret |-> 0, err |-> w.err, disk |-> w.disk,
      buffer |-> IF w.ret = 0 THEN buffer ELSE [buffer EXCEPT ![sector] = value]] :
        w \in ata_write_sector(OFFSET + sector, value)}

\* usb_storage_write_sector: the drive first, the buffer in any case.
usb_storage_write_sector(sector, value) ==
    {[ret |-> 0, err |-> w.err, disk |-> w.disk, buffer |-> [buffer EXCEPT ![sector] = value]] :
        w \in ata_write_sector(OFFSET + sector, value)}

\* usb_storage_read_sector: the drive, or the buffer when it fails.
usb_storage_read_sector(sector, answers) ==
    LET r == ata_read_sector(OFFSET + sector, answers) IN
    [ret |-> 0, value |-> IF r.ret = 0 THEN r.value ELSE buffer[sector]]

\* Mutant of WriteOutcomes: HDD0 does not wait for the drive to finish.
WriteOutcomes_NoWait(device, sector, value) ==
    IF sector \notin Sectors
    THEN {[ret |-> -1, err |-> 0, disk |-> disk, buffer |-> buffer]}
    ELSE IF device = HDD0
    THEN {[ret |-> 0, err |-> w.err, disk |-> w.disk, buffer |-> buffer] :
             w \in ata_write_sector(sector, value)}
    ELSE usb_storage_write_sector(sector, value)

\* device->write_sector and device->read_sector, for any sector.
WriteOutcomes(device, sector, value) ==
    IF sector \notin Sectors
    THEN {[ret |-> -1, err |-> 0, disk |-> disk, buffer |-> buffer]}
    ELSE IF device = HDD0
    THEN {[ret |-> w.ret, err |-> w.err, disk |-> w.disk, buffer |-> buffer] :
             w \in ata_write_sector(sector, value)}
    ELSE usb_storage_write_sector(sector, value)

read_sector(device, sector, answers) ==
    IF sector \notin Sectors THEN [ret |-> -1, value |-> Blank]
    ELSE IF device = HDD0 THEN ata_read_sector(sector, answers)
    ELSE usb_storage_read_sector(sector, answers)

-----------------------------------------------------------------------------
(* Operations. *)

NoAcks == [d \in {HDD0, VDISK0} |-> [s \in Sectors |-> NotWritten]]

\* storage_detect_devices: HDD0 when ata_init finds the drive, then VDISK0.
Detected ==
    {<<VDISK0>>} \cup (IF drive = 1 THEN {<<HDD0, VDISK0>>} ELSE {})

\* What the first sectors of the drive hold before the kernel ever ran is not
\* a value the file system writes: Blank stands for it.
Init ==
    /\ drive \in {0, 1}
    /\ devices \in Detected
    /\ disk = [l \in LBAs |-> Blank]
    /\ buffer = [s \in Sectors |-> Blank]
    /\ acked = NoAcks

\* One call of device->write_sector.
WriteSector(device, sector, value) ==
    \E o \in WriteOutcomes(device, sector, value) :
        /\ disk' = o.disk /\ buffer' = o.buffer
        /\ acked' = [acked EXCEPT ![device][sector] =
                        IF o.ret = 0 /\ o.err = 0 THEN value ELSE NotWritten]
        /\ UNCHANGED <<drive, devices>>

\* A power cycle or a reset: the drive keeps what it has, the buffer's memory,
\* which nobody initializes, may or may not; storage_init looks for the devices
\* again.
PowerCycle ==
    /\ devices' \in Detected
    /\ buffer' \in {buffer, [s \in Sectors |-> Blank]}
    /\ acked' = NoAcks
    /\ UNCHANGED <<drive, disk>>

\* The shell's save, load and format use storage_get_device(0).
Next == \/ \E s \in Sectors, v \in Values : WriteSector(devices[1], s, v)
        \/ PowerCycle

Spec == Init /\ [][Next]_vars

-----------------------------------------------------------------------------
(* Properties. *)

\* Types.
TypeOK ==
    /\ drive \in {0, 1} /\ devices \in {<<VDISK0>>, <<HDD0, VDISK0>>}
    /\ disk \in [LBAs -> Values] /\ buffer \in [Sectors -> Values]
    /\ acked \in [{HDD0, VDISK0} -> [Sectors -> Values \cup {NotWritten}]]

\* Every read of a sector that succeeds delivers what was last written there.
ReadsBack(device, s) ==
    acked[device][s] # NotWritten =>
        \A r \in {read_sector(device, s, answers) : answers \in BOOLEAN} :
            r.ret = 0 => r.value = acked[device][s]

\* HDD0 is honest as long as the drive is: a sector whose write returned 0, and
\* that the drive could write, reads back, or the read fails.
HddReadsBack == devices[1] = HDD0 => \A s \in Sectors : ReadsBack(HDD0, s)

\* The buffer holds the last write to VDISK0 however the drive behaved, so
\* without a drive VDISK0 reads back within a session.
BufferHoldsLastWrite ==
    /\ \A s \in Sectors : acked[VDISK0][s] \in {NotWritten, buffer[s]}
    /\ drive = 0 => \A s \in Sectors : ReadsBack(VDISK0, s)

\* The buffer is a "backup" of what is on the drive: VDISK0 reads back when
\* there is a drive.
VdiskReadsBack == \A s \in Sectors : ReadsBack(VDISK0, s)
=============================================================================
