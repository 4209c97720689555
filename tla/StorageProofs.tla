---------------------------- MODULE StorageProofs ----------------------------
(***************************************************************************)
(* Proofs about module Storage, for every number of sectors and every      *)
(* offset between the two devices.                                         *)
(***************************************************************************)
EXTENDS Storage, TLAPS

\* The first device is one of the two, and it alone is written.  What HDD0 has
\* acknowledged is on the disk, what VDISK0 has acknowledged in the buffer.
HddAcked == devices[1] = HDD0 => \A s \in Sectors : acked[HDD0][s] \in {NotWritten, disk[s]}
VdiskAcked == \A s \in Sectors : acked[VDISK0][s] \in {NotWritten, buffer[s]}

IInv == TypeOK /\ HddAcked /\ VdiskAcked

\* The device array always begins with one of the two devices.
LEMMA DetectedDevices ==
    ASSUME NEW d \in Detected
    PROVE  d \in {<<VDISK0>>, <<HDD0, VDISK0>>}
  BY DEF Detected

\* After a start nothing is acknowledged.
LEMMA NoAcksType ==
    /\ NoAcks \in [{HDD0, VDISK0} -> [Sectors -> Values \cup {NotWritten}]]
    /\ \A d \in {HDD0, VDISK0}, s \in Sectors : NoAcks[d][s] = NotWritten
  BY DEF NoAcks

\* A sector of either device is a sector of the drive.
LEMMA SectorsOnDrive == \A s \in Sectors : s \in LBAs /\ OFFSET + s \in LBAs
  BY StorageAssumption DEF Sectors, LBAs

\* Whatever becomes of a write, it concerns the sector alone, and a write that
\* was acknowledged, by a drive without an error, is where the device reads it.
LEMMA Outcomes ==
    ASSUME TypeOK, NEW device \in {HDD0, VDISK0}, NEW s \in Sectors, NEW v \in Values,
           NEW o \in WriteOutcomes(device, s, v)
    PROVE  /\ o.disk \in [LBAs -> Values] /\ o.buffer \in [Sectors -> Values]
           /\ device = HDD0 =>
                 /\ o.buffer = buffer
                 /\ \A l \in LBAs \ {s} : o.disk[l] = disk[l]
                 /\ o.ret = 0 /\ o.err = 0 => o.disk[s] = v
           /\ device = VDISK0 =>
                 /\ \A t \in Sectors \ {s} : o.buffer[t] = buffer[t]
                 /\ o.buffer[s] = v
  <1>1. \A l \in LBAs : [disk EXCEPT ![l] = v] \in [LBAs -> Values]
    BY DEF TypeOK
  <1>2. CASE device = HDD0
    <2>1. PICK w \in ata_write_sector(s, v) :
             o = [ret |-> w.ret, err |-> w.err, disk |-> w.disk, buffer |-> buffer]
      BY <1>2 DEF WriteOutcomes
    <2>2. /\ w.disk \in {disk, [disk EXCEPT ![s] = v]}
          /\ w.ret = 0 /\ w.err = 0 => w.disk = [disk EXCEPT ![s] = v]
      BY <2>1 DEF ata_write_sector
    <2> QED
      BY <1>1, <1>2, <2>1, <2>2, SectorsOnDrive DEF TypeOK, HDD0, VDISK0
  <1>3. CASE device = VDISK0
    <2>1. PICK w \in ata_write_sector(OFFSET + s, v) :
             o = [ret |-> 0, err |-> w.err, disk |-> w.disk,
                  buffer |-> [buffer EXCEPT ![s] = v]]
      BY <1>3 DEF WriteOutcomes, usb_storage_write_sector, HDD0, VDISK0
    <2>2. w.disk \in {disk, [disk EXCEPT ![OFFSET + s] = v]}
      BY <2>1 DEF ata_write_sector
    <2>3. OFFSET + s \in LBAs
      BY SectorsOnDrive
    <2>4. w.disk \in [LBAs -> Values]
      BY <1>1, <2>2, <2>3 DEF TypeOK
    <2> QED
      BY <1>3, <2>1, <2>4 DEF TypeOK, HDD0, VDISK0
  <1> QED
    BY <1>2, <1>3

LEMMA InitInv == Init => IInv
  <1> SUFFICES ASSUME Init PROVE IInv
    OBVIOUS
  <1>1. devices \in {<<VDISK0>>, <<HDD0, VDISK0>>}
    BY DetectedDevices DEF Init
  <1>2. TypeOK
    BY <1>1, StorageAssumption, NoAcksType DEF Init, TypeOK
  <1>3. HddAcked /\ VdiskAcked
    BY NoAcksType DEF Init, HddAcked, VdiskAcked
  <1> QED
    BY <1>2, <1>3 DEF IInv

LEMMA NextInv == IInv /\ [Next]_vars => IInv'
  <1> SUFFICES ASSUME IInv, [Next]_vars PROVE IInv'
    OBVIOUS
  <1>1. devices[1] \in {HDD0, VDISK0}
    BY DEF IInv, TypeOK
  <1>2. ASSUME NEW s \in Sectors, NEW v \in Values, WriteSector(devices[1], s, v)
        PROVE  IInv'
    <2>1. PICK o \in WriteOutcomes(devices[1], s, v) :
             /\ disk' = o.disk /\ buffer' = o.buffer
             /\ acked' = [acked EXCEPT ![devices[1]][s] =
                             IF o.ret = 0 /\ o.err = 0 THEN v ELSE NotWritten]
             /\ UNCHANGED <<drive, devices>>
      BY <1>2 DEF WriteSector
    <2> DEFINE told == IF o.ret = 0 /\ o.err = 0 THEN v ELSE NotWritten
    <2>2. /\ o.disk \in [LBAs -> Values] /\ o.buffer \in [Sectors -> Values]
          /\ devices[1] = HDD0 =>
                /\ o.buffer = buffer
                /\ \A l \in LBAs \ {s} : o.disk[l] = disk[l]
                /\ o.ret = 0 /\ o.err = 0 => o.disk[s] = v
          /\ devices[1] = VDISK0 =>
                /\ \A t \in Sectors \ {s} : o.buffer[t] = buffer[t]
                /\ o.buffer[s] = v
      BY <1>1, Outcomes DEF IInv
    <2>3. /\ acked' \in [{HDD0, VDISK0} -> [Sectors -> Values \cup {NotWritten}]]
          /\ acked'[devices[1]][s] = told
          /\ \A d \in {HDD0, VDISK0}, t \in Sectors :
                d # devices[1] \/ t # s => acked'[d][t] = acked[d][t]
      BY <1>1, <2>1 DEF IInv, TypeOK
    <2>4. TypeOK'
      BY <2>1, <2>2, <2>3 DEF IInv, TypeOK
    <2>5. HddAcked'
      BY <1>1, <2>1, <2>2, <2>3, SectorsOnDrive DEF IInv, HddAcked, HDD0, VDISK0
    <2>6. VdiskAcked'
      BY <1>1, <2>1, <2>2, <2>3 DEF IInv, VdiskAcked, HDD0, VDISK0
    <2> QED
      BY <2>4, <2>5, <2>6 DEF IInv
  <1>3. CASE PowerCycle
    <2>1. devices' \in {<<VDISK0>>, <<HDD0, VDISK0>>}
      BY <1>3, DetectedDevices DEF PowerCycle
    <2>2. TypeOK'
      BY <1>3, <2>1, NoAcksType, StorageAssumption DEF PowerCycle, IInv, TypeOK
    <2>3. HddAcked' /\ VdiskAcked'
      BY <1>3, NoAcksType DEF PowerCycle, HddAcked, VdiskAcked
    <2> QED
      BY <2>2, <2>3 DEF IInv
  <1>4. CASE UNCHANGED vars
    BY <1>4 DEF IInv, TypeOK, HddAcked, VdiskAcked, vars
  <1> QED
    BY <1>2, <1>3, <1>4 DEF Next

\* In every reachable state acknowledged writes are where reads look for them.
THEOREM StorageInvariant == Spec => []IInv
  BY InitInv, NextInv, PTL DEF Spec

\* A sector of HDD0 whose write returned 0, and that the drive could write, reads
\* back or the read fails (ata_read_sector, ata_write_sector).
THEOREM HddReadsBackCorrect == Spec => []HddReadsBack
  <1>1. IInv => HddReadsBack
    BY DEF IInv, HddAcked, HddReadsBack, ReadsBack, read_sector, ata_read_sector
  <1> QED
    BY <1>1, StorageInvariant, PTL

\* The memory copy of VDISK0 holds its last writes however the drive behaves, and
\* without a drive they read back (usb_storage_write_sector).
THEOREM BufferHoldsLastWriteCorrect == Spec => []BufferHoldsLastWrite
  <1>1. IInv => BufferHoldsLastWrite
    BY DEF IInv, VdiskAcked, BufferHoldsLastWrite, ReadsBack, read_sector,
           usb_storage_read_sector, ata_read_sector, HDD0, VDISK0
  <1> QED
    BY <1>1, StorageInvariant, PTL
=============================================================================
