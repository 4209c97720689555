----------------------------- MODULE Persistence -----------------------------
(***************************************************************************)
(* save, load and format: the file system of module FileSystem on the      *)
(* first storage device of module Storage.                                 *)
(*                                                                         *)
(* A save or a format is a queue of sector writes; power may fail between  *)
(* any two of them.  Nothing else runs meanwhile: the shell is one thread. *)
(* A load is one step, in which each sector read has one of the outcomes   *)
(* its device allows.  A sector holds one chunk of file data.              *)
(*                                                                         *)
(* The code writes and reads the header sector, 512 bytes, through a local *)
(* variable of 20 bytes.  What a load then does to the stack behind it is  *)
(* not modelled, except that it may end the session: a PowerCycle.         *)
(***************************************************************************)
EXTENDS FileSystem

CONSTANTS
    TotalSectors, OFFSET,  \* the devices, as in module Storage
    ENTRIES_ON_DISK,       \* whole entries in a sector: 512 \div sizeof(file_entry_t), 8
    MaxSaves, MaxCycles    \* bounds: saves and formats, power cycles in a behaviour

\* A device holds a header and a table, and the table a whole entry; VDISK0's
\* sectors on the drive begin behind HDD0's header and table.
ASSUME DeviceAssumption ==
    /\ TotalSectors \in Nat /\ TotalSectors >= 2
    /\ OFFSET \in Nat /\ OFFSET >= 2
    /\ ENTRIES_ON_DISK \in 1..MAX_ENTRIES

VARIABLES
    drive, devices, disk, buffer,  \* as in module Storage
    queue,     \* the sector writes a save or format still has to do
    lost,      \* history: 1 when the drive could not write one of its sectors
    hddSaved,  \* history: 1 when a save to HDD0 has completed and since then no
               \* format and no save of a file system without a root has begun
    saves, cycles

vars == <<fs, drive, devices, disk, buffer, queue, lost, hddSaved, saves, cycles>>
store == <<drive, devices, disk, buffer>>

-----------------------------------------------------------------------------
(* Sectors. *)

Blank == [kind |-> "blank"]
Header(total) == [kind |-> "header", total |-> total]
Table(entries) == [kind |-> "table", entries |-> entries]
Data(chunk) == [kind |-> "data", chunk |-> chunk]

\* What load uses of an entry: the pointers are on the disk too, but it clears
\* them.
DiskEntry(e) == [used |-> e.used, name |-> e.name, type |-> e.type, size |-> e.size]

SectorValues ==
    {Blank} \cup [kind : {"header"}, total : 0..MAX_ENTRIES]
    \cup [kind : {"data"}, chunk : Chunks \cup {NUL}]
    \cup [kind : {"table"}, entries : [1..ENTRIES_ON_DISK ->
            [used : 0..1, name : Names, type : 0..2, size : 0..MAX_FILE_SIZE]]]

Dev == INSTANCE Storage WITH Values <- SectorValues, acked <- 0

device == devices[1]

\* A set of slots as a sequence, in the order of the table.
InTableOrder(slots) ==
    LET upTo[n \in 0..MAX_ENTRIES] ==
            IF n = 0 THEN <<>>
            ELSE IF n \in slots THEN Append(upTo[n - 1], n) ELSE upTo[n - 1]
    IN  upTo[MAX_ENTRIES]

-----------------------------------------------------------------------------
(* filesystem_save_to_storage and filesystem_format_storage. *)

\* The files whose data is written, in table order.
Saved(s) == {f \in WithData(s) : s.entries[f].size > 0}

\* The sectors the data of file f goes to, from current_sector on.
FileWrites(s, f, current_sector) ==
    [i \in 1..s.entries[f].size |->
        [sector |-> current_sector + i - 1, value |-> Data(s.mem[s.entries[f].data][i])]]

\* The data of the files, one after the other in table order, from data_start on.
DataWrites(s, data_start) ==
    LET upTo[n \in 0..MAX_ENTRIES] ==
            IF n = 0 THEN <<>>
            ELSE LET before == upTo[n - 1] IN
                 IF n \in Saved(s)
                 THEN before \o FileWrites(s, n, data_start + Len(before)) ELSE before
    IN  upTo[MAX_ENTRIES]

TableWrites(s) ==
    <<[sector |-> 0, value |-> Header(s.next_entry)],
      [sector |-> 1, value |-> Table([i \in 1..ENTRIES_ON_DISK |-> DiskEntry(s.entries[i])])]>>

\* Mutant of SaveWrites: the data starts in the table's sector.
SaveWrites_DataInTable(s) == TableWrites(s) \o DataWrites(s, 1)

\* The header, one sector of the table, the data from sector 2 on.
SaveWrites(s) == TableWrites(s) \o DataWrites(s, 2)

FormatWrites == <<[sector |-> 0, value |-> Header(0)], [sector |-> 1, value |-> Blank]>>

-----------------------------------------------------------------------------
(* filesystem_load_from_storage.  view[s] is what reading sector s returns. *)

FAILED == [kind |-> "failed"]

\* The device as read when the drive answers for these sectors only.
View(answering) ==
    [s \in Dev!Sectors |->
        LET r == Dev!read_sector(device, s, s \in answering)
        IN  IF r.ret = 0 THEN r.value ELSE FAILED]

\* Mutant of LoadedEntries: the last entry of the sector is forgotten.
LoadedEntries_OneShort(sector) ==
    (IF sector.kind = "table"
     THEN [i \in 1..(ENTRIES_ON_DISK - 1) |->
              [ZeroEntry EXCEPT !.used = sector.entries[i].used,
                                !.name = sector.entries[i].name,
                                !.type = sector.entries[i].type,
                                !.size = sector.entries[i].size]]
     ELSE <<>>)
    \o [i \in 1..(MAX_ENTRIES - IF sector.kind = "table" THEN ENTRIES_ON_DISK - 1 ELSE 0) |->
            ZeroEntry]

\* The entries after the table sector is read and checked: whole entries from
\* the sector, with their pointers cleared, and the rest zeroed.
LoadedEntries(sector) ==
    (IF sector.kind = "table"
     THEN [i \in 1..ENTRIES_ON_DISK |->
              [ZeroEntry EXCEPT !.used = sector.entries[i].used,
                                !.name = sector.entries[i].name,
                                !.type = sector.entries[i].type,
                                !.size = sector.entries[i].size]]
     ELSE <<>>)
    \o [i \in 1..(MAX_ENTRIES - IF sector.kind = "table" THEN ENTRIES_ON_DISK ELSE 0) |->
            ZeroEntry]

ChunkIn(sector) == IF sector.kind = "data" THEN sector.chunk
                   ELSE IF sector.kind = "blank" THEN NUL ELSE Garbage

\* A read of file f failed: its buffer b is given back, with what was read.
Unread(s, f, b, text) == [s EXCEPT !.entries[f].size = 0, !.mem[b] = text]

\* The data of file f, read from at.sector on.  Without a buffer, or beyond the
\* device, the file becomes empty and the sector is not advanced.  When a read
\* fails the rest is not read, the buffer given back and the file empty.
LoadFile(at, f, view) ==
    LET s == at.fs
        b == memory_alloc(s)
        sectors == [i \in 1..s.entries[f].size |-> at.sector + i - 1]
        next == at.sector + Len(sectors)
        read(i) == \A j \in 1..i : view[sectors[j]] # FAILED
        text == [i \in 1..MAX_FILE_SIZE |->
                    IF i <= Len(sectors) /\ read(i) THEN ChunkIn(view[sectors[i]]) ELSE NUL]
        zeros == [i \in 1..MAX_FILE_SIZE |-> NUL]
    IN  IF b = NULL
        THEN [at EXCEPT !.fs.entries[f].size = 0]
        ELSE IF next > TotalSectors
        THEN [at EXCEPT !.fs.entries[f].size = 0, !.fs.mem[b] = zeros]
        ELSE IF read(Len(sectors))
        THEN [sector |-> next, fs |-> [s EXCEPT !.free = @ \ {b}, !.mem[b] = text,
                                                !.entries[f].data = b]]
        ELSE [sector |-> next, fs |-> Unread(s, f, b, text)]

Roots(entries, total) ==
    {i \in 1..total : /\ entries[i].used = 1 /\ entries[i].type = FILE_TYPE_DIR
                      /\ entries[i].name = RootName}

\* The flattened tree: every used entry is a child of the root, in table order.
Flattened(entries, total, root) ==
    LET others == {i \in 1..total : entries[i].used = 1 /\ i # root} IN
    [i \in Slots |->
        [entries[i] EXCEPT
            !.parent = IF i \in others THEN root ELSE NULL,
            !.children = IF i = root THEN InTableOrder(others) ELSE <<>>]]

\* The files of these slots loaded into s, in table order.
FilesLoaded(s, files, view) ==
    LET after[n \in 0..MAX_ENTRIES] ==
            IF n = 0 THEN [sector |-> 2, fs |-> s]
            ELSE IF n \in files THEN LoadFile(after[n - 1], n, view) ELSE after[n - 1]
    IN  after[MAX_ENTRIES].fs

\* The load proper, with a table that has been read.  The buffers the old
\* entries had are not freed.  Without a root the file system starts anew.
LoadTable(s, total, view) ==
    LET entries == LoadedEntries(view[1])
        root == Min(Roots(entries, total))
        files == {i \in 1..total : /\ entries[i].used = 1
                                   /\ entries[i].type = FILE_TYPE_FILE
                                   /\ entries[i].size > 0}
    IN  IF Roots(entries, total) = {}
        THEN filesystem_init([s EXCEPT !.entries = entries])
        ELSE FilesLoaded([s EXCEPT !.next_entry = total, !.root = root, !.current_dir = root,
                                   !.entries = Flattened(entries, total, root)],
                         files, view)

\* filesystem_load_from_storage.  When the table cannot be read its entries
\* have already been cleared.
filesystem_load_from_storage(s, view) ==
    LET header == view[0] IN
    IF header.kind # "header" THEN Result(s, -1)
    ELSE IF header.total = 0 \/ header.total > MAX_ENTRIES THEN Result(s, -1)
    ELSE IF view[1] = FAILED
    THEN Result([s EXCEPT !.entries = [i \in Slots |-> ZeroEntry]], -1)
    ELSE Result(LoadTable(s, header.total, view), 0)

-----------------------------------------------------------------------------
(* The system. *)

PInit ==
    /\ Init
    /\ drive \in {0, 1} /\ devices \in Dev!Detected
    /\ disk = [l \in Dev!LBAs |-> Blank]
    /\ buffer = [s \in Dev!Sectors |-> Blank]
    /\ queue = <<>> /\ lost = 0 /\ hddSaved = 0
    /\ saves = 0 /\ cycles = 0

\* A command on the file system in memory.
Command == queue = <<>> /\ Next
           /\ UNCHANGED <<store, queue, lost, hddSaved, saves, cycles>>

Enqueue(writes) ==
    /\ queue = <<>> /\ saves < MaxSaves
    /\ queue' = writes /\ saves' = saves + 1
    /\ UNCHANGED <<fs, store, lost, cycles>>

HasRoot(s) == s.entries[s.root].used = 1

Save == /\ Enqueue(SaveWrites(fs))
        /\ hddSaved' = IF device = Dev!HDD0 /\ ~HasRoot(fs) THEN 0 ELSE hddSaved
Format == /\ Enqueue(FormatWrites)
          /\ hddSaved' = IF device = Dev!HDD0 THEN 0 ELSE hddSaved

\* One sector write; when it fails the rest is given up.
WriteSector ==
    /\ queue # <<>>
    /\ \E o \in Dev!WriteOutcomes(device, Head(queue).sector, Head(queue).value) :
          /\ disk' = o.disk /\ buffer' = o.buffer
          /\ queue' = IF o.ret = 0 THEN Tail(queue) ELSE <<>>
          /\ lost' = IF queue' = <<>> THEN 0 ELSE IF o.err = 1 THEN 1 ELSE lost
          /\ hddSaved' = IF /\ device = Dev!HDD0 /\ HasRoot(fs)
                             /\ o.ret = 0 /\ queue' = <<>> /\ Head(queue).value # Blank
                             /\ lost = 0 /\ o.err = 0
                         THEN 1 ELSE hddSaved
    /\ UNCHANGED <<fs, drive, devices, saves, cycles>>

Load ==
    /\ queue = <<>>
    /\ \E answering \in SUBSET Dev!Sectors :
          fs' = filesystem_load_from_storage(fs, View(answering)).fs
    /\ UNCHANGED <<store, queue, lost, hddSaved, saves, cycles>>

\* Power fails, perhaps in the middle of a save; the kernel boots again.
PowerCycle ==
    /\ cycles < MaxCycles
    /\ fs' = InitialFs
    /\ devices' \in Dev!Detected
    /\ buffer' \in {buffer, [s \in Dev!Sectors |-> Blank]}
    /\ queue' = <<>> /\ lost' = 0
    /\ cycles' = cycles + 1
    /\ UNCHANGED <<drive, disk, hddSaved, saves>>

PNext == Command \/ Save \/ Format \/ WriteSector \/ Load \/ PowerCycle

PSpec == PInit /\ [][PNext]_vars

-----------------------------------------------------------------------------
(* Properties. *)

\* However a load goes, with sectors that cannot be read, a table that a power
\* failure left half of, or a full heap, no two files share a buffer and no
\* file holds one the heap may hand out again.
BuffersDistinct ==
    \A f \in WithData(fs) :
        /\ fs.entries[f].data \notin fs.free
        /\ \A g \in WithData(fs) :
              fs.entries[f].data = fs.entries[g].data => f = g

Leaked == Buffers \ (fs.free \cup {fs.entries[f].data : f \in WithData(fs)})

\* A load forgets the buffers of the files it replaces; no other step leaks.
OnlyLoadLeaks == [][Leaked' \subseteq Leaked \/ Load]_vars

\* filesystem_write_file copies through file->data without looking at it, and
\* load leaves files of size 0 without a buffer.  Memory at address 0 stays
\* untouched all the same.
NothingAtAddressZero == fs.mem[NULL] = [i \in 1..MAX_FILE_SIZE |-> Garbage]

\* A load from these sectors finds a file system with a root.
Loadable(view) ==
    /\ view[0].kind = "header" /\ view[0].total \in 1..MAX_ENTRIES
    /\ Roots(LoadedEntries(view[1]), view[0].total) # {}

\* Once a save to HDD0 has completed, on a drive that could write it, HDD0 holds
\* a loadable file system until somebody formats it or saves a file system
\* without a root: saves that fail, that the drive loses sectors of, or that a
\* power failure interrupts between any two sectors, and saves to VDISK0, which
\* is the same drive, do not change that.
HddStaysLoadable ==
    hddSaved = 1 => Loadable([s \in Dev!Sectors |-> disk[s]])

\* The first sectors of a blank device after these writes.
WithWrites(writes) ==
    [s \in Dev!Sectors |->
        IF \E i \in 1..Len(writes) : writes[i].sector = s
        THEN writes[Max({i \in 1..Len(writes) : writes[i].sector = s})].value ELSE Blank]

\* The file system a machine has that boots and loads what s was saved as.
Restored(s) == filesystem_load_from_storage(InitialFs, WithWrites(SaveWrites(s))).fs

\* The entries that fit in the table sector come back from a save and a load
\* with their names and types, whatever has been created and removed.
TableComesBack ==
    LET restored == Restored(fs) IN
    HasRoot(fs) =>
        \A f \in Used(fs) : f <= ENTRIES_ON_DISK =>
            /\ f \in Used(restored)
            /\ restored.entries[f].name = fs.entries[f].name
            /\ restored.entries[f].type = fs.entries[f].type

\* What save writes is something load accepts.
SaveIsLoadable == Loadable(WithWrites(SaveWrites(fs)))

\* README: "Use `save` command to persist your filesystem [...], and `load` to
\* restore it": the files whose data a save writes come back with their texts,
\* when the device and the heap of the machine that loads have room for them.
FilesComeBack ==
    LET restored == Restored(fs) IN
    /\ HasRoot(fs)
    /\ Len(SaveWrites(fs)) <= TotalSectors
    /\ Cardinality(Saved(fs)) <= Cardinality(InitialFs.free)
    => \A f \in Saved(fs) :
          f \in WithData(restored) /\ TextOf(restored, f) = TextOf(fs, f)
=============================================================================
