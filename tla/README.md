# pineOS in TLA+

A verification project for the core of the pineOS kernel (`src/kernel`): its
heap, process table, in-memory file system, storage devices, the saving and
loading of the file system, user programs, the input line and the choice of
shell commands, the PCI scan, the network interfaces with their drivers, and the
descriptor rings of the E1000. TLC checks the modules on small instances; TLAPS
proves all their safety properties for every size.

## The system

The kernel is one thread. `kernel_init` sets the subsystems up one after the
other; `kernel_loop` reads keys, executes a shell command when a line is
complete, and calls `process_schedule` in every turn. There are no interrupts
and no preemption, so there are no races between threads. What is hard is long
sequences of calls, operations that fail half way, resources that run out, a
drive that may fail, time out or lose power between any two sectors, and a
network card that works on the same descriptors as its driver.

| component | state it keeps | operations | hard because | correct when |
|---|---|---|---|---|
| heap, `memory.c` | linked block list, `memory_used` | alloc, free, test | merging in both directions; unsigned sizes | blocks tile the heap, neighbours are merged, owners keep their blocks |
| processes, `process.c` | list of heap structures, `current_process`, `next_pid` | create, start, yield, exit, schedule | heap full between two allocations; freed structures; starvation | no leak, no dangling pointer, nobody is passed over |
| file system, `filesystem.c` | table of 150 entries, tree of pointers, one heap buffer per file | mkdir, touch, write, read, cd, rm, rmdir, cp, ls, pwd, tree | full table, full heap, removal and reuse, lookups relative to the wrong directory | tree and buffers consistent, other files untouched |
| save, load, format, `filesystem.c` | sectors of a device | as named | power failure between sectors, unreadable sectors, repeated loads | what is on the device stays loadable, files come back |
| storage, `storage.c` | device array, the drive, a memory copy | detect, read and write a sector | polls time out at any point; two devices on one drive | a sector reads back what was stored |
| shell and start-up, `kernel.c` | input line | `execute_command` | commands matched by prefix | every command reaches its handler |
| user programs, `user.c` | 16 program slots, code on the heap | load, find, run, remove, compile | slots and heap run out | slots, counter and heap agree |
| network, `network.c`, `netstack.c` | interfaces, networks found | up, down, DHCP, scan, connect, disconnect, ping, DNS | several commands set the same fields | interface, DHCP and scan states agree |
| drivers, `e1000.c`, `amd_pcnet.c`, `virtio_net.c`, `wifi_ax201.c` | buffers, descriptor rings | set-up, send, receive | set-up fails half way; the card works on the rings at its own pace | a driver in use has its buffers; no frame is lost, repeated or overtaken; a send returns |
| PCI, `pci.c` | device table | scan, find | table full, gaps between functions | every device that can be seen is listed once |
| console, `io.c`, input line of `kernel.c` | screen, cursor, line | put a character, scroll, erase, key | the line is kept twice; erasing across rows and scrolls | the screen shows the line |
| strings, boot code, user library | none | pure functions | - | - |

They interact by calls and through the one heap: processes, the file system,
user programs and the drivers all allocate from it. The file system uses the
first storage device that was found; all storage goes to the primary ATA drive.

## Modules

| module | models | state |
|---|---|---|
| `Heap` | the block list of `memory.c`: `memory_alloc`, `memory_free` and what they consist of, as operators on a heap value | - |
| `Memory` | `memory.c` with arbitrary callers, on `Heap` | `heap`: block headers by address, and `memory_used`; `held`: who owns what (history) |
| `Allocator` | what a heap promises | `regions` in use |
| `HeapProofs` | lemmas about the operators of `Heap` | - |
| `MemoryProofs` | theorems about `Memory`, on `HeapProofs` | - |
| `Process` | `process.c`, on `Heap` | process structures by heap pointer, list, current process |
| `ProcessProofs` | theorems about `Process`, on `HeapProofs` | - |
| `FileSystem` | `filesystem.c` without storage | one record `fs`: the entries, `next_entry`, `root`, `current_dir`, and the heap as `free` and `mem` |
| `Storage` | `storage.c` | `drive`, `devices`, `disk` by LBA, `buffer` (the memory copy); `acked` (history) |
| `UserPrograms` | `user.c`, on `Heap` | one record `user`: program slots, counter, the heap and who holds which block |
| `Shell` | `execute_command`; composes with `UserPrograms` | - |
| `ShellProofs` | theorems about `UserPrograms` and `Shell`, on `HeapProofs`, and about `Console` | - |
| `StorageProofs` | theorems about `Storage` | - |
| `Pci` | `pci.c` | - (the table is `net.pci`) |
| `Network` | `network.c`, the set-up of the four drivers, the DHCP client of `netstack.c`; composes with `Pci` | one record `net`: the machine and the device table, interfaces, networks found, what each driver has of the heap |
| `NetworkProofs` | theorems about `Pci` and `Network` | - |
| `E1000` | the rings of `e1000.c`; driver and card as two actors | status bits, buffers, head and tail registers and driver index of both rings; where a send is |
| `FrameQueue` | what a ring promises | the frames in it, the last one taken |
| `E1000Proofs` | theorems about `E1000` | - |
| `Console` | `io.c` and the input line of `kernel_loop` (its specification is `ConsoleSpec`, so that `ShellProofs` can use it beside that of `Shell`) | `vga`: buffer and cursor; `line` |
| `Persistence` | save, load and format; composes `FileSystem` and `Storage` | both, and `queue`, the sector writes still to be done; `lost`, `hddSaved` (history) |
| `PersistenceProofs` | theorems about `FileSystem`, then about `Persistence` | - |

`MC...` modules give the constants their values. Operations are operators on a
state value with the names of the C functions, because one C function calls
another in the middle (`filesystem_cp` calls `filesystem_write_file`, which
calls `filesystem_touch`, which calls `memory_alloc`); an action applies one of
them. Every early return is a branch. Definitions named `X_Something` in front
of a definition `X` are plausible bugs, kept to show that each property notices
one.

How data is abstracted:

- **Heap.** Byte contents are left out of `Heap`. In `FileSystem` every
  request has the same size, so the heap is a pool of buffers; that heap blocks
  do not overlap or move is what `Memory` shows.
- **Names and paths.** A path or a name is the sequence of the parts between its
  `/`, empty parts included: `b/` is `<<"b", "">>`, `/b` is `<<"", "b">>`. The
  lookup passes over empty parts, as `strtok` does, and compares one part after
  the other with the names of entries. An entry's name is stored whole, so that
  `touch etc/version` makes an entry called `<<"etc", "version">>` and `mkdir b/`
  one called `<<"b", "">>`, which no lookup finds. Which names are too long, and
  what is left of the whole name when it is cut to 31 characters, is the constant
  `Cut`.
- **Contents** are sequences of chunks, a chunk being one sector's worth.
  `Garbage` stands for memory nobody wrote.
- **Sectors** hold what `save` and `format` write: a header, a table of
  `ENTRIES_ON_DISK` entries, one chunk, or zeros.
- **The drive.** Each poll may time out, before or after the data was taken, so
  a write has a set of outcomes and a read an answer that may be missing. A
  drive may also end a write with an error, which the code does not notice; the
  properties that are about a drive that stored the sector say so.
- **One heap, two views.** `FileSystem` needs what buffers hold and not where
  they are; `Process` and `UserPrograms` need the real allocator. So
  `UserPrograms` keeps of the file system the buffers and entries it takes
  (`files`: a path leads to them, `binaries`: none does, but their entry still
  points to them), and lets the tree decide whether a file is found. What `load`
  does to them is `LoadOutcomes`, one outcome for each way through
  `filesystem_load_from_storage`; which sectors lead to which is in `Persistence`.
- **The machine.** A machine is what answers in each slot (bus, device and
  function): the kind of card, whether it has several functions, and whether its
  first BAR is in the I/O space. A driver's set-up has a set of outcomes, one for
  each way the card may answer.
- **Rings.** The card owns the descriptors between its head and tail registers
  and touches nothing else; a step of it is one frame. `e1000_send_packet` is
  split where the card can look. The driver is one thread, so that it does not
  receive while it sends.
- **The screen.** Colours are left out, and so is the key map.
- **Network.** Drivers take `(data, len)` and are called with `(interface, data,
  len)`, so that they send the interface structure and no answer can come of
  it: what is left of a DHCP exchange is whether something could be sent. The
  heap at start-up is one free block, the addresses are three constants.
  A frame the PCnet card has received is copied over the interface table; the
  model does not follow a session beyond that.
- **Command lines** are a word and an argument; `BeginsWith` says which words
  begin with other commands.
- **Null pointers.** Address 0 is ordinary memory in this kernel (no paging).
  It is an extra buffer, `mem[NULL]`, and `file->type` read through a null
  `file` is an interrupt vector, never `FILE_TYPE_FILE`.

## What TLC checks

`pass` runs (the first line of each cfg names the specification):

| run | properties | bounds and why they are enough |
|---|---|---|
| `heap` | `TypeOK`, `BlocksTileHeap`, `Coalesced`, `UsedIsSumOfUsedBlocks`, `HeldAreUsedBlocks`, `MemoryTestRestoresHeap`, `FreeUndoesAlloc`, `HeldBlocksUntouched`, `ImplementsAllocator` | 128 bytes hold up to five blocks: a block with neighbours on both sides, all free or used. Requests lie around the 4-byte rounding and on both sides of the split threshold. |
| `processes` | `ProcessesOwnHeap`, `NoDanglingProcess`, `OnlyAHolderStarves`, `OnlyStartStrands` | a heap that fits three processes at most, so that either allocation of `process_create` fails; four pids. |
| `filesystem` | `TypeOK`, `TreeConsistent`, `BuffersOwned`, `SizeIsLength`, `OthersKeepTheirText`, `SecondNameOnlyUnseen` | two entries beyond the default tree and one free buffer: table and heap fill up, the heap first or the table first. Relative, absolute, two-part, cut and dot paths, and one that ends with a `/`; text longer than a buffer. With one buffer to spare `cp` copies a file to itself or to one that cannot be made; two distinct files are left to the theorems, which hold for every number of buffers. |
| `storage` | `HddReadsBack`, `BufferHoldsLastWrite` | three sectors; `OFFSET` 2, so that the devices overlap in one sector. |
| `persistence` | `TreeConsistent`, `BuffersDistinct`, `NothingAtAddressZero`, `HddStaysLoadable`, `TableComesBack`, `OnlyLoadLeaks` | `ENTRIES_ON_DISK` is the real 8, the default tree fills it and one more entry does not fit. Two saves or formats, one power cycle; the heap is full when a load starts anew. One kind of chunk, since none of these properties compares texts. |
| `programs` | `ProgramsAgree`, `OwnersKeepBlocks`, `OnlyTestAndLoadLose` | two slots, one of them taken by a demo; two file entries left; a heap with room for one more buffer or two small blocks. Slot, table and heap can each be the first to run out, and `test` passes, fails on its second allocation, or on both. A load may find nothing, fail, start anew, or restore a table of any length. One block granted to a program at a time. |
| `network` | `PciTableComplete`, `DhcpStateFits`, `ScanCountsNetworks`, `DriversOwnBuffers` | every machine of two devices with three functions and six kinds of card, at most one of them with the other kind of BAR; a device table of four, so that it overflows. The E1000 eats the heap but one buffer and fails, as the real one does, before the next driver is tried; the hardware check finds three networks and the scan two, one of them the same. |
| `e1000` | `SendsInOrder`, `ReceivesInOrder`, `SendReturnsUnlessLapped` | rings of three descriptors and two frames: empty, full and wrapped around, with the driver a whole ring ahead. Deadlock is not checked: a driver that is a whole ring ahead waits for ever (see below). |
| `console` | `ScreenShowsLine` | a screen of three columns and four rows and a line of five characters: prompt and line take up to three rows, cross the edges of rows and scroll. Output may end at the start, inside and at the edge of a row. |

With the real size of the table sector the data part of `load` (`filesystem.c`
687-787) never has anything to do: only eight entries come back, start-up makes
exactly eight, and none of those files can be written by any path. `LoadFile`
models that part, and the theorems about loads cover it, since they hold for
every `ENTRIES_ON_DISK`; the runs keep the real number. For the same reason
`NothingAtAddressZero` holds: the files that `load` leaves without a buffer are
the default files, which no path finds. With a larger sector
`filesystem_write_file` would copy to address 0.

Fairness: `Process` assumes weak fairness of `process_schedule`, which
`kernel_loop` calls in every turn, and of nothing else: nobody in the repository
calls `process_yield` or `process_exit`, so a process that has the processor may
keep it for ever, and then the others starve. `OnlyAHolderStarves` says that this
is the only way to starve: as long as processes let go, by yielding or exiting,
a READY one is not passed over. That is not obvious, because the comment "Simple
round-robin scheduler" (`process.c:132`) is not what the code does, it searches
from the head of the list every time.
`E1000` assumes weak fairness of the two
steps of a send that has begun, which nothing interrupts, and of the card
sending what it owns: `while (!(desc->status & E1000_TXD_STAT_DD))` in
`e1000_send_packet` relies on nothing else. Nobody is obliged to send or to
receive. The other modules state safety only.

`SendReturnsUnlessLapped` has an exception because the code has one: it fills
the last free descriptor too, and then tail and head registers are equal, which
tells the card that there is nothing to send (`e1000.c:308`). In the states
`Lapped` the next send never returns.

`SecondNameOnlyUnseen` and `OnlyStartStrands` state how far a promise of the
code goes: "Check if directory already exists" (`filesystem.c:114`) and "Check
if file already exists" (`:149`) look from the current directory, for the path
taken apart at every `/` and not as the name is stored, and for the name
before it is cut, and only in these cases a name can occur twice (`mkdir b/`
twice makes two entries `b/`); `process_start` is the only call that leaves a process RUNNING and
not current.

`violation` runs: what a comment or the README says and the code does not do.

| run | property | says | the code |
|---|---|---|---|
| `vdisk_stale` | `VdiskReadsBack` | `storage.c:269`, `:276` | prefers the drive's old sector to the newer one in memory |
| `files_come_back` | `FilesComeBack` | `README.md:105` | saves eight entries, which the default tree fills, so that no file a user made is restored (`filesystem.c:533`) |
| `save_loads` | `SaveIsLoadable` | `README.md:105` | saves a file system without a root after a failed load |

Other disagreements, seen while modelling and contained in the models, without
a run of their own: `wifi_connect` replaces the state CONNECTED by UP, and
`wifi_disconnect`, offered at `kernel.c:499`, then always refuses
(`network.c:584`); `rm` is
compared as a prefix before `rmdir`, and `ls` before `lspci` (`kernel.c:251`,
`README.md:67`), so `rmdir b` removes the file `dir b`; the E1000 needs 2 *
(4096 + 256 * 2048) bytes of a heap of 983,040, so its set-up always fails, and
keeps what it took (`e1000.c:263`); an interface whose DHCP request cannot be
sent goes on "Discovering..." (`netstack.c:337`); `wifi_disconnect` would leave a
lease behind if it ever got past its check (`network.c:607`); the networks
`wifi_hardware_init` has found are discarded by the scan that follows
(`network.c:996`); `memory_alloc` is best fit, not "first-fit" (`memory.c:21`);
`tree` looks subdirectories up by
name from the current directory, and so shows others, or recurses without end
when two nested directories share a name (`filesystem.c:451`); only VDISK0 stays
off the boot sectors (`storage.c:249`), HDD0, which `save` prefers, writes its
header to sector 0; `compile` says "Binary stored in /system/..."
(`user.c:438`), but the entry it makes is in the root with a name that holds
the `/`, and no path leads to it, so every compilation costs an entry and a
buffer; `SYS_MALLOC` takes from the kernel heap, not from the "user heap"
(`user.c:271`); nothing enforces `MAX_PROCESSES` (`process.h:37`); `process_schedule` starts at
the head of the list every time, also from `process_exit`, which is not
"round-robin" (`process.c:132`); a touched file is not empty (`filesystem.c:139`)
but shows what its buffer held; the default files of `filesystem_init` cannot
be found (`filesystem.c:24`); slots of removed entries are never used again
although marked free (`filesystem.c:33`); `load` refuses a freshly formatted
device (`filesystem.c:602`, `:808`); `ata_write_sector` returns success for a
write that ended with `ATA_STATUS_ERR` (`storage.c:288`), and a write to VDISK0
for one that only reached memory (`storage.c:278`).

## What is proved

`MemoryProofs` proves, for every heap range, every set of requests and every
three test sizes, all the invariants of the run `heap`, its action
property, and that the heap implements `Allocator`. The assumptions are
`LayoutAssumption` of `Heap` (a heap with room for a header, 4-aligned, far from the top
of the address space) and `RequestAssumption` (no request so large that
rounding wraps). TLC evaluates both.

None of the invariants is inductive alone: that a free merges correctly needs
that the blocks tile the heap, which needs that a split leaves sizes divisible
by four, and so on. `InductiveInvariant` is their conjunction with the shape of
the block list as seen from both ends. The proof has one lemma for each way the
list changes: a block is taken whole, a block is split, a block absorbs its
successor. `memory_alloc` and `memory_free` are compositions of these; the
lemmas are in `HeapProofs` and speak of a heap value, so that the proofs about
every module that allocates can use them.
`FreeUndoesAlloc` and `MemoryTestRestoresHeap` rest on `HeapIsCanonical`: a
tiled and coalesced heap is determined by its used blocks. The action property
and the refinement follow from the invariant and what the lemmas say about the
blocks a step does not touch. `UsedIsSumOfUsedBlocks` needs one thing more: that
the sum over the used blocks, a recursive function, changes by the size of the
block that changes.

`ProcessProofs` proves the safety properties of the run `processes` for any
number of processes and every stack size. `ProcessesOwnHeap` is not inductive:
that a release takes the right block needs that no two structures and stacks
share one (`TableOwns`), and that the scheduler's search ends at a live process
needs `NoDanglingProcess`. That a failing `process_create` leaves the heap as it
was is `FreeUndoesGrant` of `HeapProofs`; that a dispatch loses nobody is
`ScheduleKeeps`. Dispatch itself is liveness and stays with TLC. The additional
assumption, `ProcessAssumption`, is that no process structure or stack asked for
is so large that rounding wraps.

`ShellProofs` proves the three properties of the run `programs` for every size
of heap, table and buffer, every list of demo programs and whatever is typed.
The invariant is `UserOK`: every pointer that is kept (by a slot, a file, a
compiled program, `user_init`, a running program) leads to a used block of at
least the size asked for, no two to the same one, and the slots, their names and
`program_count` agree. That no pointer is kept twice is what a release needs, so
the pairs of owners are told apart one by one (`Apart`). Start-up, where either
block of `user_init` may be missing and any demo may not fit, is shown to
establish it. `OnlyTestAndLoadLose` follows from what each operation's lemma says
about blocks nobody points to (`Lost`); for a load, that every outcome of it
keeps all owners but the files. The assumptions are `ProgramAssumption` and
`TestAssumption`: no size is so large that rounding wraps.

It also proves `ScreenShowsLine`, for every size of screen and line, every set
of characters and whatever commands print. The cells are counted along the rows
(`Place`), as the property does, and `Shows(v, text)` says that `text` stands
before the cursor of `v` and nothing behind it. The lemmas say what one
character does to it: `PutShows` appends, also when the row is full and the
screen scrolls; `BackShows` takes the last one away, also across the edge of a
row. Output and the prompt keep nothing behind the cursor wherever they start
(`AnyShows`). The invariant is `LineInv`. `ConsoleAssumption` is that prompt and
line fit above the last row, since a scroll takes the first row away (80 x 24
cells for 257 characters), and that the keyboard's printable characters are
neither of the two the console treats as commands.

`PersistenceProofs` first proves the properties of the run `filesystem`, for
every size of table, buffer and heap and every set of paths and texts.
`TreeConsistent` and `BuffersOwned` are parts of `FsOK`, which also says that
the root and the current directory are entries and no files, which every walk
needs. `SizeIsLength` is the part `Sized`. An operation's lemma says how the
state after it relates to the one before (`Keeps`: one text changes at most, the
table only grows, and so on), because commands are compositions: `filesystem_cp`
writes, a write may touch, a touch may allocate. The action properties
`OthersKeepTheirText` and `SecondNameOnlyUnseen` come from the same lemmas; for
the second, a lookup that starts in the right directory is shown to find every
name there that has one part. The assumptions are `TableAssumption` (a table with room for
start-up's eight entries), `PathAssumption` (a path has parts) and
`NameAssumption` (no name is cut to `/`, and the default names are not cut).

It then proves the properties of the run `persistence`, for
every number of sectors, every capacity of the table sector and every order of
commands, saves, loads, failing sectors and power failures. `PIInv` adds to
`FsOK` that slot 1 is the root (`Rooted`), that a sector of the devices holds
something `save` or `format` could have written (`StoreOK`), how far the save or
format under way is (`QueueOK`), and that a device once saved keeps its header
and its table (`HddKept`). A save replaces header and table one after the other,
and `HddStaysLoadable` holds because either of the two is acceptable next to the
older version of the other. A load clears the table, takes the
entries and then reads one file after the other (`LoadCases`): each file gets a
buffer nobody else has, or none (`FilesLoadedKeeps`).
`TableComesBack` applies the model's load to the model's save. For
`NothingAtAddressZero`, `HeldInv` says that what the devices hold are start-up's
entries; the theorem has the hypothesis `ENTRIES_ON_DISK <= 8`, which is what
512 bytes hold of `file_entry_t`. With a larger one the statement is false, as
the section on the runs explains. `DeviceAssumption` is that a device has two
sectors and that VDISK0 starts behind HDD0's.

`NetworkProofs` proves the four properties of the run `network`, for every set of
machines, every size of the device table, of the rings, of the buffers and of
the heap, and every order of commands. `ScanLists` is about the scan alone: after
`n` slots the table lists the functions below `n` that can be seen, and what the
scan remembers (a device to be skipped, a full table) is what decides about the
rest (`ScanOK`). `NetOK` is inductive: no interface stays CONNECTED, a lease has
an address and a driver, an interface that is down neither has nor seeks one, a
driver in use has its card, its buffers and is initialized, and the used slots
for networks are the first `wifi_network_count`. Start-up tries one driver after
the other; `Outcome` says of what each leaves behind that either one is in use
or the drivers still to be tried hold no buffers (`Fresh`), although the ones
before may have eaten the heap. `DisconnectKeeps` shows that
`wifi_disconnect` never changes anything, since nobody is ever CONNECTED.
`PciAssumption` and `NetworkAssumption` give the constants their types, say that
a machine's slots are slots, and that a scan does not find a network twice.

`StorageProofs` proves both properties of the run `storage`, for every number of
sectors, every set of contents and every offset of VDISK0. They are not
inductive: what is read depends on the answers of the drive. `IInv` says where an
acknowledged write is: a write to sector `s` of HDD0 on the disk at LBA `s`,
until a write to VDISK0 or a failed one takes its place; one to VDISK0 in the
buffer.

`E1000Proofs` proves for every size of ring that both rings implement
`FrameQueue`. `TxInv` and `RxInv` say that the descriptors in use are one
stretch of the ring: `n` of them from the head register (or the driver's index)
on, with `n` the number of status bits that are clear (or set), and where the
other index and the tail register are. `At(h, k)` is the descriptor `k` places
after `h`; the lemmas about it are all the arithmetic there is. `RingPut` and
`RingTake` say that storing behind the stretch appends to the sequence of frames
and that moving its start takes the head; the refinement follows from them.

Loops of the code (over demos, buffers, slots, files, sectors) are recursive
functions in the models. What they compute is proved by taking the least number
of turns for which the claim fails; `LeastNatural` and one lemma for each
function, that a function with these equations exists, are all this needs.

Only model-checked: liveness (`OnlyAHolderStarves`, `SendReturnsUnlessLapped`),
which is out of the prover's reach, and the three runs that expect a violation.

## What is not modelled

- The heap is the memory from 0x10000 to 0x100000 (`memory.h:13`), and so holds
  the screen at 0xB8000 and the ROM area. The model treats it as memory of the
  kernel's own: that a character on the screen changes a block there, or that
  the ROM does not keep what is stored, is left out.
- Code the kernel does not reach is modelled as the interface it is, with
  arbitrary callers: creating, starting, yielding and exiting processes,
  `filesystem_rmdir` (the
  shell compares `rm` first), the system calls, and the rings of the E1000, whose
  set-up fails for want of memory before they are used (`e1000.c:263`). What is
  checked of them says what a caller may rely on, not what a user can see.
- `load` and `save` move the header sector, 512 bytes, through a variable of 20
  bytes (`filesystem.c` 520, 527, 585, 588). What a load then does to the stack
  depends on compiled frames. The model assumes that the stack survives, or
  that the session ends (`PowerCycle`, possible at any time).
- `ls`, `pwd` and `tree` only print.
- Devices are detected at boot; `storage_initialized`, `storage_read_sectors`
  and `storage_write_sectors` are not used by the kernel.
- `syscall_handler` and `user_load_binary_from_system` have no callers in the
  kernel; they are actions because they are its interface to programs.
- `ping` and DNS send and print. The formats of packets, ARP and checksums are
  left out with the contents of frames; `network_set_static_ip` and the `real_`
  functions of `virtio_net.c`, `real_network_init` excepted, have no callers.
- The other drivers have no rings the card works on: `amd_pcnet.c` writes one
  address register and waits a fixed number of turns, `virtio_net.c` and
  `wifi_ax201.c` copy into one buffer or none, and receive nothing. The scan of
  `wifi_ax201.c` has no callers.
- The key map; `vga_set_cursor`, `vga_set_color` and the serial port have no
  callers. Commands that only print, strings, boot code and the user library are
  port I/O, pure functions or straight-line code, and stay out.

## Plan

Done: `Heap`, `Memory`, `Allocator`, `Process`, `FileSystem`, `Storage`,
`Persistence`, `UserPrograms`, `Shell`, `Pci`, `Network`, `FrameQueue`, `E1000`,
`Console`, and the proofs of all their safety properties and of the three
refinements.
