---------------------------- MODULE UserPrograms ----------------------------
(***************************************************************************)
(* The user programs of kernel/user.c: a table of slots, each with a heap  *)
(* block for the code, on the heap operators of module Heap.               *)
(*                                                                         *)
(* The kernel has one heap, so the file buffers are here too: compiling a  *)
(* program writes /system/<name>, which module FileSystem shows to take a  *)
(* table entry and a buffer for a file that no path leads to, and to fail. *)
(* Of the file system this module keeps what it takes from the heap.       *)
(*                                                                         *)
(* Programs are never executed: user_run_program prints.  system calls are *)
(* the interface syscall_handler offers to them.                           *)
(***************************************************************************)
EXTENDS Heap, Sequences, FiniteSetsExt, SequencesExt

CONSTANTS
    MAX_USER_PROGRAMS,                  \* slots (16)
    MAX_PROGRAM_SIZE,                   \* bytes of code (16384)
    USER_STACK_SIZE, USER_HEAP_SIZE,    \* 4096 and 8192
    MAX_FILE_SIZE,                      \* bytes of a file buffer (4096)
    MAX_ENTRIES,                        \* entries of the file table (150)
    EntriesAtBoot, BuffersAtBoot,       \* of them, made by filesystem_init (8 and 3)
    Demos,                              \* the demo programs, [name, size], in order
    CompiledSizes,                      \* sizes the compiler produces (5 and 18)
    RunSize,                            \* what the program "test" allocates (100)
    SyscallSizes,                       \* what programs ask SYS_MALLOC for
    Names,                              \* program names callers pass
    MaxGrants                           \* bound: blocks programs hold at once

VARIABLE user  \* the record built by Booted below

\* Nobody asks for a size that wraps around when it is rounded up.
ASSUME ProgramAssumption ==
    /\ MAX_USER_PROGRAMS \in Nat /\ BuffersAtBoot \in Nat
    /\ MAX_PROGRAM_SIZE \in 0..(WORD - 4) /\ MAX_FILE_SIZE \in 0..(WORD - 4)
    /\ USER_STACK_SIZE \in 0..(WORD - 4) /\ USER_HEAP_SIZE \in 0..(WORD - 4)
    /\ RunSize \in 0..(WORD - 4) /\ SyscallSizes \subseteq 0..(WORD - 4)
    /\ Demos \in Seq([name : STRING, size : Nat]) /\ CompiledSizes \subseteq Nat

Slots == 0..(MAX_USER_PROGRAMS - 1)

EmptySlot == [used |-> 0, name |-> "", code |-> 0, size |-> 0]

UsedSlots(s) == {i \in Slots : s.user_programs[i].used = 1}

\* The blocks somebody still holds a pointer to, with the sizes asked for.
Owned(s) ==
    LET code == {s.user_programs[i].code : i \in UsedSlots(s)}
        fixed == {s.user_stack, s.user_heap} \ {0}
    IN  [p \in code \cup fixed \cup s.files \cup s.binaries \cup DOMAIN s.granted |->
            IF p \in code
            THEN s.user_programs[CHOOSE i \in UsedSlots(s) : s.user_programs[i].code = p].size
            ELSE IF p = s.user_stack THEN USER_STACK_SIZE
            ELSE IF p = s.user_heap THEN USER_HEAP_SIZE
            ELSE IF p \in s.files \cup s.binaries THEN MAX_FILE_SIZE
            ELSE s.granted[p]]

-----------------------------------------------------------------------------
(* Operations: each returns the new state and the return code. *)

Result(s, ret) == [user |-> s, ret |-> ret]

\* user_find_program: the first used slot with the name, or -1.
user_find_program(s, name) ==
    LET found == {i \in UsedSlots(s) : s.user_programs[i].name = name} IN
    IF found = {} THEN -1 ELSE Min(found)

FreeSlot(s) ==
    LET unused == Slots \ UsedSlots(s) IN IF unused = {} THEN -1 ELSE Min(unused)

\* Mutant of user_load_program: the block is had before the slot is looked for.
user_load_program_AllocFirst(s, name, size) ==
    LET memory == memory_alloc(s.heap, size)
        slot == FreeSlot(s)
    IN  IF user_find_program(s, name) # -1 THEN Result(s, -1)
        ELSE IF slot = -1 \/ memory.ptr = NULL THEN Result([s EXCEPT !.heap = memory.heap], -1)
        ELSE Result([s EXCEPT !.heap = memory.heap, !.program_count = @ + 1,
                              !.user_programs[slot] =
                                 [used |-> 1, name |-> name, code |-> memory.ptr, size |-> size]], 0)

\* Mutant of user_load_program: counts a program whose memory was refused.
user_load_program_CountsFirst(s, name, size) ==
    LET memory == memory_alloc(s.heap, size)
        slot == FreeSlot(s)
    IN  IF user_find_program(s, name) # -1 \/ slot = -1 THEN Result(s, -1)
        ELSE IF memory.ptr = NULL THEN Result([s EXCEPT !.program_count = @ + 1], -1)
        ELSE Result([s EXCEPT !.heap = memory.heap, !.program_count = @ + 1,
                              !.user_programs[slot] =
                                 [used |-> 1, name |-> name, code |-> memory.ptr, size |-> size]], 0)

\* user_load_program refuses a name that is loaded, then looks for a slot, then
\* for memory.
user_load_program(s, name, size) ==
    LET memory == memory_alloc(s.heap, size)
        slot == FreeSlot(s)
    IN  IF \/ size = 0 \/ size > MAX_PROGRAM_SIZE
           \/ user_find_program(s, name) # -1
           \/ slot = -1
           \/ memory.ptr = NULL
        THEN Result(s, -1)
        ELSE Result([s EXCEPT !.heap = memory.heap, !.program_count = @ + 1,
                              !.user_programs[slot] =
                                 [used |-> 1, name |-> name, code |-> memory.ptr, size |-> size]], 0)

\* Mutant of user_remove_program: the slot stays used.
user_remove_program_StaysUsed(s, name) ==
    LET i == user_find_program(s, name) IN
    IF i = -1 THEN Result(s, -1)
    ELSE Result([s EXCEPT !.heap = memory_free(@, s.user_programs[i].code)], 0)

\* user_remove_program frees the code and clears the slot.
user_remove_program(s, name) ==
    LET i == user_find_program(s, name) IN
    IF i = -1 THEN Result(s, -1)
    ELSE Result([s EXCEPT !.heap = memory_free(@, s.user_programs[i].code),
                          !.program_count = @ - 1,
                          !.user_programs[i] = EmptySlot], 0)

\* user_run_program: the program called "test" allocates and frees.
user_run_program(s, name) ==
    LET test == memory_alloc(s.heap, RunSize) IN
    IF user_find_program(s, name) = -1 THEN Result(s, -1)
    ELSE IF name # "test" \/ test.ptr = NULL THEN Result(s, 0)
    ELSE Result([s EXCEPT !.heap = memory_free(test.heap, test.ptr)], 0)

\* filesystem_touch, as far as the heap and the table's length go; in which
\* says whether a path leads to the file ("files") or none ("binaries").
filesystem_touch(s, in) ==
    LET buffer == memory_alloc(s.heap, MAX_FILE_SIZE)
        entry == [s EXCEPT !.next_entry = @ + 1]
    IN  IF s.next_entry >= MAX_ENTRIES THEN s
        ELSE IF buffer.ptr = NULL THEN entry
        ELSE [entry EXCEPT !.heap = buffer.heap, ![in] = @ \cup {buffer.ptr}]

\* filesystem_write_file to /system/<name> or /home/<name>.c.  exists = 1 when
\* the user has made a file there by hand, after a cd; otherwise an entry is
\* made whose name holds the '/', which the second lookup does not find.
WriteInDirectory(s, exists) == IF exists = 1 THEN s ELSE filesystem_touch(s, "binaries")

\* user_compile_and_load: the binary is written, then loaded, and neither is
\* taken back when the other fails.
user_compile_and_load(s, name, size, exists) ==
    user_load_program(WriteInDirectory(s, exists), name, size)

\* user_load_from_file: the name is the file's, without directory and extension.
user_load_from_file(s, readable, name, size, exists) ==
    IF readable = 0 THEN Result(s, -1) ELSE user_compile_and_load(s, name, size, exists)

\* user_load_binary_from_system: the size is the file's, 0 when it was touched
\* and never written.
user_load_binary_from_system(s, exists, name, size) ==
    IF exists = 0 THEN Result(s, -1) ELSE user_load_program(s, name, size)

\* syscall_handler: SYS_MALLOC and SYS_FREE use the kernel heap.
SYS_MALLOC(s, size) ==
    LET r == memory_alloc(s.heap, size) IN
    IF r.ptr = NULL THEN s
    ELSE [s EXCEPT !.heap = r.heap,
                   !.granted = [p \in DOMAIN @ \cup {r.ptr} |->
                                  IF p = r.ptr THEN size ELSE @[p]]]
SYS_FREE(s, ptr) ==
    [s EXCEPT !.heap = memory_free(@, ptr),
              !.granted = [p \in DOMAIN @ \ {ptr} |-> @[p]]]

-----------------------------------------------------------------------------
(* Start-up. *)

\* The kernel with an empty heap and an empty program table.
SwitchedOn ==
    [heap |-> memory_init,
     user_programs |-> [i \in Slots |-> EmptySlot], program_count |-> 0,
     user_stack |-> NULL, user_heap |-> NULL,
     files |-> {}, binaries |-> {}, granted |-> [p \in {} |-> 0],
     next_entry |-> EntriesAtBoot - BuffersAtBoot]

\* n files one after the other, to which no path leads.
FilesMade(s, n) ==
    LET after[k \in 0..n] ==
            IF k = 0 THEN s ELSE filesystem_touch(after[k - 1], "binaries")
    IN  after[n]

\* The kernel before user_init: the file system has made its entries and has
\* its buffers.
Booted == FilesMade(SwitchedOn, BuffersAtBoot)

\* The table is cleared: no entry points to the buffers any more, and they are
\* not freed.
Forgotten(s) == [s EXCEPT !.files = {}, !.binaries = {}]

\* filesystem_init again, on the heap as it is.
StartedAnew(s) ==
    FilesMade([Forgotten(s) EXCEPT !.next_entry = EntriesAtBoot - BuffersAtBoot],
              BuffersAtBoot)

\* filesystem_load_from_storage: nothing to load; a table that cannot be read; a
\* table without a root; a table with n entries.  No entry on a device has data
\* (module Persistence), so that the last takes no buffer.
LoadOutcomes(s) ==
    {s, Forgotten(s), StartedAnew(s)}
    \cup {[Forgotten(s) EXCEPT !.next_entry = n] : n \in EntriesAtBoot..MAX_ENTRIES}

MkdirEntry(s) == IF s.next_entry >= MAX_ENTRIES THEN s ELSE [s EXCEPT !.next_entry = @ + 1]

\* user_create_demo_programs: each binary is written and loaded.
user_create_demo_programs(s) ==
    LET after[n \in 0..Len(Demos)] ==
            IF n = 0 THEN s
            ELSE user_compile_and_load(after[n - 1], Demos[n].name, Demos[n].size, 0).user
    IN  after[Len(Demos)]

\* user_load_builtin_programs: the directory system, a source file for each
\* demo, the demos.
user_load_builtin_programs(s) ==
    user_create_demo_programs(FilesMade(MkdirEntry(s), Len(Demos)))

\* user_init.  Without a stack or heap there are no programs.
user_init(s) ==
    LET stack == memory_alloc(s.heap, USER_STACK_SIZE)
        uheap == memory_alloc(stack.heap, USER_HEAP_SIZE)
        t == [s EXCEPT !.heap = uheap.heap, !.user_stack = stack.ptr, !.user_heap = uheap.ptr]
    IN  IF stack.ptr = NULL \/ uheap.ptr = NULL THEN t ELSE user_load_builtin_programs(t)

Init == user = user_init(Booted)

-----------------------------------------------------------------------------
(* What programs and other parts of the kernel may call. *)

SystemCall ==
    \/ /\ Cardinality(DOMAIN user.granted) < MaxGrants
       /\ \E size \in SyscallSizes : user' = SYS_MALLOC(user, size)
    \/ \E ptr \in DOMAIN user.granted : user' = SYS_FREE(user, ptr)

LoadBinary ==
    \E name \in Names, exists \in {0, 1}, size \in CompiledSizes \cup {0} :
        user' = user_load_binary_from_system(user, exists, name, size).user
=============================================================================
