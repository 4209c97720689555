-------------------------------- MODULE Shell --------------------------------
(***************************************************************************)
(* execute_command of kernel/kernel.c: the command line is compared with   *)
(* the commands in source order, with some of them as a whole, with others *)
(* as a prefix, and the first match runs.                                  *)
(*                                                                         *)
(* A line is [word, arg].  BeginsWith says which words begin with which    *)
(* other words.  Commands that use the heap act on the state of module     *)
(* UserPrograms, load among them; what they do to the tree and the device, *)
(* and what save and format do, is in FileSystem and Persistence.          *)
(***************************************************************************)
EXTENDS UserPrograms

CONSTANTS
    Lines,                 \* what is typed
    BeginsWith,            \* pairs of a word and another that it begins with
    ProgramOf,             \* the program name of a file name: no directory, no extension
    TEST_SIZE1, TEST_SIZE2 \* what the command "test" allocates (512, 1024)

\* The branches of execute_command.  how is "all" for strcmp and "prefix" for
\* strncmp.
Branch(how, names) == [i \in 1..Len(names) |-> [name |-> names[i], how |-> how]]

Branches ==
    Branch("all", <<"help", "clear", "memory", "process", "test", "reboot">>)
    \o Branch("prefix", <<"ls", "cd">>) \o Branch("all", <<"pwd">>)
    \o Branch("prefix", <<"mkdir", "touch", "cat", "echo", "rm", "rmdir", "tree", "cp">>)
    \o Branch("all", <<"storage", "save", "load", "format", "programs">>)
    \o Branch("prefix", <<"run", "compile", "unload", "ifconfig", "dhcp", "wifi", "ping">>)
    \o Branch("all", <<"netstat", "lspci", "pci">>)
    \o Branch("prefix", <<"nslookup">>) \o Branch("all", <<"nettest">>)

Matches(branch, line) ==
    \/ branch.how = "all" /\ line.word = branch.name /\ line.arg = ""
    \/ branch.how = "prefix" /\ (line.word = branch.name \/ <<line.word, branch.name>> \in BeginsWith)

\* The command that runs, "" when there is none.  What follows a prefix is the
\* argument, so that of a longer word is not line.arg.
Handler(line) ==
    LET i == SelectInSeq(Branches, LAMBDA b : Matches(b, line)) IN
    IF i = 0 THEN "" ELSE Branches[i].name

Whole(line) == Handler(line) = line.word

-----------------------------------------------------------------------------
(* The commands. *)

ASSUME TestAssumption == TEST_SIZE1 \in 0..(WORD - 4) /\ TEST_SIZE2 \in 0..(WORD - 4)

\* "test" frees its two allocations when both succeeded, and neither when only
\* one did.
test(s) ==
    LET ptr1 == memory_alloc(s.heap, TEST_SIZE1)
        ptr2 == memory_alloc(ptr1.heap, TEST_SIZE2)
    IN  IF ptr1.ptr # NULL /\ ptr2.ptr # NULL
        THEN Result([s EXCEPT !.heap = memory_free(memory_free(ptr2.heap, ptr1.ptr),
                                                        ptr2.ptr)], 0)
        ELSE Result([s EXCEPT !.heap = ptr2.heap], -1)

\* The command that runs.  Whether a file is found is up to the tree; a program
\* name is an argument that is not empty.  What save and format do is in module
\* Persistence; the others change nothing that is modelled, and "reboot" does
\* not return.
execute_command(line) ==
    LET command == Handler(line)
        named == Whole(line) /\ line.arg # ""
    IN
    \/ command = "test" /\ user' = test(user).user
    \/ command \in {"touch", "echo", "cp"} /\ user' \in {user, filesystem_touch(user, "files")}
    \/ command = "mkdir" /\ user' \in {user, MkdirEntry(user)}
    \/ /\ command = "rm"
       /\ \/ UNCHANGED user
          \/ \E b \in user.files :
                user' = [user EXCEPT !.heap = memory_free(@, b), !.files = @ \ {b}]
    \/ command = "load" /\ user' \in LoadOutcomes(user)
    \/ command = "run" /\ named /\ user' = user_run_program(user, line.arg).user
    \/ command = "unload" /\ named /\ user' = user_remove_program(user, line.arg).user
    \/ /\ command = "compile" /\ named
       /\ \E readable \in {0, 1}, exists \in {0, 1}, size \in CompiledSizes :
             user' = user_load_from_file(user, readable, ProgramOf[line.arg], size, exists).user

Next == \/ \E line \in Lines : execute_command(line)
        \/ SystemCall
        \/ LoadBinary

Spec == Init /\ [][Next]_user

-----------------------------------------------------------------------------
(* Properties. *)

\* The counter, the slots and the names agree: program_count is the number of
\* used slots, an unused slot holds nothing, and no program is loaded twice,
\* whatever was refused half way for want of a slot or of memory.
ProgramsAgree ==
    /\ user.program_count = Cardinality(UsedSlots(user))
    /\ \A i \in Slots \ UsedSlots(user) : user.user_programs[i] = EmptySlot
    /\ \A i, j \in UsedSlots(user) :
          user.user_programs[i].name = user.user_programs[j].name => i = j

\* The pointers the program table holds, and those of user_init.
Codes(s) == {s.user_programs[i].code : i \in UsedSlots(s)}
Fixed(s) == {s.user_stack, s.user_heap} \ {0}

\* Nobody holds what somebody else holds: slots, user_init, files that a path
\* leads to, files that none does, programs.
Apart(s) ==
    /\ \A i, j \in UsedSlots(s) :
          s.user_programs[i].code = s.user_programs[j].code => i = j
    /\ s.user_stack # 0 => s.user_stack # s.user_heap
    /\ Codes(s) \cap (Fixed(s) \cup s.files \cup s.binaries \cup DOMAIN s.granted) = {}
    /\ Fixed(s) \cap (s.files \cup s.binaries \cup DOMAIN s.granted) = {}
    /\ s.files \cap (s.binaries \cup DOMAIN s.granted) = {}
    /\ s.binaries \cap DOMAIN s.granted = {}

\* Every block that a slot, the file system, a program or user_init still
\* points to is a used block, long enough, and nobody else's.
OwnersKeepBlocks ==
    /\ \A p \in DOMAIN Owned(user) :
          /\ p - HEADER \in DOMAIN user.heap.blocks
          /\ user.heap.blocks[p - HEADER].used = 1
          /\ user.heap.blocks[p - HEADER].size >= Owned(user)[p]
    /\ Apart(user)

\* Used blocks nobody points to any more.  A buffer of a file that no path leads
\* to is not among them: its entry in the table still points to it.
Lost(s) == {b \in DOMAIN s.heap.blocks : s.heap.blocks[b].used = 1
                                         /\ b + HEADER \notin DOMAIN Owned(s)}

\* Memory is lost by two commands alone: by "test", when one of its allocations
\* fails, and then one block; by "load", and then no more than the buffers of
\* the files it replaces.  Loading, removing and compiling programs give back
\* what they do not keep, on every error path.
OnlyTestAndLoadLose ==
    [][\/ Lost(user') \subseteq Lost(user)
       \/ /\ user' = test(user).user /\ test(user).ret = -1
          /\ Cardinality(Lost(user') \ Lost(user)) = 1
       \/ /\ user' \in LoadOutcomes(user)
          /\ Lost(user') \ Lost(user)
                \subseteq {p - HEADER : p \in user.files \cup user.binaries}]_user
==============================================================================
