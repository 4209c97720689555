----------------------------- MODULE FileSystem -----------------------------
(***************************************************************************)
(* The in-memory file system of kernel/filesystem.c: a table of entries    *)
(* that is only ever appended to, a tree threaded through it, and one heap *)
(* buffer of MAX_FILE_SIZE per file.                                       *)
(*                                                                         *)
(* A slot of the table is 1..MAX_ENTRIES, the NULL pointer 0.  The sibling *)
(* list (children, next) of a directory is the sequence children.  Every   *)
(* allocation of this file asks for MAX_FILE_SIZE, so the heap is a pool   *)
(* of equal buffers; which of them memory_alloc hands out is left open.    *)
(* File data is counted in chunks: MAX_FILE_SIZE chunks fill a buffer, and *)
(* NUL stands for a chunk that begins with the string terminator.          *)
(*                                                                         *)
(* A path or a name is the sequence of the parts that its '/' separate:    *)
(* "b" is <<"b">>, "b/" <<"b", "">>, "/b" <<"", "b">>, "/" <<"", "">> and  *)
(* "" <<"">>.                                                              *)
(***************************************************************************)
EXTENDS Integers, Sequences, FiniteSets, SequencesExt

CONSTANTS
    MAX_ENTRIES,    \* MAX_FILES + MAX_DIRS (150)
    MAX_FILE_SIZE,  \* chunks in a buffer (4096 bytes)
    NumBuffers,     \* buffers of that size the heap has room for
    Chunks,         \* what a chunk of text can be
    NUL,            \* a chunk that begins with '\0'
    Garbage,        \* what memory never written by this file holds
    Paths,          \* the paths callers pass
    Contents,       \* the strings callers write, as sequences of chunks
    Cut             \* Cut[n]: the first MAX_FILENAME - 1 characters of the name n

ASSUME TableAssumption ==
    /\ MAX_ENTRIES \in Nat /\ MAX_ENTRIES >= 8
    /\ MAX_FILE_SIZE \in Nat \ {0}
    /\ NumBuffers \in Nat
    /\ NUL \notin Chunks /\ Garbage \in Chunks
    /\ Contents \subseteq Seq(Chunks)

\* The part between two '/' with nothing between them.
Empty == ""

RootName == <<Empty, Empty>>

IsAbsolute(path) == Len(path) > 1 /\ path[1] = Empty

\* mkdir and touch skip one '/'.
Skipped(path) == IF IsAbsolute(path) THEN Tail(path) ELSE path

\* The names filesystem_init asks for, and all that are asked for.
DefaultNames == {RootName, <<"bin">>, <<"home">>, <<"etc">>, <<"tmp">>,
                 <<"etc", "version">>, <<"etc", "motd">>, <<"home", "readme.txt">>}
Asked == DefaultNames \cup {Skipped(path) : path \in Paths}

\* The names entries have; a zeroed entry has the empty one.
Names == {<<Empty>>} \cup {Cut[n] : n \in Asked}

ASSUME PathAssumption == Paths \subseteq Seq(STRING) \ {<<>>}

\* Nothing is cut to "/", and the default names are not cut.
ASSUME NameAssumption ==
    /\ \A n \in Asked : Cut[n] = RootName => n = RootName
    /\ \A n \in DefaultNames : Cut[n] = n

NULL == 0
FILE_TYPE_FILE == 1
FILE_TYPE_DIR == 2

Slots == 1..MAX_ENTRIES
Buffers == 1..NumBuffers

VARIABLE fs  \* [entries, next_entry, root, current_dir] and the heap: [free, mem]

-----------------------------------------------------------------------------
(* The table. *)

ZeroEntry == [used |-> 0, name |-> <<Empty>>, type |-> 0, size |-> 0, data |-> NULL,
              parent |-> NULL, children |-> <<>>]

\* Mutant of Full: one entry too many.
Full_OffByOne(s) == s.next_entry > MAX_ENTRIES

Full(s) == s.next_entry >= MAX_ENTRIES

\* filesystem_create_file: the entry is slot next_entry + 1, used and unlinked,
\* and called by the whole name, cut.  The caller has checked that the table is
\* not Full.
filesystem_create_file(s, name, type) ==
    [s EXCEPT !.next_entry = @ + 1,
              !.entries[s.next_entry + 1] =
                  [ZeroEntry EXCEPT !.used = 1, !.name = Cut[name], !.type = type]]

\* Entry f becomes the first child of directory d.
Linked(s, f, d) ==
    [s EXCEPT !.entries[f].parent = d, !.entries[d].children = <<f>> \o @]

\* Entry f leaves its parent's list and its slot is marked unused.
Unlinked(s, f) ==
    [s EXCEPT !.entries[f].used = 0,
              !.entries[s.entries[f].parent].children = RemoveFirst(@, f)]

\* memory_alloc(MAX_FILE_SIZE); the contents of the buffer stay what they were.
memory_alloc(s) == IF s.free = {} THEN NULL ELSE CHOOSE b \in s.free : TRUE

\* Copying a string to a buffer: the chunks, then the terminator.
CopyString(old, string) ==
    [i \in 1..MAX_FILE_SIZE |->
        IF i <= Len(string) THEN string[i]
        ELSE IF i = Len(string) + 1 THEN NUL ELSE old[i]]

\* The string in a buffer, which ends at the first NUL.
StringIn(chunks) ==
    LET ends == {i \in 1..MAX_FILE_SIZE : chunks[i] = NUL} IN
    SubSeq(chunks, 1, IF ends = {} THEN MAX_FILE_SIZE ELSE Min(ends) - 1)

-----------------------------------------------------------------------------
(* Paths. *)

\* Entry c is the first one called by this part of a path in d's list.
FirstNamed(s, d, c, part) ==
    LET list == s.entries[d].children IN
    /\ s.entries[c].name = <<part>>
    /\ \E i \in 1..Len(list) :
          /\ list[i] = c
          /\ \A j \in 1..(i - 1) : s.entries[list[j]].name # <<part>>

\* The entries in lists that a part of the path calls.
Called(s, path) ==
    {f \in UNION {ToSet(s.entries[d].children) : d \in Slots} :
        \E i \in 1..Len(path) : s.entries[f].name = <<path[i]>>}

\* The walks down the tree from start, part by part: one walk at most.  strtok
\* passes over the empty parts before, between and behind the others.
Walks(s, start, path) ==
    {w \in [0..Len(path) -> {start} \cup Called(s, path)] :
        /\ w[0] = start
        /\ \A i \in 1..Len(path) :
              \/ path[i] = Empty /\ w[i] = w[i - 1]
              \/ path[i] # Empty /\ FirstNamed(s, w[i - 1], w[i], path[i])}

\* Where an absolute or a relative path starts.
ParentFor(s, path) == IF IsAbsolute(path) THEN s.root ELSE s.current_dir

\* filesystem_find_file.  "." and ".." mean something only as the whole path.
filesystem_find_file(s, path) ==
    LET walks == Walks(s, ParentFor(s, path), path)
        up == s.entries[s.current_dir].parent
    IN  IF path = RootName THEN s.root
        ELSE IF path = <<".">> THEN s.current_dir
        ELSE IF path = <<"..">> THEN (IF up = NULL THEN s.root ELSE up)
        ELSE IF walks = {} THEN NULL ELSE (CHOOSE w \in walks : TRUE)[Len(path)]

-----------------------------------------------------------------------------
(* Operations: each returns the new state and the return code. *)

Result(s, ret) == [fs |-> s, ret |-> ret]

\* Mutant of filesystem_mkdir: made without looking.
filesystem_mkdir_NoCheck(s, path) ==
    IF Full(s) THEN Result(s, -1)
    ELSE Result(Linked(filesystem_create_file(s, Skipped(path), FILE_TYPE_DIR),
                       s.next_entry + 1, ParentFor(s, path)), 0)

\* filesystem_mkdir.  The leading '/' is skipped before the lookup, which then
\* starts from the current directory unless there is a second one.
filesystem_mkdir(s, path) ==
    IF filesystem_find_file(s, Skipped(path)) # NULL \/ Full(s)
    THEN Result(s, -1)
    ELSE Result(Linked(filesystem_create_file(s, Skipped(path), FILE_TYPE_DIR),
                       s.next_entry + 1, ParentFor(s, path)), 0)

\* Mutants of filesystem_touch: the buffer stays on the free list; the entry is
\* linked before the buffer is asked for.
filesystem_touch_StaysFree(s, path) ==
    LET made == filesystem_create_file(s, Skipped(path), FILE_TYPE_FILE)
        file == s.next_entry + 1
        buffer == memory_alloc(s)
        filled == [made EXCEPT !.entries[file].data = buffer]
    IN  IF filesystem_find_file(s, Skipped(path)) # NULL \/ Full(s)
        THEN Result(s, -1)
        ELSE IF buffer = NULL THEN Result(made, -1)
        ELSE Result(Linked(filled, file, ParentFor(s, path)), 0)

filesystem_touch_LinkedFirst(s, path) ==
    LET file == s.next_entry + 1
        made == Linked(filesystem_create_file(s, Skipped(path), FILE_TYPE_FILE),
                       file, ParentFor(s, path))
        buffer == memory_alloc(s)
    IN  IF filesystem_find_file(s, Skipped(path)) # NULL \/ Full(s)
        THEN Result(s, -1)
        ELSE IF buffer = NULL THEN Result(made, -1)
        ELSE Result([made EXCEPT !.entries[file].data = buffer, !.free = @ \ {buffer}], 0)

\* filesystem_touch.  When the heap has no buffer the entry stays used, but in
\* no directory.
filesystem_touch(s, path) ==
    LET made == filesystem_create_file(s, Skipped(path), FILE_TYPE_FILE)
        file == s.next_entry + 1
        buffer == memory_alloc(s)
        filled == [made EXCEPT !.entries[file].data = buffer, !.free = @ \ {buffer}]
    IN  IF filesystem_find_file(s, Skipped(path)) # NULL \/ Full(s)
        THEN Result(s, -1)
        ELSE IF buffer = NULL THEN Result(made, -1)
        ELSE Result(Linked(filled, file, ParentFor(s, path)), 0)

\* The string that fits: MAX_FILE_SIZE - 1 and the terminator.
Capped(content) ==
    IF Len(content) >= MAX_FILE_SIZE THEN SubSeq(content, 1, MAX_FILE_SIZE - 1)
    ELSE content

\* Mutant of Written: the size is that of the string before it was capped.
Written_SizeUncapped(s, f, content) ==
    LET b == s.entries[f].data IN
    [s EXCEPT !.mem[b] = CopyString(@, Capped(content)),
              !.entries[f].size = Len(content)]

\* content goes to the buffer and its length to the size of entry f.  A file
\* without a buffer has data = NULL: the copy then goes to address 0.
Written(s, f, content) ==
    LET b == s.entries[f].data IN
    [s EXCEPT !.mem[b] = CopyString(@, Capped(content)),
              !.entries[f].size = Len(Capped(content))]

\* filesystem_write_file creates the file when there is none.  The second
\* lookup may find nothing (a name that holds a '/' or that was cut); the code
\* then reads file->type through NULL, the real-mode interrupt vector at 0x20,
\* which is not FILE_TYPE_FILE: "Not a file".
filesystem_write_file(s, path, content) ==
    LET found == filesystem_find_file(s, path)
        touched == IF found # NULL THEN Result(s, 0) ELSE filesystem_touch(s, path)
        file == filesystem_find_file(touched.fs, path)
    IN  IF touched.ret # 0 THEN touched
        ELSE IF file = NULL \/ touched.fs.entries[file].type # FILE_TYPE_FILE
        THEN Result(touched.fs, -1)
        ELSE Result(Written(touched.fs, file, content), 0)

\* filesystem_read_file: the buffer, or NULL.
filesystem_read_file(s, path) ==
    LET file == filesystem_find_file(s, path) IN
    IF file = NULL \/ s.entries[file].type # FILE_TYPE_FILE THEN NULL
    ELSE s.entries[file].data

\* filesystem_cd.  An empty path leads to the root.
filesystem_cd(s, path) ==
    LET dir == IF path = <<Empty>> THEN s.root ELSE filesystem_find_file(s, path) IN
    IF path = <<Empty>> THEN Result([s EXCEPT !.current_dir = dir], 0)
    ELSE IF dir = NULL \/ s.entries[dir].type # FILE_TYPE_DIR THEN Result(s, -1)
    ELSE Result([s EXCEPT !.current_dir = dir], 0)

\* Mutants of filesystem_rm: the buffer is not freed, the entry stays in its
\* parent's list.
filesystem_rm_KeepsData(s, path) ==
    LET file == filesystem_find_file(s, path) IN
    IF file = NULL \/ s.entries[file].type # FILE_TYPE_FILE THEN Result(s, -1)
    ELSE Result(Unlinked(s, file), 0)
filesystem_rm_StaysLinked(s, path) ==
    LET file == filesystem_find_file(s, path) IN
    IF file = NULL \/ s.entries[file].type # FILE_TYPE_FILE THEN Result(s, -1)
    ELSE Result([s EXCEPT !.free = @ \cup ({s.entries[file].data} \ {NULL}),
                          !.entries[file].used = 0], 0)

\* filesystem_rm unlinks the file, frees its buffer and marks the slot unused.
filesystem_rm(s, path) ==
    LET file == filesystem_find_file(s, path) IN
    IF file = NULL \/ s.entries[file].type # FILE_TYPE_FILE THEN Result(s, -1)
    ELSE Result([Unlinked(s, file) EXCEPT
                    !.free = @ \cup ({s.entries[file].data} \ {NULL})], 0)

\* filesystem_rmdir removes an empty directory that is not the root; it does
\* not ask whether it is the current directory.
filesystem_rmdir(s, path) ==
    LET dir == filesystem_find_file(s, path) IN
    IF \/ dir \in {NULL, s.root} \/ s.entries[dir].type # FILE_TYPE_DIR
       \/ s.entries[dir].children # <<>>
    THEN Result(s, -1)
    ELSE Result(Unlinked(s, dir), 0)

\* filesystem_cp hands the source buffer, up to its terminator, to
\* filesystem_write_file.
filesystem_cp(s, src, dest) ==
    LET buffer == filesystem_read_file(s, src)
        old == filesystem_find_file(s, dest)
    IN  IF buffer = NULL THEN Result(s, -1)
        ELSE IF old # NULL /\ s.entries[old].type = FILE_TYPE_DIR THEN Result(s, -1)
        ELSE filesystem_write_file(s, dest, StringIn(s.mem[buffer]))

-----------------------------------------------------------------------------
(* Start-up. *)

\* filesystem_init on a table that may have been in use: the root, four
\* directories, and a write to each default file.
filesystem_init(s) ==
    LET root == [filesystem_create_file([s EXCEPT !.next_entry = 0], RootName, FILE_TYPE_DIR)
                    EXCEPT !.root = 1, !.current_dir = 1]
        mkdir(t, name) == filesystem_mkdir(t, <<name>>).fs
        write(t, dir, name) ==
            filesystem_write_file(t, <<Empty, dir, name>>, <<Garbage>>).fs
        dirs == mkdir(mkdir(mkdir(mkdir(root, "bin"), "home"), "etc"), "tmp")
    IN  write(write(write(dirs, "etc", "version"), "etc", "motd"), "home", "readme.txt")

\* Memory after memory_init: every buffer free; the table is in .bss.
Booted == [entries |-> [f \in Slots |-> ZeroEntry], next_entry |-> 0,
           root |-> NULL, current_dir |-> NULL, free |-> Buffers,
           mem |-> [b \in Buffers \cup {NULL} |-> [i \in 1..MAX_FILE_SIZE |-> Garbage]]]

InitialFs == filesystem_init(Booted)

Init == fs = InitialFs

Mkdir(path) == fs' = filesystem_mkdir(fs, path).fs
Touch(path) == fs' = filesystem_touch(fs, path).fs
Write(path, content) == fs' = filesystem_write_file(fs, path, content).fs
Cd(path) == fs' = filesystem_cd(fs, path).fs
Rm(path) == fs' = filesystem_rm(fs, path).fs
Rmdir(path) == fs' = filesystem_rmdir(fs, path).fs
Cp(src, dest) == fs' = filesystem_cp(fs, src, dest).fs

Next == \/ \E path \in Paths : Mkdir(path) \/ Touch(path) \/ Cd(path)
                               \/ Rm(path) \/ Rmdir(path)
        \/ \E path \in Paths, content \in Contents : Write(path, content)
        \/ \E src, dest \in Paths : Cp(src, dest)

Spec == Init /\ [][Next]_fs

-----------------------------------------------------------------------------
(* Properties. *)

Used(s) == {f \in 1..s.next_entry : s.entries[f].used = 1}
Files(s) == {f \in Used(s) : s.entries[f].type = FILE_TYPE_FILE}
WithData(s) == {f \in Files(s) : s.entries[f].data # NULL}
TextOf(s, f) == StringIn(s.mem[s.entries[f].data])

\* Types of the table and of the heap.
TypeOK ==
    /\ DOMAIN fs.entries = Slots
    /\ \A f \in Slots :
          /\ fs.entries[f].used \in 0..1
          /\ fs.entries[f].name \in Names
          /\ fs.entries[f].type \in {0, FILE_TYPE_FILE, FILE_TYPE_DIR}
          /\ fs.entries[f].size \in 0..MAX_FILE_SIZE
          /\ fs.entries[f].data \in Buffers \cup {NULL}
          /\ fs.entries[f].parent \in Slots \cup {NULL}
          /\ fs.entries[f].children \in Seq(Slots)
    /\ fs.next_entry \in 0..MAX_ENTRIES
    /\ fs.root \in Slots /\ fs.current_dir \in Slots
    /\ fs.free \subseteq Buffers
    /\ fs.mem \in [Buffers \cup {NULL} -> [1..MAX_FILE_SIZE -> Chunks \cup {NUL}]]

\* An entry in a directory's list is in use and names that directory as its
\* parent; an entry with a parent is in the parent's list, once; parents come
\* before their entries in the table, so the loops of filesystem_pwd and
\* filesystem_find_file end.
TreeConsistent ==
    \A d \in Slots :
        /\ IsInjective(fs.entries[d].children)
        /\ \A f \in ToSet(fs.entries[d].children) :
              f \in Used(fs) /\ d < f /\ fs.entries[f].parent = d
        /\ \A f \in Used(fs) :
              fs.entries[f].parent = d => f \in ToSet(fs.entries[d].children)

\* Every buffer of the heap is either free or the data of one file: removing
\* and creating files in any order neither leaks a buffer nor shares one.
BuffersOwned ==
    /\ {fs.entries[f].data : f \in WithData(fs)} = Buffers \ fs.free
    /\ \A f, g \in WithData(fs) :
          fs.entries[f].data = fs.entries[g].data => f = g

\* The recorded size of a file is the length of the string in its buffer (a
\* file never written has size 0 and any string), so a save, which copies size
\* bytes, and a cat, which stops at the terminator, agree.
SizeIsLength ==
    \A f \in WithData(fs) :
        fs.entries[f].size > 0 => Len(TextOf(fs, f)) = fs.entries[f].size

\* One command changes the text of one file at most: what other files hold
\* survives touch, write, copy and remove.
OthersKeepTheirText ==
    [][Cardinality({f \in WithData(fs) \cap WithData(fs') :
                       TextOf(fs, f) # TextOf(fs', f)}) <= 1]_fs

\* "Check if directory already exists", "Check if file already exists": a directory
\* gets a second entry of a name only where the check looks elsewhere.  For an
\* absolute path it looks from the current directory.  A name that holds a '/',
\* inside or at its end ("b/"), is stored with it, but the check takes it apart.
\* And a long name is looked for before it is cut.
SecondNameOnlyUnseen ==
    [][\A d \in Slots, f \in Slots :
          LET name == fs'.entries[f].name IN
          /\ f \in ToSet(fs'.entries[d].children) \ ToSet(fs.entries[d].children)
          /\ \E g \in ToSet(fs.entries[d].children) : fs.entries[g].name = name
          => \/ d = fs.root /\ fs.current_dir # fs.root
             \/ Len(name) # 1
             \/ \E n \in Asked : Cut[n] # n /\ name = Cut[n]]_fs
=============================================================================
