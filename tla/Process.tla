------------------------------- MODULE Process -------------------------------
(***************************************************************************)
(* The cooperative process table of kernel/process.c on top of the heap of *)
(* module Heap.    A process is named by the heap pointer of its process_t *)
(* structure; the singly linked process_list is a sequence of pointers.    *)
(*                                                                         *)
(* The kernel itself only runs process_schedule, in every turn of its      *)
(* loop; the other operations are the interface the file offers.  The      *)
(* entry point that process_start calls is code of the process: what it    *)
(* does to the table are further calls of these operations.                *)
(***************************************************************************)
EXTENDS Heap, Sequences, SequencesExt

CONSTANTS
    PROCESS_SIZE,                    \* sizeof(process_t)
    StackSizes,                      \* stack sizes callers ask for
    MaxPid                           \* bound: pids handed out in a behaviour

READY == 0
RUNNING == 1

VARIABLES
    heap,             \* the kernel heap
    procs,            \* process_t structures by heap pointer
    process_list,     \* the list, head first
    current_process,  \* NULL or a pointer
    next_pid

vars == <<heap, procs, process_list, current_process, next_pid>>

\* The heap blocks the process table owns, with the sizes they were asked for.
OwnedBlocks ==
    [p \in DOMAIN procs \cup {procs[q].stack : q \in DOMAIN procs} |->
        IF p \in DOMAIN procs THEN PROCESS_SIZE
        ELSE LET q == CHOOSE q \in DOMAIN procs : procs[q].stack = p
             IN  procs[q].stack_size]

\* Nobody asks for a size that wraps around when it is rounded up.
ASSUME ProcessAssumption ==
    PROCESS_SIZE \in 1..(WORD - 4) /\ StackSizes \subseteq 0..(WORD - 4)

-----------------------------------------------------------------------------
(* Operations. *)

Init ==
    /\ heap = memory_init
    /\ procs = [p \in {} |-> 0]
    /\ process_list = <<>>
    /\ current_process = NULL
    /\ next_pid = 1

\* The first READY process of a list, or NULL.
FirstReady(P, list) ==
    LET i == SelectInSeq(list, LAMBDA p : P[p].state = READY)
    IN  IF i = 0 THEN NULL ELSE list[i]

Place(p) == SelectInSeq(process_list, LAMBDA q : q = p)

WithState(P, p, s) == [P EXCEPT ![p].state = s]

\* A new READY process with the given structure, stack and list.
Listed(process, stack, stack_size, list) ==
    /\ heap' = stack.heap
    /\ procs' = [p \in DOMAIN procs \cup {process.ptr} |->
                   IF p = process.ptr
                   THEN [pid |-> next_pid, state |-> READY,
                         stack |-> stack.ptr, stack_size |-> stack_size]
                   ELSE procs[p]]
    /\ process_list' = list
    /\ next_pid' = next_pid + 1
    /\ UNCHANGED current_process

\* Mutant of process_create: the structure leaks when the stack cannot be had.
process_create_Leaks(stack_size) ==
    LET process == memory_alloc(heap, PROCESS_SIZE)
        stack == memory_alloc(process.heap, stack_size)
    IN  /\ next_pid <= MaxPid
        /\ IF process.ptr # NULL /\ stack.ptr # NULL
           THEN Listed(process, stack, stack_size, Append(process_list, process.ptr))
           ELSE /\ heap' = stack.heap
                /\ UNCHANGED <<procs, process_list, current_process, next_pid>>

\* process_create: structure first, then the stack; when the stack cannot be
\* had the structure is given back.
process_create(stack_size) ==
    LET process == memory_alloc(heap, PROCESS_SIZE)
        stack == memory_alloc(process.heap, stack_size)
    IN  /\ next_pid <= MaxPid
        /\ \/ /\ process.ptr = NULL
              /\ UNCHANGED vars
           \/ /\ process.ptr # NULL /\ stack.ptr = NULL
              /\ heap' = memory_free(stack.heap, process.ptr)
              /\ UNCHANGED <<procs, process_list, current_process, next_pid>>
           \/ /\ process.ptr # NULL /\ stack.ptr # NULL
              /\ Listed(process, stack, stack_size, Append(process_list, process.ptr))

\* process_start: a READY process becomes current.  The process that was
\* current keeps its state.
process_start(p) ==
    /\ procs[p].state = READY
    /\ procs' = WithState(procs, p, RUNNING)
    /\ current_process' = p
    /\ UNCHANGED <<heap, process_list, next_pid>>

\* Mutant of process_yield: always searches from the head of the list.
process_yield_FromHead ==
    LET next == FirstReady(procs, process_list) IN
    /\ current_process # NULL /\ next # NULL
    /\ procs' = WithState(WithState(procs, current_process, READY), next, RUNNING)
    /\ current_process' = next
    /\ UNCHANGED <<heap, process_list, next_pid>>

\* Mutant of process_yield: the process that yields stays RUNNING.
process_yield_StaysRunning ==
    LET next == FirstReady(procs, process_list) IN
    /\ current_process # NULL /\ next # NULL
    /\ procs' = WithState(procs, next, RUNNING)
    /\ current_process' = next
    /\ UNCHANGED <<heap, process_list, next_pid>>

\* process_yield: the next READY process behind the current one, else the
\* first READY process of the list.
process_yield ==
    LET behind == SubSeq(process_list, Place(current_process) + 1, Len(process_list))
        after == FirstReady(procs, behind)
        next == IF after # NULL THEN after ELSE FirstReady(procs, process_list)
    IN  /\ current_process # NULL
        /\ next # NULL /\ next # current_process
        /\ procs' = WithState(WithState(procs, current_process, READY), next, RUNNING)
        /\ current_process' = next
        /\ UNCHANGED <<heap, process_list, next_pid>>

\* process_schedule on table P, list L and current process c: the first READY
\* process of the list runs unless c is RUNNING.
Schedule(P, L, c) ==
    LET next == IF c # NULL /\ P[c].state = RUNNING THEN NULL ELSE FirstReady(P, L) IN
    /\ process_list' = L
    /\ procs' = IF next = NULL THEN P ELSE WithState(P, next, RUNNING)
    /\ current_process' = IF next = NULL THEN c ELSE next

\* As the kernel loop calls it.
process_schedule ==
    Schedule(procs, process_list, current_process) /\ UNCHANGED <<heap, next_pid>>

Without(p) == [q \in DOMAIN procs \ {p} |-> procs[q]]

\* Mutant of process_exit: the list keeps the freed process.
process_exit_NotUnlinked ==
    LET freed == memory_free(heap, procs[current_process].stack) IN
    /\ current_process # NULL
    /\ heap' = memory_free(freed, current_process)
    /\ procs' = Without(current_process) /\ current_process' = NULL
    /\ UNCHANGED <<process_list, next_pid>>

\* process_exit: the stack is freed, the process unlinked and freed, and the
\* scheduler run on what is left.
process_exit ==
    LET freed == memory_free(heap, procs[current_process].stack) IN
    /\ current_process # NULL
    /\ heap' = memory_free(freed, current_process)
    /\ Schedule(Without(current_process),
                RemoveAt(process_list, Place(current_process)), NULL)
    /\ UNCHANGED next_pid

Next == \/ \E size \in StackSizes : process_create(size)
        \/ \E p \in DOMAIN procs : process_start(p)
        \/ process_yield
        \/ process_exit
        \/ process_schedule

\* The kernel loop calls process_schedule again and again.  Nobody is obliged
\* to create, start, yield or exit.
Fairness == WF_vars(process_schedule)

Spec == Init /\ [][Next]_vars /\ Fairness

-----------------------------------------------------------------------------
(* Properties. *)

\* The process table owns exactly the used heap blocks, each large enough:
\* neither a failing process_create nor process_exit leaks a block, and no
\* listed process has lost its structure or stack.
ProcessesOwnHeap == OwnUsedBlocks(OwnedBlocks, heap)

\* The scheduler's view is consistent: the list holds every live process once,
\* and the current process is one of them and RUNNING, so process_yield and
\* process_exit never follow a pointer to freed memory.
NoDanglingProcess ==
    /\ ToSet(process_list) = DOMAIN procs /\ IsInjective(process_list)
    /\ current_process # NULL =>
          /\ current_process \in ToSet(process_list)
          /\ procs[current_process].state = RUNNING

\* Processes that are RUNNING without being current: neither yield nor schedule
\* picks them, and only the current process can exit.
Stranded == {p \in DOMAIN procs : procs[p].state = RUNNING /\ p # current_process}

\* Only process_start, called while another process is current, strands a process:
\* yield, schedule and exit hand the processor over without losing anybody.  And
\* it is for good: the process keeps its structure and stack for ever.
OnlyStartStrands ==
    [][/\ Stranded \subseteq Stranded'
       /\ process_yield \/ process_schedule \/ process_exit => Stranded' = Stranded]_vars

PidsIn(s) == {procs[p].pid : p \in {q \in DOMAIN procs : procs[q].state = s}}

CurrentPid == IF current_process = NULL THEN 0 ELSE procs[current_process].pid

\* A READY process runs some day unless one process keeps the processor for
\* ever (in this kernel, where nobody yields or exits, the first one does).  The
\* processor does not stay idle beside it, and the others, when they let go, do
\* not hand over to each other past it: process_schedule searches from the head
\* of the list every time, but a new process goes to the tail.
OnlyAHolderStarves ==
    \A pid \in 1..MaxPid :
        pid \in PidsIn(READY) ~> \/ pid \in PidsIn(RUNNING)
                                 \/ \E q \in 1..MaxPid : [](CurrentPid = q)
=============================================================================
