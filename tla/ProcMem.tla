------------------------------- MODULE ProcMem ------------------------------
(***************************************************************************)
(* Who owns the memory of a program: what thread_create, fork, exec, mmap  *)
(* and page faults take from kmalloc and what exec and kill_zombies give   *)
(* back.  The choice of a pid and who runs when are in Sched, addresses    *)
(* are in Vm; here any live thread may make any call.  fork and            *)
(* kill_zombies hold lock(); exec and mmap do not: exec is one step per    *)
(* area freed, and mmap has its memory some time before the area.          *)
(*                                                                         *)
(* A block is <<thread, purpose, number>>, after the thread and purpose it *)
(* is allocated for.  The block of an area is its vm_area_struct and, but  *)
(* for the device and the signal wrapper, its memory.  A thread has one    *)
(* area of each purpose: areas maps the purpose to the block.  The order   *)
(* of the areas on vma_list is left open.                                  *)
(***************************************************************************)
EXTENDS Integers, SequencesExt

CONSTANTS
    Pid,            \* the threads other than idle; main starts First
    First,
    Maps,           \* the areas mmap can add
    MaxLeaks,       \* bound on the blocks of one thread and purpose
    KillInExec      \* may a thread be killed while it is inside exec?

ASSUME ProcAssumption ==
    /\ First \in Pid
    /\ Maps \cap {"kstack", "pgd", "table", "spare", "cfi", "text", "stack", "device", "wrapper"} = {}
    /\ MaxLeaks \in Nat \ {0}
    /\ KillInExec \in BOOLEAN

VARIABLES
    heap,           \* the blocks that are allocated
    threads,        \* state, kstack, pgd, tables, areas; fresh: see sys_mmap;
                    \* exec, left, cfi: see sys_exec
    kernel,         \* "ok", "wild" after a bad pointer, "corrupt" after a bad kfree
    cut             \* what mmap calls had allocated when a kill cut them off

procVars == <<heap, threads, kernel, cut>>

None == <<>>

Unused == [state |-> "unused", kstack |-> None, pgd |-> None, tables |-> {},
           areas |-> <<>>, fresh |-> None, exec |-> FALSE, left |-> {}, cfi |-> None]

-----------------------------------------------------------------------------
(* kmalloc and kfree                                                       *)

Numbers(p, purpose) == {n \in 1 .. MaxLeaks : <<p, purpose, n>> \notin heap}

New(p, purpose) == <<p, purpose, Min(Numbers(p, purpose))>>

CanAlloc(p, purposes) == \A u \in purposes : Numbers(p, u) # {}

\* A series of kfree calls, one for each element of the domain of blocks.
kfree(blocks) ==
    /\ heap' = heap \ Range(blocks)
    /\ kernel' = IF Range(blocks) \subseteq heap /\ IsInjective(blocks) THEN kernel ELSE "corrupt"

Fixed == {"device", "wrapper"}
Program == {"text", "stack"} \cup Fixed

NewAreas(p, purposes) == [u \in purposes |-> New(p, u)]

\* add_vma of more areas.
AddAreas(areas, more) ==
    [u \in DOMAIN areas \cup DOMAIN more |-> IF u \in DOMAIN more THEN more[u] ELSE areas[u]]

-----------------------------------------------------------------------------
ProcInit ==
    /\ heap = {<<First, u, 1>> : u \in {"kstack", "pgd"} \cup Program}
    /\ threads = [p \in Pid |-> IF p # First THEN Unused ELSE
           [Unused EXCEPT !.state = "running", !.kstack = <<p, "kstack", 1>>, !.pgd = <<p, "pgd", 1>>,
                          !.areas = [u \in Program |-> <<p, u, 1>>]]]
    /\ kernel = "ok"
    /\ cut = {}

\* A thread that can make a system call.
CanCall(p) ==
    /\ kernel = "ok" /\ threads[p].state = "running"
    /\ ~ threads[p].exec /\ threads[p].fresh = None

\* Mutant: the child's areas refer to the memory of the parent.
ForkAreas_shared(p, c) == threads[p].areas

\* A copy of each area that has memory, then the device and the wrapper.
ForkAreas(p, c) == NewAreas(c, (DOMAIN threads[p].areas \ Fixed) \cup Fixed)

\* thread_create also allocates data and a user stack (spare), to which
\* nothing refers once the areas have been copied.
sys_fork(p, c) ==
    /\ CanCall(p) /\ threads[c].state = "unused"
    /\ CanAlloc(c, {"kstack", "pgd", "spare"} \cup DOMAIN threads[p].areas)
    /\ heap' = heap \cup {New(c, "kstack"), New(c, "pgd"), New(c, "spare")} \cup Range(ForkAreas(p, c))
    /\ threads' = [threads EXCEPT ![c] = [Unused EXCEPT !.state = "running",
           !.kstack = New(c, "kstack"), !.pgd = New(c, "pgd"), !.areas = ForkAreas(p, c)]]
    /\ UNCHANGED <<kernel, cut>>

\* kmalloc of the memory and of the area.
sys_mmap(p, m) ==
    /\ CanCall(p) /\ m \notin DOMAIN threads[p].areas /\ CanAlloc(p, {m})
    /\ heap' = heap \cup {New(p, m)}
    /\ threads' = [threads EXCEPT ![p].fresh = New(p, m)]
    /\ UNCHANGED <<kernel, cut>>

\* list_add_tail; until then only the kernel stack of p refers to the block.
LinkArea(p) ==
    /\ kernel = "ok" /\ threads[p].state = "running" /\ threads[p].fresh # None
    /\ threads' = [threads EXCEPT ![p].fresh = None,
           ![p].areas = AddAreas(@, [u \in {threads[p].fresh[2]} |-> threads[p].fresh])]
    /\ UNCHANGED <<heap, kernel, cut>>

\* A page fault for which mapping() needs a page table.
mapping(p) ==
    /\ CanCall(p) /\ threads[p].tables = {} /\ CanAlloc(p, {"table"})
    /\ heap' = heap \cup {New(p, "table")}
    /\ threads' = [threads EXCEPT ![p].tables = {New(p, "table")}]
    /\ UNCHANGED <<kernel, cut>>

thread_exit(p) ==
    /\ CanCall(p)
    /\ threads' = [threads EXCEPT ![p].state = "zombie"]
    /\ UNCHANGED <<heap, kernel, cut>>

\* Some thread kills p, which may be anywhere outside lock() and goes no
\* further: what only its kernel stack refers to is lost.
sys_kill_pid(p) ==
    /\ \E q \in Pid : CanCall(q)
    /\ threads[p].state # "unused"
    /\ threads[p].exec => KillInExec
    /\ threads' = [threads EXCEPT ![p].state = "zombie", ![p].fresh = None]
    /\ cut' = cut \cup ({threads[p].fresh} \ {None})
    /\ UNCHANGED <<heap, kernel>>

-----------------------------------------------------------------------------
(* sys_exec                                                                *)

\* The file is found; cfi describes it, left are the areas the loop has not
\* reached yet.
sys_exec(p) ==
    /\ CanCall(p)
    /\ heap' = heap \cup {New(p, "cfi")}
    /\ threads' = [threads EXCEPT ![p].exec = TRUE, ![p].left = DOMAIN threads[p].areas,
                                  ![p].cfi = New(p, "cfi")]
    /\ UNCHANGED <<kernel, cut>>

\* It is not: cpio_traverse returns -1, and the test is for NULL.
ExecMissing(p) ==
    /\ CanCall(p)
    /\ kernel' = "wild"
    /\ UNCHANGED <<heap, threads, cut>>

InExec(p) == kernel = "ok" /\ threads[p].state = "running" /\ threads[p].exec

ExecFreeArea(p) ==
    /\ InExec(p)
    /\ \E u \in threads[p].left :
        /\ kfree([v \in {u} |-> threads[p].areas[v]])
        /\ threads' = [threads EXCEPT ![p].left = @ \ {u}]
    /\ UNCHANGED cut

\* Mutant: the list is not emptied before the new areas are added.
Emptied_not(areas) == areas

\* INIT_LIST_HEAD
Emptied(areas) == <<>>

\* The new program.  The page directory is cleared without the tables, which
\* free_pages has not freed; the file information is freed last.
ExecNew(p) ==
    LET new == NewAreas(p, Program) IN
    /\ InExec(p) /\ threads[p].left = {}
    /\ heap' = (heap \cup Range(new)) \ {threads[p].cfi}
    /\ threads' = [threads EXCEPT ![p].exec = FALSE, ![p].cfi = None, ![p].tables = {},
                                  ![p].areas = AddAreas(Emptied(@), new)]
    /\ UNCHANGED <<kernel, cut>>

-----------------------------------------------------------------------------
(* kill_zombies                                                            *)

\* Mutant: the kernel stack is forgotten.
Reaped_areas(p) == threads[p].areas

\* The kernel stack and the areas.  free_pages looks for entries that are not
\* valid and frees nothing.
Reaped(p) == AddAreas(threads[p].areas, [u \in {"kstack"} |-> threads[p].kstack])

Zombies == {p \in Pid : threads[p].state = "zombie"}

\* idle reaps all zombies under one lock().
kill_zombies ==
    /\ kernel = "ok" /\ Zombies # {}
    /\ kfree([b \in UNION {{p} \X DOMAIN Reaped(p) : p \in Zombies} |-> Reaped(b[1])[b[2]]])
    /\ threads' = [p \in Pid |-> IF p \in Zombies THEN Unused ELSE threads[p]]
    /\ UNCHANGED cut

ProcNext ==
    \/ \E p \in Pid : \/ \E c \in Pid : sys_fork(p, c)
                      \/ (\E m \in Maps : sys_mmap(p, m)) \/ LinkArea(p)
                      \/ mapping(p) \/ thread_exit(p) \/ sys_kill_pid(p)
                      \/ sys_exec(p) \/ ExecMissing(p) \/ ExecFreeArea(p) \/ ExecNew(p)
    \/ kill_zombies

ProcSpec == ProcInit /\ [][ProcNext]_procVars

-----------------------------------------------------------------------------
(* Properties.                                                             *)

\* The blocks a thread will use or free: exec has freed the areas it passed.
Owned(p) ==
    IF threads[p].state = "unused" THEN {}
    ELSE LET t == threads[p]
         IN  {t.kstack, t.pgd} \cup t.tables \cup ({t.fresh} \ {None})
             \cup (IF t.exec THEN {t.cfi} \cup {t.areas[u] : u \in t.left} ELSE Range(t.areas))

\* No sequence of fork, exec, mmap, exit, kill and reaping frees a block
\* twice or one that is not kmalloc's.
NoBadFree == kernel # "corrupt"

\* A thread uses allocated memory, and no other thread uses the same: fork
\* copies, exec replaces, and reaping one thread takes nothing from another.
OwnersDisjoint ==
    kernel # "corrupt" =>
    \A p \in Pid : /\ Owned(p) \subseteq heap
                   /\ \A q \in Pid \ {p} : Owned(p) \cap Owned(q) = {}

\* What nobody can free any more is a page table, a page directory, the data
\* and user stack that thread_create made for a forked child, or what one mmap
\* had allocated and not yet put on the list when its thread was killed: kernel
\* stacks, areas on the list and file information are all given back.
OnlyKnownLeaks ==
    \A b \in heap : \/ b[2] \in {"table", "pgd", "spare"}
                    \/ b \in cut
                    \/ \E p \in Pid : b \in Owned(p)

=============================================================================
