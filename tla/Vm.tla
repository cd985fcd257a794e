--------------------------------- MODULE Vm ---------------------------------
(***************************************************************************)
(* The address space of one thread: sys_mmap of lib/syscall.c, add_vma,    *)
(* handle_abort and mapping of lib/mmu.c.                                  *)
(*                                                                         *)
(* Addresses and lengths count units, PAGE of them in a page, and wrap at  *)
(* Top.  The physical memory of an area is its own object, named by a      *)
(* number; <<n, o>> is the page at offset o of object n.  Behind the end   *)
(* of the object, which may come before the end of the area since kmalloc  *)
(* takes a uint32_t and returns at most 64 pages, is somebody else's page. *)
(***************************************************************************)
EXTENDS Integers, SequencesExt

CONSTANTS
    PAGE,           \* units of a page, 0x1000 in the code
    Top,            \* units of the 64-bit numbers, 2^64 in the code
    Limit,          \* the end of the stack, 0xfffffffff000 in the code
    Areas,          \* areas of a new program, as exec_thread adds them
    Hints, Lengths, \* arguments of mmap
    MaxMaps,        \* bound on the areas mmap adds
    MaxPages,       \* bound on the pages the program touches
    TouchEnds       \* programs also access the first unit after an area

ASSUME VmAssumption ==
    /\ PAGE \in Nat \ {0}
    /\ Top \in Nat \ {0} /\ Top % PAGE = 0
    /\ Limit \in Nat
    /\ Areas \in Seq([virt : 0 .. (Top - 1), size : 0 .. (Top - 1)])
    /\ Hints \subseteq 0 .. (Top - 1)
    /\ Lengths \subseteq 0 .. (Top - 1)
    /\ MaxMaps \in Nat
    /\ MaxPages \in Nat
    /\ TouchEnds \in BOOLEAN

VARIABLES
    vma_list,       \* the areas: virt_addr, area_size, object
    table,          \* page address -> physical page, where one is mapped
    call,           \* the sys_mmap call in progress: addr, len and length asked
    returned,       \* the value of the last mmap and its length, or <<>>
    alive           \* FALSE after seg_fault

vars == <<vma_list, table, call, returned, alive>>

-----------------------------------------------------------------------------
\* The sum of two numbers of 64 bits.
Plus(m, n) == (m + n) % Top

align_up(n) == IF n % PAGE = 0 THEN n ELSE Plus(n, PAGE - (n % PAGE))
align_down(n) == n - (n % PAGE)

\* The areas of a program that fits do not overlap: text, device, signal wrapper
\* and stack are far apart.
ASSUME AreasAssumption ==
    \A i, j \in DOMAIN Areas : i # j =>
        \/ Areas[i].virt + align_up(Areas[i].size) <= Areas[j].virt
        \/ Areas[j].virt + align_up(Areas[j].size) <= Areas[i].virt

\* add_vma rounds the size up; obj names the memory kmalloc returned.
Area(virt, size, obj) == [virt |-> virt, size |-> align_up(size), obj |-> obj]
add_vma(virt, size) == vma_list' = Append(vma_list, Area(virt, size, Len(vma_list) + 1))

\* Where an area ends.
End(v) == Plus(v.virt, v.size)

NoCall == [addr |-> 0, len |-> 0, asked |-> -1]

\* Mutant: only the start of the new range is tested.
Overlaps_start(v, addr, len) == v.virt <= addr /\ addr < End(v)

Overlaps(v, addr, len) == ~ (v.virt >= Plus(addr, len) \/ End(v) <= addr)

\* The walks along the list stop at the first of the areas (by position) that
\* pass their test.
FirstArea(i, passing) == i \in passing /\ \A j \in passing : i <= j

Init ==
    /\ vma_list = [i \in DOMAIN Areas |-> Area(Areas[i].virt, Areas[i].size, i)]
    /\ table = <<>>
    /\ call = NoCall
    /\ returned = <<>>
    /\ alive = TRUE

-----------------------------------------------------------------------------
(* sys_mmap: each call of itself is a step.                                *)

\* A program calls mmap.
mmap(addr, len) ==
    /\ alive
    /\ call = NoCall
    /\ Len(vma_list) < Len(Areas) + MaxMaps
    /\ call' = [addr |-> addr, len |-> len, asked |-> len]
    /\ UNCHANGED <<vma_list, table, returned, alive>>

\* The address of this call, back at 0 if the area would pass the limit, and
\* the length, both rounded up to pages.
MmapAddr == align_up(IF Plus(call.len, call.addr) >= Limit THEN 0 ELSE call.addr)
MmapLen == align_up(call.len)
Colliding == {i \in DOMAIN vma_list : Overlaps(vma_list[i], MmapAddr, MmapLen)}

\* Mutant: the search goes on at the start of the area in the way.
Behind_start(v) == v.virt

Behind(v) == End(v)

\* An area is in the way: try behind it.
MmapRetry ==
    /\ call # NoCall
    /\ \E i \in DOMAIN vma_list :
        /\ FirstArea(i, Colliding)
        /\ call' = [call EXCEPT !.addr = Behind(vma_list[i]), !.len = MmapLen]
    /\ UNCHANGED <<vma_list, table, returned, alive>>

\* The range is free.
MmapAdd ==
    /\ call # NoCall
    /\ Colliding = {}
    /\ add_vma(MmapAddr, MmapLen)
    /\ returned' = <<MmapAddr, call.asked>>
    /\ call' = NoCall
    /\ UNCHANGED <<table, alive>>

-----------------------------------------------------------------------------
(* handle_abort on the first access to a page.                             *)

\* The test of handle_abort, with both ends of the area.
InArea(v, far) == v.virt <= far /\ far <= End(v)
Containing(far) == {i \in DOMAIN vma_list : InArea(vma_list[i], far)}

Touched(far) ==
    /\ alive
    /\ call = NoCall
    /\ align_down(far) \notin DOMAIN table
    /\ Cardinality(DOMAIN table) < MaxPages
    /\ TouchEnds \/ \A i \in DOMAIN vma_list : far # End(vma_list[i])

\* mapping with the page at address page of the area v, backed by offset addr.
Map(page, v, addr) ==
    table' = [p \in DOMAIN table \cup {page} |->
                IF p = page THEN <<v.obj, addr>> ELSE table[p]]

\* Mutant: every page is backed by the start of the area.
Offset_base(v, far) == 0

\* The offset of the page in the area.
Offset(v, far) == align_down(far - v.virt)

\* Translation fault: mapping enters the page.
handle_abort(far) ==
    /\ Touched(far)
    /\ \E i \in DOMAIN vma_list :
        /\ FirstArea(i, Containing(far))
        /\ Map(vma_list[i].virt + align_down(far - vma_list[i].virt), vma_list[i], Offset(vma_list[i], far))
    /\ UNCHANGED <<vma_list, call, returned, alive>>

\* No area: the thread ends.
seg_fault(far) ==
    /\ Touched(far)
    /\ Containing(far) = {}
    /\ alive' = FALSE
    /\ UNCHANGED <<vma_list, table, call, returned>>

\* Any other fault, such as one of permissions on a mapped page, ends it too.
OtherFault ==
    /\ alive
    /\ call = NoCall
    /\ DOMAIN table # {}
    /\ alive' = FALSE
    /\ UNCHANGED <<vma_list, table, call, returned>>

-----------------------------------------------------------------------------
Next ==
    \/ \E addr \in Hints, len \in Lengths : mmap(addr, len)
    \/ MmapRetry
    \/ MmapAdd
    \/ \E far \in 0 .. (Limit + PAGE) : handle_abort(far) \/ seg_fault(far)
    \/ OtherFault

Spec == Init /\ [][Next]_vars

\* The kernel goes on executing the system call.
FairSpec == Spec /\ WF_vars(MmapRetry \/ MmapAdd)

-----------------------------------------------------------------------------
(* Properties.                                                             *)

Extent(v) == v.virt .. (v.virt + v.size - 1)

\* The sum of address and length has wrapped: sys_mmap does not look for that.
Wraps(v) == v.virt + v.size >= Top

\* The areas of a thread never overlap, wherever mmap's search went, but for an
\* area whose end has wrapped, which passes the test wherever it lies.
AreasDisjoint ==
    \A i, j \in DOMAIN vma_list :
        i # j => \/ Wraps(vma_list[i]) \/ Wraps(vma_list[j])
                 \/ Extent(vma_list[i]) \cap Extent(vma_list[j]) = {}

\* A page of an area is backed by the page of the area's own memory at the same
\* offset, and no page outside the areas is mapped.
PagesMapped ==
    \A p \in DOMAIN table :
        \E i \in DOMAIN vma_list :
            /\ p \in Extent(vma_list[i])
            /\ table[p] = <<vma_list[i].obj, p - vma_list[i].virt>>

\* There is room for len below the limit.
Fits(len) ==
    \E addr \in 0 .. Limit :
        /\ addr % PAGE = 0
        /\ addr + align_up(len) < Limit
        /\ \A i \in DOMAIN vma_list : ~ Overlaps(vma_list[i], addr, align_up(len))

\* sys_mmap returns when there is room, though its search leaves out most
\* addresses and starts anywhere, and its value is the address of an area of
\* the thread with the length asked for.  (Without room it calls itself for
\* ever.)
MmapReturns ==
    \A len \in Lengths :
        call.asked = len /\ Fits(len) ~>
            /\ call = NoCall /\ returned # <<>>
            /\ \E i \in DOMAIN vma_list : vma_list[i].virt = returned[1] /\ vma_list[i].size >= len

=============================================================================
