---------------------------- MODULE MemoryProofs ----------------------------
(***************************************************************************)
(* The memory of the user programs: where an area is placed and mapped, and*)
(* who frees the blocks behind it.                                         *)
(***************************************************************************)
EXTENDS Vm, ProcMem, ListLemmas

-----------------------------------------------------------------------------
(***************************************************************************)
(* mmap and the page faults, for every page size, program and sequence of  *)
(* mmap calls and accesses.                                                *)
(***************************************************************************)

Word == 0 .. (Top - 1)
ProgramArea == [virt : Word, size : Word]
AreaType == [virt : Word, size : Word, obj : Nat]

\* The variables' types; the mapped pages are described by PagesMapped.
TypeOK ==
    /\ vma_list \in Seq(AreaType)
    /\ call \in [addr : Word, len : Word, asked : Int]

\* One of two areas ends before the other begins.
Apart(v, w) == v.virt + v.size <= w.virt \/ w.virt + w.size <= v.virt

Clear(v, w) == Wraps(v) \/ Wraps(w) \/ Apart(v, w)

AreasApart ==
    \A i, j \in 1 .. Len(vma_list) : i # j => Clear(vma_list[i], vma_list[j])

\* The inductive invariant; PagesMapped is inductive with it.
IInv == TypeOK /\ AreasApart

-----------------------------------------------------------------------------
(* Rounding.                                                               *)

LEMMA Remainder ==
    ASSUME NEW n \in Nat
    PROVE  /\ PAGE \in Nat \ {0}
           /\ n % PAGE \in 0 .. (PAGE - 1)
           /\ n % PAGE <= n
           /\ n \div PAGE \in Nat
           /\ n = PAGE * (n \div PAGE) + (n % PAGE)
<1>1. PAGE \in Nat \ {0}
  BY VmAssumption
<1>2. n % PAGE \in 0 .. (PAGE - 1)
  BY <1>1
<1>3. n % PAGE <= n
  BY <1>1
<1>4. n = PAGE * (n \div PAGE) + (n % PAGE) /\ n \div PAGE \in Nat
  BY <1>1
<1> QED
  BY <1>1, <1>2, <1>3, <1>4

LEMMA MultipleOfPage ==
    ASSUME NEW q \in Nat
    PROVE  (PAGE * q) % PAGE = 0
BY VmAssumption, SMTT(30)

\* What is added modulo Top.
LEMMA WordSum ==
    ASSUME NEW m \in Nat, NEW n \in Nat
    PROVE  /\ Plus(m, n) \in Word
           /\ m + n < Top => Plus(m, n) = m + n
           /\ m + n >= Top /\ m + n < Top + Top => Plus(m, n) = m + n - Top
<1>1. Top \in Nat \ {0}
  BY VmAssumption
<1>2. (m + n) % Top \in 0 .. (Top - 1)
  BY <1>1
<1>3. m + n < Top => (m + n) % Top = m + n
  BY <1>1
<1>4. m + n >= Top /\ m + n < Top + Top => (m + n) % Top = m + n - Top
  BY <1>1, SMTT(30)
<1> QED
  BY <1>2, <1>3, <1>4 DEF Plus, Word

\* align_up of a multiple of a page changes nothing, so that the second
\* rounding, in add_vma, keeps the length sys_mmap has tested.  A number above
\* the last page wraps to 0.
LEMMA AlignUpTwice ==
    ASSUME NEW n \in Word
    PROVE  align_up(n) \in Word /\ align_up(align_up(n)) = align_up(n)
<1> DEFINE q == n \div PAGE
           r == n % PAGE
           t == Top \div PAGE
           s == n + (PAGE - r)
<1>1. /\ PAGE \in Nat \ {0} /\ r \in 0 .. (PAGE - 1) /\ n \in Nat /\ n < Top
      /\ q \in Nat /\ n = PAGE * q + r
  <2>1. n \in Nat /\ n < Top
    BY VmAssumption DEF Word
  <2> QED
    BY <2>1, Remainder
<1>2. t \in Nat /\ Top = PAGE * t /\ Top \in Nat
  <2>1. Top \in Nat /\ Top % PAGE = 0 /\ PAGE \in Nat \ {0}
    BY VmAssumption
  <2>2. t \in Nat /\ Top = PAGE * t + (Top % PAGE)
    BY <2>1, Remainder
  <2>3. PAGE * t \in Nat
    BY <2>1, <2>2
  <2> HIDE DEF t
  <2> QED
    BY <2>1, <2>2, <2>3
<1>3. /\ (PAGE * (q + 1)) % PAGE = 0
      /\ 0 % PAGE = 0
  BY <1>1, MultipleOfPage
<1> HIDE DEF q, r, t
<1>4. s = PAGE * (q + 1)
  BY <1>1
<1> HIDE DEF s
<1>5. s \in Nat /\ s % PAGE = 0
  BY <1>1, <1>3, <1>4
<1>6. s <= Top
  <2>1. q < t
    BY <1>1, <1>2
  <2>2. q + 1 <= t /\ q + 1 \in Nat
    BY <1>1, <1>2, <2>1
  <2>3. PAGE * (q + 1) <= PAGE * t
    BY <1>1, <1>2, <2>2
  <2> QED
    BY <1>2, <1>4, <2>3
<1>7. CASE r = 0
  BY <1>1, <1>7 DEF align_up, r
<1>8. CASE r # 0
  <2>1. align_up(n) = Plus(n, PAGE - r)
    BY <1>8 DEF align_up, r
  <2>2. Plus(n, PAGE - r) \in {s, 0} /\ Plus(n, PAGE - r) \in Word
    <3>1. PAGE - r \in Nat /\ Top > 0
      BY <1>1, VmAssumption
    <3>2. CASE s < Top
      BY <1>1, <3>1, <3>2, WordSum DEF s
    <3>3. CASE s = Top
      <4>1. n + (PAGE - r) = Top
        BY <3>3 DEF s
      <4>2. n + (PAGE - r) >= Top /\ n + (PAGE - r) < Top + Top /\ Top - Top = 0
        BY <1>2, <3>1, <4>1
      <4>3. Plus(n, PAGE - r) = n + (PAGE - r) - Top /\ Plus(n, PAGE - r) \in Word
        BY <1>1, <3>1, <4>2, WordSum
      <4>4. Plus(n, PAGE - r) = 0
        <5>1. n + ((PAGE - r) - Top) = (n + (PAGE - r)) - Top
          BY <1>1, <1>2
        <5> QED
          BY <4>1, <4>2, <4>3, <5>1
      <4> QED
        BY <4>3, <4>4
    <3> QED
      BY <1>2, <1>5, <1>6, <3>2, <3>3
  <2>3. align_up(n) % PAGE = 0
    BY <2>1, <2>2, <1>3, <1>5
  <2> QED
    BY <2>1, <2>2, <2>3 DEF align_up
<1> QED
  BY <1>7, <1>8

LEMMA AlignDown ==
    ASSUME NEW n \in Nat
    PROVE  align_down(n) \in 0 .. n
<1>1. n % PAGE \in Nat /\ n % PAGE <= n
  BY Remainder
<1> QED
  BY <1>1 DEF align_down

-----------------------------------------------------------------------------
(* One lemma per operation.                                                *)

LEMMA AreaFields ==
    ASSUME NEW v \in AreaType
    PROVE  /\ v.virt \in Word /\ v.size \in Word /\ End(v) \in Word
           /\ v.virt \in Nat /\ v.size \in Nat /\ Top \in Nat
           /\ Wraps(v) => End(v) < v.virt
           /\ ~ Wraps(v) => End(v) = v.virt + v.size
<1>1. v.virt \in Word /\ v.size \in Word /\ Top \in Nat
  BY VmAssumption DEF AreaType
<1>2. v.virt \in Nat /\ v.size \in Nat /\ v.virt < Top /\ v.size < Top
  BY <1>1 DEF Word
<1> QED
  BY <1>1, <1>2, WordSum DEF End, Wraps

\* Areas that lie apart share no address.
LEMMA ApartDisjoint ==
    ASSUME NEW v \in AreaType, NEW w \in AreaType, Apart(v, w)
    PROVE  Extent(v) \cap Extent(w) = {}
BY AreaFields DEF Apart, Extent

LEMMA AreaTyped ==
    ASSUME NEW virt \in Word, NEW size \in Word, NEW obj \in Nat
    PROVE  /\ Area(virt, size, obj) \in AreaType
           /\ Area(virt, size, obj).virt = virt
           /\ Area(virt, size, obj).size = align_up(size)
BY AlignUpTwice DEF Area, AreaType

\* The areas exec_thread adds.
LEMMA InitInv == Init => IInv /\ PagesMapped
<1> SUFFICES ASSUME Init PROVE IInv /\ PagesMapped
  OBVIOUS
<1>0. /\ Areas \in Seq(ProgramArea)
      /\ \A a \in ProgramArea : a.virt \in Word /\ a.size \in Word
  BY VmAssumption DEF ProgramArea, Word
<1>1. /\ Len(Areas) \in Nat /\ DOMAIN Areas = 1 .. Len(Areas)
      /\ \A i \in 1 .. Len(Areas) : Areas[i].virt \in Word /\ Areas[i].size \in Word
  BY <1>0
<1>2. vma_list = [i \in 1 .. Len(Areas) |-> Area(Areas[i].virt, Areas[i].size, i)]
  BY <1>1 DEF Init
<1>3. \A i \in 1 .. Len(Areas) : Area(Areas[i].virt, Areas[i].size, i) \in AreaType
  BY <1>1, AreaTyped
<1>4. vma_list \in Seq(AreaType) /\ Len(vma_list) = Len(Areas)
  BY <1>1, <1>2, <1>3, IsASeq
<1>5. TypeOK
  BY <1>4, VmAssumption DEF Init, TypeOK, NoCall, Word
<1>6. AreasApart
  <2> SUFFICES ASSUME NEW i \in 1 .. Len(Areas), NEW j \in 1 .. Len(Areas), i # j
               PROVE  Apart(vma_list[i], vma_list[j])
    BY <1>4 DEF AreasApart, Clear
  <2>1. ASSUME NEW k \in 1 .. Len(Areas)
        PROVE  vma_list[k].virt = Areas[k].virt /\ vma_list[k].size = align_up(Areas[k].size)
    <3>1. vma_list[k] = Area(Areas[k].virt, Areas[k].size, k)
      BY <1>2
    <3> QED
      BY <3>1 DEF Area
  <2> QED
    BY <1>1, <2>1, AreasAssumption DEF Apart
<1>7. PagesMapped
  BY DEF Init, PagesMapped
<1> QED
  BY <1>5, <1>6, <1>7 DEF IInv

\* The range that sys_mmap tries.
LEMMA MmapRange ==
    ASSUME IInv
    PROVE  MmapAddr \in Word /\ MmapLen \in Word /\ align_up(MmapLen) = MmapLen
<1>1. call.addr \in Word /\ call.len \in Word /\ 0 \in Word
  BY VmAssumption DEF IInv, TypeOK, Word
<1> QED
  BY <1>1, AlignUpTwice DEF MmapAddr, MmapLen

\* A call begins, and its search goes on.
LEMMA SearchInv ==
    ASSUME IInv,
           \/ \E addr \in Hints, len \in Lengths : mmap(addr, len)
           \/ MmapRetry
    PROVE  IInv'
<1>1. CASE \E addr \in Hints, len \in Lengths : mmap(addr, len)
  <2>1. PICK addr \in Word, len \in Word : mmap(addr, len) /\ len \in Int
    BY <1>1, VmAssumption DEF Word
  <2> QED
    BY <2>1 DEF mmap, IInv, TypeOK, AreasApart
<1>2. CASE MmapRetry
  <2>1. PICK i \in 1 .. Len(vma_list) :
          call' = [call EXCEPT !.addr = Behind(vma_list[i]), !.len = MmapLen]
    BY <1>2, LenProperties DEF MmapRetry, IInv, TypeOK
  <2>2. vma_list[i] \in AreaType
    BY DEF IInv, TypeOK
  <2>3. Behind(vma_list[i]) \in Word /\ MmapLen \in Word
    BY <2>2, MmapRange, AreaFields DEF Behind
  <2>4. call' \in [addr : Word, len : Word, asked : Int]
    BY <2>1, <2>3 DEF IInv, TypeOK
  <2> QED
    BY <1>2, <2>4 DEF MmapRetry, IInv, TypeOK, AreasApart
<1> QED
  BY <1>1, <1>2

\* The new area is apart from every other: the test is made with the size that
\* add_vma enters.
LEMMA AddInv ==
    ASSUME IInv, MmapAdd
    PROVE  IInv'
<1> DEFINE n == Len(vma_list)
           a == Area(MmapAddr, MmapLen, n + 1)
<1>1. /\ vma_list \in Seq(AreaType) /\ n \in Nat /\ DOMAIN vma_list = 1 .. n
      /\ vma_list' = Append(vma_list, a)
  BY DEF MmapAdd, add_vma, IInv, TypeOK
<1>2. a \in AreaType /\ a.virt = MmapAddr /\ a.size = MmapLen
  BY <1>1, MmapRange, AreaTyped
<1> HIDE DEF a
<1>3. \A i \in 1 .. n : Clear(vma_list[i], a)
  <2>1. ASSUME NEW i \in 1 .. n, ~ Wraps(vma_list[i]), ~ Wraps(a) PROVE Apart(vma_list[i], a)
    <3>1. ~ Overlaps(vma_list[i], MmapAddr, MmapLen)
      BY <1>1 DEF MmapAdd, Colliding
    <3>2. /\ End(vma_list[i]) = vma_list[i].virt + vma_list[i].size
          /\ Plus(MmapAddr, MmapLen) = a.virt + a.size
      <4>1. vma_list[i] \in AreaType
        BY <1>1
      <4>2. End(a) = a.virt + a.size
        BY <1>2, <2>1, AreaFields
      <4> QED
        BY <1>2, <2>1, <4>1, <4>2, AreaFields DEF End
    <3> QED
      BY <3>1, <3>2, <1>2 DEF Overlaps, Apart
  <2> QED
    BY <2>1 DEF Clear
<1>4. /\ vma_list' \in Seq(AreaType) /\ Len(vma_list') = n + 1 /\ vma_list'[n + 1] = a
      /\ \A i \in 1 .. n : vma_list'[i] = vma_list[i]
  BY <1>1, <1>2
<1>5. TypeOK'
  BY <1>4, VmAssumption DEF MmapAdd, TypeOK, NoCall, Word
<1>6. AreasApart'
  <2> SUFFICES ASSUME NEW i \in 1 .. (n + 1), NEW j \in 1 .. (n + 1), i # j
               PROVE  Clear(vma_list'[i], vma_list'[j])
    BY <1>4 DEF AreasApart
  <2>1. CASE i \in 1 .. n /\ j \in 1 .. n
    BY <2>1, <1>4 DEF IInv, AreasApart
  <2>2. CASE i = n + 1 /\ j \in 1 .. n
    BY <2>2, <1>3, <1>4 DEF Clear, Apart
  <2>3. CASE i \in 1 .. n /\ j = n + 1
    BY <2>3, <1>3, <1>4 DEF Clear, Apart
  <2> QED
    BY <1>1, <2>1, <2>2, <2>3
<1> QED
  BY <1>5, <1>6 DEF IInv

\* Every step preserves the inductive invariant.
LEMMA NextInv ==
    ASSUME IInv, [Next]_vars
    PROVE  IInv'
<1>1. CASE \/ UNCHANGED vars
           \/ OtherFault
           \/ \E far \in 0 .. (Limit + PAGE) : handle_abort(far) \/ seg_fault(far)
  BY <1>1 DEF vars, OtherFault, handle_abort, seg_fault, IInv, TypeOK, AreasApart
<1> QED
  BY <1>1, SearchInv, AddInv DEF Next

-----------------------------------------------------------------------------
(* The mapped pages.                                                       *)

\* A new area leaves the others where they are.
LEMMA AddPages ==
    ASSUME IInv, PagesMapped, MmapAdd
    PROVE  PagesMapped'
<1> DEFINE n == Len(vma_list)
<1>1. /\ n \in Nat /\ DOMAIN vma_list = 1 .. n
      /\ \A i \in 1 .. n : i \in DOMAIN vma_list' /\ vma_list'[i] = vma_list[i]
  BY DEF MmapAdd, add_vma, IInv, TypeOK
<1> SUFFICES ASSUME NEW p \in DOMAIN table
             PROVE  \E i \in DOMAIN vma_list' :
                      /\ p \in Extent(vma_list'[i])
                      /\ table[p] = <<vma_list'[i].obj, p - vma_list'[i].virt>>
  BY DEF MmapAdd, PagesMapped
<1>2. PICK i \in 1 .. n : /\ p \in Extent(vma_list[i])
                          /\ table[p] = <<vma_list[i].obj, p - vma_list[i].virt>>
  BY <1>1 DEF PagesMapped
<1> QED
  BY <1>1, <1>2

\* The page that is entered lies in the area that was found, at the offset of
\* the memory behind it.
LEMMA AbortPages ==
    ASSUME IInv, PagesMapped, TouchEnds = FALSE, NEW far \in 0 .. (Limit + PAGE), handle_abort(far)
    PROVE  PagesMapped'
<1>1. PICK i \in DOMAIN vma_list :
        /\ InArea(vma_list[i], far)
        /\ Map(vma_list[i].virt + align_down(far - vma_list[i].virt), vma_list[i],
               Offset(vma_list[i], far))
  BY DEF handle_abort, FirstArea, Containing
<1> DEFINE v == vma_list[i]
           off == align_down(far - v.virt)
           page == v.virt + off
<1>2. v \in AreaType /\ far \in Nat
  BY VmAssumption DEF IInv, TypeOK
<1>3. /\ v.virt \in Nat /\ v.size \in Nat /\ far - v.virt \in Nat
      /\ far < v.virt + v.size
  <2>1. v.virt <= far /\ far <= End(v) /\ far # End(v)
    BY <1>1 DEF InArea, handle_abort, Touched
  <2>2. End(v) \in Nat /\ v.virt \in Nat /\ v.size \in Nat
    BY <1>2, AreaFields DEF Word
  <2>3. ~ Wraps(v) /\ End(v) = v.virt + v.size
    BY <1>2, <2>1, <2>2, AreaFields
  <2> QED
    BY <1>2, <2>1, <2>2, <2>3
<1>4. off \in 0 .. (far - v.virt)
  BY <1>3, AlignDown
<1>5. table' = [p \in DOMAIN table \cup {page} |->
                  IF p = page THEN <<v.obj, off>> ELSE table[p]]
  BY <1>1 DEF Map, Offset
<1> HIDE DEF v, off
<1>6. page \in Extent(v) /\ off = page - v.virt
  BY <1>3, <1>4 DEF Extent
<1> HIDE DEF page
<1> SUFFICES ASSUME NEW p \in DOMAIN table \cup {page}
             PROVE  \E j \in DOMAIN vma_list :
                      /\ p \in Extent(vma_list[j])
                      /\ table'[p] = <<vma_list[j].obj, p - vma_list[j].virt>>
  BY <1>5 DEF handle_abort, PagesMapped
<1>7. CASE p = page
  BY <1>7, <1>1, <1>5, <1>6 DEF v
<1>8. CASE p # page
  BY <1>8, <1>5 DEF PagesMapped
<1> QED
  BY <1>7, <1>8

\* Every step keeps the mapped pages in their areas.
LEMMA NextPages ==
    ASSUME IInv, PagesMapped, TouchEnds = FALSE, [Next]_vars
    PROVE  PagesMapped'
<1>1. CASE UNCHANGED <<vma_list, table>>
  BY <1>1 DEF PagesMapped
<1> QED
  BY <1>1, AddPages, AbortPages DEF Next, vars, mmap, MmapRetry, OtherFault, seg_fault

-----------------------------------------------------------------------------
(* The theorems.                                                           *)

\* The inductive invariant holds in every run.
THEOREM InvariantHolds == Spec => []IInv
<1>1. Init => IInv
  BY InitInv
<1>2. IInv /\ [Next]_vars => IInv'
  BY NextInv
<1> QED
  BY <1>1, <1>2, PTL DEF Spec

\* The areas of a thread never overlap, wherever the search of sys_mmap went
\* and whatever the program touches, but for those whose end has wrapped.
THEOREM AreasNeverOverlap == Spec => []AreasDisjoint
<1>1. IInv => AreasDisjoint
  <2> SUFFICES ASSUME IInv, NEW i \in DOMAIN vma_list, NEW j \in DOMAIN vma_list, i # j,
                      ~ Wraps(vma_list[i]), ~ Wraps(vma_list[j])
               PROVE  Extent(vma_list[i]) \cap Extent(vma_list[j]) = {}
    BY DEF AreasDisjoint
  <2>1. /\ vma_list[i] \in AreaType /\ vma_list[j] \in AreaType
        /\ Apart(vma_list[i], vma_list[j])
    BY LenProperties DEF IInv, TypeOK, AreasApart, Clear
  <2> QED
    BY <2>1, ApartDisjoint
<1> QED
  BY <1>1, InvariantHolds, PTL

\* A mapped page belongs to an area and is backed by that area's own memory at
\* the same offset, if the program does not touch the address where an area
\* ends.
THEOREM PagesBacked ==
    ASSUME TouchEnds = FALSE
    PROVE  Spec => []PagesMapped
<1>1. Init => PagesMapped
  BY InitInv
<1>2. IInv /\ PagesMapped /\ [Next]_vars => PagesMapped'
  BY NextPages
<1> QED
  BY <1>1, <1>2, InvariantHolds, PTL DEF Spec

-----------------------------------------------------------------------------
(***************************************************************************)
(* fork, exec, mmap, exit and the reaping of threads, for every number of  *)
(* threads, programs and mmap areas: every free is of an allocated block,  *)
(* every block has one owner and what is lost is known, if no thread is    *)
(* killed inside exec.                                                     *)
(***************************************************************************)

(* Blocks and threads.                                                     *)

AreaPurpose == Program \cup Maps
Leaky == {"table", "pgd", "spare"}
Purpose == AreaPurpose \cup Leaky \cup {"kstack", "cfi"}
Block == Pid \X Purpose \X (1 .. MaxLeaks)

AreaMap == UNION {[U -> Block] : U \in SUBSET AreaPurpose}

ThreadType ==
    [state : {"unused", "running", "zombie"}, kstack : Block \cup {None}, pgd : Block \cup {None},
     tables : SUBSET Block, areas : AreaMap, fresh : Block \cup {None}, exec : BOOLEAN,
     left : SUBSET AreaPurpose, cfi : Block \cup {None}]

\* b is a block for purpose u of thread p, and allocated.
Allocated(b, p, u, h) == b \in h /\ \E n \in 1 .. MaxLeaks : b = <<p, u, n>>

OwnedBy(t) ==
    IF t.state = "unused" THEN {}
    ELSE {t.kstack, t.pgd} \cup t.tables \cup ({t.fresh} \ {None})
         \cup (IF t.exec THEN {t.cfi} \cup {t.areas[u] : u \in t.left} ELSE Range(t.areas))

\* Nobody will free b.
Lost(b, c) == b[2] \in Leaky \/ b \in c

\* Each block a thread refers to is one it was given for that purpose and is
\* still allocated; a thread inside exec or mmap is alive.
Keeps(p, t, h) ==
    t.state # "unused" =>
        /\ Allocated(t.kstack, p, "kstack", h)
        /\ Allocated(t.pgd, p, "pgd", h)
        /\ \A b \in t.tables : Allocated(b, p, "table", h)
        /\ t.left \subseteq DOMAIN t.areas
        /\ ~ t.exec => \A u \in DOMAIN t.areas : Allocated(t.areas[u], p, u, h)
        /\ t.fresh # None => /\ t.state = "running" /\ ~ t.exec
                             /\ t.fresh[2] \in Maps \ DOMAIN t.areas
                             /\ Allocated(t.fresh, p, t.fresh[2], h)
        /\ t.exec => /\ t.state = "running"
                     /\ Allocated(t.cfi, p, "cfi", h)
                     /\ \A u \in t.left : Allocated(t.areas[u], p, u, h)

\* The inductive invariant.
ProcInv ==
    /\ heap \subseteq Block
    /\ threads \in [Pid -> ThreadType]
    /\ kernel \in {"ok", "wild"}
    /\ \A p \in Pid : Keeps(p, threads[p], heap)
    /\ \A b \in cut : b[2] \in Maps
    /\ \A b \in heap : Lost(b, cut) \/ \E p \in Pid : b \in OwnedBy(threads[p])

LEMMA OwnedIsOwnedBy ==
    ASSUME NEW p \in Pid
    PROVE  Owned(p) = OwnedBy(threads[p])
BY DEF Owned, OwnedBy

LEMMA BlockFields ==
    ASSUME NEW p \in Pid, NEW u \in Purpose, NEW n \in 1 .. MaxLeaks
    PROVE  <<p, u, n>> \in Block /\ <<p, u, n>>[1] = p /\ <<p, u, n>>[2] = u
BY DEF Block

\* What a thread owns is allocated and bears its name.
LEMMA OwnedNamed ==
    ASSUME NEW p \in Pid, NEW t \in ThreadType, NEW h, Keeps(p, t, h), NEW b \in OwnedBy(t)
    PROVE  b \in h /\ b[1] = p
<1>1. t.state # "unused"
  BY DEF OwnedBy
<1>2. ASSUME NEW u, Allocated(b, p, u, h) PROVE b \in h /\ b[1] = p
  BY <1>2 DEF Allocated
<1>3. t.exec \in BOOLEAN
  BY DEF ThreadType
<1>4. CASE b \in {t.kstack, t.pgd} \cup t.tables \cup ({t.fresh} \ {None})
  BY <1>1, <1>2, <1>4 DEF Keeps
<1>5. CASE t.exec /\ b \in {t.cfi} \cup {t.areas[u] : u \in t.left}
  BY <1>1, <1>2, <1>5 DEF Keeps
<1>6. CASE ~ t.exec /\ b \in Range(t.areas)
  <2>1. PICK u \in DOMAIN t.areas : b = t.areas[u]
    BY <1>6 DEF Range
  <2> QED
    BY <1>1, <1>2, <1>6, <2>1 DEF Keeps
<1> QED
  BY <1>1, <1>4, <1>5, <1>6 DEF OwnedBy

\* kmalloc returns a block that is not in use.
LEMMA NewBlock ==
    ASSUME NEW p \in Pid, NEW u \in Purpose, Numbers(p, u) # {}
    PROVE  /\ New(p, u) \in Block /\ New(p, u) \notin heap
           /\ New(p, u)[1] = p /\ New(p, u)[2] = u
           /\ \E n \in 1 .. MaxLeaks : New(p, u) = <<p, u, n>>
<1> DEFINE N == Numbers(p, u)
<1>1. N \in SUBSET Nat /\ N # {} /\ N \subseteq 1 .. MaxLeaks
  BY ProcAssumption DEF Numbers
<1>2. \A n \in N : <<p, u, n>> \notin heap
  BY DEF Numbers
<1> HIDE DEF N
<1>3. Min(N) \in N
  BY <1>1, MinIsLeast
<1>4. PICK n \in N : New(p, u) = <<p, u, n>>
  BY <1>3 DEF New, N
<1>5. n \in 1 .. MaxLeaks /\ <<p, u, n>> \notin heap
  BY <1>1, <1>2
<1> QED
  BY <1>4, <1>5, BlockFields

\* For a purpose that is never lost, all numbers are free while the thread has
\* no block of it.
LEMMA NothingLeft ==
    ASSUME ProcInv, NEW p \in Pid, NEW u \in Purpose \ (Leaky \cup Maps),
           \A b \in OwnedBy(threads[p]) : b[2] # u
    PROVE  Numbers(p, u) # {}
<1>1. 1 \in 1 .. MaxLeaks
  BY ProcAssumption
<1>2. <<p, u, 1>> \notin heap
  <2> SUFFICES ASSUME <<p, u, 1>> \in heap PROVE FALSE
    OBVIOUS
  <2>1. <<p, u, 1>>[1] = p /\ <<p, u, 1>>[2] = u
    OBVIOUS
  <2>2. PICK q \in Pid : <<p, u, 1>> \in OwnedBy(threads[q])
    BY <2>1 DEF ProcInv, Lost
  <2>3. q = p
    BY <2>1, <2>2, OwnedNamed DEF ProcInv
  <2> QED
    BY <2>1, <2>2, <2>3
<1> QED
  BY <1>1, <1>2 DEF Numbers

\* A step of one thread: it frees no block of another, and what it has not got
\* any more is leaked or free.
LEMMA ThreadStep ==
    ASSUME ProcInv, NEW p \in Pid, NEW t \in ThreadType,
           threads' = [threads EXCEPT ![p] = t], kernel' \in {"ok", "wild"},
           heap' \subseteq Block, \A b \in heap \ heap' : b[1] = p,
           Keeps(p, t, heap'),
           cut \subseteq cut', \A b \in cut' : b[2] \in Maps,
           \A b \in heap' : Lost(b, cut') \/ b \in OwnedBy(t) \/ (b \in heap /\ b[1] # p)
    PROVE  ProcInv'
<1>1. /\ threads' \in [Pid -> ThreadType] /\ threads'[p] = t
      /\ \A q \in Pid \ {p} : threads'[q] = threads[q]
  BY DEF ProcInv
<1>2. ASSUME NEW q \in Pid PROVE Keeps(q, threads'[q], heap')
  <2>1. CASE q = p
    BY <1>1, <2>1
  <2>2. CASE q # p
    <3>1. ASSUME NEW b, NEW u, Allocated(b, q, u, heap) PROVE Allocated(b, q, u, heap')
      <4>1. b \in heap /\ b[1] = q
        BY <3>1 DEF Allocated
      <4> QED
        BY <2>2, <3>1, <4>1 DEF Allocated
    <3>2. Keeps(q, threads[q], heap) /\ threads'[q] = threads[q]
      BY <1>1, <2>2 DEF ProcInv
    <3> QED
      BY <3>1, <3>2 DEF Keeps
  <2> QED
    BY <2>1, <2>2
<1>3. ASSUME NEW b \in heap', ~ Lost(b, cut') PROVE \E q \in Pid : b \in OwnedBy(threads'[q])
  <2>1. CASE b \in OwnedBy(t)
    BY <1>1, <2>1
  <2>2. CASE b \in heap /\ b[1] # p
    <3>1. PICK q \in Pid : b \in OwnedBy(threads[q])
      BY <1>3, <2>2 DEF ProcInv, Lost
    <3>2. b[1] = q
      BY <3>1, OwnedNamed DEF ProcInv
    <3> QED
      BY <1>1, <2>2, <3>1, <3>2
  <2> QED
    BY <1>3, <2>1, <2>2
<1> QED
  BY <1>1, <1>2, <1>3 DEF ProcInv

-----------------------------------------------------------------------------
(* What the actions do.                                                    *)

LEMMA Purposes ==
    /\ {"kstack", "cfi"} \subseteq Purpose \ Leaky /\ Leaky \subseteq Purpose
    /\ AreaPurpose \subseteq Purpose \ Leaky /\ Program \subseteq Purpose \ (Leaky \cup Maps)
    /\ {"kstack", "cfi"} \cap Maps = {}
    /\ {"kstack", "pgd", "table", "spare", "cfi"} \cap AreaPurpose = {}
    /\ Program \subseteq AreaPurpose /\ Maps \subseteq AreaPurpose /\ Fixed \subseteq Program
BY ProcAssumption DEF Purpose, Leaky, AreaPurpose, Program, Fixed

LEMMA AreasOf ==
    ASSUME NEW U \in SUBSET AreaPurpose, NEW f \in [U -> Block]
    PROVE  f \in AreaMap
BY DEF AreaMap

LEMMA AreasKnown ==
    ASSUME NEW f \in AreaMap
    PROVE  /\ DOMAIN f \subseteq AreaPurpose
           /\ \A u \in DOMAIN f : f[u] \in Block
           /\ f = [u \in DOMAIN f |-> f[u]]
<1>1. PICK U \in SUBSET AreaPurpose : f \in [U -> Block]
  BY DEF AreaMap
<1> QED
  BY <1>1

LEMMA ThreadFields ==
    ASSUME ProcInv, NEW p \in Pid
    PROVE  /\ threads[p] \in ThreadType /\ Keeps(p, threads[p], heap)
           /\ threads[p].exec \in BOOLEAN
           /\ threads[p].areas \in AreaMap
           /\ DOMAIN threads[p].areas \subseteq AreaPurpose
<1>1. threads[p] \in ThreadType /\ Keeps(p, threads[p], heap)
  BY DEF ProcInv
<1>2. threads[p].exec \in BOOLEAN /\ threads[p].areas \in AreaMap
  BY <1>1 DEF ThreadType
<1> QED
  BY <1>1, <1>2, AreasKnown

\* A block that is not lost is in use by the thread it was allocated for.
LEMMA HeapOwned ==
    ASSUME ProcInv, NEW b \in heap, ~ Lost(b, cut), NEW p \in Pid, b[1] = p
    PROVE  b \in OwnedBy(threads[p])
<1>1. PICK q \in Pid : b \in OwnedBy(threads[q])
  BY DEF ProcInv
<1>2. b[1] = q
  BY <1>1, OwnedNamed DEF ProcInv
<1> QED
  BY <1>1, <1>2

\* A fresh area for each of the purposes that there is memory for.
LEMMA FreshAreas ==
    ASSUME ProcInv, NEW p \in Pid, NEW U \in SUBSET AreaPurpose,
           \A u \in U : Numbers(p, u) # {}
    PROVE  /\ NewAreas(p, U) \in [U -> Block]
           /\ NewAreas(p, U) \in AreaMap
           /\ Range(NewAreas(p, U)) \subseteq Block \ heap
           /\ \A u \in U : NewAreas(p, U)[u] = New(p, u)
           /\ \A u \in U : Allocated(New(p, u), p, u, heap \cup Range(NewAreas(p, U)))
           /\ \A b \in Range(NewAreas(p, U)) : b[1] = p /\ \E u \in U : b = New(p, u)
<1>1. ASSUME NEW u \in U
      PROVE  /\ New(p, u) \in Block /\ New(p, u) \notin heap /\ New(p, u)[1] = p
             /\ \E n \in 1 .. MaxLeaks : New(p, u) = <<p, u, n>>
  <2>1. u \in Purpose
    BY Purposes
  <2> QED
    BY <2>1, NewBlock
<1>2. NewAreas(p, U) \in [U -> Block] /\ \A u \in U : NewAreas(p, U)[u] = New(p, u)
  BY <1>1 DEF NewAreas
<1>3. NewAreas(p, U) \in AreaMap
  BY <1>2, AreasOf
<1>4. Range(NewAreas(p, U)) = {New(p, u) : u \in U}
  BY <1>2 DEF Range
<1>5. Range(NewAreas(p, U)) \subseteq Block \ heap
  BY <1>1, <1>4
<1>6. \A u \in U : Allocated(New(p, u), p, u, heap \cup Range(NewAreas(p, U)))
  BY <1>1, <1>4 DEF Allocated
<1>7. \A b \in Range(NewAreas(p, U)) : b[1] = p /\ \E u \in U : b = New(p, u)
  BY <1>1, <1>4
<1> QED
  BY <1>2, <1>3, <1>5, <1>6, <1>7

LEMMA StillAllocated ==
    ASSUME NEW b, NEW p, NEW u, NEW h, NEW g, Allocated(b, p, u, h), h \subseteq g
    PROVE  Allocated(b, p, u, g)
BY DEF Allocated

LEMMA InitProcInv == ProcInit => ProcInv
<1> SUFFICES ASSUME ProcInit PROVE ProcInv
  OBVIOUS
<1>1. 1 \in 1 .. MaxLeaks /\ First \in Pid
  BY ProcAssumption
<1>2. \A u \in Purpose : <<First, u, 1>> \in Block
  BY <1>1 DEF Block
<1> DEFINE f == [u \in Program |-> <<First, u, 1>>]
           t == [Unused EXCEPT !.state = "running", !.kstack = <<First, "kstack", 1>>,
                               !.pgd = <<First, "pgd", 1>>, !.areas = f]
<1>3. Program \cup {"kstack", "pgd"} \subseteq Purpose
  BY Purposes DEF Leaky
<1>4. f \in AreaMap /\ DOMAIN f = Program /\ \A u \in Program : f[u] = <<First, u, 1>>
  <2>1. f \in [Program -> Block] /\ Program \in SUBSET AreaPurpose
    BY <1>2, <1>3, Purposes
  <2> QED
    BY <2>1, AreasOf
<1>5. <<>> \in AreaMap
  <2>1. <<>> \in [{} -> Block]
    OBVIOUS
  <2> QED
    BY <2>1, AreasOf
<1>6. Unused \in ThreadType /\ Unused.state = "unused"
  BY <1>5 DEF Unused, ThreadType
<1> HIDE DEF f
<1>7. /\ t \in ThreadType /\ t.state = "running" /\ t.kstack = <<First, "kstack", 1>>
      /\ t.pgd = <<First, "pgd", 1>> /\ t.tables = {} /\ t.areas = f /\ t.exec = FALSE /\ t.left = {}
      /\ t.fresh = None
  BY <1>2, <1>3, <1>4, <1>5 DEF Unused, ThreadType
<1>8. threads = [p \in Pid |-> IF p # First THEN Unused ELSE t]
  BY DEF ProcInit, f
<1> HIDE DEF t
<1>9. heap \subseteq Block
  BY <1>2, <1>3 DEF ProcInit
<1>10. threads \in [Pid -> ThreadType] /\ threads[First] = t
  BY <1>1, <1>6, <1>7, <1>8
<1>11. \A u \in {"kstack", "pgd"} \cup Program : Allocated(<<First, u, 1>>, First, u, heap)
  BY <1>1 DEF Allocated, ProcInit
<1>12. ASSUME NEW p \in Pid PROVE Keeps(p, threads[p], heap)
  BY <1>4, <1>6, <1>7, <1>8, <1>11 DEF Keeps
<1>13. OwnedBy(t) = {<<First, u, 1>> : u \in {"kstack", "pgd"} \cup Program}
  BY <1>4, <1>7, ZenonT(30) DEF OwnedBy, Range
<1> QED
  BY <1>1, <1>9, <1>10, <1>12, <1>13 DEF ProcInv, ProcInit

LEMMA AddedAreas ==
    ASSUME NEW f \in AreaMap, NEW g \in AreaMap
    PROVE  /\ AddAreas(f, g) \in AreaMap
           /\ DOMAIN AddAreas(f, g) = DOMAIN f \cup DOMAIN g
           /\ \A u \in DOMAIN g : AddAreas(f, g)[u] = g[u]
           /\ \A u \in DOMAIN f \ DOMAIN g : AddAreas(f, g)[u] = f[u]
<1> DEFINE U == DOMAIN f \cup DOMAIN g
<1>1. U \in SUBSET AreaPurpose
  BY AreasKnown
<1>2. AddAreas(f, g) \in [U -> Block]
  BY AreasKnown DEF AddAreas
<1>3. AddAreas(f, g) \in AreaMap
  BY <1>1, <1>2, AreasOf
<1> QED
  BY <1>3 DEF AddAreas

LEMMA ForkStep ==
    ASSUME ProcInv, NEW p \in Pid, NEW c \in Pid, sys_fork(p, c)
    PROVE  ProcInv'
<1> DEFINE U == (DOMAIN threads[p].areas \ Fixed) \cup Fixed
           f == NewAreas(c, U)
           k == New(c, "kstack")
           d == New(c, "pgd")
           s == New(c, "spare")
           t == [Unused EXCEPT !.state = "running", !.kstack = k, !.pgd = d, !.areas = f]
<1>1. ForkAreas(p, c) = f
  BY DEF ForkAreas
<1>2. /\ threads[c].state = "unused" /\ CanAlloc(c, {"kstack", "pgd", "spare"} \cup DOMAIN threads[p].areas)
      /\ heap' = heap \cup {k, d, s} \cup Range(f)
      /\ threads' = [threads EXCEPT ![c] = t] /\ kernel' = kernel /\ cut' = cut
  BY <1>1 DEF sys_fork
<1>3. OwnedBy(threads[c]) = {}
  BY <1>2 DEF OwnedBy
<1>4. U \in SUBSET AreaPurpose /\ \A u \in U : Numbers(c, u) # {}
  <2>1. U \in SUBSET AreaPurpose
    BY ThreadFields, Purposes
  <2>2. ASSUME NEW u \in Fixed PROVE Numbers(c, u) # {}
    BY <1>3, NothingLeft, Purposes
  <2> QED
    BY <1>2, <2>1, <2>2 DEF CanAlloc
<1> HIDE DEF U
<1>5. /\ f \in AreaMap /\ DOMAIN f = U /\ Range(f) \subseteq Block
      /\ \A u \in U : Allocated(f[u], c, u, heap \cup Range(f))
  <2>1. /\ f \in [U -> Block] /\ f \in AreaMap /\ Range(f) \subseteq Block
        /\ \A u \in U : f[u] = New(c, u)
        /\ \A u \in U : Allocated(New(c, u), c, u, heap \cup Range(f))
    BY <1>4, FreshAreas
  <2> QED
    BY <2>1
<1>6. ASSUME NEW u \in {"kstack", "pgd", "spare"}
      PROVE  /\ New(c, u) \in Block /\ New(c, u)[2] = u
             /\ \E n \in 1 .. MaxLeaks : New(c, u) = <<c, u, n>>
  <2>1. u \in Purpose /\ Numbers(c, u) # {}
    BY <1>2, Purposes DEF CanAlloc, Leaky
  <2> QED
    BY <2>1, NewBlock
<1>7. s[2] \in Leaky
  BY <1>6 DEF Leaky
<1>8. k \in Block /\ d \in Block /\ Allocated(k, c, "kstack", heap') /\ Allocated(d, c, "pgd", heap')
  BY <1>2, <1>6 DEF Allocated
<1>9. heap' \subseteq Block
  BY <1>2, <1>5, <1>6 DEF ProcInv
<1>10. \A u \in U : Allocated(f[u], c, u, heap')
  BY <1>2, <1>5, StillAllocated
<1> HIDE DEF k, d, s, f
<1>11. /\ t \in ThreadType /\ t.state = "running" /\ t.kstack = k /\ t.pgd = d /\ t.tables = {}
       /\ t.areas = f /\ t.exec = FALSE /\ t.left = {} /\ t.fresh = None
  BY <1>5, <1>8 DEF Unused, ThreadType
<1> HIDE DEF t
<1>12. Keeps(c, t, heap')
  BY <1>5, <1>8, <1>10, <1>11 DEF Keeps
<1>13. OwnedBy(t) = {k, d} \cup Range(f)
  BY <1>11 DEF OwnedBy
<1>14. \A b \in heap' : Lost(b, cut') \/ b \in OwnedBy(t) \/ (b \in heap /\ b[1] # c)
  BY <1>2, <1>3, <1>7, <1>13, HeapOwned DEF Lost
<1>15. kernel' \in {"ok", "wild"}
  BY <1>2 DEF ProcInv
<1>16. cut' = cut /\ \A b \in cut' : b[2] \in Maps
  BY <1>2 DEF ProcInv
<1> QED
  BY <1>2, <1>9, <1>11, <1>12, <1>14, <1>15, <1>16, ThreadStep

LEMMA MmapStep ==
    ASSUME ProcInv, NEW p \in Pid, NEW m \in Maps, sys_mmap(p, m)
    PROVE  ProcInv'
<1> DEFINE r == threads[p]
           n == New(p, m)
           t == [r EXCEPT !.fresh = n]
<1>1. /\ r.state = "running" /\ r.exec = FALSE /\ r.fresh = None /\ Numbers(p, m) # {}
      /\ m \notin DOMAIN r.areas /\ cut' = cut
      /\ heap' = heap \cup {n} /\ threads' = [threads EXCEPT ![p] = t] /\ kernel' = kernel
  BY ThreadFields DEF sys_mmap, CanCall, CanAlloc
<1>2. r \in ThreadType /\ Keeps(p, r, heap)
  BY ThreadFields
<1>3. n \in Block /\ n[2] = m /\ n # None /\ Allocated(n, p, n[2], heap')
  <2>1. m \in Purpose
    BY Purposes
  <2>2. n \in Block /\ n[2] = m /\ \E k \in 1 .. MaxLeaks : n = <<p, m, k>>
    BY <1>1, <2>1, NewBlock
  <2>3. n # None
    BY <2>2 DEF None
  <2> QED
    BY <1>1, <2>2, <2>3 DEF Allocated
<1> HIDE DEF n
<1>4. /\ t \in ThreadType /\ t.state = "running" /\ t.kstack = r.kstack /\ t.pgd = r.pgd
      /\ t.tables = r.tables /\ t.areas = r.areas /\ t.exec = FALSE /\ t.left = r.left
      /\ t.fresh = n
  BY <1>1, <1>2, <1>3 DEF ThreadType
<1>5. \A b, u : Allocated(b, p, u, heap) => Allocated(b, p, u, heap')
  BY <1>1, StillAllocated
<1> HIDE DEF t, r
<1>6. Keeps(p, t, heap')
  BY <1>1, <1>2, <1>3, <1>4, <1>5 DEF Keeps
<1>7. OwnedBy(t) = OwnedBy(r) \cup {n}
  BY <1>1, <1>3, <1>4 DEF OwnedBy
<1>8. \A b \in heap' : Lost(b, cut') \/ b \in OwnedBy(t) \/ (b \in heap /\ b[1] # p)
  BY <1>1, <1>7, HeapOwned DEF r
<1>9. /\ heap' \subseteq Block /\ kernel' \in {"ok", "wild"}
      /\ cut' = cut /\ \A b \in cut' : b[2] \in Maps
  BY <1>1, <1>3 DEF ProcInv
<1> QED
  BY <1>1, <1>4, <1>6, <1>8, <1>9, ThreadStep

\* The block changes its place in the thread's memory, not its owner.
LEMMA LinkStep ==
    ASSUME ProcInv, NEW p \in Pid, LinkArea(p)
    PROVE  ProcInv'
<1> DEFINE r == threads[p]
           n == r.fresh
           m == n[2]
           f == [u \in {m} |-> n]
           g == AddAreas(r.areas, f)
           t == [r EXCEPT !.fresh = None, !.areas = g]
<1>1. r \in ThreadType /\ Keeps(p, r, heap) /\ r.areas \in AreaMap /\ threads \in [Pid -> ThreadType]
  BY ThreadFields DEF ProcInv
<1>2. r.state = "running" /\ n # None /\ n \in Block
  BY <1>1 DEF LinkArea, ThreadType
<1>3. r.exec = FALSE /\ m \in Maps /\ m \notin DOMAIN r.areas /\ Allocated(n, p, m, heap)
  BY <1>1, <1>2 DEF Keeps, ThreadType
<1>4. threads' = [threads EXCEPT ![p] = t]
  BY <1>1 DEF LinkArea
<1>5. f \in AreaMap /\ DOMAIN f = {m} /\ f[m] = n
  <2>1. f \in [{m} -> Block] /\ {m} \in SUBSET AreaPurpose
    BY <1>2, <1>3, Purposes
  <2>2. f \in AreaMap
    BY <2>1 DEF AreaMap
  <2> QED
    BY <2>2
<1> HIDE DEF f
<1>6. /\ g \in AreaMap /\ DOMAIN g = DOMAIN r.areas \cup {m} /\ g[m] = n
      /\ \A u \in DOMAIN r.areas : g[u] = r.areas[u]
  <2>1. /\ g \in AreaMap /\ DOMAIN g = DOMAIN r.areas \cup DOMAIN f
        /\ \A u \in DOMAIN f : g[u] = f[u]
        /\ \A u \in DOMAIN r.areas \ DOMAIN f : g[u] = r.areas[u]
    BY <1>1, <1>5, AddedAreas
  <2> QED
    BY <1>3, <1>5, <2>1
<1> HIDE DEF g
<1>7. /\ t \in ThreadType /\ t.state = "running" /\ t.kstack = r.kstack /\ t.pgd = r.pgd
      /\ t.tables = r.tables /\ t.areas = g /\ t.exec = FALSE /\ t.left = r.left
      /\ t.fresh = None
  BY <1>1, <1>2, <1>3, <1>6 DEF ThreadType
<1> HIDE DEF t, n, r, m
<1>8. Keeps(p, t, heap)
  BY <1>1, <1>2, <1>3, <1>6, <1>7 DEF Keeps
<1>9. \A b \in OwnedBy(r) : b \in OwnedBy(t)
  BY <1>2, <1>3, <1>6, <1>7 DEF OwnedBy, Range, n
<1>10. heap' = heap /\ kernel' = kernel /\ cut' = cut
  BY DEF LinkArea
<1>11. \A b \in heap' : Lost(b, cut') \/ b \in OwnedBy(t) \/ (b \in heap /\ b[1] # p)
  BY <1>9, <1>10, HeapOwned DEF r
<1>12. heap' \subseteq Block /\ kernel' \in {"ok", "wild"} /\ \A b \in cut' : b[2] \in Maps
  BY <1>10 DEF ProcInv
<1> QED
  BY <1>4, <1>7, <1>8, <1>10, <1>11, <1>12, ThreadStep

LEMMA MappingStep ==
    ASSUME ProcInv, NEW p \in Pid, mapping(p)
    PROVE  ProcInv'
<1> DEFINE r == threads[p]
           n == New(p, "table")
           t == [r EXCEPT !.tables = {n}]
<1>1. /\ r.state = "running" /\ r.exec = FALSE /\ r.tables = {} /\ Numbers(p, "table") # {}
      /\ r.fresh = None /\ cut' = cut
      /\ heap' = heap \cup {n} /\ threads' = [threads EXCEPT ![p] = t] /\ kernel' = kernel
  BY ThreadFields DEF mapping, CanCall, CanAlloc
<1>2. r \in ThreadType /\ Keeps(p, r, heap)
  BY ThreadFields
<1>3. n \in Block /\ Allocated(n, p, "table", heap')
  <2>1. "table" \in Purpose
    BY Purposes DEF Leaky
  <2> QED
    BY <1>1, <2>1, NewBlock DEF Allocated
<1> HIDE DEF n
<1>4. /\ t \in ThreadType /\ t.state = "running" /\ t.kstack = r.kstack /\ t.pgd = r.pgd
      /\ t.tables = {n} /\ t.areas = r.areas /\ t.exec = FALSE /\ t.left = r.left
      /\ t.fresh = None
  BY <1>1, <1>2, <1>3 DEF ThreadType
<1>5. \A b, u : Allocated(b, p, u, heap) => Allocated(b, p, u, heap')
  BY <1>1, StillAllocated
<1> HIDE DEF t, r
<1>6. Keeps(p, t, heap')
  BY <1>1, <1>2, <1>3, <1>4, <1>5 DEF Keeps
<1>7. OwnedBy(t) = OwnedBy(r) \cup {n}
  BY <1>1, <1>4 DEF OwnedBy
<1>8. \A b \in heap' : Lost(b, cut') \/ b \in OwnedBy(t) \/ (b \in heap /\ b[1] # p)
  BY <1>1, <1>7, HeapOwned DEF r
<1>9. /\ heap' \subseteq Block /\ kernel' \in {"ok", "wild"}
      /\ cut' = cut /\ \A b \in cut' : b[2] \in Maps
  BY <1>1, <1>3 DEF ProcInv
<1> QED
  BY <1>1, <1>4, <1>6, <1>8, <1>9, ThreadStep

\* exit and kill: the thread changes its state, and loses what only its kernel
\* stack refers to.
LEMMA ZombieStep ==
    ASSUME ProcInv, NEW p \in Pid, threads[p].state # "unused", ~ threads[p].exec,
           threads' = [threads EXCEPT ![p].state = "zombie", ![p].fresh = None],
           cut' = cut \cup ({threads[p].fresh} \ {None}), UNCHANGED <<heap, kernel>>
    PROVE  ProcInv'
<1> DEFINE r == threads[p]
           t == [r EXCEPT !.state = "zombie", !.fresh = None]
<1>1. r \in ThreadType /\ Keeps(p, r, heap) /\ r.state # "unused" /\ r.exec = FALSE
  BY ThreadFields
<1>2. threads' = [threads EXCEPT ![p] = t]
  BY DEF ProcInv
<1>3. /\ t \in ThreadType /\ t.state = "zombie" /\ t.kstack = r.kstack /\ t.pgd = r.pgd
      /\ t.tables = r.tables /\ t.areas = r.areas /\ t.exec = FALSE /\ t.left = r.left
      /\ t.fresh = None
  BY <1>1 DEF ThreadType
<1>4. \A b \in cut' : b[2] \in Maps
  BY <1>1 DEF ProcInv, Keeps
<1>5. cut' = cut \cup ({r.fresh} \ {None})
  OBVIOUS
<1> HIDE DEF t, r
<1>6. Keeps(p, t, heap') /\ OwnedBy(r) \subseteq OwnedBy(t) \cup cut'
  BY <1>1, <1>3, <1>5 DEF Keeps, OwnedBy
<1>7. \A b \in heap' : Lost(b, cut') \/ b \in OwnedBy(t) \/ (b \in heap /\ b[1] # p)
  <2>1. ASSUME NEW b \in heap, Lost(b, cut) PROVE Lost(b, cut')
    BY <2>1, <1>5 DEF Lost
  <2>2. ASSUME NEW b \in heap, ~ Lost(b, cut), b[1] = p PROVE b \in OwnedBy(t) \cup cut'
    BY <2>2, <1>6, HeapOwned DEF r
  <2> QED
    BY <2>1, <2>2 DEF Lost
<1>8. heap' \subseteq Block /\ kernel' \in {"ok", "wild"} /\ heap' = heap /\ cut \subseteq cut'
  BY <1>5 DEF ProcInv
<1> QED
  BY <1>2, <1>3, <1>4, <1>6, <1>7, <1>8, ThreadStep

LEMMA ExecStep ==
    ASSUME ProcInv, NEW p \in Pid, sys_exec(p)
    PROVE  ProcInv'
<1> DEFINE r == threads[p]
           n == New(p, "cfi")
           t == [r EXCEPT !.exec = TRUE, !.left = DOMAIN r.areas, !.cfi = n]
<1>1. /\ r.state = "running" /\ r.exec = FALSE /\ r.fresh = None /\ cut' = cut
      /\ heap' = heap \cup {n} /\ kernel' = kernel
  BY ThreadFields DEF sys_exec, CanCall
<1>2. /\ r \in ThreadType /\ Keeps(p, r, heap) /\ DOMAIN r.areas \subseteq AreaPurpose
      /\ threads \in [Pid -> ThreadType]
  BY ThreadFields DEF ProcInv
<1>3. threads' = [threads EXCEPT ![p] = t]
  BY <1>2 DEF sys_exec
<1>4. n \in Block /\ Allocated(n, p, "cfi", heap')
  <2>1. "cfi" \in Purpose \ (Leaky \cup Maps) /\ "cfi" \notin DOMAIN r.areas
    BY <1>2, Purposes
  <2>2. \A b \in OwnedBy(r) : b[2] # "cfi"
    <3> SUFFICES ASSUME NEW b \in OwnedBy(r), b[2] = "cfi" PROVE FALSE
      OBVIOUS
    <3>1. CASE b \in {r.kstack, r.pgd} \cup r.tables
      BY <1>1, <1>2, <3>1 DEF Keeps, Allocated
    <3>2. CASE b \in Range(r.areas)
      BY <1>1, <1>2, <2>1, <3>2 DEF Keeps, Allocated, Range
    <3> QED
      BY <1>1, <3>1, <3>2 DEF OwnedBy
  <2> QED
    BY <1>1, <2>1, <2>2, NothingLeft, NewBlock DEF Allocated
<1> HIDE DEF n
<1>5. /\ t \in ThreadType /\ t.state = "running" /\ t.kstack = r.kstack /\ t.pgd = r.pgd
      /\ t.tables = r.tables /\ t.areas = r.areas /\ t.exec = TRUE /\ t.left = DOMAIN r.areas
      /\ t.cfi = n /\ t.fresh = None
  BY <1>1, <1>2, <1>4 DEF ThreadType
<1>6. \A b, u : Allocated(b, p, u, heap) => Allocated(b, p, u, heap')
  BY <1>1, StillAllocated
<1> HIDE DEF t, r
<1>7. Keeps(p, t, heap')
  BY <1>1, <1>2, <1>4, <1>5, <1>6 DEF Keeps
<1>8. OwnedBy(t) = OwnedBy(r) \cup {n}
  BY <1>1, <1>5 DEF OwnedBy, Range
<1>9. \A b \in heap' : Lost(b, cut') \/ b \in OwnedBy(t) \/ (b \in heap /\ b[1] # p)
  BY <1>1, <1>8, HeapOwned DEF r
<1>10. /\ heap' \subseteq Block /\ kernel' \in {"ok", "wild"}
       /\ cut' = cut /\ \A b \in cut' : b[2] \in Maps
  BY <1>1, <1>4 DEF ProcInv
<1> QED
  BY <1>1, <1>3, <1>5, <1>7, <1>9, <1>10, ThreadStep

\* The loop frees an area that is allocated, and forgets it.
LEMMA ExecFreeStep ==
    ASSUME ProcInv, NEW p \in Pid, ExecFreeArea(p)
    PROVE  ProcInv'
<1>1. PICK u \in threads[p].left :
         /\ kfree([v \in {u} |-> threads[p].areas[v]])
         /\ threads' = [threads EXCEPT ![p].left = @ \ {u}]
  BY DEF ExecFreeArea
<1> DEFINE r == threads[p]
           a == r.areas[u]
           t == [r EXCEPT !.left = r.left \ {u}]
           f == [v \in {u} |-> r.areas[v]]
<1>2. r.state = "running" /\ r.exec = TRUE /\ cut' = cut
  BY ThreadFields DEF ExecFreeArea, InExec
<1>3. /\ r \in ThreadType /\ Keeps(p, r, heap) /\ DOMAIN r.areas \subseteq AreaPurpose
      /\ r.left \subseteq DOMAIN r.areas /\ r.fresh = None
  BY <1>2, ThreadFields DEF Keeps
<1>4. Allocated(a, p, u, heap) /\ a \in heap
  BY <1>2, <1>3 DEF Keeps, Allocated
<1>5. Range(f) = {a} /\ IsInjective(f)
  BY DEF Range, IsInjective
<1>6. heap' = heap \ {a} /\ kernel' = kernel
  BY <1>1, <1>4, <1>5 DEF kfree
<1>7. threads' = [threads EXCEPT ![p] = t]
  BY <1>1
<1>8. /\ t \in ThreadType /\ t.state = "running" /\ t.kstack = r.kstack /\ t.pgd = r.pgd
      /\ t.tables = r.tables /\ t.areas = r.areas /\ t.exec = TRUE /\ t.left = r.left \ {u}
      /\ t.cfi = r.cfi /\ t.fresh = None
  BY <1>2, <1>3 DEF ThreadType
<1>9. a[1] = p /\ a[2] = u /\ u \in AreaPurpose
  BY <1>3, <1>4 DEF Allocated
<1> HIDE DEF t, r, a, f
<1>10. ASSUME NEW b, NEW v, Allocated(b, p, v, heap), v # u PROVE Allocated(b, p, v, heap')
  BY <1>6, <1>9, <1>10 DEF Allocated
<1>11. u \notin {"kstack", "pgd", "table", "cfi"}
  BY <1>9, Purposes
<1>12. Keeps(p, t, heap')
  BY <1>2, <1>3, <1>8, <1>10, <1>11 DEF Keeps
<1>13. OwnedBy(r) \subseteq OwnedBy(t) \cup {a}
  BY <1>2, <1>3, <1>8 DEF OwnedBy, a
<1>14. \A b \in heap' : Lost(b, cut') \/ b \in OwnedBy(t) \/ (b \in heap /\ b[1] # p)
  BY <1>2, <1>6, <1>13, HeapOwned DEF r
<1>15. /\ heap' \subseteq Block /\ kernel' \in {"ok", "wild"} /\ \A b \in heap \ heap' : b[1] = p
       /\ cut' = cut /\ \A b \in cut' : b[2] \in Maps
  BY <1>2, <1>6, <1>9 DEF ProcInv
<1> QED
  BY <1>7, <1>8, <1>12, <1>14, <1>15, ThreadStep

\* With all areas freed the thread has no block for the purpose of an area;
\* the page tables it forgets are leaked.
LEMMA ExecNewStep ==
    ASSUME ProcInv, NEW p \in Pid, ExecNew(p)
    PROVE  ProcInv'
<1> DEFINE r == threads[p]
           f == NewAreas(p, Program)
           g == AddAreas(<<>>, f)
           t == [r EXCEPT !.exec = FALSE, !.cfi = None, !.tables = {}, !.areas = g]
<1>1. /\ r.state = "running" /\ r.exec = TRUE /\ r.left = {} /\ cut' = cut
      /\ heap' = (heap \cup Range(f)) \ {r.cfi} /\ kernel' = kernel
  BY ThreadFields DEF ExecNew, InExec
<1>2. r \in ThreadType /\ Keeps(p, r, heap) /\ threads \in [Pid -> ThreadType]
  BY ThreadFields DEF ProcInv
<1>3. threads' = [threads EXCEPT ![p] = t]
  BY <1>2 DEF ExecNew, Emptied
<1>4. /\ Allocated(r.kstack, p, "kstack", heap) /\ Allocated(r.pgd, p, "pgd", heap)
      /\ Allocated(r.cfi, p, "cfi", heap) /\ \A b \in r.tables : Allocated(b, p, "table", heap)
      /\ r.fresh = None
      /\ OwnedBy(r) = {r.kstack, r.pgd, r.cfi} \cup r.tables
  BY <1>1, <1>2 DEF Keeps, OwnedBy
<1>5. \A b \in OwnedBy(r) : b[2] \in {"kstack", "pgd", "cfi", "table"}
  BY <1>4 DEF Allocated
<1>6. Program \in SUBSET AreaPurpose /\ {"kstack", "pgd", "cfi", "table"} \cap Program = {}
  BY Purposes
<1>7. /\ f \in [Program -> Block] /\ f \in AreaMap /\ Range(f) \subseteq Block \ heap
      /\ \A u \in Program : Allocated(f[u], p, u, heap \cup Range(f))
      /\ \A b \in Range(f) : b[1] = p
  <2>1. ASSUME NEW u \in Program PROVE Numbers(p, u) # {}
    <3>1. \A b \in OwnedBy(r) : b[2] # u
      BY <1>5, <1>6
    <3> QED
      BY <3>1, NothingLeft, Purposes
  <2>2. /\ f \in [Program -> Block] /\ f \in AreaMap /\ Range(f) \subseteq Block \ heap
        /\ \A u \in Program : f[u] = New(p, u)
        /\ \A u \in Program : Allocated(New(p, u), p, u, heap \cup Range(f))
        /\ \A b \in Range(f) : b[1] = p
    BY <1>6, <2>1, FreshAreas
  <2> QED
    BY <2>2
<1> HIDE DEF f
<1>8. g = f
  <2>1. DOMAIN f = Program /\ f = [u \in Program |-> f[u]]
    BY <1>7
  <2>2. DOMAIN <<>> = {}
    OBVIOUS
  <2> QED
    BY <2>1, <2>2 DEF AddAreas
<1>9. /\ t \in ThreadType /\ t.state = "running" /\ t.kstack = r.kstack /\ t.pgd = r.pgd
      /\ t.tables = {} /\ t.areas = f /\ t.exec = FALSE /\ t.left = {} /\ t.fresh = None
  BY <1>1, <1>2, <1>4, <1>7, <1>8 DEF ThreadType
<1>10. r.cfi[1] = p /\ r.cfi[2] = "cfi"
  BY <1>4 DEF Allocated
<1>11. DOMAIN f = Program
  BY <1>7
<1> HIDE DEF g, t, r
<1>12. ASSUME NEW b, NEW u, Allocated(b, p, u, heap \cup Range(f)), u # "cfi"
       PROVE  Allocated(b, p, u, heap')
  BY <1>1, <1>10, <1>12 DEF Allocated
<1>13. Keeps(p, t, heap')
  <2>1. Allocated(r.kstack, p, "kstack", heap') /\ Allocated(r.pgd, p, "pgd", heap')
    BY <1>4, <1>12, StillAllocated
  <2>2. \A u \in DOMAIN f : Allocated(f[u], p, u, heap')
    BY <1>6, <1>7, <1>11, <1>12
  <2> QED
    BY <1>9, <2>1, <2>2 DEF Keeps
<1>14. OwnedBy(t) = {r.kstack, r.pgd} \cup Range(f)
  BY <1>9 DEF OwnedBy
<1>15. \A b \in heap' : Lost(b, cut') \/ b \in OwnedBy(t) \/ (b \in heap /\ b[1] # p)
  <2>1. \A b \in r.tables : b[2] \in Leaky
    BY <1>4 DEF Allocated, Leaky
  <2>2. ASSUME NEW b \in heap, ~ Lost(b, cut), b[1] = p PROVE b \in OwnedBy(r)
    BY <2>2, HeapOwned DEF r
  <2> QED
    BY <1>1, <1>4, <1>14, <2>1, <2>2 DEF Lost
<1>16. /\ heap' \subseteq Block /\ kernel' \in {"ok", "wild"} /\ \A b \in heap \ heap' : b[1] = p
       /\ cut' = cut /\ \A b \in cut' : b[2] \in Maps
  BY <1>1, <1>7, <1>10 DEF ProcInv
<1> QED
  BY <1>3, <1>9, <1>13, <1>15, <1>16, ThreadStep

\* Each zombie's kernel stack and areas are allocated, and no two are the same
\* block: what is freed bears the names of the zombie and the purpose.
LEMMA ReapedBlocks ==
    ASSUME ProcInv, NEW p \in Zombies
    PROVE  /\ DOMAIN Reaped(p) = DOMAIN threads[p].areas \cup {"kstack"}
           /\ \A u \in DOMAIN Reaped(p) : Allocated(Reaped(p)[u], p, u, heap)
           /\ \A b \in OwnedBy(threads[p]) : b[2] \in Leaky \/ \E u \in DOMAIN Reaped(p) : b = Reaped(p)[u]
<1> DEFINE r == threads[p]
<1>1. p \in Pid /\ r.state = "zombie"
  BY DEF Zombies
<1>2. /\ r \in ThreadType /\ Keeps(p, r, heap) /\ r.exec = FALSE /\ r.fresh = None
      /\ DOMAIN r.areas \subseteq AreaPurpose
  BY <1>1, ThreadFields DEF Keeps
<1>3. "kstack" \notin DOMAIN r.areas
  BY <1>2, Purposes
<1> HIDE DEF r
<1>4. /\ DOMAIN Reaped(p) = DOMAIN r.areas \cup {"kstack"} /\ Reaped(p)["kstack"] = r.kstack
      /\ \A u \in DOMAIN r.areas : Reaped(p)[u] = r.areas[u]
  BY <1>3 DEF Reaped, AddAreas, r
<1>5. /\ Allocated(r.kstack, p, "kstack", heap)
      /\ \A u \in DOMAIN r.areas : Allocated(r.areas[u], p, u, heap)
  BY <1>1, <1>2 DEF Keeps
<1>6. ASSUME NEW b \in OwnedBy(r)
      PROVE  b[2] \in Leaky \/ \E u \in DOMAIN Reaped(p) : b = Reaped(p)[u]
  <2>1. CASE b \in {r.pgd} \cup r.tables
    BY <1>1, <1>2, <2>1 DEF Keeps, Allocated, Leaky
  <2>2. CASE b = r.kstack \/ b \in Range(r.areas)
    BY <1>4, <2>2 DEF Range
  <2> QED
    BY <1>1, <1>2, <2>1, <2>2 DEF OwnedBy
<1> QED
  BY <1>4, <1>5, <1>6 DEF r

LEMMA ReapStep ==
    ASSUME ProcInv, kill_zombies
    PROVE  ProcInv'
<1> DEFINE D == UNION {{p} \X DOMAIN Reaped(p) : p \in Zombies}
           f == [b \in D |-> Reaped(b[1])[b[2]]]
<1>1. kfree(f) /\ cut' = cut /\ threads' = [p \in Pid |-> IF p \in Zombies THEN Unused ELSE threads[p]]
  BY DEF kill_zombies
<1>2. ASSUME NEW x \in D PROVE x = <<x[1], x[2]>> /\ x[1] \in Zombies /\ x[2] \in DOMAIN Reaped(x[1])
  BY <1>2
<1>3. ASSUME NEW p \in Zombies, NEW u \in DOMAIN Reaped(p)
      PROVE  <<p, u>> \in D /\ f[<<p, u>>] = Reaped(p)[u]
  <2>1. <<p, u>> \in {p} \X DOMAIN Reaped(p)
    OBVIOUS
  <2> QED
    BY <2>1
<1>4. ASSUME NEW x \in D PROVE Allocated(f[x], x[1], x[2], heap) /\ f[x][1] = x[1] /\ f[x][2] = x[2]
  <2>1. Allocated(f[x], x[1], x[2], heap)
    BY <1>2, ReapedBlocks
  <2> QED
    BY <2>1 DEF Allocated
<1>5. DOMAIN f = D
  OBVIOUS
<1> HIDE DEF D, f
<1>6. Range(f) \subseteq heap /\ \A b \in Range(f) : b[1] \in Zombies
  BY <1>2, <1>4, <1>5 DEF Range, Allocated
<1>7. IsInjective(f)
  BY <1>2, <1>4, <1>5 DEF IsInjective
<1>8. heap' = heap \ Range(f) /\ kernel' = kernel
  BY <1>1, <1>6, <1>7 DEF kfree
<1>9. Unused \in ThreadType /\ Unused.state = "unused"
  <2>1. <<>> \in [{} -> Block]
    OBVIOUS
  <2>2. <<>> \in AreaMap
    BY <2>1, AreasOf
  <2> QED
    BY <2>2 DEF Unused, ThreadType
<1>10. threads' \in [Pid -> ThreadType]
  BY <1>1, <1>9, ThreadFields
<1>11. ASSUME NEW q \in Pid PROVE Keeps(q, threads'[q], heap')
  <2>1. CASE q \in Zombies
    BY <1>1, <1>9, <2>1 DEF Keeps
  <2>2. CASE q \notin Zombies
    <3>1. ASSUME NEW b, NEW u, Allocated(b, q, u, heap) PROVE Allocated(b, q, u, heap')
      <4>1. b \in heap /\ b[1] = q
        BY <3>1 DEF Allocated
      <4> QED
        BY <1>6, <1>8, <2>2, <3>1, <4>1 DEF Allocated
    <3>2. Keeps(q, threads[q], heap) /\ threads'[q] = threads[q]
      BY <1>1, <2>2, ThreadFields
    <3> QED
      BY <3>1, <3>2 DEF Keeps
  <2> QED
    BY <2>1, <2>2
<1>12. ASSUME NEW b \in heap', ~ Lost(b, cut') PROVE \E q \in Pid : b \in OwnedBy(threads'[q])
  <2>1. b \in heap /\ b \notin Range(f)
    BY <1>8
  <2>2. PICK q \in Pid : b \in OwnedBy(threads[q])
    BY <1>1, <1>12, <2>1 DEF ProcInv
  <2>3. q \notin Zombies
    <3> SUFFICES ASSUME q \in Zombies PROVE FALSE
      OBVIOUS
    <3>1. PICK u \in DOMAIN Reaped(q) : b = Reaped(q)[u]
      BY <1>12, <2>2, ReapedBlocks DEF Lost
    <3> QED
      BY <1>3, <1>5, <2>1, <3>1 DEF Range
  <2> QED
    BY <1>1, <2>2, <2>3
<1> QED
  BY <1>1, <1>8, <1>10, <1>11, <1>12 DEF ProcInv

LEMMA ProcNextInv ==
    ASSUME KillInExec = FALSE, ProcInv, [ProcNext]_procVars
    PROVE  ProcInv'
<1>1. ASSUME NEW p \in Pid, thread_exit(p) PROVE ProcInv'
  <2>1. /\ threads[p].fresh = None /\ threads[p] \in ThreadType /\ threads \in [Pid -> ThreadType]
        /\ threads[p].state # "unused" /\ ~ threads[p].exec
    BY <1>1 DEF thread_exit, CanCall, ProcInv
  <2>2. [threads[p] EXCEPT !.state = "zombie"] = [threads[p] EXCEPT !.state = "zombie", !.fresh = None]
    BY <2>1 DEF ThreadType
  <2>3. threads' = [threads EXCEPT ![p].state = "zombie", ![p].fresh = None]
    BY <1>1, <2>1, <2>2 DEF thread_exit
  <2>4. cut' = cut \cup ({threads[p].fresh} \ {None}) /\ UNCHANGED <<heap, kernel>>
    BY <1>1, <2>1 DEF thread_exit
  <2> QED
    BY <2>1, <2>3, <2>4, ZombieStep
<1>2. ASSUME NEW p \in Pid, sys_kill_pid(p) PROVE ProcInv'
  BY <1>2, ZombieStep DEF sys_kill_pid
<1>3. ASSUME NEW p \in Pid, ExecMissing(p) PROVE ProcInv'
  BY <1>3 DEF ExecMissing, ProcInv
<1>4. ASSUME UNCHANGED procVars PROVE ProcInv'
  BY <1>4 DEF procVars, ProcInv
<1> QED
  BY <1>1, <1>2, <1>3, <1>4, ForkStep, MmapStep, LinkStep, MappingStep, ExecStep, ExecFreeStep, ExecNewStep,
     ReapStep DEF ProcNext

\* If no thread is killed inside exec, the inductive invariant holds, for any
\* number of threads and any sequence of fork, exec, mmap, exit and kill.
THEOREM ProcInvariantHolds ==
    ASSUME KillInExec = FALSE
    PROVE  ProcSpec => []ProcInv
<1>1. ProcInit => ProcInv
  BY InitProcInv
<1>2. ProcInv /\ [ProcNext]_procVars => ProcInv'
  BY ProcNextInv
<1> QED
  BY <1>1, <1>2, PTL DEF ProcSpec

\* exec and kill_zombies free each block once, and only blocks of kmalloc.
THEOREM FreesSound ==
    ASSUME KillInExec = FALSE
    PROVE  ProcSpec => []NoBadFree
<1>1. ProcInv => NoBadFree
  BY DEF ProcInv, NoBadFree
<1> QED
  BY <1>1, ProcInvariantHolds, PTL

\* The memory of a thread is allocated, and no other thread uses it.
THEOREM MemoryOwned ==
    ASSUME KillInExec = FALSE
    PROVE  ProcSpec => []OwnersDisjoint
<1>1. ProcInv => OwnersDisjoint
  BY OwnedNamed, OwnedIsOwnedBy DEF ProcInv, OwnersDisjoint
<1> QED
  BY <1>1, ProcInvariantHolds, PTL

\* Kernel stacks, areas on a list and file information are all given back: a
\* block that nobody owns is a page table, a page directory, a child's spare
\* memory or that of an mmap which a kill has cut off.
THEOREM LeaksKnown ==
    ASSUME KillInExec = FALSE
    PROVE  ProcSpec => []OnlyKnownLeaks
<1>1. ProcInv => OnlyKnownLeaks
  BY OwnedIsOwnedBy DEF ProcInv, OnlyKnownLeaks, Leaky, Lost
<1> QED
  BY <1>1, ProcInvariantHolds, PTL

=============================================================================
