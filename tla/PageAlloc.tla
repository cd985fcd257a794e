------------------------------ MODULE PageAlloc ------------------------------
(***************************************************************************)
(* The buddy page allocator of lib/malloc.c: init_allocator, reserve_page, *)
(* alloc_page with split_frame, free_page with combine_page.               *)
(*                                                                         *)
(* A frame index is the set of its one bits, so that idx ^ (1 << k) is     *)
(* Flip(idx, k) and the frames that share all bits from k up are the       *)
(* aligned group of 2^k frames around one of them.  The frames of one      *)
(* maximal block differ in the bits below MAXORDER only.                   *)
(*                                                                         *)
(* Each pass through a loop of the code is a step of its own; pc says      *)
(* which loop runs, and no other call starts before it ends (the callers   *)
(* that interrupt one another are the subject of other modules).           *)
(***************************************************************************)
EXTENDS Integers, SequencesExt

CONSTANTS
    MAXORDER,   \* the largest order, 6 in include/malloc.h
    MaxBlocks,  \* first frames of the maximal blocks, in the order in which
                \* init_allocator's list_add calls leave them on the list
    BootMem,    \* what a frame field that nobody has written may hold
    Regions,    \* the sets of frames init_allocator reserves, in call order
    Requests    \* the sizes, in pages, that callers ask alloc_page for

ASSUME PageAssumption ==
    /\ MAXORDER \in Nat \ {0}
    /\ MaxBlocks \in Seq(SUBSET (Nat \ 0 .. (MAXORDER - 1)))
    /\ IsInjective(MaxBlocks)
    /\ BootMem \subseteq Nat
    /\ Regions \in Seq(SUBSET (SUBSET Nat))
    /\ Requests \subseteq Nat \ {0}

VARIABLES
    val,        \* frame -> val: the order of the block the frame heads
    used,       \* frame -> used
    free_list,  \* order -> the frames on free_list[order], first one first
    reserved,   \* the frames reserve_page has taken off the lists
    req,        \* frame -> pages its holder asked alloc_page for, 0 if none
    pc,         \* the loop that is running, "idle" between calls
    cur,        \* target_frame of the running alloc_page or free_page
    arg,        \* alloc_page: size in pages, order val, loop variable j
    rsv         \* reserve_page: region, loop variable val, entries passed

vars == <<val, used, free_list, reserved, req, pc, cur, arg, rsv>>

-----------------------------------------------------------------------------
(* Frames and aligned groups.                                              *)

Order == 0 .. MAXORDER
Bit == 0 .. (MAXORDER - 1)
Frame == {b \cup o : b \in ToSet(MaxBlocks), o \in SUBSET Bit}

Flip(f, k) == IF k \in f THEN f \ {k} ELSE f \cup {k}

\* The index without its bits below k, (idx >> k) << k.
Above(f, k) == {b \in f : b >= k}

Group(f, k) == {g \in Frame : Above(g, k) = Above(f, k)}

\* The 2^k frames from index f on, which is what alloc_page returns: frames of
\* f's group from f up, and frames of the next group whose index is less than
\* f's in the bits below k.  It is the group exactly when f is its first frame.
LowBefore(g, f, k) ==
    \E b \in f \ g : b < k /\ \A c \in g \ f : c < k => c < b

NextGroup(g, f, k) ==
    \E m \in g : /\ m >= k
                 /\ Above(f, k) = Above(f, m + 1) \cup k .. (m - 1)
                 /\ Above(g, k) = Above(f, m + 1) \cup {m}

PageRange(f, k) ==
    {g \in Frame : IF Above(g, k) = Above(f, k) THEN ~ LowBefore(g, f, k)
                   ELSE NextGroup(g, f, k) /\ LowBefore(g, f, k)}

get_buddy(f) == Flip(f, val[f])

list_del_entry(l, f) ==
    IF f \in ToSet(l) THEN RemoveAt(l, CHOOSE i \in DOMAIN l : l[i] = f) ELSE l

-----------------------------------------------------------------------------
(* init_allocator up to its reserve_page calls.                            *)

Init ==
    /\ \E mem \in [Frame -> BootMem] :
        val = [f \in Frame |-> IF f \in ToSet(MaxBlocks) THEN MAXORDER ELSE mem[f]]
    /\ \E mem \in [Frame -> BootMem] :
        used = [f \in Frame |-> IF f \in ToSet(MaxBlocks) THEN 0 ELSE mem[f]]
    /\ free_list = [v \in Order |-> IF v = MAXORDER THEN MaxBlocks ELSE <<>>]
    /\ reserved = {}
    /\ req = [f \in Frame |-> 0]
    /\ pc = "reserve"
    /\ cur = {}
    /\ arg = [pages |-> 0, val |-> 0, j |-> 0]
    /\ rsv = [region |-> 1, val |-> MAXORDER, passed |-> 0]

-----------------------------------------------------------------------------
(* reserve_page: every order from MAXORDER down, every entry of its list.  *)

RsvList == free_list[rsv.val]
RsvEntry == RsvList[rsv.passed + 1]
RsvAtEntry == pc = "reserve" /\ rsv.region <= Len(Regions) /\ rsv.passed < Len(RsvList)
RsvBlock == Group(RsvEntry, rsv.val)

\* The whole block is in the region: take it off the list.
ReserveTake ==
    /\ RsvAtEntry
    /\ RsvBlock \subseteq Regions[rsv.region]
    /\ used' = [used EXCEPT ![RsvEntry] = 1]
    /\ reserved' = reserved \cup {RsvEntry}
    /\ free_list' = [free_list EXCEPT ![rsv.val] = RemoveAt(@, rsv.passed + 1)]
    /\ UNCHANGED <<val, req, pc, cur, arg, rsv>>

\* The block has no frame in the region: go on.
ReservePass ==
    /\ RsvAtEntry
    /\ ~ RsvBlock \subseteq Regions[rsv.region]
    /\ RsvBlock \cap Regions[rsv.region] = {}
    /\ rsv' = [rsv EXCEPT !.passed = @ + 1]
    /\ UNCHANGED <<val, used, free_list, reserved, req, pc, cur, arg>>

\* Otherwise split it and put both halves on the next list down.
ReserveSplit ==
    /\ RsvAtEntry
    /\ ~ RsvBlock \subseteq Regions[rsv.region]
    /\ RsvBlock \cap Regions[rsv.region] # {}
    /\ LET f == RsvEntry
           half == val[f] - 1
           buddy == Flip(f, half)
       IN  /\ val' = [val EXCEPT ![f] = half, ![buddy] = half]
           /\ used' = [used EXCEPT ![buddy] = 0]
           /\ free_list' =
                [free_list EXCEPT ![rsv.val] = RemoveAt(@, rsv.passed + 1),
                                  ![half] = <<buddy>> \o @,
                                  ![rsv.val - 1] = <<f>> \o @]
    /\ UNCHANGED <<reserved, req, pc, cur, arg, rsv>>

\* Mutant: the loop starts over with the same region.
ReserveNext_again ==
    /\ pc = "reserve"
    /\ rsv.region <= Len(Regions)
    /\ rsv.passed >= Len(RsvList)
    /\ rsv' = [rsv EXCEPT !.val = IF @ > 0 THEN @ - 1 ELSE MAXORDER, !.passed = 0]
    /\ UNCHANGED <<val, used, free_list, reserved, req, pc, cur, arg>>

\* The list is done: the next order down, or the next region.
ReserveNext ==
    /\ pc = "reserve"
    /\ rsv.region <= Len(Regions)
    /\ rsv.passed >= Len(RsvList)
    /\ rsv' = IF rsv.val > 0
              THEN [rsv EXCEPT !.val = @ - 1, !.passed = 0]
              ELSE [region |-> rsv.region + 1, val |-> MAXORDER, passed |-> 0]
    /\ UNCHANGED <<val, used, free_list, reserved, req, pc, cur, arg>>

ReserveDone ==
    /\ pc = "reserve"
    /\ rsv.region > Len(Regions)
    /\ pc' = "idle"
    /\ UNCHANGED <<val, used, free_list, reserved, req, cur, arg, rsv>>

-----------------------------------------------------------------------------
(* alloc_page.                                                             *)

\* Mutant: the last order that is not too large.
OrderFor_floor(pages, v) == 2^v <= pages /\ \A w \in Order : w > v => pages < 2^w

\* v is the order computed from the size: the first one that is large enough,
\* or 0 when none is, since the loop then leaves val at its initial 0.
OrderFor(pages, v) ==
    \/ pages <= 2^v /\ \A w \in Order : w < v => pages > 2^w
    \/ v = 0 /\ \A w \in Order : pages > 2^w

\* The smallest order from v up whose list has an entry.
CanUse(v, c) ==
    /\ c \in Order
    /\ v <= c
    /\ free_list[c] # <<>>
    /\ \A w \in Order : v <= w /\ w < c => free_list[w] = <<>>

AllocPage(pages) ==
    /\ pc = "idle"
    /\ \E v, c \in Order :
        /\ OrderFor(pages, v)
        /\ CanUse(v, c)
        /\ cur' = Head(free_list[c])
        /\ free_list' = [free_list EXCEPT ![c] = Tail(@)]
        /\ arg' = [pages |-> pages, val |-> v, j |-> c]
    /\ pc' = "split"
    /\ UNCHANGED <<val, used, reserved, req, rsv>>

\* No order has an entry: the code reports it and then reads
\* free_list[MAXORDER + 1], whose outcome is not modelled further.
AllocPageExhausted(pages) ==
    /\ pc = "idle"
    /\ \E v \in Order : OrderFor(pages, v) /\ \A c \in Order : ~ CanUse(v, c)
    /\ pc' = "wild"
    /\ UNCHANGED <<val, used, free_list, reserved, req, cur, arg, rsv>>

\* Mutant: the buddy is listed under the order the frame had before.
SplitFrame_oldlist ==
    /\ pc = "split"
    /\ arg.j > arg.val
    /\ LET half == val[cur] - 1
           buddy == Flip(cur, half)
       IN  /\ val' = [val EXCEPT ![cur] = half, ![buddy] = half]
           /\ used' = [used EXCEPT ![buddy] = 0]
           /\ free_list' = [free_list EXCEPT ![val[cur]] = <<buddy>> \o @]
    /\ arg' = [arg EXCEPT !.j = @ - 1]
    /\ UNCHANGED <<reserved, req, pc, cur, rsv>>

\* One pass of the loop: split_frame keeps the frame and lists its buddy.
SplitFrame ==
    /\ pc = "split"
    /\ arg.j > arg.val
    /\ LET half == val[cur] - 1
           buddy == Flip(cur, half)
       IN  /\ val' = [val EXCEPT ![cur] = half, ![buddy] = half]
           /\ used' = [used EXCEPT ![buddy] = 0]
           /\ free_list' = [free_list EXCEPT ![half] = <<buddy>> \o @]
    /\ arg' = [arg EXCEPT !.j = @ - 1]
    /\ UNCHANGED <<reserved, req, pc, cur, rsv>>

AllocPageReturn ==
    /\ pc = "split"
    /\ arg.j <= arg.val
    /\ used' = [used EXCEPT ![cur] = 1]
    /\ req' = [req EXCEPT ![cur] = arg.pages]
    /\ pc' = "idle"
    /\ UNCHANGED <<val, free_list, reserved, cur, arg, rsv>>

-----------------------------------------------------------------------------
(* free_page.                                                              *)

\* Mutant: the frame stays marked used.
FreePage_used(f) ==
    /\ pc = "idle"
    /\ req[f] # 0
    /\ req' = [req EXCEPT ![f] = 0]
    /\ cur' = f
    /\ pc' = "combine"
    /\ UNCHANGED <<val, used, free_list, reserved, arg, rsv>>

\* A holder gives its block back; the combine loop starts.
FreePage(f) ==
    /\ pc = "idle"
    /\ req[f] # 0
    /\ used' = [used EXCEPT ![f] = 0]
    /\ req' = [req EXCEPT ![f] = 0]
    /\ cur' = f
    /\ pc' = "combine"
    /\ UNCHANGED <<val, free_list, reserved, arg, rsv>>

\* Mutant: a buddy that is in use will do.
CanCombine_used == val[cur] # MAXORDER /\ val[get_buddy(cur)] = val[cur]

CanCombine ==
    /\ val[cur] # MAXORDER
    /\ val[get_buddy(cur)] = val[cur]
    /\ used[get_buddy(cur)] # 1

\* Mutant: the buddy stays on its list.
CombinePage_linked ==
    /\ pc = "combine"
    /\ CanCombine
    /\ val' = [val EXCEPT ![cur] = @ + 1]
    /\ UNCHANGED <<used, free_list, reserved, req, pc, cur, arg, rsv>>

\* Mutant: the buddy's order grows with the frame's.
CombinePage_both ==
    /\ pc = "combine"
    /\ CanCombine
    /\ free_list' = [v \in Order |-> list_del_entry(free_list[v], get_buddy(cur))]
    /\ val' = [val EXCEPT ![cur] = @ + 1, ![get_buddy(cur)] = @ + 1]
    /\ UNCHANGED <<used, reserved, req, pc, cur, arg, rsv>>

\* combine_page returned 0: the buddy leaves its list, the frame's order grows.
CombinePage ==
    /\ pc = "combine"
    /\ CanCombine
    /\ free_list' = [v \in Order |-> list_del_entry(free_list[v], get_buddy(cur))]
    /\ val' = [val EXCEPT ![cur] = @ + 1]
    /\ UNCHANGED <<used, reserved, req, pc, cur, arg, rsv>>

\* combine_page returned -1: list the frame.
FreePageReturn ==
    /\ pc = "combine"
    /\ ~ CanCombine
    /\ free_list' = [free_list EXCEPT ![val[cur]] = <<cur>> \o @]
    /\ pc' = "idle"
    /\ UNCHANGED <<val, used, reserved, req, cur, arg, rsv>>

-----------------------------------------------------------------------------
Next ==
    \/ ReserveTake
    \/ ReservePass
    \/ ReserveSplit
    \/ ReserveNext
    \/ ReserveDone
    \/ \E pages \in Requests : AllocPage(pages) \/ AllocPageExhausted(pages)
    \/ SplitFrame
    \/ AllocPageReturn
    \/ \E f \in Frame : FreePage(f)
    \/ CombinePage
    \/ FreePageReturn

Spec == Init /\ [][Next]_vars

\* The loops run to their end: nothing else is scheduled inside a call.
LoopStep ==
    \/ ReserveTake \/ ReservePass \/ ReserveSplit \/ ReserveNext \/ ReserveDone
    \/ SplitFrame \/ AllocPageReturn
    \/ CombinePage \/ FreePageReturn

FairSpec == Spec /\ WF_vars(LoopStep)

-----------------------------------------------------------------------------
(* Properties.                                                             *)

FreeFrames == UNION {ToSet(free_list[v]) : v \in Order}
Owned == {f \in Frame : req[f] # 0}
InHand == IF pc \in {"split", "combine"} THEN {cur} ELSE {}

\* The frames that head a block: listed, handed out, reserved, or in the
\* hands of the running call.
Heads == FreeFrames \cup Owned \cup reserved \cup InHand

Block(f) == Group(f, val[f])

\* The head is the first frame of its block.  CombinePage breaks this when the
\* half that is freed last is the upper one.
InPlace(f) == f = Above(f, val[f])

\* The frames a caller gets from alloc_page, and those reserve_page keeps.
OutRanges == {PageRange(f, val[f]) : f \in {g \in Owned : InPlace(g)}}
KeptRanges == {PageRange(f, val[f]) : f \in reserved}

\* Every variable has its type (the frames, lists and loop variables of
\* lib/malloc.c).
TypeOK ==
    /\ val \in [Frame -> Nat]
    /\ used \in [Frame -> Nat]
    /\ free_list \in [Order -> Seq(Frame)]
    /\ reserved \subseteq Frame
    /\ req \in [Frame -> Nat]
    /\ pc \in {"reserve", "idle", "split", "combine", "wild"}
    /\ pc \in {"split", "combine"} => cur \in Frame
    /\ arg \in [pages : Nat, val : Order, j : Order]
    /\ rsv \in [region : Nat \ {0}, val : Order, passed : Nat]

\* A frame is on free_list[v] at most once, only if v is its val, and only
\* while it is not used: alloc_page splits the entry of free_list[canuse_val]
\* canuse_val - val times and relies on the entry's val being canuse_val, and
\* combine_page unlinks a buddy it only knows by its val and used fields.
FreeListsSound ==
    \A v \in Order :
        /\ IsInjective(free_list[v])
        /\ \A f \in ToSet(free_list[v]) : val[f] = v /\ used[f] = 0

\* A frame is marked used exactly while a caller or a reservation holds it:
\* the frames on the lists, in the running call, and inside merged blocks
\* are not (combine_page takes used = 0 for "on a list").
UsedMeansHeld ==
    /\ \A f \in Frame : used[f] = 1 <=> f \in Owned \cup reserved
    /\ Owned \cap reserved = {}
    /\ InHand \cap (FreeFrames \cup Owned \cup reserved) = {}

\* The blocks of the heads cover every frame once: no frame is in two blocks
\* and none is lost, whatever was split and combined.  (This is about the
\* blocks; the pages a caller is told to use are PageRange's.)
BlocksPartition ==
    /\ \A f, g \in Heads : f # g => Block(f) \cap Block(g) = {}
    /\ \A f \in Frame : \E h \in Heads : f \in Block(h)

\* The val left in a frame that no longer heads a block (combine_page never
\* resets the buddy's) is 0 or the lowest bit in which the frame differs from
\* its head: it never equals the order of a block whose buddy the frame seems
\* to be, so combine_page cannot merge with a block that is not free.
StaleOrders ==
    \A h \in Heads : \A f \in Block(h) \ Heads :
        \/ val[f] = 0
        \/ /\ val[f] \in f <=> val[f] \notin h
           /\ \A b \in 0 .. (val[f] - 1) : b \in f <=> b \in h

\* The block a caller holds is of the smallest order that has the pages it
\* asked for, whichever list it was split from: alloc_page's loop over val and
\* its split_frame calls agree.  Sizes beyond the largest order are left out:
\* the loop gives them order 0 (see OrderFor).
HeldFits ==
    \A f \in Owned : req[f] <= 2^MAXORDER =>
        /\ req[f] <= 2^val[f]
        /\ val[f] = 0 \/ 2^(val[f] - 1) < req[f]

\* For the callers whose block starts at its first frame it is a pool of
\* frames: whatever is split and combined, the pages alloc_page returns to one
\* of them are in no other one's and in no reserved region until they are
\* freed.  A block that was merged under the index of its upper half is left
\* out: the pages returned for it do run into other blocks (HeldRangesDisjoint
\* of MCPageAlloc, a finding), so every overlap involves such a block.
Pool == INSTANCE PagePool WITH kept <- KeptRanges, out <- OutRanges

PoolKept == Pool!Spec

\* Every call returns: the reserve, split and combine loops end.
CallsReturn == pc \in {"reserve", "split", "combine"} ~> pc = "idle"

=============================================================================
