------------------------------ MODULE BinAlloc ------------------------------
(***************************************************************************)
(* kmalloc and kfree of lib/malloc.c: small objects are slots ("bins") of  *)
(* a page, larger ones are blocks of pages.                                *)
(*                                                                         *)
(* A page has Units units of the smallest slot, and a slot of class c has  *)
(* 2^c of them.  The page allocator below (module PageAlloc) is reduced to *)
(* the set of pages it may hand out.                                       *)
(*                                                                         *)
(* No function here takes lock(), and threads run them with interrupts on: *)
(* a call can be overtaken by another thread's or by an interrupt handler's*)
(* between any two of its steps.  A call that changes a list, or the page  *)
(* allocator's lists, while another one is in the middle of doing so may   *)
(* leave them torn.  wild records that, and the other moments from which on*)
(* the code's outcome is undefined; the model then stops.                  *)
(***************************************************************************)
EXTENDS Integers, SequencesExt

CONSTANTS
    Page,           \* the pages of the page allocator
    MAXBINORDER,    \* the largest slot class, 4 in include/malloc.h
    Units,          \* smallest slots in a page, 128 in the code
    Actor           \* threads and interrupt handlers that allocate

ASSUME BinAssumption ==
    /\ MAXBINORDER \in Nat
    /\ Units \in Nat \ {0}
    /\ \A c \in 0 .. MAXBINORDER : 2^c \in 1 .. (Units - 1) /\ Units % 2^c = 0

VARIABLES
    pages,          \* pages alloc_page may return
    bin_val,        \* frames[].bin_val: page -> class, -1 if never split
    bin_list,       \* class -> the free slots, first one first
    held,           \* the objects in use
    call,           \* actor -> its running kmalloc or kfree
    wild            \* memory in use, or a torn list, has been handed out

binVars == <<pages, bin_val, bin_list, held, call, wild>>

-----------------------------------------------------------------------------
Class == 0 .. MAXBINORDER

\* An object that is a block of pages has class -1.
PageClass == -1

Slot(p, o) == [page |-> p, off |-> o]

\* An object: its address, its class and the pages it lies on.
SlotObject(s, c) == [page |-> s.page, off |-> s.off, class |-> c, area |-> {s.page}]
PageObject(p, B) == [page |-> p, off |-> 0, class |-> PageClass, area |-> B]

NoCall == [pc |-> "none"]

\* The units an object covers on the pages it lies on.
Extent(x) == IF x.class = PageClass THEN 0 .. (Units - 1)
             ELSE x.off .. (x.off + 2^x.class - 1)

\* Mutant: the slots are spaced by the smallest size.
Bins_dense(p, c) == [i \in 1 .. Units |-> Slot(p, Units - i)]

\* The slots of a page in the order in which from_page_get_bins leaves them on
\* the list: each is added in front, so the one at the start comes last.
Bins(p, c) == [i \in 1 .. (Units \div 2^c) |-> Slot(p, Units - i * 2^c)]

BinInit ==
    /\ pages = Page
    /\ bin_val = [p \in Page |-> -1]
    /\ bin_list = [c \in Class |-> <<>>]
    /\ held = {}
    /\ call = [a \in Actor |-> NoCall]
    /\ wild = FALSE

-----------------------------------------------------------------------------
(* Calls that overtake one another.                                        *)

\* b is in the middle of linking or unlinking on the list of class c, or in
\* the middle of alloc_page or free_page.
OnList(b, c) ==
    \/ call[b].pc \in {"refill", "unlink"} /\ call[b].class = c
    \/ call[b].pc = "link" /\ bin_val[call[b].obj.page] = c
OnPages(b) == call[b].pc \in {"refill", "pages", "release"}

ListBusy(a, c) == \E b \in Actor \ {a} : OnList(b, c)
PagesBusy(a) == \E b \in Actor \ {a} : OnPages(b)

\* A change that may have gone wrong did so, or not.
Torn(risk) == IF risk THEN BOOLEAN ELSE {FALSE}

\* Slots on the page are listed, or part of it is in use.
Live(p) ==
    \/ \E c \in Class : \E s \in ToSet(bin_list[c]) : s.page = p
    \/ \E x \in held : p \in x.area

-----------------------------------------------------------------------------
(* kmalloc of a small size.                                                *)

\* alloc_bin up to its test of the list.
AllocBin(a, c) ==
    /\ call[a] = NoCall
    /\ call' = [call EXCEPT ![a] =
                  [pc |-> IF bin_list[c] = <<>> THEN "refill" ELSE "read", class |-> c]]
    /\ UNCHANGED <<pages, bin_val, bin_list, held, wild>>

\* The list was empty: from_page_get_bins takes a page and lists its slots.
\* The page may be one that kfree gave back with slots on it (KfreePage).
FromPageGetBins(a) ==
    /\ call[a].pc = "refill"
    /\ LET c == call[a].class
       IN  \E p \in pages :
            /\ pages' = pages \ {p}
            /\ bin_val' = [bin_val EXCEPT ![p] = c]
            /\ bin_list' = [bin_list EXCEPT ![c] = Bins(p, c) \o @]
            /\ wild' \in IF Live(p) THEN {TRUE} ELSE Torn(PagesBusy(a) \/ ListBusy(a, c))
            /\ call' = [call EXCEPT ![a] = [pc |-> "read", class |-> c]]
    /\ UNCHANGED held

\* Read the first slot.  If others have emptied the list since the test, the
\* code reads the list head itself.
AllocBinRead(a) ==
    /\ call[a].pc = "read"
    /\ LET slots == bin_list[call[a].class]
       IN  IF slots = <<>>
           THEN wild' = TRUE /\ UNCHANGED call
           ELSE /\ call' = [call EXCEPT ![a] = [pc |-> "unlink", class |-> call[a].class,
                                                 bin |-> Head(slots)]]
                /\ UNCHANGED wild
    /\ UNCHANGED <<pages, bin_val, bin_list, held>>

\* Mutant: the slot stays on the list.
Unlinked_not(slots, s) == slots

\* list_del_entry of the slot.
Unlinked(slots, s) == RemoveFirst(slots, s)

\* Unlink the slot that was read and return it.  If another call took it in
\* the meantime, both have it now.
AllocBinUnlink(a) ==
    /\ call[a].pc = "unlink"
    /\ LET c == call[a].class
           s == call[a].bin
       IN  /\ bin_list' = [bin_list EXCEPT ![c] = Unlinked(@, s)]
           /\ held' = held \cup {SlotObject(s, c)}
           /\ wild' \in IF s \in ToSet(bin_list[c]) THEN Torn(ListBusy(a, c)) ELSE {TRUE}
    /\ call' = [call EXCEPT ![a] = NoCall]
    /\ UNCHANGED <<pages, bin_val>>

-----------------------------------------------------------------------------
(* kmalloc of more than the largest slot.                                  *)

KmallocPages(a) ==
    /\ call[a] = NoCall
    /\ call' = [call EXCEPT ![a] = [pc |-> "pages"]]
    /\ UNCHANGED <<pages, bin_val, bin_list, held, wild>>

\* alloc_page gives a block of one or more pages.  A block of several may be
\* one that free_page merged under the index of its upper half: its address
\* is then not the block's (InPlace in PageAlloc).
AllocPages(a) ==
    /\ call[a].pc = "pages"
    /\ \E B \in SUBSET pages : \E p \in B :
        /\ pages' = pages \ B
        /\ held' = held \cup {PageObject(p, B)}
        /\ wild' \in IF \E q \in B : Live(q) THEN {TRUE} ELSE Torn(PagesBusy(a) \/ B # {p})
    /\ call' = [call EXCEPT ![a] = NoCall]
    /\ UNCHANGED <<bin_val, bin_list>>

\* There is no page, or no block that is large enough (AllocPageExhausted in
\* PageAlloc).
OutOfPages(a) ==
    /\ call[a].pc = "pages" \/ (call[a].pc = "refill" /\ pages = {})
    /\ wild' = TRUE
    /\ UNCHANGED <<pages, bin_val, bin_list, held, call>>

-----------------------------------------------------------------------------
(* kfree.                                                                  *)

\* What kfree takes for a slot: it does not start a page, and the page's
\* bin_val, which no free_page resets, is set.
IsBin(x) == x.off # 0 /\ bin_val[x.page] # -1

\* The callers free an object once.
BeingFreed(x) == \E b \in Actor : call[b].pc \in {"link", "release"} /\ call[b].obj = x

Kfree(a, x) ==
    /\ call[a] = NoCall
    /\ ~ BeingFreed(x)
    /\ call' = [call EXCEPT ![a] = [pc |-> IF IsBin(x) THEN "link" ELSE "release", obj |-> x]]
    /\ UNCHANGED <<pages, bin_val, bin_list, held, wild>>

\* Mutant: the list is replaced by the slot.
Added_lost(slots, s) == <<s>>

\* list_add of the slot.
Added(slots, s) == <<s>> \o slots

\* free_bin: back to the list of the page's class.
KfreeBin(a) ==
    /\ call[a].pc = "link"
    /\ LET x == call[a].obj
           c == bin_val[x.page]
       IN  /\ bin_list' = [bin_list EXCEPT ![c] = Added(@, Slot(x.page, x.off))]
           /\ held' = held \ {x}
           /\ wild' \in Torn(ListBusy(a, c))
    /\ call' = [call EXCEPT ![a] = NoCall]
    /\ UNCHANGED <<pages, bin_val>>

\* free_page: back to the page allocator.  A slot at the start of its page is
\* taken for a page, and the page goes back with all the slots on it.
KfreePage(a) ==
    /\ call[a].pc = "release"
    /\ LET x == call[a].obj
       IN  /\ pages' = pages \cup x.area
           /\ held' = held \ {x}
    /\ wild' \in Torn(PagesBusy(a))
    /\ call' = [call EXCEPT ![a] = NoCall]
    /\ UNCHANGED <<bin_val, bin_list>>

-----------------------------------------------------------------------------
BinStep(a) ==
    \/ \E c \in Class : AllocBin(a, c)
    \/ FromPageGetBins(a)
    \/ AllocBinRead(a)
    \/ AllocBinUnlink(a)
    \/ KmallocPages(a)
    \/ AllocPages(a)
    \/ OutOfPages(a)
    \/ \E x \in held : Kfree(a, x)
    \/ KfreeBin(a)
    \/ KfreePage(a)

BinNext == ~ wild /\ \E a \in Actor : BinStep(a)

BinSpec == BinInit /\ [][BinNext]_binVars

-----------------------------------------------------------------------------
(* Properties.                                                             *)

InList(s, c) == s \in ToSet(bin_list[c])

\* No two objects in use share a byte, whoever interrupted whom and whatever
\* was freed, until one of the moments wild names: alloc_bin, from_page_get_bins
\* and kfree have no other way to hand out memory twice.
HeldDisjoint ==
    ~ wild => \A x, y \in held :
        x # y /\ x.area \cap y.area # {} => Extent(x) \cap Extent(y) = {}

\* A slot on a list is free: it is listed once, on the list of the class its
\* page is split into, and no object covers it, also after kfree has given its
\* page back to the page allocator.
FreeSlotsFree ==
    ~ wild => \A c \in Class :
        /\ IsInjective(bin_list[c])
        /\ \A s \in ToSet(bin_list[c]) :
            /\ bin_val[s.page] = c
            /\ \A x \in held : s.page \in x.area => s.off \notin Extent(x)

\* Nothing is lost: a page that was never split is free or part of an object,
\* and every slot of one that was is on its list or in use, except a first slot
\* that went back with its page.
NoSlotLost ==
    ~ wild => \A p \in Page :
        IF bin_val[p] = -1 THEN p \in pages \/ \E x \in held : p \in x.area
        ELSE \A s \in ToSet(Bins(p, bin_val[p])) :
                \/ InList(s, bin_val[p])
                \/ \E x \in held : x.page = p /\ x.off = s.off
                \/ s.off = 0 /\ p \in pages

=============================================================================
