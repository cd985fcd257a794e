---------------------------- MODULE MallocProofs ----------------------------
(***************************************************************************)
(* The two layers of malloc.c, each for every size of memory and every     *)
(* sequence of calls and interrupts.                                       *)
(***************************************************************************)
EXTENDS PageAlloc, BinAlloc, ListLemmas

-----------------------------------------------------------------------------
(***************************************************************************)
(* alloc_page and free_page: the bookkeeping is a partition of the frames, *)
(* for every MAXORDER, memory size and reservation, if the frame table     *)
(* starts out zeroed.                                                      *)
(***************************************************************************)

(* Bits of a frame index.                                                  *)

\* A frame index, taken as the set of its one bits, holds bit numbers only.
LEMMA FrameBits ==
    ASSUME NEW f \in Frame
    PROVE  f \subseteq Nat
<1>1. PICK m \in ToSet(MaxBlocks), o \in SUBSET Bit : f = m \cup o
  BY DEF Frame
<1>2. m \in SUBSET (Nat \ 0 .. (MAXORDER - 1))
  BY PageAssumption, ToSetType
<1>3. Bit \subseteq Nat
  BY PageAssumption DEF Bit
<1> QED
  BY <1>1, <1>2, <1>3

\* idx ^ (1 << k) differs from idx in bit k and nowhere else.
LEMMA FlipBits ==
    ASSUME NEW f, NEW k, NEW b
    PROVE  b \in Flip(f, k) <=> IF b = k THEN b \notin f ELSE b \in f
BY DEF Flip

\* get_buddy stays inside the frame table.
LEMMA FlipFrame ==
    ASSUME NEW f \in Frame, NEW k \in Bit
    PROVE  Flip(f, k) \in Frame
<1>1. PICK m \in ToSet(MaxBlocks), o \in SUBSET Bit : f = m \cup o
  BY DEF Frame
<1>2. k \notin m
  <2>1. m \in SUBSET (Nat \ 0 .. (MAXORDER - 1))
    BY PageAssumption, ToSetType
  <2> QED
    BY <2>1 DEF Bit
<1>3. Flip(f, k) = m \cup Flip(o, k) /\ Flip(o, k) \in SUBSET Bit
  BY <1>1, <1>2 DEF Flip
<1> QED
  BY <1>3 DEF Frame

\* Two frames are in one aligned group of 2^k exactly if they share the bits
\* from k up.
LEMMA GroupBits ==
    ASSUME NEW f \in Frame, NEW k \in Nat, NEW g
    PROVE  g \in Group(f, k) <=>
             g \in Frame /\ \A b \in Nat : b >= k => (b \in g <=> b \in f)
<1>1. f \subseteq Nat
  BY FrameBits
<1>2. ASSUME g \in Frame, \A b \in Nat : b >= k => (b \in g <=> b \in f)
      PROVE  Above(g, k) = Above(f, k)
  <2>1. g \subseteq Nat
    BY <1>2, FrameBits
  <2> QED
    BY <1>1, <1>2, <2>1 DEF Above
<1>3. ASSUME g \in Frame, Above(g, k) = Above(f, k), NEW b \in Nat, b >= k
      PROVE  b \in g <=> b \in f
  BY <1>3 DEF Above
<1> QED
  BY <1>2, <1>3 DEF Group

\* A frame lies in the aligned group around it.
LEMMA GroupSelf ==
    ASSUME NEW f \in Frame, NEW k
    PROVE  f \in Group(f, k)
BY DEF Group

\* A group of one frame.
LEMMA GroupZero ==
    ASSUME NEW f \in Frame
    PROVE  Group(f, 0) = {f}
<1>1. ASSUME NEW g \in Group(f, 0) PROVE g = f
  <2>1. g \subseteq Nat /\ f \subseteq Nat
    BY FrameBits DEF Group
  <2>2. \A b \in Nat : b \in g <=> b \in f
    BY GroupBits
  <2> QED
    BY <2>1, <2>2
<1> QED
  BY <1>1, GroupSelf

\* Splitting: the group of 2^(k+1) frames is the frame's group of 2^k and,
\* apart from it, its buddy's.
LEMMA GroupHalves ==
    ASSUME NEW f \in Frame, NEW k \in Bit
    PROVE  /\ Group(f, k + 1) = Group(f, k) \cup Group(Flip(f, k), k)
           /\ Group(f, k) \cap Group(Flip(f, k), k) = {}
<1>1. k \in Nat /\ k + 1 \in Nat /\ Flip(f, k) \in Frame
  BY PageAssumption, FlipFrame DEF Bit
<1>2. ASSUME NEW g \in Frame
      PROVE  /\ g \in Group(f, k + 1) <=> \A b \in Nat : b >= k + 1 => (b \in g <=> b \in f)
             /\ g \in Group(f, k) <=> \A b \in Nat : b >= k => (b \in g <=> b \in f)
             /\ g \in Group(Flip(f, k), k) <=>
                  \A b \in Nat : b >= k => (b \in g <=> b \in Flip(f, k))
  BY <1>1, GroupBits
<1>3. \A b : b \in Flip(f, k) <=> IF b = k THEN b \notin f ELSE b \in f
  BY FlipBits
<1>4. ASSUME NEW g \in Frame
      PROVE  /\ g \in Group(f, k + 1) <=> g \in Group(f, k) \/ g \in Group(Flip(f, k), k)
             /\ ~ (g \in Group(f, k) /\ g \in Group(Flip(f, k), k))
  <2>1. \A b \in Nat : b >= k <=> b = k \/ b >= k + 1
    BY <1>1
  <2> QED
    BY <1>1, <1>2, <1>3, <2>1
<1>5. \A h, j : Group(h, j) \subseteq Frame
  BY DEF Group
<1> QED
  BY <1>4, <1>5

\* A frame's buddy in bit k lies in every group of more than 2^k frames
\* around a frame that shares that group.
LEMMA GroupFlip ==
    ASSUME NEW h \in Frame, NEW f \in Frame, NEW n \in Nat, NEW k \in Bit,
           k < n, Flip(f, k) \in Group(h, n)
    PROVE  f \in Group(h, n)
<1>1. \A b \in Nat : b >= n => (b \in Flip(f, k) <=> b \in h)
  BY GroupBits
<1>2. \A b \in Nat : b >= n => (b \in f <=> b \in h)
  BY <1>1, FlipBits, PageAssumption DEF Bit
<1> QED
  BY <1>2, GroupBits

-----------------------------------------------------------------------------
(* The inductive invariant.                                                *)

\* What the running call relies on: a head's val is an order, the frame in
\* hand is not marked used, and alloc_page's loop variable is its val.
CallSound ==
    /\ \A h \in Heads : val[h] \in Order
    /\ pc \in {"split", "combine"} => used[cur] = 0
    /\ pc = "split" => arg.pages # 0 /\ val[cur] = arg.j

IInv ==
    /\ TypeOK
    /\ FreeListsSound
    /\ UsedMeansHeld
    /\ BlocksPartition
    /\ StaleOrders
    /\ CallSound

\* The heads of blocks are frames of the table.
LEMMA HeadsAreFrames ==
    ASSUME TypeOK
    PROVE  Heads \subseteq Frame /\ FreeFrames \subseteq Frame
<1>1. FreeFrames \subseteq Frame
  <2>1. \A v \in Order : ToSet(free_list[v]) \subseteq Frame
    BY ToSetType DEF TypeOK
  <2> QED
    BY <2>1 DEF FreeFrames
<1> QED
  BY <1>1 DEF TypeOK, Heads, Owned, InHand

\* A listed frame is on the list of its val and on no other.
LEMMA ListedAtVal ==
    ASSUME TypeOK, FreeListsSound, NEW f
    PROVE  /\ f \in FreeFrames <=>
                f \in Frame /\ val[f] \in Order /\ f \in ToSet(free_list[val[f]])
           /\ \A v \in Order : f \in ToSet(free_list[v]) =>
                f \in FreeFrames /\ val[f] = v /\ used[f] = 0
<1>1. FreeFrames \subseteq Frame
  BY HeadsAreFrames
<1> QED
  BY <1>1 DEF FreeFrames, FreeListsSound

\* Steps that hand a block from one holder to another change no block.
LEMMA SameHeads ==
    ASSUME BlocksPartition, StaleOrders, Heads' = Heads, val' = val
    PROVE  BlocksPartition' /\ StaleOrders'
BY DEF BlocksPartition, StaleOrders, Block

\* split_frame: the block of a head falls into the head's half and the half
\* of its buddy, which was no head before; the vals left in the frames of the
\* buddy's half are as good for the buddy as they were for the head.
LEMMA SplitHead ==
    ASSUME TypeOK, BlocksPartition, StaleOrders, CallSound,
           NEW f \in Heads, NEW half \in Bit, val[f] = half + 1,
           val' = [val EXCEPT ![f] = half, ![Flip(f, half)] = half],
           Heads' = Heads \cup {Flip(f, half)}
    PROVE  /\ BlocksPartition'
           /\ StaleOrders'
           /\ \A h \in Heads' : val'[h] \in Order
<1> DEFINE b == Flip(f, half)
<1>1. f \in Frame /\ b \in Frame /\ b # f
  <2>1. f \in Frame
    BY HeadsAreFrames
  <2> QED
    BY <2>1, FlipFrame, FlipBits
<1>2. half \in Nat /\ half \in Order /\ half + 1 \in Nat
  BY PageAssumption DEF Bit, Order
<1>3. /\ Block(f) = Group(f, half) \cup Group(b, half)
      /\ Group(f, half) \cap Group(b, half) = {}
  BY <1>1, GroupHalves DEF Block
<1>4. b \notin Heads
  <2>1. b \in Block(f)
    BY <1>1, <1>3, GroupSelf
  <2>2. b \in Heads => b \in Block(b)
    BY <1>1, GroupSelf DEF Block
  <2> QED
    BY <2>1, <2>2, <1>1 DEF BlocksPartition
<1>5. /\ val'[f] = half /\ val'[b] = half
      /\ \A h \in Frame \ {f, b} : val'[h] = val[h]
  BY <1>1 DEF TypeOK
<1>6. /\ Block(f)' = Group(f, half)
      /\ Block(b)' = Group(b, half)
      /\ \A h \in Heads \ {f} : Block(h)' = Block(h)
  BY <1>5, <1>4, HeadsAreFrames DEF Block
<1>7. BlocksPartition'
  <2>1. ASSUME NEW g \in Heads', NEW h \in Heads', g # h
        PROVE  Block(g)' \cap Block(h)' = {}
    <3>1. \A j, k \in Heads : j # k => Block(j) \cap Block(k) = {}
      BY DEF BlocksPartition
    <3> QED
      BY <2>1, <3>1, <1>3, <1>4, <1>6
  <2>2. ASSUME NEW g \in Frame PROVE \E h \in Heads' : g \in Block(h)'
    <3>1. PICK h \in Heads : g \in Block(h)
      BY DEF BlocksPartition
    <3> QED
      BY <3>1, <1>3, <1>6
  <2> QED
    BY <2>1, <2>2 DEF BlocksPartition
<1>8. StaleOrders'
  <2> SUFFICES ASSUME NEW h \in Heads', NEW g \in Block(h)', g \notin Heads', val'[g] # 0
               PROVE  /\ val'[g] \in g <=> val'[g] \notin h
                      /\ \A i \in 0 .. (val'[g] - 1) : i \in g <=> i \in h
    BY DEF StaleOrders
  <2>1. g \in Frame /\ g \notin Heads /\ g # b /\ g # f /\ val'[g] = val[g] /\ val[g] \in Nat
    <3>1. g \in Frame
      BY DEF Block, Group
    <3> QED
      BY <3>1, <1>5 DEF TypeOK
  <2>2. CASE h # b
    <3>1. h \in Heads /\ g \in Block(h)
      BY <2>2, <1>3, <1>6
    <3> QED
      BY <3>1, <2>1 DEF StaleOrders
  <2>3. CASE h = b
    <3>1. g \in Block(f) /\ g \in Group(b, half)
      BY <2>3, <1>3, <1>6
    <3> DEFINE w == val[g]
    <3>2. /\ w \in g <=> w \notin f
          /\ \A i \in 0 .. (w - 1) : i \in g <=> i \in f
      BY <3>1, <2>1 DEF StaleOrders
    <3>3. \A i \in Nat : i >= half => (i \in g <=> i \in b)
      BY <3>1, <1>1, <1>2, GroupBits
    <3>4. \A i : i \in b <=> IF i = half THEN i \notin f ELSE i \in f
      BY FlipBits
    <3>5. w < half
      <4>1. ~ w > half
        BY <3>2, <3>3, <3>4, <2>1, <1>2
      <4>2. w # half
        <5> SUFFICES ASSUME w = half PROVE FALSE
          OBVIOUS
        <5>1. \A i \in Nat : i < half => (i \in g <=> i \in b)
          BY <3>2, <3>4, <1>2
        <5>2. g \subseteq Nat /\ b \subseteq Nat
          BY <2>1, <1>1, FrameBits
        <5>3. \A i \in Nat : i < half \/ i >= half
          BY <1>2
        <5>4. g = b
          BY <5>1, <5>2, <5>3, <3>3
        <5> QED
          BY <5>4, <2>1
      <4> QED
        BY <4>1, <4>2, <1>2, <2>1
    <3>6. \A i \in 0 .. w : i \in b <=> i \in f
      BY <3>4, <3>5, <1>2, <2>1
    <3>7. w \in 0 .. w /\ \A i \in 0 .. (w - 1) : i \in 0 .. w
      BY <2>1
    <3> QED
      BY <3>2, <3>6, <3>7, <2>1, <2>3
  <2> QED
    BY <2>2, <2>3
<1>9. \A h \in Heads' : val'[h] \in Order
  BY <1>5, <1>2, HeadsAreFrames DEF CallSound
<1> QED
  BY <1>7, <1>8, <1>9

\* split_frame's buddy is a frame of the block that heads none.
LEMMA SplitBuddy ==
    ASSUME TypeOK, BlocksPartition,
           NEW f \in Heads, NEW half \in Bit, val[f] = half + 1
    PROVE  /\ Flip(f, half) \in Frame
           /\ Flip(f, half) \notin Heads
           /\ Flip(f, half) # f
<1> DEFINE b == Flip(f, half)
<1>1. f \in Frame
  BY HeadsAreFrames
<1>2. b \in Frame /\ b # f
  BY <1>1, FlipFrame, FlipBits
<1>3. b \in Block(f)
  BY <1>1, <1>2, GroupHalves, GroupSelf DEF Block
<1>4. b \in Block(b)
  BY <1>2, GroupSelf DEF Block
<1> QED
  BY <1>2, <1>3, <1>4 DEF BlocksPartition

-----------------------------------------------------------------------------
(* One lemma per operation.                                                *)

\* init_allocator: on a zeroed frame table the maximal blocks partition the
\* frames and every other frame holds val 0.
LEMMA InitInv ==
    ASSUME BootMem = {0}, Init
    PROVE  IInv
<1>1. ToSet(MaxBlocks) \subseteq Frame
  <2>1. ASSUME NEW m \in ToSet(MaxBlocks) PROVE m \in Frame
    <3>1. \A o \in SUBSET Bit : m \cup o \in Frame
      BY DEF Frame
    <3>2. {} \in SUBSET Bit /\ m \cup {} = m
      OBVIOUS
    <3> QED
      BY <3>1, <3>2
  <2> QED
    BY <2>1
<1>2. /\ val = [f \in Frame |-> IF f \in ToSet(MaxBlocks) THEN MAXORDER ELSE 0]
      /\ used = [f \in Frame |-> 0]
  BY DEF Init
<1>3. MAXORDER \in Order /\ MAXORDER \in Nat /\ 0 \in Order
  BY PageAssumption DEF Order
<1>4. TypeOK
  <2>1. MaxBlocks \in Seq(Frame)
    <3>1. \A i \in 1 .. Len(MaxBlocks) : MaxBlocks[i] \in Frame
      BY <1>1, PageAssumption, ToSetType
    <3> QED
      BY <3>1, PageAssumption
  <2>2. free_list \in [Order -> Seq(Frame)]
    BY <2>1 DEF Init
  <2> QED
    BY <1>2, <1>3, <2>2, PageAssumption DEF Init, TypeOK
<1>5. FreeFrames = ToSet(MaxBlocks)
  <2>1. ToSet(<<>>) = {}
    BY DEF ToSet
  <2>2. /\ ToSet(free_list[MAXORDER]) = ToSet(MaxBlocks)
        /\ \A v \in Order \ {MAXORDER} : ToSet(free_list[v]) = {}
    BY <1>3, <2>1 DEF Init
  <2> QED
    BY <1>3, <2>2 DEF FreeFrames
<1>6. Owned = {} /\ InHand = {} /\ reserved = {} /\ Heads = ToSet(MaxBlocks)
  BY <1>5 DEF Init, Owned, InHand, Heads
<1>7. FreeListsSound
  <2>1. IsInjective(<<>>) /\ ToSet(<<>>) = {}
    BY DEF IsInjective, ToSet
  <2> QED
    BY <1>1, <1>2, <2>1, PageAssumption DEF Init, FreeListsSound
<1>8. UsedMeansHeld
  BY <1>2, <1>6 DEF UsedMeansHeld
<1>9. BlocksPartition
  <2>1. \A h \in Heads : h \in Frame /\ Block(h) = Group(h, MAXORDER)
    BY <1>1, <1>2, <1>6 DEF Block
  <2>2. ASSUME NEW m \in ToSet(MaxBlocks), NEW n \in ToSet(MaxBlocks),
               NEW o \in SUBSET Bit, Above(m \cup o, MAXORDER) = Above(n, MAXORDER)
        PROVE  m = n
    <3>1. m \in SUBSET (Nat \ 0 .. (MAXORDER - 1)) /\ n \in SUBSET (Nat \ 0 .. (MAXORDER - 1))
      BY PageAssumption, ToSetType
    <3>2. /\ \A x \in m : x >= MAXORDER
          /\ \A x \in n : x >= MAXORDER
          /\ \A x \in o : ~ x >= MAXORDER
      BY <3>1, <1>3 DEF Bit
    <3>3. Above(m \cup o, MAXORDER) = m /\ Above(n, MAXORDER) = n
      BY <3>2 DEF Above
    <3> QED
      BY <3>3, <2>2
  <2>3. ASSUME NEW m \in ToSet(MaxBlocks), NEW o \in SUBSET Bit
        PROVE  Above(m \cup o, MAXORDER) = Above(m, MAXORDER)
    <3>1. \A x \in o : ~ x >= MAXORDER
      BY <1>3 DEF Bit
    <3> QED
      BY <3>1 DEF Above
  <2>4. ASSUME NEW f \in Heads, NEW g \in Heads, NEW h \in Block(f), h \in Block(g)
        PROVE  f = g
    <3>1. h \in Frame /\ Above(h, MAXORDER) = Above(f, MAXORDER)
                      /\ Above(h, MAXORDER) = Above(g, MAXORDER)
      BY <2>4, <2>1 DEF Group
    <3>2. PICK m \in ToSet(MaxBlocks), o \in SUBSET Bit : h = m \cup o
      BY <3>1 DEF Frame
    <3> QED
      BY <3>1, <3>2, <2>2, <1>6
  <2>5. ASSUME NEW f \in Frame PROVE \E h \in Heads : f \in Block(h)
    <3>1. PICK m \in ToSet(MaxBlocks), o \in SUBSET Bit : f = m \cup o
      BY DEF Frame
    <3> QED
      BY <3>1, <2>3, <2>1, <1>6 DEF Group
  <2> QED
    BY <2>4, <2>5 DEF BlocksPartition
<1>10. StaleOrders
  BY <1>2, <1>6 DEF StaleOrders, Block, Group
<1>11. CallSound
  BY <1>1, <1>2, <1>3, <1>6 DEF CallSound, Init
<1> QED
  BY <1>4, <1>7, <1>8, <1>9, <1>10, <1>11 DEF IInv

\* The lists after list_del_entry of an entry of free_list[v].
LEMMA Unlink ==
    ASSUME TypeOK, FreeListsSound, NEW v \in Order,
           NEW i \in 1 .. Len(free_list[v]),
           free_list' = [free_list EXCEPT ![v] = RemoveAt(@, i)]
    PROVE  /\ free_list' \in [Order -> Seq(Frame)]
           /\ FreeFrames' = FreeFrames \ {free_list[v][i]}
           /\ \A w \in Order : /\ IsInjective(free_list'[w])
                               /\ ToSet(free_list'[w]) = ToSet(free_list[w]) \ {free_list[v][i]}
<1> DEFINE f == free_list[v][i]
<1>1. free_list[v] \in Seq(Frame) /\ IsInjective(free_list[v]) /\ f \in ToSet(free_list[v])
  BY ToSetType, SMTT(30) DEF TypeOK, FreeListsSound
<1>2. /\ RemoveAt(free_list[v], i) \in Seq(Frame)
      /\ ToSet(RemoveAt(free_list[v], i)) = ToSet(free_list[v]) \ {f}
      /\ IsInjective(RemoveAt(free_list[v], i))
  BY <1>1, RemoveEntry
<1>3. /\ free_list'[v] = RemoveAt(free_list[v], i)
      /\ \A w \in Order \ {v} : free_list'[w] = free_list[w]
  BY DEF TypeOK
<1>4. \A w \in Order \ {v} : f \notin ToSet(free_list[w])
  BY <1>1, ListedAtVal
<1>5. \A w \in Order : /\ IsInjective(free_list'[w])
                       /\ ToSet(free_list'[w]) = ToSet(free_list[w]) \ {f}
  BY <1>2, <1>3, <1>4 DEF FreeListsSound
<1>6. FreeFrames' = FreeFrames \ {f}
  <2> HIDE DEF f
  <2>1. FreeFrames' = UNION {ToSet(free_list'[w]) : w \in Order}
    BY DEF FreeFrames
  <2>2. FreeFrames' = UNION {ToSet(free_list[w]) \ {f} : w \in Order}
    BY <2>1, <1>5
  <2> QED
    BY <2>2 DEF FreeFrames
<1>7. free_list' \in [Order -> Seq(Frame)]
  BY <1>2 DEF TypeOK
<1> QED
  BY <1>5, <1>6, <1>7

\* reserve_page takes a block that lies in the region off its list.
LEMMA ReserveTakeInv ==
    ASSUME IInv, ReserveTake
    PROVE  IInv' /\ Heads' = Heads
<1> USE DEF IInv
<1> DEFINE f == RsvEntry
<1>1. /\ rsv.val \in Order
      /\ rsv.passed + 1 \in 1 .. Len(free_list[rsv.val])
      /\ f = free_list[rsv.val][rsv.passed + 1]
      /\ f \in ToSet(free_list[rsv.val])
  <2>1. /\ rsv.val \in Order /\ free_list[rsv.val] \in Seq(Frame)
        /\ rsv.passed \in Nat /\ rsv.passed < Len(free_list[rsv.val])
    BY DEF ReserveTake, RsvAtEntry, RsvList, TypeOK
  <2>2. rsv.passed + 1 \in 1 .. Len(free_list[rsv.val])
    BY <2>1
  <2> QED
    BY <2>1, <2>2, ToSetType DEF RsvEntry, RsvList
<1>2. f \in FreeFrames /\ f \in Frame /\ used[f] = 0
  BY <1>1, ListedAtVal, HeadsAreFrames
<1>3. free_list' = [free_list EXCEPT ![rsv.val] = RemoveAt(@, rsv.passed + 1)]
  BY DEF ReserveTake
<1>4. /\ free_list' \in [Order -> Seq(Frame)]
      /\ FreeFrames' = FreeFrames \ {f}
      /\ \A w \in Order : /\ IsInjective(free_list'[w])
                          /\ ToSet(free_list'[w]) = ToSet(free_list[w]) \ {f}
  BY <1>1, <1>3, Unlink
<1> HIDE DEF f
<1>5. /\ used' = [used EXCEPT ![f] = 1]
      /\ reserved' = reserved \cup {f}
      /\ UNCHANGED <<val, req, pc, cur, arg, rsv>>
  BY DEF ReserveTake, f
<1>6. TypeOK'
  BY <1>2, <1>4, <1>5 DEF TypeOK
<1>7. /\ Owned' = Owned /\ InHand' = InHand /\ InHand = {}
      /\ Heads' = Heads
  <2>1. Owned' = Owned /\ InHand' = InHand /\ InHand = {}
    BY <1>5 DEF Owned, InHand, ReserveTake, RsvAtEntry
  <2> QED
    BY <2>1, <1>2, <1>4, <1>5 DEF Heads
<1>8. FreeListsSound'
  BY <1>2, <1>4, <1>5 DEF FreeListsSound, TypeOK
<1>9. UsedMeansHeld'
  BY <1>2, <1>4, <1>5, <1>7 DEF UsedMeansHeld, TypeOK
<1>10. CallSound'
  BY <1>5, <1>7 DEF CallSound, ReserveTake, RsvAtEntry
<1> QED
  BY <1>5, <1>6, <1>7, <1>8, <1>9, <1>10, SameHeads

\* The lists after list_add of a frame to free_list[v].
LEMMA Link ==
    ASSUME NEW l \in [Order -> Seq(Frame)], \A w \in Order : IsInjective(l[w]),
           NEW v \in Order, NEW f \in Frame, f \notin ToSet(l[v])
    PROVE  /\ [l EXCEPT ![v] = <<f>> \o @] \in [Order -> Seq(Frame)]
           /\ \A w \in Order :
                /\ IsInjective([l EXCEPT ![v] = <<f>> \o @][w])
                /\ ToSet([l EXCEPT ![v] = <<f>> \o @][w]) =
                     IF w = v THEN ToSet(l[w]) \cup {f} ELSE ToSet(l[w])
<1>1. /\ <<f>> \o l[v] \in Seq(Frame)
      /\ ToSet(<<f>> \o l[v]) = ToSet(l[v]) \cup {f}
      /\ IsInjective(<<f>> \o l[v])
  <2>1. l[v] \in Seq(Frame) /\ IsInjective(l[v])
    OBVIOUS
  <2> QED
    BY <2>1, AddFirst
<1> QED
  BY <1>1

\* reserve_page splits a block that lies partly in the region.
LEMMA ReserveSplitInv ==
    ASSUME IInv, ReserveSplit
    PROVE  IInv' /\ Heads' = Heads \cup {Flip(RsvEntry, rsv.val - 1)}
<1> USE DEF IInv
<1> DEFINE f == RsvEntry
           v == rsv.val
           half == v - 1
           b == Flip(f, half)
<1>1. /\ v \in Order
      /\ rsv.passed + 1 \in 1 .. Len(free_list[v])
      /\ f = free_list[v][rsv.passed + 1]
      /\ f \in ToSet(free_list[v])
  <2>1. /\ rsv.val \in Order /\ free_list[rsv.val] \in Seq(Frame)
        /\ rsv.passed \in Nat /\ rsv.passed < Len(free_list[rsv.val])
    BY DEF ReserveSplit, RsvAtEntry, RsvList, TypeOK
  <2>2. rsv.passed + 1 \in 1 .. Len(free_list[rsv.val])
    BY <2>1
  <2> QED
    BY <2>1, <2>2, ToSetType DEF RsvEntry, RsvList
<1>2. f \in FreeFrames /\ f \in Frame /\ used[f] = 0 /\ val[f] = v
  BY <1>1, ListedAtVal, HeadsAreFrames
<1>3. half \in Bit /\ half \in Order /\ half # v /\ val[f] = half + 1
  <2>1. v # 0
    <3>1. v = 0 => RsvBlock = {f}
      BY <1>2, GroupZero DEF RsvBlock
    <3> QED
      BY <3>1 DEF ReserveSplit
  <2> QED
    BY <2>1, <1>1, <1>2, PageAssumption DEF Bit, Order
<1>4. f \in Heads
  BY <1>2 DEF Heads
<1>5. b \in Frame /\ b \notin Heads /\ b # f
  BY <1>3, <1>4, SplitBuddy
<1>6. /\ val' = [val EXCEPT ![f] = half, ![b] = half]
      /\ used' = [used EXCEPT ![b] = 0]
      /\ free_list' = [free_list EXCEPT ![v] = RemoveAt(@, rsv.passed + 1),
                                        ![half] = <<b>> \o @, ![half] = <<f>> \o @]
      /\ UNCHANGED <<reserved, req, pc, cur, arg, rsv>>
      /\ pc = "reserve"
  BY <1>2 DEF ReserveSplit, RsvAtEntry
<1> DEFINE l1 == [free_list EXCEPT ![v] = RemoveAt(@, rsv.passed + 1)]
           l2 == [l1 EXCEPT ![half] = <<b>> \o @]
           l3 == [l2 EXCEPT ![half] = <<f>> \o @]
<1> HIDE DEF f, v, half, b
<1>7. /\ l1 \in [Order -> Seq(Frame)]
      /\ \A w \in Order : /\ IsInjective(l1[w])
                          /\ ToSet(l1[w]) = ToSet(free_list[w]) \ {f}
  <2>1. free_list[v] \in Seq(Frame) /\ IsInjective(free_list[v])
    BY <1>1 DEF TypeOK, FreeListsSound
  <2>2. /\ RemoveAt(free_list[v], rsv.passed + 1) \in Seq(Frame)
        /\ ToSet(RemoveAt(free_list[v], rsv.passed + 1)) = ToSet(free_list[v]) \ {f}
        /\ IsInjective(RemoveAt(free_list[v], rsv.passed + 1))
    BY <1>1, <2>1, RemoveEntry
  <2>3. \A w \in Order \ {v} : f \notin ToSet(free_list[w])
    BY <1>1, ListedAtVal
  <2> QED
    BY <1>1, <2>2, <2>3, SMTT(30) DEF TypeOK, FreeListsSound
<1>8. \A w \in Order : b \notin ToSet(free_list[w])
  BY <1>5, ListedAtVal DEF Heads
<1> HIDE DEF l1
<1>9. /\ l2 \in [Order -> Seq(Frame)]
      /\ \A w \in Order : /\ IsInjective(l2[w])
                          /\ ToSet(l2[w]) = IF w = half THEN (ToSet(free_list[w]) \ {f}) \cup {b}
                                                        ELSE ToSet(free_list[w]) \ {f}
  <2>1. b \notin ToSet(l1[half])
    BY <1>3, <1>7, <1>8
  <2> QED
    BY <2>1, <1>3, <1>5, <1>7, Link
<1> HIDE DEF l2
<1>10. /\ l3 \in [Order -> Seq(Frame)]
       /\ \A w \in Order : /\ IsInjective(l3[w])
                           /\ ToSet(l3[w]) = IF w = half THEN ToSet(free_list[w]) \cup {f, b}
                                                         ELSE ToSet(free_list[w]) \ {f}
  <2>1. f \notin ToSet(l2[half])
    BY <1>3, <1>5, <1>9
  <2>2. /\ l3 \in [Order -> Seq(Frame)]
        /\ \A w \in Order : /\ IsInjective(l3[w])
                            /\ ToSet(l3[w]) = IF w = half THEN ToSet(l2[w]) \cup {f} ELSE ToSet(l2[w])
    <3>1. l2 \in [Order -> Seq(Frame)] /\ \A w \in Order : IsInjective(l2[w])
      BY <1>9
    <3> QED
      BY <3>1, <2>1, <1>2, <1>3, Link
  <2> QED
    BY <2>2, <1>3, <1>9
<1>11. free_list' = l3
  BY <1>1, <1>3, <1>6 DEF l1, l2, TypeOK
<1> HIDE DEF l3
<1>12. FreeFrames' = FreeFrames \cup {b}
  <2>1. ASSUME NEW g PROVE g \in FreeFrames' <=> g \in FreeFrames \/ g = b
    <3>1. g \in FreeFrames' <=> \E w \in Order : g \in ToSet(l3[w])
      BY <1>11 DEF FreeFrames
    <3>2. g \in FreeFrames <=> \E w \in Order : g \in ToSet(free_list[w])
      BY DEF FreeFrames
    <3> QED
      BY <3>1, <3>2, <1>2, <1>3, <1>10
  <2> QED
    BY <2>1
<1>13. /\ Owned' = Owned /\ InHand' = {} /\ InHand = {}
       /\ Heads' = Heads \cup {b}
  BY <1>6, <1>12 DEF Owned, InHand, Heads
<1>14. /\ val'[f] = half /\ val'[b] = half /\ used'[b] = 0
       /\ \A h \in Frame \ {f, b} : val'[h] = val[h]
       /\ \A h \in Frame \ {b} : used'[h] = used[h]
  BY <1>2, <1>5, <1>6 DEF TypeOK
<1>15. TypeOK'
  <2>1. half \in Nat
    BY <1>3, PageAssumption DEF Bit
  <2> QED
    BY <1>6, <1>10, <1>11, <2>1 DEF TypeOK
<1>16. FreeListsSound'
  <2> SUFFICES ASSUME NEW w \in Order
               PROVE  /\ IsInjective(free_list'[w])
                      /\ \A g \in ToSet(free_list'[w]) : val'[g] = w /\ used'[g] = 0
    BY DEF FreeListsSound
  <2>1. \A g \in ToSet(free_list[w]) : g \in Frame /\ val[g] = w /\ used[g] = 0 /\ g # b
    BY <1>8, ListedAtVal
  <2> QED
    BY <2>1, <1>2, <1>10, <1>11, <1>14
<1>17. UsedMeansHeld'
  BY <1>5, <1>6, <1>13, <1>14 DEF UsedMeansHeld, Heads
<1>18. BlocksPartition' /\ StaleOrders' /\ \A h \in Heads' : val'[h] \in Order
  BY <1>3, <1>4, <1>6, <1>13, SplitHead DEF b
<1>19. CallSound'
  BY <1>6, <1>18 DEF CallSound
<1>20. Heads' = Heads \cup {Flip(RsvEntry, rsv.val - 1)}
  BY <1>13 DEF b, half, v, f
<1> QED
  BY <1>15, <1>16, <1>17, <1>18, <1>19, <1>20

\* Steps of reserve_page's loops that touch no frame, and alloc_page when
\* nothing is free.
LEMMA ControlInv ==
    ASSUME IInv, UNCHANGED <<val, used, free_list, reserved, req, cur, arg>>,
           pc \in {"reserve", "idle"}, pc' \in {"reserve", "idle", "wild"},
           rsv' \in [region : Nat \ {0}, val : Order, passed : Nat]
    PROVE  IInv'
<1>1. /\ FreeFrames' = FreeFrames /\ Owned' = Owned /\ InHand' = InHand /\ InHand = {}
      /\ Heads' = Heads
  BY DEF FreeFrames, Owned, InHand, Heads
<1>2. TypeOK' /\ FreeListsSound'
  BY DEF IInv, TypeOK, FreeListsSound
<1>3. UsedMeansHeld'
  BY <1>1 DEF IInv, UsedMeansHeld
<1>4. CallSound'
  BY <1>1 DEF IInv, CallSound
<1> QED
  BY <1>1, <1>2, <1>3, <1>4, SameHeads DEF IInv

\* alloc_page unlinks the first block of the smallest order that serves.
LEMMA AllocPageInv ==
    ASSUME IInv, NEW asked \in Requests, AllocPage(asked)
    PROVE  IInv'
<1> USE DEF IInv
<1>1. PICK v \in Order, c \in Order :
        /\ CanUse(v, c)
        /\ cur' = Head(free_list[c])
        /\ free_list' = [free_list EXCEPT ![c] = Tail(@)]
        /\ arg' = [pages |-> asked, val |-> v, j |-> c]
  BY DEF AllocPage
<1>2. /\ pc = "idle" /\ pc' = "split"
      /\ UNCHANGED <<val, used, reserved, req, rsv>>
  BY DEF AllocPage
<1> DEFINE f == Head(free_list[c])
<1>3. /\ f \in ToSet(free_list[c])
      /\ Tail(free_list[c]) \in Seq(Frame)
      /\ ToSet(Tail(free_list[c])) = ToSet(free_list[c]) \ {f}
      /\ IsInjective(Tail(free_list[c]))
  <2>1. free_list[c] \in Seq(Frame) /\ IsInjective(free_list[c]) /\ free_list[c] # <<>>
    BY <1>1 DEF TypeOK, FreeListsSound, CanUse
  <2> QED
    BY <2>1, TakeFirst
<1> HIDE DEF f
<1>4. f \in FreeFrames /\ f \in Frame /\ used[f] = 0 /\ val[f] = c
  BY <1>3, ListedAtVal, HeadsAreFrames
<1>5. \A w \in Order : /\ IsInjective(free_list'[w])
                       /\ ToSet(free_list'[w]) = ToSet(free_list[w]) \ {f}
  <2>1. \A w \in Order \ {c} : f \notin ToSet(free_list[w])
    BY <1>3, ListedAtVal
  <2>2. /\ free_list'[c] = Tail(free_list[c])
        /\ \A w \in Order \ {c} : free_list'[w] = free_list[w]
    BY <1>1 DEF TypeOK
  <2> QED
    BY <1>3, <2>1, <2>2 DEF FreeListsSound
<1>6. FreeFrames' = FreeFrames \ {f}
  <2>1. FreeFrames' = UNION {ToSet(free_list[w]) \ {f} : w \in Order}
    BY <1>5 DEF FreeFrames
  <2> QED
    BY <2>1 DEF FreeFrames
<1>7. TypeOK'
  <2>1. asked \in Nat /\ arg' \in [pages : Nat, val : Order, j : Order]
    BY <1>1, PageAssumption
  <2>2. free_list' \in [Order -> Seq(Frame)]
    BY <1>1, <1>3 DEF TypeOK
  <2>3. cur' \in Frame
    BY <1>1, <1>4 DEF f
  <2> QED
    BY <1>2, <2>1, <2>2, <2>3 DEF TypeOK
<1>8. /\ Owned' = Owned /\ InHand = {} /\ InHand' = {f} /\ Heads' = Heads
  <2>1. Owned' = Owned /\ InHand = {} /\ InHand' = {f}
    BY <1>1, <1>2 DEF Owned, InHand, f
  <2> QED
    BY <2>1, <1>2, <1>4, <1>6 DEF Heads
<1>9. FreeListsSound'
  BY <1>2, <1>5 DEF FreeListsSound
<1>10. UsedMeansHeld'
  <2>1. f \notin Owned \cup reserved
    BY <1>4 DEF UsedMeansHeld
  <2> QED
    BY <2>1, <1>2, <1>6, <1>8 DEF UsedMeansHeld
<1>11. CallSound'
  <2>1. asked # 0
    BY PageAssumption
  <2>2. cur' = f /\ arg'.pages = asked /\ arg'.j = c
    BY <1>1 DEF f
  <2> QED
    BY <2>1, <2>2, <1>2, <1>4, <1>8 DEF CallSound
<1> QED
  BY <1>2, <1>7, <1>8, <1>9, <1>10, <1>11, SameHeads

\* One pass of the split loop of alloc_page.
LEMMA SplitFrameInv ==
    ASSUME IInv, SplitFrame
    PROVE  IInv'
<1> USE DEF IInv
<1> DEFINE half == val[cur] - 1
           b == Flip(cur, half)
<1>1. /\ cur \in Frame /\ cur \in Heads /\ InHand = {cur} /\ used[cur] = 0
      /\ val[cur] = arg.j /\ arg.j > arg.val /\ arg.j \in Order /\ arg.val \in Order
  BY DEF SplitFrame, TypeOK, CallSound, Heads, InHand
<1>2. half \in Bit /\ half \in Order /\ half \in Nat /\ val[cur] = half + 1 /\ half = arg.j - 1
  BY <1>1, PageAssumption DEF Bit, Order
<1>3. b \in Frame /\ b \notin Heads /\ b # cur
  BY <1>1, <1>2, SplitBuddy
<1>4. /\ val' = [val EXCEPT ![cur] = half, ![b] = half]
      /\ used' = [used EXCEPT ![b] = 0]
      /\ free_list' = [free_list EXCEPT ![half] = <<b>> \o @]
      /\ arg' = [arg EXCEPT !.j = @ - 1]
      /\ UNCHANGED <<reserved, req, pc, cur, rsv>>
      /\ pc = "split"
  BY DEF SplitFrame
<1> HIDE DEF half, b
<1>5. \A w \in Order : b \notin ToSet(free_list[w])
  BY <1>3, ListedAtVal DEF Heads
<1>6. /\ free_list' \in [Order -> Seq(Frame)]
      /\ \A w \in Order : /\ IsInjective(free_list'[w])
                          /\ ToSet(free_list'[w]) = IF w = half THEN ToSet(free_list[w]) \cup {b}
                                                                ELSE ToSet(free_list[w])
  <2>1. free_list \in [Order -> Seq(Frame)] /\ \A w \in Order : IsInjective(free_list[w])
    BY DEF TypeOK, FreeListsSound
  <2> QED
    BY <2>1, <1>2, <1>3, <1>4, <1>5, Link, ZenonT(30)
<1>7. FreeFrames' = FreeFrames \cup {b}
  <2>1. ASSUME NEW g PROVE g \in FreeFrames' <=> g \in FreeFrames \/ g = b
    <3>1. g \in FreeFrames' <=> \E w \in Order : g \in ToSet(free_list'[w])
      BY DEF FreeFrames
    <3>2. g \in FreeFrames <=> \E w \in Order : g \in ToSet(free_list[w])
      BY DEF FreeFrames
    <3> QED
      BY <3>1, <3>2, <1>2, <1>6
  <2> QED
    BY <2>1
<1>8. /\ Owned' = Owned /\ InHand' = {cur}
      /\ Heads' = Heads \cup {b}
  BY <1>1, <1>4, <1>7 DEF Owned, InHand, Heads
<1>9. /\ val'[cur] = half /\ val'[b] = half /\ used'[b] = 0
      /\ \A h \in Frame \ {cur, b} : val'[h] = val[h]
      /\ \A h \in Frame \ {b} : used'[h] = used[h]
  BY <1>1, <1>3, <1>4 DEF TypeOK
<1>10. arg' \in [pages : Nat, val : Order, j : Order] /\ arg'.j = half /\ arg'.pages = arg.pages
  BY <1>2, <1>4 DEF TypeOK
<1>11. TypeOK'
  BY <1>2, <1>4, <1>6, <1>10 DEF TypeOK
<1>12. cur \notin FreeFrames
  BY <1>1 DEF UsedMeansHeld
<1>13. FreeListsSound'
  <2> SUFFICES ASSUME NEW w \in Order
               PROVE  /\ IsInjective(free_list'[w])
                      /\ \A g \in ToSet(free_list'[w]) : val'[g] = w /\ used'[g] = 0
    BY DEF FreeListsSound
  <2>1. \A g \in ToSet(free_list[w]) : g \in Frame /\ val[g] = w /\ used[g] = 0 /\ g # b /\ g # cur
    BY <1>5, <1>12, ListedAtVal
  <2> QED
    BY <2>1, <1>6, <1>9
<1>14. UsedMeansHeld'
  BY <1>1, <1>3, <1>4, <1>7, <1>8, <1>9 DEF UsedMeansHeld, Heads
<1>15. BlocksPartition' /\ StaleOrders' /\ \A h \in Heads' : val'[h] \in Order
  BY <1>1, <1>2, <1>4, <1>8, SplitHead DEF b
<1>16. CallSound'
  BY <1>1, <1>3, <1>4, <1>9, <1>10, <1>15 DEF CallSound
<1> QED
  BY <1>11, <1>13, <1>14, <1>15, <1>16

\* alloc_page marks its block used and returns it.
LEMMA AllocPageReturnInv ==
    ASSUME IInv, AllocPageReturn
    PROVE  IInv'
<1> USE DEF IInv
<1>1. /\ cur \in Frame /\ InHand = {cur} /\ arg.pages \in Nat \ {0}
      /\ pc = "split" /\ pc' = "idle"
      /\ used' = [used EXCEPT ![cur] = 1]
      /\ req' = [req EXCEPT ![cur] = arg.pages]
      /\ UNCHANGED <<val, free_list, reserved, cur, arg, rsv>>
  BY DEF AllocPageReturn, TypeOK, CallSound, InHand
<1>2. /\ used'[cur] = 1 /\ \A h \in Frame \ {cur} : used'[h] = used[h]
      /\ req'[cur] = arg.pages /\ \A h \in Frame \ {cur} : req'[h] = req[h]
  BY <1>1 DEF TypeOK
<1>3. TypeOK'
  BY <1>1 DEF TypeOK
<1>4. /\ FreeFrames' = FreeFrames /\ Owned' = Owned \cup {cur} /\ InHand' = {}
      /\ Heads' = Heads
  <2>1. FreeFrames' = FreeFrames /\ InHand' = {}
    BY <1>1 DEF FreeFrames, InHand
  <2>2. Owned' = Owned \cup {cur}
    BY <1>1, <1>2 DEF Owned
  <2> QED
    BY <2>1, <2>2, <1>1 DEF Heads
<1>5. cur \notin FreeFrames \cup Owned \cup reserved
  BY <1>1 DEF UsedMeansHeld
<1>6. FreeListsSound'
  <2>1. \A w \in Order : \A g \in ToSet(free_list[w]) : g \in Frame /\ g # cur
    BY <1>5, ListedAtVal
  <2> QED
    BY <2>1, <1>1, <1>2 DEF FreeListsSound
<1>7. UsedMeansHeld'
  BY <1>1, <1>2, <1>4, <1>5 DEF UsedMeansHeld
<1>8. CallSound'
  BY <1>1, <1>4 DEF CallSound
<1> QED
  BY <1>1, <1>3, <1>4, <1>6, <1>7, <1>8, SameHeads

\* free_page takes the block back from its holder.
LEMMA FreePageInv ==
    ASSUME IInv, NEW f \in Frame, FreePage(f)
    PROVE  IInv'
<1> USE DEF IInv
<1>1. /\ f \in Owned /\ InHand = {}
      /\ pc = "idle" /\ pc' = "combine"
      /\ used' = [used EXCEPT ![f] = 0]
      /\ req' = [req EXCEPT ![f] = 0]
      /\ cur' = f
      /\ UNCHANGED <<val, free_list, reserved, arg, rsv>>
  BY DEF FreePage, Owned, InHand
<1>2. /\ used'[f] = 0 /\ \A h \in Frame \ {f} : used'[h] = used[h]
      /\ req'[f] = 0 /\ \A h \in Frame \ {f} : req'[h] = req[h]
  BY <1>1 DEF TypeOK
<1>3. TypeOK'
  BY <1>1 DEF TypeOK
<1>4. used[f] = 1 /\ f \notin reserved /\ f \notin FreeFrames
  <2>1. used[f] = 1 /\ f \notin reserved
    BY <1>1 DEF UsedMeansHeld
  <2> QED
    BY <2>1, ListedAtVal
<1>5. /\ FreeFrames' = FreeFrames /\ Owned' = Owned \ {f} /\ InHand' = {f}
      /\ Heads' = Heads
  <2>1. FreeFrames' = FreeFrames /\ InHand' = {f}
    BY <1>1 DEF FreeFrames, InHand
  <2>2. Owned' = Owned \ {f}
    BY <1>1, <1>2 DEF Owned
  <2> QED
    BY <2>1, <2>2, <1>1 DEF Heads
<1>6. FreeListsSound'
  <2>1. \A w \in Order : \A g \in ToSet(free_list[w]) : g \in Frame /\ g # f
    BY <1>4, ListedAtVal
  <2> QED
    BY <2>1, <1>1, <1>2 DEF FreeListsSound
<1>7. UsedMeansHeld'
  BY <1>1, <1>2, <1>4, <1>5 DEF UsedMeansHeld
<1>8. CallSound'
  BY <1>1, <1>2, <1>5 DEF CallSound
<1> QED
  BY <1>1, <1>3, <1>5, <1>6, <1>7, <1>8, SameHeads

\* The buddy that combine_page finds by its val and used fields is on
\* free_list[val]: the val left in a frame that heads no block (StaleOrders)
\* never lets it pass for the buddy of a block in hand.
LEMMA BuddyListed ==
    ASSUME IInv, pc = "combine", CanCombine
    PROVE  /\ val[cur] \in Bit
           /\ get_buddy(cur) \in Frame
           /\ get_buddy(cur) # cur
           /\ get_buddy(cur) \in FreeFrames
<1> USE DEF IInv
<1> DEFINE v == val[cur]
           b == get_buddy(cur)
<1>1. cur \in Frame /\ cur \in Heads /\ InHand = {cur} /\ v \in Order
  BY DEF TypeOK, CallSound, Heads, InHand
<1>2. v \in Bit /\ v \in Nat
  BY <1>1, PageAssumption DEF CanCombine, Bit, Order
<1>3. b \in Frame /\ b # cur /\ b = Flip(cur, v)
  BY <1>1, <1>2, FlipFrame, FlipBits DEF get_buddy
<1>4. val[b] = v /\ used[b] # 1
  BY DEF CanCombine
<1> HIDE DEF b
<1>5. ASSUME b \in Heads PROVE b \in FreeFrames
  BY <1>5, <1>1, <1>3, <1>4 DEF Heads, UsedMeansHeld
<1>6. ASSUME b \notin Heads PROVE FALSE
  <2>1. PICK h \in Heads : b \in Block(h)
    BY <1>3 DEF BlocksPartition
  <2>2. h \in Frame /\ val[h] \in Nat /\ h # b
    <3>1. h \in Frame
      BY HeadsAreFrames
    <3> QED
      BY <3>1, <1>6 DEF TypeOK
  <2>3. h # cur
    <3>1. v \in b <=> v \notin cur
      BY <1>3, FlipBits
    <3>2. b \notin Block(cur)
      BY <3>1, <1>1, <1>2, GroupBits DEF Block
    <3> QED
      BY <3>2, <2>1
  <2>4. ~ v < val[h]
    <3>1. v < val[h] => cur \in Block(h)
      BY <1>1, <1>2, <1>3, <2>1, <2>2, GroupFlip DEF Block
    <3>2. cur \in Block(cur)
      BY <1>1, GroupSelf DEF Block
    <3> QED
      BY <3>1, <3>2, <2>3, <1>1 DEF BlocksPartition
  <2>5. v # 0
    <3>1. val[h] # 0
      BY <2>1, <2>2, GroupZero DEF Block
    <3> QED
      BY <3>1, <2>2, <2>4
  <2>6. v \in b <=> v \notin h
    BY <2>1, <2>5, <1>4, <1>6 DEF StaleOrders
  <2>7. v >= val[h] => (v \in b <=> v \in h)
    BY <2>1, <2>2, <1>2, GroupBits DEF Block
  <2> QED
    BY <2>2, <2>4, <2>6, <2>7, <1>2
<1> QED
  BY <1>2, <1>3, <1>5, <1>6 DEF b

\* combine_page merges the block in hand with its buddy, which BuddyListed
\* shows to be a free block of the same order.
LEMMA CombinePageInv ==
    ASSUME IInv, CombinePage
    PROVE  IInv'
<1> USE DEF IInv
<1> DEFINE v == val[cur]
           b == get_buddy(cur)
<1>1. /\ cur \in Frame /\ cur \in Heads /\ InHand = {cur} /\ used[cur] = 0
      /\ pc = "combine" /\ CanCombine
      /\ free_list' = [w \in Order |-> list_del_entry(free_list[w], b)]
      /\ val' = [val EXCEPT ![cur] = @ + 1]
      /\ UNCHANGED <<used, reserved, req, pc, cur, arg, rsv>>
  BY DEF CombinePage, TypeOK, CallSound, Heads, InHand
<1>2. v \in Bit /\ v \in Nat /\ v + 1 \in Nat /\ v + 1 \in Order
  BY <1>1, BuddyListed, PageAssumption DEF Bit, Order
<1>3. b \in Frame /\ b # cur /\ b \in FreeFrames /\ b \in Heads
  BY <1>1, BuddyListed DEF Heads
<1>4. b = Flip(cur, v) /\ val[b] = v
  BY <1>1 DEF get_buddy, CanCombine
<1> HIDE DEF b
<1>5. ASSUME NEW w \in Order
      PROVE  /\ free_list'[w] \in Seq(Frame)
             /\ IsInjective(free_list'[w])
             /\ ToSet(free_list'[w]) = ToSet(free_list[w]) \ {b}
  <2>1. /\ free_list[w] \in Seq(Frame) /\ IsInjective(free_list[w])
        /\ free_list'[w] = list_del_entry(free_list[w], b)
    BY <1>1 DEF TypeOK, FreeListsSound
  <2>2. CASE b \notin ToSet(free_list[w])
    BY <2>1, <2>2 DEF list_del_entry
  <2>3. CASE b \in ToSet(free_list[w])
    <3> DEFINE i == CHOOSE i \in DOMAIN free_list[w] : free_list[w][i] = b
    <3>1. \E j \in DOMAIN free_list[w] : free_list[w][j] = b
      BY <2>3 DEF ToSet
    <3>2. i \in 1 .. Len(free_list[w]) /\ free_list[w][i] = b
      BY <3>1, <2>1
    <3>3. free_list'[w] = RemoveAt(free_list[w], i)
      BY <2>1, <2>3 DEF list_del_entry
    <3> HIDE DEF i
    <3>4. /\ RemoveAt(free_list[w], i) \in Seq(Frame)
          /\ ToSet(RemoveAt(free_list[w], i)) = ToSet(free_list[w]) \ {free_list[w][i]}
          /\ IsInjective(RemoveAt(free_list[w], i))
      BY <3>2, <2>1, RemoveEntry
    <3> QED
      BY <3>2, <3>3, <3>4
  <2> QED
    BY <2>2, <2>3
<1>6. FreeFrames' = FreeFrames \ {b}
  <2>1. FreeFrames' = UNION {ToSet(free_list[w]) \ {b} : w \in Order}
    BY <1>5 DEF FreeFrames
  <2> QED
    BY <2>1 DEF FreeFrames
<1>7. b \notin Owned \cup reserved
  BY <1>3, ListedAtVal DEF UsedMeansHeld
<1>8. Owned' = Owned /\ InHand' = {cur} /\ Heads' = Heads \ {b}
  <2>1. Owned' = Owned /\ InHand' = {cur}
    BY <1>1 DEF Owned, InHand
  <2> QED
    BY <2>1, <1>1, <1>3, <1>6, <1>7 DEF Heads
<1>9. val'[cur] = v + 1 /\ \A h \in Frame \ {cur} : val'[h] = val[h]
  BY <1>1 DEF TypeOK
<1>10. TypeOK'
  <2>1. free_list' \in [Order -> Seq(Frame)]
    BY <1>1, <1>5
  <2> QED
    BY <2>1, <1>1, <1>2 DEF TypeOK
<1>11. FreeListsSound'
  <2> SUFFICES ASSUME NEW w \in Order
               PROVE  /\ IsInjective(free_list'[w])
                      /\ \A g \in ToSet(free_list'[w]) : val'[g] = w /\ used'[g] = 0
    BY DEF FreeListsSound
  <2>1. cur \notin FreeFrames
    BY <1>1 DEF UsedMeansHeld
  <2>2. \A g \in ToSet(free_list[w]) : g \in Frame /\ val[g] = w /\ used[g] = 0 /\ g # cur
    BY <2>1, ListedAtVal
  <2> QED
    BY <2>2, <1>1, <1>5, <1>9
<1>12. UsedMeansHeld'
  BY <1>1, <1>6, <1>8 DEF UsedMeansHeld
<1>13. /\ Block(cur)' = Block(cur) \cup Block(b)
       /\ \A h \in Heads \ {cur} : Block(h)' = Block(h)
  <2>1. Group(cur, v + 1) = Group(cur, v) \cup Group(b, v)
    BY <1>1, <1>2, <1>4, GroupHalves
  <2>2. Block(cur)' = Group(cur, v + 1) /\ Block(cur) = Group(cur, v) /\ Block(b) = Group(b, v)
    BY <1>1, <1>4, <1>9 DEF Block
  <2>3. \A h \in Heads \ {cur} : h \in Frame /\ val'[h] = val[h]
    BY <1>9, HeadsAreFrames
  <2>4. \A h \in Heads \ {cur} : Block(h)' = Block(h)
    BY <2>3 DEF Block
  <2> QED
    BY <2>1, <2>2, <2>4
<1>14. BlocksPartition'
  <2>1. ASSUME NEW g \in Heads', NEW h \in Heads', g # h
        PROVE  Block(g)' \cap Block(h)' = {}
    <3>1. \A j, k \in Heads : j # k => Block(j) \cap Block(k) = {}
      BY DEF BlocksPartition
    <3> QED
      BY <2>1, <3>1, <1>1, <1>3, <1>8, <1>13
  <2>2. ASSUME NEW g \in Frame PROVE \E h \in Heads' : g \in Block(h)'
    <3>1. PICK h \in Heads : g \in Block(h)
      BY DEF BlocksPartition
    <3> QED
      BY <3>1, <1>1, <1>3, <1>8, <1>13
  <2> QED
    BY <2>1, <2>2 DEF BlocksPartition
<1>15. StaleOrders'
  <2> SUFFICES ASSUME NEW h \in Heads', NEW g \in Block(h)', g \notin Heads', val'[g] # 0
               PROVE  /\ val'[g] \in g <=> val'[g] \notin h
                      /\ \A i \in 0 .. (val'[g] - 1) : i \in g <=> i \in h
    BY DEF StaleOrders
  <2>1. g \in Frame /\ g # cur /\ val'[g] = val[g] /\ val[g] \in Nat /\ h \in Heads /\ h # b
    <3>1. g \in Frame
      BY DEF Block, Group
    <3> QED
      BY <3>1, <1>1, <1>3, <1>8, <1>9 DEF TypeOK
  <2>2. \A i : i \in b <=> IF i = v THEN i \notin cur ELSE i \in cur
    BY <1>4, FlipBits
  <2>3. CASE g = b
    <3>1. h = cur
      <4>1. b \in Block(b)
        BY <1>3, GroupSelf DEF Block
      <4> QED
        BY <4>1, <2>1, <2>3, <1>3, <1>13 DEF BlocksPartition
    <3> QED
      BY <3>1, <2>1, <2>2, <2>3, <1>2, <1>4
  <2>4. CASE g # b
    <3>1. g \notin Heads
      BY <2>4, <1>8
    <3>2. CASE g \in Block(h)
      BY <3>1, <3>2, <2>1 DEF StaleOrders
    <3>3. CASE g \notin Block(h)
      <4>1. h = cur /\ g \in Block(b)
        <5>1. h # cur => Block(h)' = Block(h)
          BY <2>1, <1>13
        <5>2. h = cur
          BY <5>1, <3>3
        <5>3. g \in Block(cur) \cup Block(b)
          BY <5>2, <1>1, <1>13 DEF Block
        <5> QED
          BY <5>2, <5>3, <3>3
      <4> DEFINE w == val[g]
      <4>2. /\ w \in g <=> w \notin b
            /\ \A i \in 0 .. (w - 1) : i \in g <=> i \in b
        BY <4>1, <3>1, <2>1, <1>3 DEF StaleOrders
      <4>3. \A i \in Nat : i >= v => (i \in g <=> i \in b)
        BY <4>1, <1>2, <1>3, <1>4, GroupBits DEF Block
      <4>4. w < v
        BY <4>2, <4>3, <2>1, <1>2
      <4>5. w # v /\ \A i \in 0 .. (w - 1) : i # v
        BY <4>4, <2>1, <1>2
      <4> QED
        BY <4>1, <4>2, <4>5, <2>1, <2>2
    <3> QED
      BY <3>2, <3>3
  <2> QED
    BY <2>3, <2>4
<1>16. CallSound'
  BY <1>1, <1>2, <1>8, <1>9, HeadsAreFrames DEF CallSound
<1> QED
  BY <1>10, <1>11, <1>12, <1>14, <1>15, <1>16

\* free_page lists the block when it can be combined no further.
LEMMA FreePageReturnInv ==
    ASSUME IInv, FreePageReturn
    PROVE  IInv'
<1> USE DEF IInv
<1>1. /\ cur \in Frame /\ cur \in Heads /\ InHand = {cur} /\ used[cur] = 0
      /\ val[cur] \in Order
      /\ pc = "combine" /\ pc' = "idle"
      /\ free_list' = [free_list EXCEPT ![val[cur]] = <<cur>> \o @]
      /\ UNCHANGED <<val, used, reserved, req, cur, arg, rsv>>
  BY DEF FreePageReturn, TypeOK, CallSound, Heads, InHand
<1>2. cur \notin FreeFrames \cup Owned \cup reserved
  BY <1>1 DEF UsedMeansHeld
<1>3. /\ free_list' \in [Order -> Seq(Frame)]
      /\ \A w \in Order :
           /\ IsInjective(free_list'[w])
           /\ ToSet(free_list'[w]) = IF w = val[cur] THEN ToSet(free_list[w]) \cup {cur}
                                                     ELSE ToSet(free_list[w])
  <2>1. free_list \in [Order -> Seq(Frame)] /\ \A w \in Order : IsInjective(free_list[w])
    BY DEF TypeOK, FreeListsSound
  <2>2. cur \notin ToSet(free_list[val[cur]])
    BY <1>1, <1>2, ListedAtVal
  <2> QED
    BY <2>1, <2>2, <1>1, Link
<1>4. FreeFrames' = FreeFrames \cup {cur}
  <2>1. ASSUME NEW g PROVE g \in FreeFrames' <=> g \in FreeFrames \/ g = cur
    <3>1. g \in FreeFrames' <=> \E w \in Order : g \in ToSet(free_list'[w])
      BY DEF FreeFrames
    <3>2. g \in FreeFrames <=> \E w \in Order : g \in ToSet(free_list[w])
      BY DEF FreeFrames
    <3> QED
      BY <3>1, <3>2, <1>1, <1>3
  <2> QED
    BY <2>1
<1>5. Owned' = Owned /\ InHand' = {} /\ Heads' = Heads
  BY <1>1, <1>4 DEF Owned, InHand, Heads
<1>6. TypeOK'
  BY <1>1, <1>3 DEF TypeOK
<1>7. FreeListsSound'
  <2> SUFFICES ASSUME NEW w \in Order
               PROVE  /\ IsInjective(free_list'[w])
                      /\ \A g \in ToSet(free_list'[w]) : val'[g] = w /\ used'[g] = 0
    BY DEF FreeListsSound
  <2>1. \A g \in ToSet(free_list[w]) : val[g] = w /\ used[g] = 0
    BY DEF FreeListsSound
  <2>2. val' = val /\ used' = used
    BY <1>1
  <2>3. IsInjective(free_list'[w])
    BY <1>3
  <2>4. \A g \in ToSet(free_list'[w]) : g \in ToSet(free_list[w]) \/ (g = cur /\ w = val[cur])
    BY <1>3
  <2> QED
    BY <2>1, <2>2, <2>3, <2>4, <1>1
<1>8. UsedMeansHeld'
  BY <1>1, <1>2, <1>4, <1>5 DEF UsedMeansHeld
<1>9. CallSound'
  BY <1>1, <1>5 DEF CallSound
<1> QED
  BY <1>1, <1>5, <1>6, <1>7, <1>8, <1>9, SameHeads

-----------------------------------------------------------------------------
(* The theorems.                                                           *)

\* Every step of the allocator preserves the inductive invariant.
LEMMA NextInv ==
    ASSUME IInv, [Next]_vars
    PROVE  IInv'
<1>1. CASE ReserveTake
  BY <1>1, ReserveTakeInv
<1>2. CASE ReservePass
  <2>1. rsv' \in [region : Nat \ {0}, val : Order, passed : Nat]
    <3>1. /\ rsv \in [region : Nat \ {0}, val : Order, passed : Nat]
          /\ rsv' = [rsv EXCEPT !.passed = rsv.passed + 1]
      BY <1>2 DEF ReservePass, IInv, TypeOK
    <3> QED
      BY <3>1
  <2> QED
    BY <2>1, <1>2, ControlInv DEF ReservePass, RsvAtEntry
<1>3. CASE ReserveSplit
  BY <1>3, ReserveSplitInv
<1>4. CASE ReserveNext
  <2>1. rsv' \in [region : Nat \ {0}, val : Order, passed : Nat]
    <3>1. /\ rsv \in [region : Nat \ {0}, val : Order, passed : Nat]
          /\ rsv' = IF rsv.val > 0
                    THEN [rsv EXCEPT !.val = rsv.val - 1, !.passed = 0]
                    ELSE [region |-> rsv.region + 1, val |-> MAXORDER, passed |-> 0]
      BY <1>4 DEF ReserveNext, IInv, TypeOK
    <3>2. /\ rsv.val > 0 => rsv.val - 1 \in Order
          /\ MAXORDER \in Order
          /\ rsv.region + 1 \in Nat \ {0}
      BY <3>1, PageAssumption DEF Order
    <3> QED
      BY <3>1, <3>2
  <2> QED
    BY <2>1, <1>4, ControlInv DEF ReserveNext
<1>5. CASE ReserveDone
  <2>1. rsv' \in [region : Nat \ {0}, val : Order, passed : Nat]
    BY <1>5 DEF ReserveDone, IInv, TypeOK
  <2> QED
    BY <2>1, <1>5, ControlInv DEF ReserveDone
<1>6. ASSUME NEW asked \in Requests, AllocPage(asked) PROVE IInv'
  BY <1>6, AllocPageInv
<1>7. ASSUME NEW asked \in Requests, AllocPageExhausted(asked) PROVE IInv'
  <2>1. rsv' \in [region : Nat \ {0}, val : Order, passed : Nat]
    BY <1>7 DEF AllocPageExhausted, IInv, TypeOK
  <2> QED
    BY <2>1, <1>7, ControlInv DEF AllocPageExhausted
<1>8. CASE SplitFrame
  BY <1>8, SplitFrameInv
<1>9. CASE AllocPageReturn
  BY <1>9, AllocPageReturnInv
<1>10. ASSUME NEW f \in Frame, FreePage(f) PROVE IInv'
  BY <1>10, FreePageInv
<1>11. CASE CombinePage
  BY <1>11, CombinePageInv
<1>12. CASE FreePageReturn
  BY <1>12, FreePageReturnInv
<1>13. CASE UNCHANGED vars
  <2>1. /\ FreeFrames' = FreeFrames /\ Owned' = Owned /\ InHand' = InHand
        /\ Heads' = Heads
    BY <1>13 DEF vars, FreeFrames, Owned, InHand, Heads
  <2>2. TypeOK' /\ FreeListsSound' /\ UsedMeansHeld' /\ CallSound'
    BY <2>1, <1>13 DEF vars, IInv, TypeOK, FreeListsSound, UsedMeansHeld, CallSound
  <2> QED
    BY <2>1, <2>2, <1>13, SameHeads DEF vars, IInv
<1> QED
  BY <1>1, <1>2, <1>3, <1>4, <1>5, <1>6, <1>7, <1>8, <1>9, <1>10, <1>11, <1>12, <1>13
  DEF Next

\* From a zeroed frame table, whatever is reserved, asked for and freed, the
\* inductive invariant holds.
THEOREM InvariantHolds ==
    ASSUME BootMem = {0}
    PROVE  Spec => []IInv
<1>1. Init => IInv
  BY InitInv
<1>2. IInv /\ [Next]_vars => IInv'
  BY NextInv
<1> QED
  BY <1>1, <1>2, PTL DEF Spec

\* The allocator's variables keep their types.
THEOREM TypeCorrect ==
    ASSUME BootMem = {0}
    PROVE  Spec => []TypeOK
<1>1. IInv => TypeOK
  BY DEF IInv
<1> QED
  BY <1>1, InvariantHolds, PTL

\* The blocks on the lists, handed out, reserved and in the running call
\* cover every frame exactly once: no page is handed out twice or lost.
THEOREM PagesPartitioned ==
    ASSUME BootMem = {0}
    PROVE  Spec => []BlocksPartition
<1>1. IInv => BlocksPartition
  BY DEF IInv
<1> QED
  BY <1>1, InvariantHolds, PTL

\* What alloc_page and combine_page unlink is where they look for it: the list
\* of a free block is the one its val names, and it is on it once.
THEOREM ListsAgreeWithFrames ==
    ASSUME BootMem = {0}
    PROVE  Spec => []FreeListsSound
<1>1. IInv => FreeListsSound
  BY DEF IInv
<1> QED
  BY <1>1, InvariantHolds, PTL

\* used, by which combine_page tells a free buddy from a held one, is set in
\* the frames of held and reserved blocks and in no other.
THEOREM UsedFramesHeld ==
    ASSUME BootMem = {0}
    PROVE  Spec => []UsedMeansHeld
<1>1. IInv => UsedMeansHeld
  BY DEF IInv
<1> QED
  BY <1>1, InvariantHolds, PTL

\* The val that is left in a frame inside a block never makes combine_page take
\* the frame for a buddy: it is 0 or the lowest bit in which the frame differs
\* from the head of its block.
THEOREM OldOrdersHarmless ==
    ASSUME BootMem = {0}
    PROVE  Spec => []StaleOrders
<1>1. IInv => StaleOrders
  BY DEF IInv
<1> QED
  BY <1>1, InvariantHolds, PTL

\* A step of the allocator leaves the order of a held or reserved block alone.
LEMMA HeldStep ==
    IInv /\ Next => \A f \in Owned \cup reserved : val'[f] = val[f]
<1>1. ASSUME IInv, Next
      PROVE  \A f \in Owned \cup reserved : val'[f] = val[f]
  <2> SUFFICES ASSUME NEW f \in Owned \cup reserved
               PROVE  val'[f] = val[f]
    OBVIOUS
  <2>1. f \in Frame /\ f \in Heads /\ used[f] = 1
    BY <1>1 DEF Owned, Heads, IInv, TypeOK, UsedMeansHeld
  <2>2. CASE ReserveSplit
    <3> DEFINE g == RsvEntry
               half == val[g] - 1
    <3>1. g \in ToSet(free_list[rsv.val]) /\ rsv.val \in Order
      <4>1. /\ rsv.val \in Order /\ free_list[rsv.val] \in Seq(Frame)
            /\ rsv.passed \in Nat /\ rsv.passed < Len(free_list[rsv.val])
        BY <1>1, <2>2 DEF ReserveSplit, RsvAtEntry, RsvList, IInv, TypeOK
      <4> QED
        BY <4>1, ToSetType DEF RsvEntry, RsvList
    <3>2. g \in FreeFrames /\ g \in Frame /\ g \in Heads /\ used[g] = 0 /\ val[g] = rsv.val
      BY <1>1, <3>1, ListedAtVal, HeadsAreFrames DEF IInv, Heads
    <3>3. val[g] # 0
      <4>1. val[g] = 0 => RsvBlock = {g}
        BY <3>2, GroupZero DEF RsvBlock
      <4> QED
        BY <4>1, <2>2 DEF ReserveSplit
    <3>4. half \in Bit /\ val[g] = half + 1
      BY <3>1, <3>2, <3>3, PageAssumption DEF Bit, Order
    <3>5. Flip(g, half) \notin Heads
      BY <3>2, <3>4, <1>1, SplitBuddy DEF IInv
    <3>6. val' = [val EXCEPT ![g] = half, ![Flip(g, half)] = half]
      BY <2>2 DEF ReserveSplit
    <3> QED
      BY <3>2, <3>5, <3>6, <2>1, <1>1 DEF IInv, TypeOK
  <2>3. CASE SplitFrame
    <3> DEFINE half == val[cur] - 1
    <3>1. /\ cur \in Heads /\ used[cur] = 0 /\ cur \in Frame
          /\ val[cur] = arg.j /\ arg.j \in Order /\ arg.val \in Order /\ arg.j > arg.val
      BY <1>1, <2>3 DEF SplitFrame, IInv, TypeOK, CallSound, Heads, InHand
    <3>2. half \in Bit /\ val[cur] = half + 1
      BY <3>1, PageAssumption DEF Bit, Order
    <3>3. Flip(cur, half) \notin Heads
      BY <3>1, <3>2, <1>1, SplitBuddy DEF IInv
    <3>4. val' = [val EXCEPT ![cur] = half, ![Flip(cur, half)] = half]
      BY <2>3 DEF SplitFrame
    <3> QED
      BY <3>1, <3>3, <3>4, <2>1, <1>1 DEF IInv, TypeOK
  <2>4. CASE CombinePage
    <3>1. used[cur] = 0 /\ val' = [val EXCEPT ![cur] = @ + 1]
      BY <1>1, <2>4 DEF CombinePage, IInv, CallSound
    <3> QED
      BY <3>1, <2>1, <1>1 DEF IInv, TypeOK
  <2>5. CASE ~ (ReserveSplit \/ SplitFrame \/ CombinePage)
    <3>1. val' = val
      BY <1>1, <2>5 DEF Next, ReserveTake, ReservePass, ReserveNext, ReserveDone, AllocPage,
                  AllocPageExhausted, AllocPageReturn, FreePage, FreePageReturn
    <3> QED
      BY <3>1
  <2> QED
    BY <2>2, <2>3, <2>4, <2>5
<1> QED
  BY <1>1

-----------------------------------------------------------------------------
(* The pool.  While init_allocator reserves, every block starts at its     *)
(* first frame, and a reserved block stays as it is.                       *)

BootInPlace ==
    /\ pc = "reserve" => \A h \in Heads : InPlace(h)
    /\ \A f \in reserved : InPlace(f)

\* A block that starts at its first frame is the range of pages from it on.
LEMMA RangeInPlace ==
    ASSUME TypeOK, NEW f \in Frame, InPlace(f)
    PROVE  PageRange(f, val[f]) = Block(f)
<1>1. \A b \in f : ~ b < val[f]
  <2>1. f \subseteq Nat /\ val[f] \in Nat
    BY FrameBits DEF TypeOK
  <2>2. \A b \in f : b >= val[f]
    BY DEF InPlace, Above
  <2> QED
    BY <2>1, <2>2
<1>2. \A g : ~ LowBefore(g, f, val[f])
  BY <1>1 DEF LowBefore
<1> QED
  BY <1>2 DEF PageRange, Block, Group

LEMMA BootInit ==
    ASSUME BootMem = {0}, Init
    PROVE  BootInPlace
<1>1. IInv
  BY InitInv
<1>2. ASSUME NEW h \in Heads PROVE InPlace(h)
  <2>1. h \in FreeFrames
    BY <1>2 DEF Heads, Init, Owned, InHand
  <2>2. PICK v \in Order : h \in ToSet(free_list[v])
    BY <2>1 DEF FreeFrames
  <2>3. v = MAXORDER /\ h \in ToSet(MaxBlocks)
    <3>1. ToSet(<<>>) = {}
      BY DEF ToSet
    <3> QED
      BY <2>2, <3>1 DEF Init
  <2>4. val[h] = MAXORDER
    BY <1>1, <2>2, <2>3 DEF IInv, FreeListsSound
  <2>5. \A b \in h : b \in Nat /\ ~ b \in 0 .. (MAXORDER - 1)
    BY <2>3, PageAssumption, ToSetType
  <2>6. \A b \in h : b >= MAXORDER
    BY <2>5, PageAssumption
  <2> QED
    BY <2>4, <2>6 DEF InPlace, Above
<1> QED
  BY <1>2 DEF BootInPlace, Init

LEMMA BootStep ==
    ASSUME IInv, BootInPlace, [Next]_vars
    PROVE  BootInPlace'
<1>1. CASE ReserveTake
  <2>1. /\ reserved' = reserved \cup {RsvEntry} /\ val' = val
        /\ pc = "reserve" /\ Heads' = Heads
    BY <1>1, ReserveTakeInv DEF ReserveTake, RsvAtEntry
  <2>2. reserved' \subseteq Heads'
    BY DEF Heads
  <2> QED
    BY <2>1, <2>2 DEF BootInPlace, InPlace
<1>2. CASE ReserveSplit
  <2> DEFINE f == RsvEntry
             half == rsv.val - 1
             b == Flip(f, half)
  <2>1. f \in Heads /\ f \in Frame /\ val[f] = rsv.val /\ rsv.val \in Order
    <3>1. /\ rsv.val \in Order /\ free_list[rsv.val] \in Seq(Frame)
          /\ rsv.passed \in Nat /\ rsv.passed < Len(free_list[rsv.val])
      BY <1>2 DEF ReserveSplit, RsvAtEntry, RsvList, IInv, TypeOK
    <3>2. f \in ToSet(free_list[rsv.val])
      BY <3>1, ToSetType DEF RsvEntry, RsvList
    <3> QED
      BY <3>1, <3>2, ListedAtVal, HeadsAreFrames DEF IInv, Heads
  <2>2. /\ pc = "reserve" /\ Heads' = Heads \cup {b}
        /\ val' = [val EXCEPT ![f] = half, ![b] = half] /\ reserved' = reserved
    BY <1>2, <2>1, ReserveSplitInv DEF ReserveSplit, RsvAtEntry
  <2>3. rsv.val # 0
    <3>1. rsv.val = 0 => RsvBlock = {f}
      BY <2>1, GroupZero DEF RsvBlock
    <3> QED
      BY <3>1, <1>2 DEF ReserveSplit
  <2>4. half \in Bit /\ half < rsv.val
    BY <2>1, <2>3, PageAssumption DEF Bit, Order
  <2>5. b \in Frame
    BY <2>1, <2>4, FlipFrame
  <2>6. f \subseteq Nat /\ \A c \in f : c >= rsv.val
    BY <2>1, <2>2, FrameBits DEF BootInPlace, InPlace, Above
  <2>7. val'[f] = half /\ val'[b] = half /\ \A h \in Frame \ {f, b} : val'[h] = val[h]
    BY <2>1, <2>2, <2>5 DEF IInv, TypeOK
  <2>8. (\A c \in f : c >= half) /\ (\A c \in b : c >= half)
    BY <2>1, <2>4, <2>6, PageAssumption DEF Flip, Bit, Order
  <2>9. \A h \in Frame : (\A c \in h : c >= val'[h]) => InPlace(h)'
    BY DEF InPlace, Above
  <2>10. ASSUME NEW h \in Heads' PROVE InPlace(h)'
    <3>1. CASE h \in {f, b}
      BY <3>1, <2>1, <2>5, <2>7, <2>8, <2>9
    <3>2. CASE h \notin {f, b}
      <4>1. h \in Heads /\ h \in Frame
        BY <3>2, <2>2, HeadsAreFrames DEF IInv
      <4> QED
        BY <3>2, <4>1, <2>2, <2>7 DEF BootInPlace, InPlace
    <3> QED
      BY <3>1, <3>2
  <2>11. reserved' \subseteq Heads'
    BY DEF Heads
  <2> QED
    BY <2>10, <2>11 DEF BootInPlace
<1>3. CASE ~ ReserveTake /\ ~ ReserveSplit /\ Next
  <2>1. reserved' = reserved /\ \A f \in reserved : InPlace(f)'
    <3>1. reserved' = reserved
      BY <1>3 DEF Next, ReservePass, ReserveNext, ReserveDone, AllocPage, AllocPageExhausted,
                  SplitFrame, AllocPageReturn, FreePage, CombinePage, FreePageReturn
    <3> QED
      BY <1>3, <3>1, HeldStep DEF BootInPlace, InPlace
  <2>2. pc' = "reserve" => pc = "reserve" /\ UNCHANGED <<val, free_list, req, reserved, cur>>
    BY <1>3 DEF Next, ReservePass, ReserveNext, ReserveDone, AllocPage, AllocPageExhausted,
                SplitFrame, AllocPageReturn, FreePage, CombinePage, FreePageReturn
  <2>3. pc' = "reserve" => Heads' = Heads /\ val' = val
    BY <2>2 DEF Heads, FreeFrames, Owned, InHand
  <2> QED
    BY <2>1, <2>2, <2>3 DEF BootInPlace, InPlace
<1>4. CASE UNCHANGED vars
  BY <1>4 DEF vars, BootInPlace, InPlace, Heads, FreeFrames, Owned, InHand
<1> QED
  BY <1>1, <1>2, <1>3, <1>4

\* The pages of a head that is not held are in no range that is held or
\* reserved, if it and the reserved blocks start at their first frame.
LEMMA OthersUnused ==
    ASSUME IInv, BootInPlace, NEW f \in Heads, f \notin Owned \cup reserved, InPlace(f)
    PROVE  /\ PageRange(f, val[f]) \in (SUBSET Frame) \ {{}}
           /\ Pool!Unused(PageRange(f, val[f]))
<1>1. f \in Frame /\ Block(f) \subseteq Frame /\ f \in Block(f)
  BY HeadsAreFrames, GroupSelf DEF IInv, Block, Group
<1>2. \A g \in Owned \cup reserved : Block(f) \cap Block(g) = {}
  BY DEF IInv, BlocksPartition, Heads
<1>3. \A c \in KeptRanges \cup OutRanges : Block(f) \cap c = {}
  <2>1. \A g \in reserved : PageRange(g, val[g]) = Block(g)
    BY RangeInPlace DEF BootInPlace, IInv, TypeOK
  <2>2. \A g \in Owned : InPlace(g) => PageRange(g, val[g]) = Block(g)
    BY RangeInPlace DEF IInv, Owned
  <2> QED
    BY <1>2, <2>1, <2>2 DEF OutRanges, KeptRanges
<1>4. Block(f) \in SUBSET Frame /\ Block(f) # {}
  BY <1>1
<1>5. PageRange(f, val[f]) = Block(f)
  BY <1>1, RangeInPlace DEF IInv
<1> QED
  BY <1>3, <1>4, <1>5 DEF Pool!Unused

\* What a step does to the ranges that are held and reserved.
LEMMA RangesStep ==
    ASSUME IInv, Next
    PROVE  /\ Owned' = Owned => OutRanges' = OutRanges
           /\ reserved' = reserved => KeptRanges' = KeptRanges
<1>1. \A f \in Owned \cup reserved :
        PageRange(f, val'[f]) = PageRange(f, val[f]) /\ (InPlace(f)' <=> InPlace(f))
  BY HeldStep DEF InPlace
<1>2. \A f, k : PageRange(f, k)' = PageRange(f, k)
  BY DEF PageRange, NextGroup, LowBefore, Frame, Above
<1> QED
  BY <1>1, <1>2 DEF OutRanges, KeptRanges

\* Every step of the allocator is one of the pool or leaves it alone.
LEMMA PoolStep ==
    ASSUME IInv, BootInPlace, Next
    PROVE  [Pool!Keep \/ Pool!Take \/ Pool!Give]_<<KeptRanges, OutRanges>>
<1>1. CASE ReserveTake
  <2> DEFINE f == RsvEntry
  <2>1. /\ rsv.val \in Order /\ free_list[rsv.val] \in Seq(Frame)
        /\ rsv.passed \in Nat /\ rsv.passed < Len(free_list[rsv.val])
    BY <1>1 DEF ReserveTake, RsvAtEntry, RsvList, IInv, TypeOK
  <2>2. f \in ToSet(free_list[rsv.val])
    BY <2>1, ToSetType DEF RsvEntry, RsvList
  <2>3. f \in Heads /\ f \in Frame /\ used[f] = 0
    BY <2>1, <2>2, ListedAtVal, HeadsAreFrames DEF IInv, Heads
  <2>4. f \notin Owned \cup reserved
    BY <2>3 DEF IInv, UsedMeansHeld
  <2>5. reserved' = reserved \cup {f} /\ Owned' = Owned /\ val' = val /\ pc = "reserve"
    BY <1>1 DEF ReserveTake, RsvAtEntry, Owned
  <2>6. InPlace(f)
    BY <2>3, <2>5 DEF BootInPlace
  <2> HIDE DEF f
  <2>7. KeptRanges' = KeptRanges \cup {PageRange(f, val[f])} /\ OutRanges' = OutRanges
    <3>1. \A g, k : PageRange(g, k)' = PageRange(g, k)
      BY DEF PageRange, NextGroup, LowBefore, Frame, Above
    <3> QED
      BY <2>5, <3>1 DEF KeptRanges, OutRanges, InPlace
  <2> QED
    BY <2>3, <2>4, <2>6, <2>7, OthersUnused DEF Pool!Keep
<1>2. CASE AllocPageReturn
  <2>1. cur \in Heads /\ cur \in Frame /\ cur \notin Owned \cup reserved
    BY <1>2 DEF AllocPageReturn, IInv, TypeOK, UsedMeansHeld, Heads, InHand
  <2>2. arg.pages # 0 /\ req' = [req EXCEPT ![cur] = arg.pages] /\ reserved' = reserved /\ val' = val
    BY <1>2 DEF AllocPageReturn, IInv, CallSound
  <2>3. Owned' = Owned \cup {cur}
    BY <2>1, <2>2 DEF Owned, IInv, TypeOK
  <2>4. /\ OutRanges' = OutRanges \cup (IF InPlace(cur) THEN {PageRange(cur, val[cur])} ELSE {})
        /\ KeptRanges' = KeptRanges
    <3>1. \A g, k : PageRange(g, k)' = PageRange(g, k)
      BY DEF PageRange, NextGroup, LowBefore, Frame, Above
    <3>2. \A g : InPlace(g)' <=> InPlace(g)
      BY <2>2 DEF InPlace
    <3> QED
      BY <2>2, <2>3, <3>1, <3>2 DEF KeptRanges, OutRanges
  <2> QED
    BY <2>1, <2>4, OthersUnused DEF Pool!Take
<1>3. ASSUME NEW f \in Frame, FreePage(f)
      PROVE  Pool!Give \/ UNCHANGED <<KeptRanges, OutRanges>>
  <2>1. f \in Owned /\ req' = [req EXCEPT ![f] = 0] /\ reserved' = reserved /\ val' = val
    BY <1>3 DEF FreePage, Owned
  <2>2. Owned' = Owned \ {f}
    BY <2>1 DEF Owned, IInv, TypeOK
  <2>3. ASSUME NEW g \in Owned, g # f, InPlace(f), InPlace(g)
        PROVE  PageRange(g, val[g]) # PageRange(f, val[f])
    <3>1. f \in Block(f)
      BY GroupSelf DEF Block
    <3>2. Block(g) # Block(f)
      BY <2>1, <2>3, <3>1 DEF IInv, BlocksPartition, Heads
    <3> QED
      BY <2>3, <3>2, RangeInPlace DEF IInv, Owned
  <2>4. /\ OutRanges' = OutRanges \ (IF InPlace(f) THEN {PageRange(f, val[f])} ELSE {})
        /\ KeptRanges' = KeptRanges
    <3>1. \A g, k : PageRange(g, k)' = PageRange(g, k)
      BY DEF PageRange, NextGroup, LowBefore, Frame, Above
    <3>2. \A g : InPlace(g)' <=> InPlace(g)
      BY <2>1 DEF InPlace
    <3>3. OutRanges' = {PageRange(g, val[g]) : g \in {h \in Owned \ {f} : InPlace(h)}}
      BY <2>1, <2>2, <3>1, <3>2 DEF OutRanges
    <3>4. OutRanges = {PageRange(g, val[g]) : g \in {h \in Owned : InPlace(h)}}
      BY DEF OutRanges
    <3>5. KeptRanges' = KeptRanges
      BY <2>1, <3>1 DEF KeptRanges
    <3> QED
      BY <2>1, <2>3, <3>3, <3>4, <3>5
  <2>5. InPlace(f) => PageRange(f, val[f]) \in OutRanges
    BY <2>1 DEF OutRanges
  <2> QED
    BY <2>4, <2>5 DEF Pool!Give
<1>4. CASE ~ (ReserveTake \/ AllocPageReturn \/ \E f \in Frame : FreePage(f))
  <2>1. req' = req /\ reserved' = reserved
    BY <1>4 DEF Next, ReservePass, ReserveSplit, ReserveNext, ReserveDone, AllocPage,
                AllocPageExhausted, SplitFrame, CombinePage, FreePageReturn
  <2>2. Owned' = Owned
    BY <2>1 DEF Owned
  <2> QED
    BY <2>1, <2>2, RangesStep
<1> QED
  BY <1>1, <1>2, <1>3, <1>4

\* From a zeroed frame table, the allocator with its lists, orders and loops
\* implements the pool for the callers whose block starts at its first frame:
\* the pages alloc_page returns to them are in no reserved region and in no
\* other such caller's until they are freed.
THEOREM PoolImplemented ==
    ASSUME BootMem = {0}
    PROVE  Spec => PoolKept
<1>1. Init => Pool!Init
  BY DEF Init, Pool!Init, KeptRanges, OutRanges, Owned
<1>2. ASSUME IInv, BootInPlace, [Next]_vars
      PROVE  [Pool!Keep \/ Pool!Take \/ Pool!Give]_<<KeptRanges, OutRanges>>
  <2>1. CASE UNCHANGED vars
    <3>1. \A g, k : PageRange(g, k)' = PageRange(g, k)
      BY DEF PageRange, NextGroup, LowBefore, Frame, Above
    <3> QED
      BY <2>1, <3>1 DEF vars, KeptRanges, OutRanges, Owned, InPlace
  <2> QED
    BY <1>2, <2>1, PoolStep
<1>3. Init => BootInPlace
  BY BootInit
<1>4. IInv /\ BootInPlace /\ [Next]_vars => BootInPlace'
  BY BootStep
<1> QED
  BY <1>1, <1>2, <1>3, <1>4, InvariantHolds, PTL DEF Spec, PoolKept, Pool!Spec

-----------------------------------------------------------------------------
(* Sizes.  While alloc_page splits, val is the order for the size, and the *)
(* frame in hand is at least that large.                                   *)

SplitFits ==
    pc = "split" => /\ OrderFor(arg.pages, arg.val)
                    /\ arg.val <= arg.j

\* The order alloc_page computes is the smallest that has the pages.
LEMMA OrderFits ==
    ASSUME NEW asked \in Nat, NEW v \in Order, OrderFor(asked, v), asked <= 2^MAXORDER
    PROVE  asked <= 2^v /\ (v = 0 \/ 2^(v - 1) < asked)
<1>1. MAXORDER \in Order
  BY PageAssumption DEF Order
<1>2. 2^MAXORDER \in Int /\ \A w \in Order : 2^w \in Int
  BY PageAssumption DEF Order
<1>3. asked <= 2^v /\ \A w \in Order : w < v => asked > 2^w
  BY <1>1, <1>2 DEF OrderFor
<1>4. v = 0 \/ v - 1 \in Order
  BY PageAssumption DEF Order
<1> QED
  BY <1>2, <1>3, <1>4 DEF Order

\* Every caller's block is of the smallest order that has the pages it asked
\* for, if any order has.
THEOREM SizesHonoured ==
    ASSUME BootMem = {0}
    PROVE  Spec => []HeldFits
<1> DEFINE Fits == HeldFits /\ SplitFits
<1>1. Init => Fits
  BY DEF Init, HeldFits, SplitFits, Owned
<1>2. ASSUME IInv, Fits, [Next]_vars
      PROVE  Fits'
  <2>1. CASE UNCHANGED vars
    BY <1>2, <2>1 DEF vars, HeldFits, SplitFits, Owned, OrderFor
  <2>2. CASE Next
    <3>1. SplitFits'
      <4>1. CASE \E asked \in Requests : AllocPage(asked)
        BY <4>1 DEF AllocPage, CanUse, SplitFits, OrderFor
      <4>2. CASE SplitFrame
        BY <1>2, <4>2 DEF SplitFrame, SplitFits, OrderFor, IInv, TypeOK, Order
      <4>3. CASE ~ SplitFrame /\ ~ \E asked \in Requests : AllocPage(asked)
        BY <1>2, <2>2, <4>3
        DEF Next, SplitFits, OrderFor, ReserveTake, ReservePass, ReserveSplit, ReserveNext,
            ReserveDone, AllocPageExhausted, AllocPageReturn, FreePage, CombinePage,
            FreePageReturn
      <4> QED
        BY <4>1, <4>2, <4>3
    <3>2. HeldFits'
      <4>1. CASE AllocPageReturn
        <5>1. /\ val' = val /\ req' = [req EXCEPT ![cur] = arg.pages]
              /\ arg.pages \in Nat /\ arg.val \in Order /\ arg.j \in Order
              /\ OrderFor(arg.pages, arg.val) /\ val[cur] = arg.j /\ arg.j = arg.val
          BY <1>2, <4>1 DEF AllocPageReturn, IInv, TypeOK, CallSound, SplitFits, Order
        <5>2. arg.pages <= 2^MAXORDER =>
                  arg.pages <= 2^val[cur] /\ (val[cur] = 0 \/ 2^(val[cur] - 1) < arg.pages)
          BY <5>1, OrderFits
        <5> QED
          BY <1>2, <5>1, <5>2 DEF HeldFits, Owned, IInv, TypeOK
      <4>2. CASE ~ AllocPageReturn
        <5>1. \A f \in Owned : req'[f] # 0 => val'[f] = val[f]
          BY <1>2, <2>2, HeldStep
        <5>2. \A f \in Frame : req'[f] # 0 => req[f] = req'[f]
          BY <1>2, <2>2, <4>2
          DEF Next, ReserveTake, ReservePass, ReserveSplit, ReserveNext, ReserveDone,
              AllocPage, AllocPageExhausted, SplitFrame, FreePage, CombinePage,
              FreePageReturn, IInv, TypeOK
        <5> QED
          BY <1>2, <5>1, <5>2 DEF HeldFits, Owned
      <4> QED
        BY <4>1, <4>2
    <3> QED
      BY <3>1, <3>2
  <2> QED
    BY <1>2, <2>1, <2>2
<1>3. Fits => HeldFits
  OBVIOUS
<1> QED
  BY <1>1, <1>2, <1>3, InvariantHolds, PTL DEF Spec

-----------------------------------------------------------------------------
(***************************************************************************)
(* kmalloc and kfree: no two objects in use overlap, what is listed is free*)
(* and nothing is lost, for every page size, every set of classes and every*)
(* interleaving of calls, up to the moments that wild names.               *)
(***************************************************************************)

(* Slots and objects.                                                      *)

SlotType == [page : Page, off : Int]
ObjectType == [page : Page, off : Int, class : Class \cup {PageClass}, area : SUBSET Page]

\* The places of the slots of class c in a page.
Offsets(c) == {Units - i * 2^c : i \in 1 .. (Units \div 2^c)}

\* Two slots of one class have no unit in common.
LEMMA SlotsApart ==
    ASSUME NEW c \in Class, NEW a \in Offsets(c), NEW b \in Offsets(c), a # b
    PROVE  /\ a \in Int /\ b \in Int /\ 2^c \in Nat \ {0}
           /\ a + 2^c <= b \/ b + 2^c <= a
<1>1. 2^c \in Nat \ {0} /\ Units \in Nat \ {0}
  BY BinAssumption DEF Class
<1> DEFINE w == 2^c
           n == Units \div w
<1>2. n \in Nat
  BY <1>1
<1>3. PICK i \in 1 .. n, j \in 1 .. n : a = Units - i * w /\ b = Units - j * w
  BY DEF Offsets
<1> HIDE DEF w, n
<1>4. w \in Nat \ {0} /\ i \in Nat /\ j \in Nat /\ i # j
  BY <1>1, <1>2, <1>3 DEF w
<1>5. ASSUME NEW k \in Nat, NEW l \in Nat, k < l PROVE Units - l * w + w <= Units - k * w
  BY <1>1, <1>4, <1>5
<1>6. a + w <= b \/ b + w <= a
  BY <1>3, <1>4, <1>5
<1>7. a \in Int /\ b \in Int
  BY <1>1, <1>3, <1>4
<1> QED
  BY <1>1, <1>6, <1>7 DEF w

\* from_page_get_bins lists each slot of the page once.
LEMMA BinsListed ==
    ASSUME NEW p \in Page, NEW c \in Class
    PROVE  /\ Bins(p, c) \in Seq(SlotType) /\ Bins(p, c) # <<>>
           /\ IsInjective(Bins(p, c))
           /\ ToSet(Bins(p, c)) = {Slot(p, o) : o \in Offsets(c)}
<1>1. 2^c \in Nat \ {0} /\ Units \in Nat \ {0} /\ 2^c <= Units
  BY BinAssumption DEF Class
<1> DEFINE w == 2^c
           n == Units \div w
           b == [i \in 1 .. n |-> Slot(p, Units - i * w)]
<1>2. n \in Nat /\ n # 0
  BY <1>1
<1>3. \A i \in 1 .. n : Units - i * w \in Int
  BY <1>1, <1>2
<1>4. Bins(p, c) = b
  BY DEF Bins
<1>5. Offsets(c) = {Units - i * w : i \in 1 .. n}
  BY DEF Offsets
<1>6. w \in Nat \ {0}
  BY <1>1
<1> HIDE DEF w, n
<1>7. b \in Seq(SlotType) /\ Len(b) = n /\ DOMAIN b = 1 .. n
  BY <1>2, <1>3 DEF SlotType, Slot
<1>8. b # <<>>
  BY <1>2, <1>7
<1>9. \A i, j \in 1 .. n : i # j => Units - i * w # Units - j * w
  BY <1>1, <1>2, <1>6
<1>10. IsInjective(b)
  BY <1>7, <1>9 DEF IsInjective, Slot
<1>11. ToSet(b) = {Slot(p, o) : o \in Offsets(c)}
  BY <1>5, <1>7 DEF ToSet
<1> QED
  BY <1>4, <1>7, <1>8, <1>10, <1>11

\* The last slot of a page is not the first.
LEMMA LastSlot ==
    ASSUME NEW c \in Class
    PROVE  \E o \in Offsets(c) : o # 0
<1>1. 2^c \in Nat \ {0} /\ Units \in Nat \ {0} /\ 2^c < Units
  BY BinAssumption DEF Class
<1>2. 1 \in 1 .. (Units \div 2^c)
  BY <1>1
<1>3. Units - 1 * 2^c \in Offsets(c)
  BY <1>2 DEF Offsets
<1>4. Units - 1 * 2^c # 0
  BY <1>1
<1> QED
  BY <1>3, <1>4

-----------------------------------------------------------------------------
(* The inductive invariant, of the pages P, their classes V, the listed    *)
(* slots L of each class and the objects H.                                *)

TypesFit(P, V, L, H) ==
    /\ P \subseteq Page
    /\ V \in [Page -> Class \cup {PageClass}]
    /\ L \in [Class -> SUBSET SlotType]
    /\ H \subseteq ObjectType

\* A listed slot is one of the slots of its page, and not in use.
ListedFree(V, L, H) ==
    \A c \in Class : \A s \in L[c] :
        /\ V[s.page] = c /\ s.off \in Offsets(c)
        /\ \A x \in H : s.page \in x.area => x.class # PageClass /\ x.off # s.off

\* An object is a slot of its page, or pages that are neither free nor split.
HeldWhole(P, V, H) ==
    \A x \in H :
        /\ x.page \in x.area
        /\ x.class = PageClass => x.off = 0 /\ \A q \in x.area : q \notin P /\ V[q] = PageClass
        /\ x.class # PageClass =>
             x.area = {x.page} /\ V[x.page] = x.class /\ x.off \in Offsets(x.class)

\* Objects with a page in common are different slots of it.
HeldApart(H) ==
    \A x, y \in H : x # y /\ x.area \cap y.area # {} =>
        x.class # PageClass /\ y.class # PageClass /\ x.off # y.off

\* A page is free or an object's; the slots of a split one are listed or in
\* use, or it went back to the page allocator with its first slot.
PageThere(P, V, L, H, p) ==
    /\ V[p] = PageClass => p \in P \/ \E x \in H : p \in x.area
    /\ V[p] # PageClass => \A o \in Offsets(V[p]) :
          \/ Slot(p, o) \in L[V[p]]
          \/ \E x \in H : x.page = p /\ x.off = o
          \/ o = 0 /\ p \in P

AllThere(P, V, L, H) == \A p \in Page : PageThere(P, V, L, H, p)

Sound(P, V, L, H) ==
    /\ TypesFit(P, V, L, H)
    /\ ListedFree(V, L, H)
    /\ HeldWhole(P, V, H)
    /\ HeldApart(H)
    /\ AllThere(P, V, L, H)

\* No slot of page p is listed, and no object lies on it.
Bare(L, H, p) ==
    /\ \A c \in Class : \A s \in L[c] : s.page # p
    /\ \A x \in H : p \notin x.area

Listed == [c \in Class |-> ToSet(bin_list[c])]

CallType ==
    {NoCall} \cup [pc : {"refill", "read"}, class : Class]
             \cup [pc : {"unlink"}, class : Class, bin : SlotType]
             \cup [pc : {"pages"}]
             \cup [pc : {"link", "release"}, obj : ObjectType]

Freeing(a) == call[a].pc \in {"link", "release"}

\* What a running kfree relies on.
FreesHeld ==
    \A a \in Actor : Freeing(a) =>
        /\ call[a].obj \in held
        /\ call[a].pc = "link" => call[a].obj.class # PageClass
        /\ call[a].pc = "release" => call[a].obj.off = 0
        /\ \A b \in Actor : Freeing(b) /\ call[b].obj = call[a].obj => b = a

BinInv ==
    ~ wild =>
        /\ bin_list \in [Class -> Seq(SlotType)]
        /\ \A c \in Class : IsInjective(bin_list[c])
        /\ Sound(pages, bin_val, Listed, held)
        /\ call \in [Actor -> CallType]
        /\ FreesHeld

-----------------------------------------------------------------------------
(* What the operations do to it.                                           *)

LEMMA Classes == PageClass \notin Class
BY DEF PageClass, Class

LEMMA SlotOf ==
    ASSUME NEW p \in Page, NEW o \in Int
    PROVE  Slot(p, o) \in SlotType /\ Slot(p, o).page = p /\ Slot(p, o).off = o
BY DEF Slot, SlotType

LEMMA SlotIs ==
    ASSUME NEW s \in SlotType
    PROVE  s.page \in Page /\ s.off \in Int /\ s = Slot(s.page, s.off)
BY DEF Slot, SlotType

LEMMA SlotObjectOf ==
    ASSUME NEW s \in SlotType, NEW c \in Class
    PROVE  /\ SlotObject(s, c) \in ObjectType
           /\ SlotObject(s, c).page = s.page /\ SlotObject(s, c).off = s.off
           /\ SlotObject(s, c).class = c /\ SlotObject(s, c).area = {s.page}
BY SlotIs DEF SlotObject, ObjectType

LEMMA PageObjectOf ==
    ASSUME NEW p \in Page, NEW B \in SUBSET Page
    PROVE  /\ PageObject(p, B) \in ObjectType
           /\ PageObject(p, B).page = p /\ PageObject(p, B).off = 0
           /\ PageObject(p, B).class = PageClass /\ PageObject(p, B).area = B
BY DEF PageObject, ObjectType

LEMMA OffsetsInt ==
    ASSUME NEW c \in Class
    PROVE  Offsets(c) \subseteq Int
<1>1. 2^c \in Nat \ {0} /\ Units \in Nat \ {0}
  BY BinAssumption DEF Class
<1>2. Units \div 2^c \in Nat
  BY <1>1
<1> QED
  BY <1>1, <1>2 DEF Offsets

\* A page with nothing on it was never split.
LEMMA BareUnsplit ==
    ASSUME NEW P, NEW V, NEW L, NEW H, Sound(P, V, L, H), NEW p \in Page, Bare(L, H, p)
    PROVE  V[p] = PageClass
<1> SUFFICES ASSUME V[p] # PageClass PROVE FALSE
  OBVIOUS
<1>1. TypesFit(P, V, L, H) /\ HeldWhole(P, V, H) /\ PageThere(P, V, L, H, p)
  BY DEF Sound, AllThere
<1>2. V[p] \in Class
  BY <1>1 DEF TypesFit
<1>3. PICK o \in Offsets(V[p]) : o # 0
  BY <1>2, LastSlot
<1>4. Slot(p, o) \in L[V[p]] \/ \E x \in H : x.page = p
  BY <1>1, <1>3 DEF PageThere
<1>5. Slot(p, o).page = p
  BY <1>2, <1>3, OffsetsInt, SlotOf
<1> QED
  BY <1>1, <1>2, <1>4, <1>5 DEF Bare, HeldWhole

\* A page of the page allocator is split.
LEMMA Refilled ==
    ASSUME NEW P, NEW V, NEW L, NEW H, Sound(P, V, L, H),
           NEW p \in P, NEW c \in Class, Bare(L, H, p)
    PROVE  Sound(P \ {p}, [V EXCEPT ![p] = c],
                 [L EXCEPT ![c] = {Slot(p, o) : o \in Offsets(c)} \cup @], H)
<1> DEFINE P1 == P \ {p}
           V1 == [V EXCEPT ![p] = c]
           B == {Slot(p, o) : o \in Offsets(c)}
           L1 == [L EXCEPT ![c] = B \cup @]
<1>1. /\ TypesFit(P, V, L, H) /\ ListedFree(V, L, H) /\ HeldWhole(P, V, H)
      /\ HeldApart(H) /\ AllThere(P, V, L, H)
  BY DEF Sound
<1>2. p \in Page /\ PageClass # c
  BY <1>1, Classes DEF TypesFit
<1>3. \A b \in B : /\ b \in SlotType /\ b.page = p /\ b.off \in Offsets(c)
  BY <1>2, SlotOf, OffsetsInt
<1>4. /\ V1[p] = c /\ \A q \in Page \ {p} : V1[q] = V[q]
      /\ L1[c] = B \cup L[c] /\ \A d \in Class \ {c} : L1[d] = L[d]
  BY <1>1, <1>2 DEF TypesFit
<1>5. TypesFit(P1, V1, L1, H)
  <2>1. B \in SUBSET SlotType
    BY <1>3
  <2> HIDE DEF B
  <2> QED
    BY <1>1, <2>1 DEF TypesFit
<1>6. \A x \in H : x.page \in Page /\ x.page # p /\ p \notin x.area /\ x.area \subseteq Page
  BY <1>1 DEF HeldWhole, TypesFit, ObjectType, Bare
<1>7. \A d \in Class : \A s \in L[d] : s.page \in Page /\ s.page # p
  BY <1>1 DEF Bare, TypesFit, SlotType
<1> HIDE DEF V1, L1, B, P1
<1>8. ListedFree(V1, L1, H)
  <2> SUFFICES ASSUME NEW d \in Class, NEW s \in L1[d]
               PROVE  /\ V1[s.page] = d /\ s.off \in Offsets(d)
                      /\ \A x \in H : s.page \in x.area => x.class # PageClass /\ x.off # s.off
    BY DEF ListedFree
  <2>1. CASE s \in L[d]
    BY <1>1, <1>4, <1>7, <2>1 DEF ListedFree
  <2>2. CASE s \notin L[d]
    BY <1>3, <1>4, <1>6, <2>2
  <2> QED
    BY <2>1, <2>2
<1>9. HeldWhole(P1, V1, H)
  <2> SUFFICES ASSUME NEW x \in H
               PROVE  /\ x.page \in x.area
                      /\ x.class = PageClass => x.off = 0 /\ \A q \in x.area : q \notin P1 /\ V1[q] = PageClass
                      /\ x.class # PageClass =>
                           x.area = {x.page} /\ V1[x.page] = x.class /\ x.off \in Offsets(x.class)
    BY DEF HeldWhole
  <2>1. \A q \in x.area : V1[q] = V[q]
    BY <1>4, <1>6
  <2> QED
    BY <1>1, <1>6, <2>1 DEF HeldWhole, P1
<1>10. AllThere(P1, V1, L1, H)
  <2> SUFFICES ASSUME NEW q \in Page
               PROVE  PageThere(P1, V1, L1, H, q)
    BY DEF AllThere
  <2>1. CASE q = p
    BY <1>2, <1>4, <2>1 DEF B, PageThere
  <2>2. CASE q # p
    <3>1. V1[q] = V[q] /\ V[q] \in Class \cup {PageClass} /\ (q \in P1 <=> q \in P)
      BY <1>1, <1>4, <2>2 DEF P1, TypesFit
    <3>2. \A d \in Class : L[d] \subseteq L1[d]
      BY <1>4
    <3> QED
      BY <1>1, <3>1, <3>2 DEF AllThere, PageThere
  <2> QED
    BY <2>1, <2>2
<1> QED
  BY <1>1, <1>5, <1>8, <1>9, <1>10 DEF Sound, P1, V1, L1, B

\* A listed slot becomes an object.
LEMMA Taken ==
    ASSUME NEW P, NEW V, NEW L, NEW H, Sound(P, V, L, H),
           NEW c \in Class, NEW s \in L[c]
    PROVE  Sound(P, V, [L EXCEPT ![c] = @ \ {s}], H \cup {SlotObject(s, c)})
<1> DEFINE x == SlotObject(s, c)
           H1 == H \cup {x}
           L1 == [L EXCEPT ![c] = @ \ {s}]
<1>1. /\ TypesFit(P, V, L, H) /\ ListedFree(V, L, H) /\ HeldWhole(P, V, H)
      /\ HeldApart(H) /\ AllThere(P, V, L, H)
  BY DEF Sound
<1>2. /\ s \in SlotType /\ s.page \in Page /\ V[s.page] = c /\ s.off \in Offsets(c)
      /\ c # PageClass
  BY <1>1, Classes DEF TypesFit, ListedFree, SlotType
<1>3. x \in ObjectType /\ x.page = s.page /\ x.off = s.off /\ x.class = c /\ x.area = {s.page}
  BY <1>2, SlotObjectOf
<1>4. L1[c] = L[c] \ {s} /\ \A d \in Class \ {c} : L1[d] = L[d]
  BY <1>1 DEF TypesFit
<1>5. TypesFit(P, V, L1, H1)
  BY <1>1, <1>3 DEF TypesFit
<1>6. \A r \in SlotType : r.page = s.page /\ r.off = s.off => r = s
  BY <1>2 DEF SlotType
<1> HIDE DEF x, L1
<1>8. ListedFree(V, L1, H1)
  <2> SUFFICES ASSUME NEW d \in Class, NEW r \in L1[d]
               PROVE  /\ V[r.page] = d /\ r.off \in Offsets(d)
                      /\ \A y \in H1 : r.page \in y.area => y.class # PageClass /\ y.off # r.off
    BY DEF ListedFree
  <2>1. r \in L[d] /\ r # s /\ r \in SlotType
    BY <1>1, <1>2, <1>4 DEF TypesFit, ListedFree
  <2> QED
    BY <1>1, <1>2, <1>3, <1>6, <2>1 DEF ListedFree
<1>9. HeldWhole(P, V, H1)
  BY <1>1, <1>2, <1>3 DEF HeldWhole
<1>10. HeldApart(H1)
  <2>1. \A y \in H : x.area \cap y.area # {} => y.class # PageClass /\ y.off # x.off
    BY <1>1, <1>3 DEF ListedFree
  <2> QED
    BY <1>1, <1>2, <1>3, <2>1 DEF HeldApart
<1>11. AllThere(P, V, L1, H1)
  <2> SUFFICES ASSUME NEW q \in Page
               PROVE  PageThere(P, V, L1, H1, q)
    BY DEF AllThere
  <2>1. V[q] \in Class \cup {PageClass} /\ PageThere(P, V, L, H, q)
    BY <1>1 DEF TypesFit, AllThere
  <2>2. V[q] = PageClass => q \in P \/ \E y \in H1 : q \in y.area
    BY <2>1 DEF PageThere
  <2>3. ASSUME V[q] # PageClass, NEW o \in Offsets(V[q])
        PROVE  \/ Slot(q, o) \in L1[V[q]]
               \/ \E y \in H1 : y.page = q /\ y.off = o
               \/ o = 0 /\ q \in P
    <3>1. o \in Int
      BY <2>1, <2>3, OffsetsInt
    <3>2. Slot(q, o) = s => x.page = q /\ x.off = o
      BY <1>3, <3>1, SlotOf
    <3>3. Slot(q, o) \in L[V[q]] \/ (\E y \in H : y.page = q /\ y.off = o) \/ (o = 0 /\ q \in P)
      BY <2>1, <2>3 DEF PageThere
    <3> QED
      BY <1>4, <2>1, <2>3, <3>2, <3>3
  <2> QED
    BY <2>2, <2>3 DEF PageThere
<1> QED
  BY <1>1, <1>5, <1>8, <1>9, <1>10, <1>11 DEF Sound, L1, x

\* free_bin lists the slot of an object.
LEMMA Returned ==
    ASSUME NEW P, NEW V, NEW L, NEW H, Sound(P, V, L, H),
           NEW x \in H, x.class # PageClass
    PROVE  /\ Slot(x.page, x.off) \in SlotType /\ Slot(x.page, x.off) \notin L[x.class]
           /\ x.class \in Class /\ V[x.page] = x.class
           /\ Sound(P, V, [L EXCEPT ![x.class] = {Slot(x.page, x.off)} \cup @], H \ {x})
<1> DEFINE c == x.class
           s == Slot(x.page, x.off)
           H1 == H \ {x}
           L1 == [L EXCEPT ![c] = {s} \cup @]
<1>1. /\ TypesFit(P, V, L, H) /\ ListedFree(V, L, H) /\ HeldWhole(P, V, H)
      /\ HeldApart(H) /\ AllThere(P, V, L, H)
  BY DEF Sound
<1>2. /\ x.page \in Page /\ x.off \in Int /\ c \in Class /\ V[x.page] = c
      /\ x.off \in Offsets(c) /\ x.area = {x.page}
  BY <1>1 DEF TypesFit, HeldWhole, ObjectType
<1>3. s \in SlotType /\ s.page = x.page /\ s.off = x.off
  BY <1>2, SlotOf
<1>4. L1[c] = L[c] \cup {s} /\ \A d \in Class \ {c} : L1[d] = L[d]
  BY <1>1, <1>2 DEF TypesFit
<1>5. TypesFit(P, V, L1, H1)
  BY <1>1, <1>2, <1>3 DEF TypesFit
<1>6. s \notin L[c]
  BY <1>1, <1>2, <1>3 DEF ListedFree
<1> HIDE DEF L1, s
<1>7. ListedFree(V, L1, H1)
  <2> SUFFICES ASSUME NEW d \in Class, NEW r \in L1[d]
               PROVE  /\ V[r.page] = d /\ r.off \in Offsets(d)
                      /\ \A y \in H1 : r.page \in y.area => y.class # PageClass /\ y.off # r.off
    BY DEF ListedFree
  <2>1. CASE r \in L[d]
    BY <1>1, <2>1 DEF ListedFree
  <2>2. CASE r \notin L[d]
    <3>1. r = s /\ d = c
      BY <1>4, <2>2
    <3>2. \A y \in H1 : x.page \in y.area => y.class # PageClass /\ y.off # x.off
      BY <1>1, <1>2 DEF HeldApart
    <3> QED
      BY <1>2, <1>3, <3>1, <3>2
  <2> QED
    BY <2>1, <2>2
<1>8. HeldWhole(P, V, H1) /\ HeldApart(H1)
  BY <1>1 DEF HeldWhole, HeldApart
<1>9. AllThere(P, V, L1, H1)
  <2> SUFFICES ASSUME NEW q \in Page
               PROVE  PageThere(P, V, L1, H1, q)
    BY DEF AllThere
  <2>1. V[q] \in Class \cup {PageClass} /\ PageThere(P, V, L, H, q)
    BY <1>1 DEF TypesFit, AllThere
  <2>2. V[q] = PageClass => q \in P \/ \E y \in H1 : q \in y.area
    <3>1. V[q] = PageClass => q \notin x.area
      BY <1>2, Classes
    <3> QED
      BY <2>1, <3>1 DEF PageThere
  <2>3. ASSUME V[q] # PageClass, NEW o \in Offsets(V[q])
        PROVE  \/ Slot(q, o) \in L1[V[q]]
               \/ \E y \in H1 : y.page = q /\ y.off = o
               \/ o = 0 /\ q \in P
    <3>1. x.page = q /\ x.off = o => Slot(q, o) \in L1[V[q]]
      BY <1>2, <1>4 DEF s
    <3>2. Slot(q, o) \in L[V[q]] \/ (\E y \in H : y.page = q /\ y.off = o) \/ (o = 0 /\ q \in P)
      BY <2>1, <2>3 DEF PageThere
    <3> QED
      BY <1>4, <2>1, <2>3, <3>1, <3>2
  <2> QED
    BY <2>2, <2>3 DEF PageThere
<1> QED
  BY <1>1, <1>2, <1>3, <1>5, <1>6, <1>7, <1>8, <1>9 DEF Sound, L1, s

\* A block of pages becomes an object.
LEMMA PageTaken ==
    ASSUME NEW P, NEW V, NEW L, NEW H, Sound(P, V, L, H),
           NEW B \in SUBSET P, NEW p \in B, \A q \in B : Bare(L, H, q)
    PROVE  Sound(P \ B, V, L, H \cup {PageObject(p, B)})
<1> DEFINE x == PageObject(p, B)
           H1 == H \cup {x}
           P1 == P \ B
<1>1. /\ TypesFit(P, V, L, H) /\ ListedFree(V, L, H) /\ HeldWhole(P, V, H)
      /\ HeldApart(H) /\ AllThere(P, V, L, H)
  BY DEF Sound
<1>2. p \in Page /\ B \in SUBSET Page /\ \A q \in B : V[q] = PageClass
  BY <1>1, BareUnsplit DEF TypesFit
<1>3. x \in ObjectType /\ x.page = p /\ x.off = 0 /\ x.class = PageClass /\ x.area = B
  BY <1>2, PageObjectOf
<1> HIDE DEF x
<1>4. \A y \in H : y.area \cap B = {}
  BY DEF Bare
<1>5. \A c \in Class : \A s \in L[c] : s.page \notin B
  BY DEF Bare
<1>6. TypesFit(P1, V, L, H1)
  BY <1>1, <1>3 DEF TypesFit
<1>7. ListedFree(V, L, H1)
  BY <1>1, <1>3, <1>5 DEF ListedFree
<1>8. HeldWhole(P1, V, H1)
  BY <1>1, <1>2, <1>3 DEF HeldWhole
<1>9. HeldApart(H1)
  BY <1>1, <1>3, <1>4 DEF HeldApart
<1>10. AllThere(P1, V, L, H1)
  <2> SUFFICES ASSUME NEW q \in Page
               PROVE  PageThere(P1, V, L, H1, q)
    BY DEF AllThere
  <2>1. PageThere(P, V, L, H, q)
    BY <1>1 DEF AllThere
  <2>2. CASE q \in B
    BY <1>2, <1>3, <2>2 DEF PageThere
  <2>3. CASE q \notin B
    BY <2>1, <2>3 DEF PageThere
  <2> QED
    BY <2>2, <2>3
<1> QED
  BY <1>6, <1>7, <1>8, <1>9, <1>10 DEF Sound, x

\* free_page takes the pages of an object, also those of a first slot.
LEMMA PageReturned ==
    ASSUME NEW P, NEW V, NEW L, NEW H, Sound(P, V, L, H), NEW x \in H, x.off = 0
    PROVE  Sound(P \cup x.area, V, L, H \ {x})
<1> DEFINE H1 == H \ {x}
           P1 == P \cup x.area
<1>1. /\ TypesFit(P, V, L, H) /\ ListedFree(V, L, H) /\ HeldWhole(P, V, H)
      /\ HeldApart(H) /\ AllThere(P, V, L, H)
  BY DEF Sound
<1>2. x.area \in SUBSET Page
  BY <1>1 DEF TypesFit, ObjectType
<1>3. \A y \in H1 : y.class = PageClass => y.area \cap x.area = {}
  BY <1>1 DEF HeldApart
<1>4. TypesFit(P1, V, L, H1)
  BY <1>1, <1>2 DEF TypesFit
<1>5. ListedFree(V, L, H1) /\ HeldApart(H1)
  BY <1>1 DEF ListedFree, HeldApart
<1>6. HeldWhole(P1, V, H1)
  BY <1>1, <1>3 DEF HeldWhole
<1>7. AllThere(P1, V, L, H1)
  <2> SUFFICES ASSUME NEW q \in Page
               PROVE  PageThere(P1, V, L, H1, q)
    BY DEF AllThere
  <2>1. PageThere(P, V, L, H, q) /\ x.page \in x.area
    BY <1>1 DEF AllThere, HeldWhole
  <2> QED
    BY <2>1 DEF PageThere
<1> QED
  BY <1>4, <1>5, <1>6, <1>7 DEF Sound

-----------------------------------------------------------------------------
(* The steps.                                                              *)

\* One list changes.
LEMMA ListChanged ==
    ASSUME BinInv, ~ wild, NEW c \in Class, NEW t \in Seq(SlotType), IsInjective(t),
           bin_list' = [bin_list EXCEPT ![c] = t]
    PROVE  /\ bin_list' \in [Class -> Seq(SlotType)]
           /\ \A d \in Class : IsInjective(bin_list'[d])
           /\ Listed' = [Listed EXCEPT ![c] = ToSet(t)]
<1>1. bin_list \in [Class -> Seq(SlotType)] /\ \A d \in Class : IsInjective(bin_list[d])
  BY DEF BinInv
<1>2. /\ bin_list' \in [Class -> Seq(SlotType)] /\ bin_list'[c] = t
      /\ \A d \in Class \ {c} : bin_list'[d] = bin_list[d]
  BY <1>1
<1>3. \A d \in Class : IsInjective(bin_list'[d])
  BY <1>1, <1>2
<1>4. Listed' = [Listed EXCEPT ![c] = ToSet(t)]
  BY <1>2 DEF Listed
<1> QED
  BY <1>2, <1>3, <1>4

\* What a call's record holds.
LEMMA CallView ==
    ASSUME NEW v \in CallType
    PROVE  /\ v.pc = "none" => v = NoCall
           /\ v.pc \in {"refill", "read"} => v.class \in Class
           /\ v.pc = "unlink" => v.class \in Class /\ v.bin \in SlotType
           /\ v.pc \in {"link", "release"} => v.obj \in ObjectType
BY DEF CallType, NoCall

LEMMA NotInCall == NoCall \in CallType /\ NoCall.pc = "none"
BY DEF NoCall, CallType

\* A call moves on without freeing, and no object goes.
LEMMA FreesKept ==
    ASSUME call \in [Actor -> CallType], FreesHeld, NEW a \in Actor, NEW v \in CallType,
           v.pc \notin {"link", "release"},
           call' = [call EXCEPT ![a] = v],
           \A x \in held : x \notin held' => Freeing(a) /\ x = call[a].obj
    PROVE  call' \in [Actor -> CallType] /\ FreesHeld'
<1>1. /\ call' \in [Actor -> CallType] /\ call'[a] = v
      /\ \A b \in Actor \ {a} : call'[b] = call[b]
  OBVIOUS
<1>2. \A b \in Actor : Freeing(b)' => b # a /\ Freeing(b) /\ call'[b] = call[b]
  BY <1>1 DEF Freeing
<1> SUFFICES ASSUME NEW b \in Actor, Freeing(b)'
             PROVE  /\ call'[b].obj \in held'
                    /\ call'[b].pc = "link" => call'[b].obj.class # PageClass
                    /\ call'[b].pc = "release" => call'[b].obj.off = 0
                    /\ \A d \in Actor : Freeing(d)' /\ call'[d].obj = call'[b].obj => d = b
  BY <1>1 DEF FreesHeld
<1>3. call[b].obj \in held /\ ~ (Freeing(a) /\ call[a].obj = call[b].obj)
  BY <1>2 DEF FreesHeld
<1> QED
  BY <1>2, <1>3 DEF FreesHeld

\* Two lists without repetition and without a common entry, joined.
LEMMA Joined ==
    ASSUME NEW S, NEW s \in Seq(S), NEW t \in Seq(S), IsInjective(s), IsInjective(t),
           ToSet(s) \cap ToSet(t) = {}
    PROVE  s \o t \in Seq(S) /\ IsInjective(s \o t) /\ ToSet(s \o t) = ToSet(s) \cup ToSet(t)
<1> DEFINE m == Len(s)
           n == Len(t)
           u == s \o t
<1>1. /\ m \in Nat /\ n \in Nat /\ u \in Seq(S) /\ Len(u) = m + n
      /\ DOMAIN s = 1 .. m /\ DOMAIN t = 1 .. n /\ DOMAIN u = 1 .. (m + n)
      /\ \A i \in 1 .. (m + n) : u[i] = IF i <= m THEN s[i] ELSE t[i - m]
  OBVIOUS
<1> HIDE DEF m, n, u
<1>2. ASSUME NEW i \in 1 .. (m + n)
      PROVE  \/ i \in 1 .. m /\ u[i] = s[i] /\ u[i] \in ToSet(s)
             \/ (i - m) \in 1 .. n /\ ~ i \in 1 .. m /\ u[i] = t[i - m] /\ u[i] \in ToSet(t)
  <2>1. CASE i <= m
    BY <1>1, <2>1 DEF ToSet
  <2>2. CASE ~ i <= m
    <3>1. (i - m) \in 1 .. n /\ u[i] = t[i - m]
      BY <1>1, <2>2
    <3> QED
      BY <1>1, <2>2, <3>1 DEF ToSet
  <2> QED
    BY <2>1, <2>2
<1>3. IsInjective(u)
  <2> SUFFICES ASSUME NEW i \in 1 .. (m + n), NEW j \in 1 .. (m + n), u[i] = u[j]
               PROVE  i = j
    BY <1>1 DEF IsInjective
  <2>1. CASE i \in 1 .. m /\ j \in 1 .. m /\ u[i] = s[i] /\ u[j] = s[j]
    BY <1>1, <2>1 DEF IsInjective
  <2>2. CASE (i - m) \in 1 .. n /\ (j - m) \in 1 .. n /\ u[i] = t[i - m] /\ u[j] = t[j - m]
    <3>1. i - m = j - m
      BY <1>1, <2>2 DEF IsInjective
    <3> QED
      BY <1>1, <3>1
  <2> QED
    BY <1>2, <2>1, <2>2
<1>4. ASSUME NEW x PROVE x \in ToSet(u) <=> x \in ToSet(s) \cup ToSet(t)
  <2>1. ASSUME x \in ToSet(u) PROVE x \in ToSet(s) \cup ToSet(t)
    <3>1. PICK i \in 1 .. (m + n) : u[i] = x
      BY <1>1, <2>1 DEF ToSet
    <3> QED
      BY <1>2, <3>1
  <2>2. ASSUME x \in ToSet(s) PROVE x \in ToSet(u)
    <3>1. PICK i \in 1 .. m : s[i] = x
      BY <1>1, <2>2 DEF ToSet
    <3>2. i \in 1 .. (m + n) /\ u[i] = x
      BY <1>1, <3>1
    <3> QED
      BY <1>1, <3>2 DEF ToSet
  <2>3. ASSUME x \in ToSet(t) PROVE x \in ToSet(u)
    <3>1. PICK i \in 1 .. n : t[i] = x
      BY <1>1, <2>3 DEF ToSet
    <3>2. (i + m) \in 1 .. (m + n) /\ ~ (i + m <= m) /\ (i + m) - m = i
      BY <1>1
    <3>3. u[i + m] = t[(i + m) - m]
      BY <1>1, <3>2
    <3>4. u[i + m] = x
      BY <3>1, <3>2, <3>3
    <3> QED
      BY <1>1, <3>2, <3>4 DEF ToSet
  <2> QED
    BY <2>1, <2>2, <2>3
<1> QED
  BY <1>1, <1>3, <1>4 DEF u

\* list_del_entry of a listed slot.
LEMMA UnlinkListed ==
    ASSUME NEW S, NEW s \in Seq(S), IsInjective(s), NEW e \in ToSet(s)
    PROVE  /\ Unlinked(s, e) \in Seq(S)
           /\ ToSet(Unlinked(s, e)) = ToSet(s) \ {e}
           /\ IsInjective(Unlinked(s, e))
<1> DEFINE I == {i \in 1 .. Len(s) : s[i] = e}
<1>1. Len(s) \in Nat /\ \E i \in 1 .. Len(s) : s[i] = e
  BY ToSetType
<1>2. I \in SUBSET Nat /\ I # {}
  BY <1>1
<1>3. Min(I) \in I
  BY <1>2, MinIsLeast
<1>4. Unlinked(s, e) = RemoveAt(s, Min(I))
  BY <1>1, <1>2 DEF Unlinked, RemoveFirst, SelectInSeq
<1>5. Min(I) \in 1 .. Len(s) /\ s[Min(I)] = e
  BY <1>3
<1> HIDE DEF I
<1> QED
  BY <1>4, <1>5, RemoveEntry

\* A page that is not Live has nothing on it.
LEMMA NotLive ==
    ASSUME NEW p, ~ Live(p)
    PROVE  Bare(Listed, held, p)
BY DEF Live, Bare, Listed

\* Steps that change nothing but the state of a call.
LEMMA CallMoves ==
    ASSUME BinInv, ~ wild, NEW a \in Actor, NEW v \in CallType,
           v.pc \notin {"link", "release"}, call' = [call EXCEPT ![a] = v],
           UNCHANGED <<pages, bin_val, bin_list, held>>
    PROVE  BinInv'
<1>1. call' \in [Actor -> CallType] /\ FreesHeld'
  BY FreesKept DEF BinInv
<1>2. Listed' = Listed
  BY DEF Listed
<1> QED
  BY <1>1, <1>2 DEF BinInv

LEMMA KfreeInv ==
    ASSUME BinInv, ~ wild, NEW a \in Actor, NEW x \in held, Kfree(a, x)
    PROVE  BinInv'
<1> DEFINE v == [pc |-> IF IsBin(x) THEN "link" ELSE "release", obj |-> x]
<1>1. /\ Sound(pages, bin_val, Listed, held) /\ call \in [Actor -> CallType] /\ FreesHeld
      /\ UNCHANGED <<pages, bin_val, bin_list, held, wild>>
      /\ call' = [call EXCEPT ![a] = v] /\ ~ BeingFreed(x) /\ call[a] = NoCall
  BY DEF BinInv, Kfree
<1>2. x \in ObjectType /\ HeldWhole(pages, bin_val, held) /\ TypesFit(pages, bin_val, Listed, held)
  BY <1>1 DEF Sound, TypesFit
<1>3. /\ v.pc = "link" => x.class # PageClass
      /\ v.pc = "release" => x.off = 0
      /\ v.pc \in {"link", "release"} /\ v.obj = x
  <2>1. IsBin(x) => x.class # PageClass
    BY <1>2 DEF IsBin, HeldWhole
  <2>2. ~ IsBin(x) => x.off = 0
    BY <1>2, Classes DEF IsBin, HeldWhole, ObjectType, PageClass
  <2> QED
    BY <2>1, <2>2
<1>4. v \in CallType
  BY <1>2 DEF CallType
<1> HIDE DEF v
<1>5. /\ call' \in [Actor -> CallType] /\ call'[a] = v
      /\ \A b \in Actor \ {a} : call'[b] = call[b]
  BY <1>1, <1>4
<1>6. \A b \in Actor \ {a} : Freeing(b)' => Freeing(b) /\ call[b].obj # x
  BY <1>1, <1>5 DEF Freeing, BeingFreed
<1>7. FreesHeld'
  <2> SUFFICES ASSUME NEW b \in Actor, Freeing(b)'
               PROVE  /\ call'[b].obj \in held'
                      /\ call'[b].pc = "link" => call'[b].obj.class # PageClass
                      /\ call'[b].pc = "release" => call'[b].obj.off = 0
                      /\ \A d \in Actor : Freeing(d)' /\ call'[d].obj = call'[b].obj => d = b
    BY <1>5 DEF FreesHeld
  <2>1. CASE b = a
    BY <1>1, <1>3, <1>5, <1>6, <2>1
  <2>2. CASE b # a
    <3>1. call'[b] = call[b] /\ Freeing(b) /\ call[b].obj # x
      BY <1>5, <1>6, <2>2
    <3>2. \A d \in Actor : Freeing(d)' /\ call'[d].obj = call'[b].obj => d = b
      BY <1>1, <1>3, <1>5, <1>6, <3>1 DEF FreesHeld
    <3> QED
      BY <1>1, <3>1, <3>2 DEF FreesHeld
  <2> QED
    BY <2>1, <2>2
<1>8. Listed' = Listed
  BY <1>1 DEF Listed
<1> QED
  BY <1>1, <1>5, <1>7, <1>8 DEF BinInv

LEMMA FromPageGetBinsInv ==
    ASSUME BinInv, ~ wild, ~ wild', NEW a \in Actor, FromPageGetBins(a)
    PROVE  BinInv'
<1> DEFINE c == call[a].class
<1>1. PICK p \in pages :
        /\ pages' = pages \ {p}
        /\ bin_val' = [bin_val EXCEPT ![p] = c]
        /\ bin_list' = [bin_list EXCEPT ![c] = Bins(p, c) \o @]
        /\ wild' \in IF Live(p) THEN {TRUE} ELSE Torn(PagesBusy(a) \/ ListBusy(a, c))
        /\ call' = [call EXCEPT ![a] = [pc |-> "read", class |-> c]]
  BY DEF FromPageGetBins
<1>2. /\ held' = held /\ c \in Class /\ p \in Page /\ ~ Live(p)
      /\ Sound(pages, bin_val, Listed, held)
      /\ bin_list \in [Class -> Seq(SlotType)] /\ IsInjective(bin_list[c])
      /\ call \in [Actor -> CallType] /\ FreesHeld
  BY <1>1, CallView DEF FromPageGetBins, BinInv, Sound, TypesFit
<1> HIDE DEF c
<1>3. Bare(Listed, held, p) /\ Listed[c] = ToSet(bin_list[c])
  BY <1>2, NotLive DEF Listed
<1>4. /\ Bins(p, c) \in Seq(SlotType) /\ IsInjective(Bins(p, c))
      /\ ToSet(Bins(p, c)) = {Slot(p, o) : o \in Offsets(c)}
  BY <1>2, BinsListed
<1>5. ToSet(Bins(p, c)) \cap ToSet(bin_list[c]) = {}
  <2>1. \A o \in Offsets(c) : Slot(p, o).page = p
    BY <1>2, SlotOf, OffsetsInt
  <2> QED
    BY <1>2, <1>3, <1>4, <2>1 DEF Bare
<1>6. /\ Bins(p, c) \o bin_list[c] \in Seq(SlotType) /\ IsInjective(Bins(p, c) \o bin_list[c])
      /\ ToSet(Bins(p, c) \o bin_list[c]) = {Slot(p, o) : o \in Offsets(c)} \cup Listed[c]
  <2>1. bin_list[c] \in Seq(SlotType)
    BY <1>2
  <2> QED
    BY <1>2, <1>3, <1>4, <1>5, <2>1, Joined
<1>7. /\ bin_list' \in [Class -> Seq(SlotType)]
      /\ \A d \in Class : IsInjective(bin_list'[d])
      /\ Listed' = [Listed EXCEPT ![c] = {Slot(p, o) : o \in Offsets(c)} \cup Listed[c]]
  <2>1. bin_list' = [bin_list EXCEPT ![c] = Bins(p, c) \o bin_list[c]]
    BY <1>1, <1>2
  <2> QED
    BY <1>2, <1>6, <2>1, ListChanged
<1>8. Sound(pages', bin_val', Listed', held')
  <2>1. Sound(pages \ {p}, [bin_val EXCEPT ![p] = c],
              [Listed EXCEPT ![c] = {Slot(p, o) : o \in Offsets(c)} \cup @], held)
    BY <1>2, <1>3, Refilled
  <2> QED
    BY <1>1, <1>2, <1>7, <2>1
<1>9. call' \in [Actor -> CallType] /\ FreesHeld'
  <2>1. [pc |-> "read", class |-> c] \in CallType
    BY <1>2 DEF CallType
  <2> QED
    BY <1>1, <1>2, <2>1, FreesKept
<1> QED
  BY <1>7, <1>8, <1>9 DEF BinInv

LEMMA AllocBinUnlinkInv ==
    ASSUME BinInv, ~ wild, ~ wild', NEW a \in Actor, AllocBinUnlink(a)
    PROVE  BinInv'
<1> DEFINE c == call[a].class
           s == call[a].bin
<1>1. /\ c \in Class /\ s \in ToSet(bin_list[c])
      /\ bin_list[c] \in Seq(SlotType) /\ IsInjective(bin_list[c])
      /\ bin_list \in [Class -> Seq(SlotType)]
      /\ call \in [Actor -> CallType] /\ FreesHeld
      /\ Sound(pages, bin_val, Listed, held)
  BY CallView DEF AllocBinUnlink, BinInv
<1>2. /\ bin_list' = [bin_list EXCEPT ![c] = Unlinked(bin_list[c], s)]
      /\ held' = held \cup {SlotObject(s, c)}
      /\ call' = [call EXCEPT ![a] = NoCall] /\ pages' = pages /\ bin_val' = bin_val
  BY <1>1 DEF AllocBinUnlink
<1> HIDE DEF c, s
<1>3. /\ Unlinked(bin_list[c], s) \in Seq(SlotType)
      /\ ToSet(Unlinked(bin_list[c], s)) = ToSet(bin_list[c]) \ {s}
      /\ IsInjective(Unlinked(bin_list[c], s))
  BY <1>1, UnlinkListed
<1>4. /\ bin_list' \in [Class -> Seq(SlotType)]
      /\ \A d \in Class : IsInjective(bin_list'[d])
      /\ Listed' = [Listed EXCEPT ![c] = ToSet(bin_list[c]) \ {s}]
  BY <1>1, <1>2, <1>3, ListChanged
<1>5. Listed[c] = ToSet(bin_list[c])
  BY <1>1 DEF Listed
<1>6. Sound(pages, bin_val, [Listed EXCEPT ![c] = @ \ {s}], held \cup {SlotObject(s, c)})
  <2>1. s \in Listed[c]
    BY <1>1, <1>5
  <2> QED
    BY <1>1, <2>1, Taken, ZenonT(30)
<1>7. Sound(pages', bin_val', Listed', held')
  BY <1>2, <1>4, <1>5, <1>6
<1>8. call' \in [Actor -> CallType] /\ FreesHeld'
  BY <1>1, <1>2, NotInCall, FreesKept
<1> QED
  BY <1>4, <1>7, <1>8 DEF BinInv

LEMMA AllocPagesInv ==
    ASSUME BinInv, ~ wild, ~ wild', NEW a \in Actor, AllocPages(a)
    PROVE  BinInv'
<1>1. PICK B \in SUBSET pages : \E p \in B :
        /\ pages' = pages \ B
        /\ held' = held \cup {PageObject(p, B)}
        /\ wild' \in IF \E q \in B : Live(q) THEN {TRUE} ELSE Torn(PagesBusy(a) \/ B # {p})
  BY DEF AllocPages
<1>2. PICK p \in B :
        /\ pages' = pages \ B
        /\ held' = held \cup {PageObject(p, B)}
        /\ wild' \in IF \E q \in B : Live(q) THEN {TRUE} ELSE Torn(PagesBusy(a) \/ B # {p})
  BY <1>1
<1>3. \A q \in B : Bare(Listed, held, q)
  BY <1>2, NotLive
<1>4. /\ UNCHANGED <<bin_val, bin_list>> /\ call' = [call EXCEPT ![a] = NoCall]
      /\ call \in [Actor -> CallType] /\ FreesHeld /\ Sound(pages, bin_val, Listed, held)
  BY DEF AllocPages, BinInv
<1>5. Listed' = Listed
  BY <1>4 DEF Listed
<1>6. Sound(pages', bin_val', Listed', held')
  BY <1>2, <1>3, <1>4, <1>5, PageTaken
<1>7. call' \in [Actor -> CallType] /\ FreesHeld'
  BY <1>2, <1>4, NotInCall, FreesKept
<1> QED
  BY <1>4, <1>5, <1>6, <1>7 DEF BinInv

LEMMA KfreeBinInv ==
    ASSUME BinInv, ~ wild, ~ wild', NEW a \in Actor, KfreeBin(a)
    PROVE  BinInv'
<1> DEFINE x == call[a].obj
           c == x.class
           s == Slot(x.page, x.off)
<1>1. /\ Sound(pages, bin_val, Listed, held) /\ call \in [Actor -> CallType] /\ FreesHeld
      /\ Freeing(a) /\ call[a].pc = "link"
  BY DEF BinInv, KfreeBin, Freeing
<1>2. x \in held /\ x.class # PageClass
  BY <1>1 DEF FreesHeld
<1> HIDE DEF x
<1>3. /\ s \in SlotType /\ s \notin Listed[c] /\ c \in Class /\ bin_val[x.page] = c
      /\ Sound(pages, bin_val, [Listed EXCEPT ![c] = {s} \cup @], held \ {x})
  BY <1>1, <1>2, Returned
<1>4. /\ bin_list' = [bin_list EXCEPT ![c] = <<s>> \o bin_list[c]]
      /\ held' = held \ {x} /\ pages' = pages /\ bin_val' = bin_val
      /\ call' = [call EXCEPT ![a] = NoCall]
  BY <1>3 DEF KfreeBin, Added, BinInv, x
<1> HIDE DEF c, s
<1>5. bin_list[c] \in Seq(SlotType) /\ IsInjective(bin_list[c]) /\ s \notin ToSet(bin_list[c])
      /\ Listed[c] = ToSet(bin_list[c])
  BY <1>3 DEF BinInv, Listed
<1>6. /\ <<s>> \o bin_list[c] \in Seq(SlotType) /\ IsInjective(<<s>> \o bin_list[c])
      /\ ToSet(<<s>> \o bin_list[c]) = ToSet(bin_list[c]) \cup {s}
  BY <1>3, <1>5, AddFirst
<1>7. /\ bin_list' \in [Class -> Seq(SlotType)]
      /\ \A d \in Class : IsInjective(bin_list'[d])
      /\ Listed' = [Listed EXCEPT ![c] = {s} \cup Listed[c]]
  <2>1. ToSet(<<s>> \o bin_list[c]) = {s} \cup Listed[c]
    BY <1>5, <1>6
  <2> QED
    BY <1>3, <1>4, <1>6, <2>1, ListChanged
<1>8. call' \in [Actor -> CallType] /\ FreesHeld'
  BY <1>1, <1>4, NotInCall, FreesKept DEF x
<1>9. Sound(pages', bin_val', Listed', held')
  BY <1>3, <1>4, <1>7
<1> QED
  BY <1>7, <1>8, <1>9 DEF BinInv

LEMMA KfreePageInv ==
    ASSUME BinInv, ~ wild, ~ wild', NEW a \in Actor, KfreePage(a)
    PROVE  BinInv'
<1> DEFINE x == call[a].obj
<1>1. /\ Sound(pages, bin_val, Listed, held) /\ call \in [Actor -> CallType] /\ FreesHeld
      /\ Freeing(a) /\ call[a].pc = "release"
  BY DEF BinInv, KfreePage, Freeing
<1>2. x \in held /\ x.off = 0
  BY <1>1 DEF FreesHeld
<1>3. /\ pages' = pages \cup x.area /\ held' = held \ {x}
      /\ UNCHANGED <<bin_val, bin_list>> /\ call' = [call EXCEPT ![a] = NoCall]
  BY DEF KfreePage
<1>4. call' \in [Actor -> CallType] /\ FreesHeld'
  BY <1>1, <1>3, NotInCall, FreesKept
<1>5. Listed' = Listed
  BY <1>3 DEF Listed
<1> HIDE DEF x
<1>6. Sound(pages', bin_val', Listed', held')
  BY <1>1, <1>2, <1>3, <1>5, PageReturned
<1> QED
  BY <1>3, <1>4, <1>5, <1>6 DEF BinInv

LEMMA BinInitInv == BinInit => BinInv
<1> SUFFICES ASSUME BinInit PROVE BinInv
  OBVIOUS
<1>1. /\ pages = Page /\ bin_val = [p \in Page |-> PageClass]
      /\ bin_list = [c \in Class |-> <<>>] /\ held = {} /\ call = [a \in Actor |-> NoCall]
  BY DEF BinInit, PageClass
<1>2. bin_list \in [Class -> Seq(SlotType)] /\ \A c \in Class : IsInjective(bin_list[c])
  BY <1>1 DEF IsInjective
<1>3. \A c \in Class : Listed[c] = {}
  BY <1>1 DEF Listed, ToSet
<1>4. Listed \in [Class -> SUBSET SlotType]
  BY <1>3 DEF Listed
<1>5. Sound(pages, bin_val, Listed, held)
  BY <1>1, <1>3, <1>4
     DEF Sound, TypesFit, ListedFree, HeldWhole, HeldApart, AllThere, PageThere
<1>6. call \in [Actor -> CallType] /\ FreesHeld
  BY <1>1, NotInCall DEF FreesHeld, Freeing
<1> QED
  BY <1>2, <1>5, <1>6 DEF BinInv

LEMMA BinNextInv ==
    ASSUME BinInv, [BinNext]_binVars
    PROVE  BinInv'
<1>1. ASSUME ~ wild, ~ wild', NEW a \in Actor, BinStep(a) PROVE BinInv'
  <2>1. ASSUME NEW c \in Class, AllocBin(a, c) PROVE BinInv'
    <3>1. [pc |-> IF bin_list[c] = <<>> THEN "refill" ELSE "read", class |-> c] \in CallType
      BY DEF CallType
    <3> QED
      BY <1>1, <2>1, <3>1, CallMoves DEF AllocBin
  <2>2. CASE AllocBinRead(a)
    <3> DEFINE v == [pc |-> "unlink", class |-> call[a].class, bin |-> Head(bin_list[call[a].class])]
    <3>1. /\ call[a].class \in Class /\ bin_list[call[a].class] # <<>>
          /\ UNCHANGED <<pages, bin_val, bin_list, held>> /\ call' = [call EXCEPT ![a] = v]
      BY <1>1, <2>2, CallView DEF AllocBinRead, BinInv
    <3>2. bin_list[call[a].class] \in Seq(SlotType)
      BY <1>1, <3>1 DEF BinInv
    <3>3. v \in CallType
      BY <3>1, <3>2 DEF CallType
    <3> QED
      BY <1>1, <3>1, <3>3, CallMoves
  <2>3. CASE KmallocPages(a)
    <3>1. [pc |-> "pages"] \in CallType
      BY DEF CallType
    <3> QED
      BY <1>1, <2>3, <3>1, CallMoves DEF KmallocPages
  <2>4. ~ OutOfPages(a)
    BY <1>1 DEF OutOfPages
  <2>5. ASSUME NEW x \in held, Kfree(a, x) PROVE BinInv'
    BY <1>1, <2>5, KfreeInv
  <2>6. CASE FromPageGetBins(a)
    BY <1>1, <2>6, FromPageGetBinsInv
  <2>7. CASE AllocBinUnlink(a)
    BY <1>1, <2>7, AllocBinUnlinkInv
  <2>8. CASE AllocPages(a)
    BY <1>1, <2>8, AllocPagesInv
  <2>9. CASE KfreeBin(a)
    BY <1>1, <2>9, KfreeBinInv
  <2>10. CASE KfreePage(a)
    BY <1>1, <2>10, KfreePageInv
  <2> QED
    BY <1>1, <2>1, <2>2, <2>3, <2>4, <2>5, <2>6, <2>7, <2>8, <2>9, <2>10 DEF BinStep
<1>2. CASE wild'
  BY <1>2 DEF BinInv
<1>3. CASE UNCHANGED binVars
  BY <1>3 DEF binVars, BinInv, Listed, FreesHeld, Freeing
<1> QED
  BY <1>1, <1>2, <1>3 DEF BinNext

\* Whatever calls overtake one another and whatever is freed, the inductive
\* invariant holds, for all slot classes, page sizes and actors.
THEOREM BinInvariantHolds == BinSpec => []BinInv
<1>1. BinInit => BinInv
  BY BinInitInv
<1>2. BinInv /\ [BinNext]_binVars => BinInv'
  BY BinNextInv
<1> QED
  BY <1>1, <1>2, PTL DEF BinSpec

LEMMA ExtentOfSlot ==
    ASSUME NEW x \in ObjectType, x.class # PageClass
    PROVE  Extent(x) = x.off .. (x.off + 2^x.class - 1)
BY DEF Extent

\* kmalloc never returns memory that overlaps an object in use, however the
\* calls of threads and handlers interleave and also after kfree has taken a
\* slot for a page, up to the moments that wild names.
THEOREM ObjectsDisjoint == BinSpec => []HeldDisjoint
<1>1. BinInv => HeldDisjoint
  <2> SUFFICES ASSUME BinInv, ~ wild, NEW x \in held, NEW y \in held, x # y, x.area \cap y.area # {}
               PROVE  Extent(x) \cap Extent(y) = {}
    BY DEF HeldDisjoint
  <2>1. /\ x \in ObjectType /\ y \in ObjectType
        /\ HeldWhole(pages, bin_val, held) /\ HeldApart(held)
    BY DEF BinInv, Sound, TypesFit
  <2>2. x.class # PageClass /\ y.class # PageClass /\ x.off # y.off
    BY <2>1 DEF HeldApart
  <2>3. x.area = {x.page} /\ y.area = {y.page} /\ x.class = y.class
    BY <2>1, <2>2 DEF HeldWhole
  <2>4. x.class \in Class /\ x.off \in Offsets(x.class) /\ y.off \in Offsets(x.class)
    BY <2>1, <2>2, <2>3 DEF HeldWhole, ObjectType
  <2> DEFINE a == x.off
             b == y.off
             w == 2^x.class
  <2>5. /\ a \in Int /\ b \in Int /\ w \in Nat \ {0} /\ (a + w <= b \/ b + w <= a)
    BY <2>2, <2>4, SlotsApart
  <2>6. Extent(x) = a .. (a + w - 1) /\ Extent(y) = b .. (b + w - 1)
    BY <2>1, <2>2, <2>3, ExtentOfSlot
  <2> HIDE DEF a, b, w
  <2> QED
    BY <2>5, <2>6
<1> QED
  BY <1>1, BinInvariantHolds, PTL

\* What is on a list may be handed out: it is a slot of a page that is split
\* into slots of this class, and no object in use covers it.
THEOREM ListedSlotsFree == BinSpec => []FreeSlotsFree
<1>1. BinInv => FreeSlotsFree
  <2> SUFFICES ASSUME BinInv, ~ wild, NEW c \in Class
               PROVE  /\ IsInjective(bin_list[c])
                      /\ \A s \in ToSet(bin_list[c]) :
                            /\ bin_val[s.page] = c
                            /\ \A x \in held : s.page \in x.area => s.off \notin Extent(x)
    BY DEF FreeSlotsFree
  <2>1. IsInjective(bin_list[c]) /\ Listed[c] = ToSet(bin_list[c])
    BY DEF BinInv, Listed
  <2>2. ASSUME NEW s \in Listed[c]
        PROVE  bin_val[s.page] = c
    BY <2>2 DEF BinInv, Sound, ListedFree
  <2>3. ASSUME NEW s \in Listed[c], NEW x \in held, s.page \in x.area
        PROVE  s.off \notin Extent(x)
    <3>1. /\ x \in ObjectType /\ s.off \in Offsets(c) /\ x.off # s.off
          /\ x.class # PageClass
      BY <2>3 DEF BinInv, Sound, TypesFit, ListedFree
    <3>2. x.area = {x.page} /\ x.class = c /\ x.off \in Offsets(c)
      BY <2>2, <2>3, <3>1 DEF BinInv, Sound, HeldWhole
    <3> DEFINE a == x.off
               b == s.off
               w == 2^c
    <3>3. /\ a \in Int /\ b \in Int /\ w \in Nat \ {0} /\ (a + w <= b \/ b + w <= a)
      BY <3>1, <3>2, SlotsApart
    <3>4. Extent(x) = a .. (a + w - 1)
      BY <3>1, <3>2, ExtentOfSlot
    <3> HIDE DEF a, w
    <3> QED
      BY <3>3, <3>4
  <2> QED
    BY <2>1, <2>2, <2>3
<1> QED
  BY <1>1, BinInvariantHolds, PTL

\* Every page is free or in use, and every slot of a page that is split is on
\* its list or in use, except a first slot that kfree gave back with its page.
THEOREM SlotsNotLost == BinSpec => []NoSlotLost
<1>1. BinInv => NoSlotLost
  <2> SUFFICES ASSUME BinInv, ~ wild, NEW p \in Page
               PROVE  IF bin_val[p] = -1 THEN p \in pages \/ \E x \in held : p \in x.area
                      ELSE \A s \in ToSet(Bins(p, bin_val[p])) :
                              \/ InList(s, bin_val[p])
                              \/ \E x \in held : x.page = p /\ x.off = s.off
                              \/ s.off = 0 /\ p \in pages
    BY DEF NoSlotLost
  <2> DEFINE c == bin_val[p]
  <2>1. PageThere(pages, bin_val, Listed, held, p) /\ c \in Class \cup {PageClass}
    BY DEF BinInv, Sound, TypesFit, AllThere
  <2>2. CASE c = -1
    BY <2>1, <2>2 DEF PageThere, PageClass
  <2>3. ASSUME c # -1, NEW s \in ToSet(Bins(p, c))
        PROVE  \/ InList(s, c)
               \/ \E x \in held : x.page = p /\ x.off = s.off
               \/ s.off = 0 /\ p \in pages
    <3>1. c \in Class /\ c # PageClass
      BY <2>1, <2>3 DEF PageClass
    <3>2. PICK o \in Offsets(c) : s = Slot(p, o)
      BY <2>3, <3>1, BinsListed
    <3>3. s.off = o
      BY <3>1, <3>2, OffsetsInt, SlotOf
    <3>4. s \in Listed[c] \/ (\E x \in held : x.page = p /\ x.off = o) \/ (o = 0 /\ p \in pages)
      BY <2>1, <3>1, <3>2 DEF PageThere
    <3>5. Listed[c] = ToSet(bin_list[c])
      BY <3>1 DEF Listed
    <3> QED
      BY <3>3, <3>4, <3>5 DEF InList
  <2> QED
    BY <2>2, <2>3
<1> QED
  BY <1>1, BinInvariantHolds, PTL

=============================================================================
