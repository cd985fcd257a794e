---------------------------- MODULE MCPageAlloc ----------------------------
(***************************************************************************)
(* Instances of PageAlloc for TLC, and the property that needs a frame's   *)
(* number instead of its bits.                                             *)
(***************************************************************************)
EXTENDS PageAlloc

\* Two maximal blocks of 2^2 frames, listed last one first.
TwoBlocks == <<{2}, {}>>
\* One maximal block.
OneBlock == <<{}>>

\* Frame 0, as the first pages of memory are reserved for the page tables,
\* and frames 0 and 1 again, as the regions of init_allocator overlap.
LowRegions == <<{{}}, {{}, {0}}>>
NoRegions == <<>>

\* Index and address range of a block: alloc_page returns the address of the
\* block's head, FRAME_START + 0x1000 * idx.
Index(f) == MapThenSumSet(LAMBDA b : 2^b, f)

\* PageRange, which works on bits, is the range of indices from f's on.
ASSUME RangesCounted ==
    \A f \in Frame, k \in Order :
        PageRange(f, k) =
            {g \in Frame : Index(g) \in Index(f) .. (Index(f) + 2^k - 1)}

Pages(f) == Index(f) .. (Index(f) + 2^val[f] - 1)

\* Two callers never hold overlapping address ranges: combine_page removes
\* the buddy "for the current one to use", so the block a caller gets should
\* be the pages of the two halves.
HeldRangesDisjoint ==
    \A f, g \in Owned : f # g => Pages(f) \cap Pages(g) = {}

=============================================================================
