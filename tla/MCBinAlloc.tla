----------------------------- MODULE MCBinAlloc -----------------------------
(***************************************************************************)
(* BinAlloc for TLC, with interchangeable pages and actors.                *)
(***************************************************************************)
EXTENDS BinAlloc, TLC

Interchangeable == Permutations(Page) \cup Permutations(Actor)

=============================================================================
