------------------------------ MODULE PagePool ------------------------------
(***************************************************************************)
(* What a page allocator promises: the frames it hands out belong to the   *)
(* caller alone until the caller gives them back, and those that are kept  *)
(* for the hardware and the kernel image are never handed out.  PageAlloc  *)
(* says for which callers lib/malloc.c keeps the promise.                  *)
(***************************************************************************)
EXTENDS Naturals

CONSTANT Frame

VARIABLES kept, out     \* the blocks of frames kept back, and with callers

Unused(b) == \A c \in kept \cup out : b \cap c = {}

Init == kept = {} /\ out = {}

Keep == \E b \in (SUBSET Frame) \ {{}} : Unused(b) /\ kept' = kept \cup {b} /\ UNCHANGED out

Take == \E b \in (SUBSET Frame) \ {{}} : Unused(b) /\ out' = out \cup {b} /\ UNCHANGED kept

Give == \E b \in out : out' = out \ {b} /\ UNCHANGED kept

Spec == Init /\ [][Keep \/ Take \/ Give]_<<kept, out>>

=============================================================================
