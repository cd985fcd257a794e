-------------------------------- MODULE Fifo --------------------------------
(***************************************************************************)
(* What each direction of the interrupt-driven UART promises: bytes come   *)
(* out in the order in which they went in, none is lost, doubled or made   *)
(* up, and at most Capacity of them are under way.                         *)
(***************************************************************************)
EXTENDS Naturals, Sequences

CONSTANTS Byte, Capacity

VARIABLES in, out       \* the bytes that went in and came out so far

Init == in = <<>> /\ out = <<>>

Put ==
    /\ Len(in) - Len(out) < Capacity
    /\ \E b \in Byte : in' = Append(in, b)
    /\ UNCHANGED out

Get ==
    /\ Len(out) < Len(in)
    /\ out' = Append(out, in[Len(out) + 1])
    /\ UNCHANGED in

Spec == Init /\ [][Put \/ Get]_<<in, out>>

\* Every byte comes out in the end.
FairSpec == Spec /\ WF_<<in, out>>(Get)

=============================================================================
