----------------------------- MODULE MCUartRing -----------------------------
(***************************************************************************)
(* UartRing for TLC.  The code moves bytes without looking at them, so one *)
(* text in each direction is enough, if a byte differs from its neighbours,*)
(* from what the ring holds at first (0) and from what the slot held one   *)
(* turn before: a byte that is lost, doubled or stale shows.               *)
(***************************************************************************)
EXTENDS UartRing

Text(n) == {[i \in 1 .. m |-> i % 2] : m \in 0 .. n}

Out3 == Text(3)
In4 == Text(4)

=============================================================================
