-------------------------------- MODULE MCVm --------------------------------
(***************************************************************************)
(* Vm for TLC: text, stack, device and signal wrapper areas, in the order  *)
(* and with the adjacency that exec_thread gives them.                     *)
(***************************************************************************)
EXTENDS Vm

Program == << [virt |-> 0, size |-> 4], [virt |-> 30, size |-> 6],
              [virt |-> 18, size |-> 3], [virt |-> 27, size |-> 3] >>

=============================================================================
