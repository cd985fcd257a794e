------------------------------ MODULE MCShell -------------------------------
(***************************************************************************)
(* Shell for TLC: command names as short as the model's lines.             *)
(***************************************************************************)
EXTENDS Shell

Exec == <<"e">>
Cat == <<"e", "e">>

=============================================================================
