------------------------------ MODULE MCLoader ------------------------------
(***************************************************************************)
(* Loader for TLC: a header of three bytes and images to upload.           *)
(***************************************************************************)
EXTENDS Loader

HeaderBytes == <<2, 1, 0>>

\* Empty, all bytes alike, one that looks like the header, and one whose
\* length needs the second byte of the size.
SmallImages == {<<>>, <<0>>, <<2, 1>>, <<2, 1, 0>>, <<0, 3, 1, 2>>}

=============================================================================
