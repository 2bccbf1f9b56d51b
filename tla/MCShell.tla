------------------------------ MODULE MCShell ------------------------------
(***************************************************************************)
(* Three commands: one that ends, one that only an interrupt ends, and one *)
(* that nothing ends.                                                     *)
(***************************************************************************)
EXTENDS Shell

TheLast == {3}
LastTwo == {2, 3}
=============================================================================
