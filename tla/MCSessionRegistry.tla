------------------------- MODULE MCSessionRegistry ---------------------------
(***************************************************************************)
(* SessionRegistry on small instances.                                     *)
(***************************************************************************)
EXTENDS SessionRegistry, TLC

Symmetry == Permutations(Users) \cup Permutations(Workspaces) \cup Permutations(Closers)
=============================================================================
