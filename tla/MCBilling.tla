----------------------------- MODULE MCBilling -------------------------------
(***************************************************************************)
(* Billing on small instances.                                             *)
(***************************************************************************)
EXTENDS Billing, TLC

Symmetry == Permutations(Events) \cup Permutations(Deliveries) \cup Permutations(Requests)
==============================================================================
