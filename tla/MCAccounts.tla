----------------------------- MODULE MCAccounts ------------------------------
(***************************************************************************)
(* Accounts on small instances.                                            *)
(***************************************************************************)
EXTENDS Accounts
==============================================================================
