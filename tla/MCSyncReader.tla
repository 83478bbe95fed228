----------------------------- MODULE MCSyncReader ----------------------------
(***************************************************************************)
(* SyncReader on small instances.                                          *)
(***************************************************************************)
EXTENDS SyncReader

Pro == [tier |-> "pro", status |-> "active"]
OnlyPro == {Pro}
Lapsed == [tier |-> "free", status |-> "cancelled"]
LapsedOrPro == {Lapsed, Pro}
=============================================================================
