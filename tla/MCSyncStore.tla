----------------------------- MODULE MCSyncStore -----------------------------
(***************************************************************************)
(* SyncStore on small instances: the constants the configurations need.    *)
(***************************************************************************)
EXTENDS SyncStore, TLC

Free == [tier |-> "free", status |-> "active"]
Pro == [tier |-> "pro", status |-> "active"]

OnlyFree == {Free}
OnlyPro == {Pro}

\* Clients, identities and triggers are interchangeable.
Symmetry == Permutations(Clients) \cup Permutations(SnippetIds)
            \cup Permutations(FolderIds) \cup Permutations(Triggers)
=============================================================================
