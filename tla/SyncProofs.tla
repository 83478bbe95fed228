----------------------------- MODULE SyncProofs ------------------------------
(***************************************************************************)
(* Theorems about SyncStore and, in the last section, SyncReader, for      *)
(* every value of their constants.                                         *)
(***************************************************************************)
EXTENDS SyncReader, FiniteSetTheorems, WellFoundedInduction, TLAPS

Ops == SnippetOps \cup FolderOps

\* A transaction that is past the choice of its operation has one; a batch
\* verifies membership before it has any.
OpChosen ==
  \A c \in Clients :
    /\ tx[c].pc \in {"fetch", "limits", "trigger", "lock", "version", "write"}
         => tx[c].op \in Ops
    /\ tx[c].pc \in {"member", "plan"} =>
         IF tx[c].batch THEN tx[c].op = NoOp ELSE tx[c].op \in Ops

TypeInv == TypeOK /\ OpChosen

\* The operations are records whose fields have these values.
LEMMA OpFields ==
  ASSUME NEW op \in Ops
  PROVE  /\ op.id \in Entities /\ op.do \in {"create", "update", "delete"}
         /\ op.trigger \in Triggers \cup {None} /\ op.body \in Bodies \cup {None}
         /\ op.folder # None => <<op.id, op.folder>> \in SnippetIds \X FolderIds
  BY DEF Ops, SnippetOps, FolderOps, Entities

\* A transaction that does nothing is a transaction.
LEMMA NoTxType == NoTx \in Tx /\ NoTx.op = NoOp
  BY SyncStoreAssumption DEF NoTx, Tx, NoOp, EmptyRow, Row, Phases

\* What a statement reads is a table of rows.
LEMMA VisibleType ==
  ASSUME TypeOK, NEW c \in Clients
  PROVE  Visible(c) \in [Entities -> Row]
  BY DEF TypeOK, Visible, Tx

\* The row and the delta an operation writes have the types of their tables.
LEMMA WrittenType ==
  ASSUME TypeOK, NEW c \in Clients, tx[c].op \in Ops
  PROVE  Written(c) \in Row /\ DeltaOf(c) \in Delta
<1> DEFINE op == tx[c].op
           old == Visible(c)[op.id]
<1>1. /\ op.id \in Entities /\ op.do \in {"create", "update", "delete"}
      /\ op.trigger \in Triggers \cup {None} /\ op.body \in Bodies \cup {None}
  BY OpFields
<1>2. old \in Row
  BY <1>1, VisibleType
<1>3. tx[c].found \in Row /\ tx[c].version \in Nat /\ tx[c].at \in Nat
  BY DEF TypeOK, Tx
<1>4. Written(c) \in Row
  <2>1. CASE op.do = "create"
    BY <2>1, <1>1, <1>3 DEF Written, Created, Updated, Deleted, Row
  <2>2. CASE op.do = "update"
    BY <2>2, <1>1, <1>2, <1>3 DEF Written, Created, Updated, Deleted, Row, Given
  <2>3. CASE op.do = "delete"
    BY <2>3, <1>1, <1>2, <1>3 DEF Written, Created, Updated, Deleted, Row
  <2>4. QED
    BY <2>1, <2>2, <2>3, <1>1
<1>5. DeltaOf(c) \in Delta
  <2>1. Written(c).trigger \in Triggers \cup {None} /\ Written(c).body \in Bodies \cup {None}
    BY <1>4 DEF Row
  <2>2. tx[c].found.trigger \in Triggers \cup {None}
    BY <1>3 DEF Row
  <2>3. QED
    BY <1>1, <1>3, <2>1, <2>2 DEF DeltaOf, Delta
<1>6. QED
  BY <1>4, <1>5

\* A step that replaces one transaction by another of the right form, and leaves
\* everything but the lock alone, keeps the types.
LEMMA TxStep ==
  ASSUME TypeInv, NEW c \in Clients, NEW new \in Tx, tx' = [tx EXCEPT ![c] = new],
         new.pc \in {"fetch", "limits", "trigger", "lock", "version", "write"}
           => new.op \in Ops,
         new.pc \in {"member", "plan"} =>
           IF new.batch THEN new.op = NoOp ELSE new.op \in Ops,
         UNCHANGED <<store, env>>, lock' \in Clients \cup {None}
  PROVE  TypeInv'
<1>1. TypeOK'
  BY DEF TypeInv, TypeOK, store, env
<1>2. OpChosen'
  <2> SUFFICES ASSUME NEW k \in Clients
               PROVE  /\ tx'[k].pc \in {"fetch", "limits", "trigger", "lock", "version", "write"}
                            => tx'[k].op \in Ops
                      /\ tx'[k].pc \in {"member", "plan"} =>
                            IF tx'[k].batch THEN tx'[k].op = NoOp ELSE tx'[k].op \in Ops
    BY DEF OpChosen
  <2>1. CASE k = c
    BY <2>1 DEF TypeInv, TypeOK
  <2>2. CASE k # c
    BY <2>2 DEF TypeInv, TypeOK, OpChosen
  <2>3. QED
    BY <2>1, <2>2
<1>3. QED
  BY <1>1, <1>2 DEF TypeInv

\* Every step keeps the types.
LEMMA TypeStep == TypeInv /\ [Next]_vars => TypeInv'
<1> SUFFICES ASSUME TypeInv, [Next]_vars PROVE TypeInv'
  OBVIOUS
<1> USE DEF TypeInv
<1>1. ASSUME NEW c \in Clients, Begin(c) PROVE TypeInv'
  <2>1. PICK op \in Ops :
          tx' = [tx EXCEPT ![c] =
                  [NoTx EXCEPT !.pc = IF op.do = "create" THEN "member" ELSE "fetch",
                               !.op = op, !.at = now]]
    BY <1>1 DEF Begin, Ops
  <2>2. now \in Nat
    BY DEF TypeOK
  <2> DEFINE new == [NoTx EXCEPT !.pc = IF op.do = "create" THEN "member" ELSE "fetch",
                                 !.op = op, !.at = now]
  <2>3. new \in Tx /\ new.op = op /\ ~new.batch /\ new.pc \in {"member", "fetch"}
    BY <2>2, NoTxType DEF Tx, Ops, NoTx, Phases
  <2>4. tx' = [tx EXCEPT ![c] = new]
    BY <2>1
  <2> HIDE DEF new
  <2>5. QED
    BY <1>1, <2>3, <2>4, TxStep DEF Begin, TypeInv, TypeOK, store, env
<1>2. ASSUME NEW c \in Clients, BeginBatch(c) PROVE TypeInv'
  BY <1>2, NoTxType DEF BeginBatch, TypeOK, OpChosen, store, env, Tx, Phases
<1>3. ASSUME NEW c \in Clients, FetchExisting(c) PROVE TypeInv'
  <2>1. Visible(c)[tx[c].op.id] \in Row /\ tx[c].op \in Ops /\ tx[c] \in Tx
    BY <1>3, VisibleType, OpFields DEF FetchExisting, OpChosen, TypeOK
  <2>2. PICK pc \in {"member", "lock", "limits"} :
          tx' = [tx EXCEPT ![c].found = Visible(c)[tx[c].op.id], ![c].pc = pc]
              /\ (pc # "member" => tx[c].batch) /\ (pc = "member" => ~tx[c].batch)
    BY <1>3, <2>1 DEF FetchExisting, Tx
  <2> DEFINE new == [tx[c] EXCEPT !.found = Visible(c)[tx[c].op.id], !.pc = pc]
  <2>3. new \in Tx /\ new.op = tx[c].op /\ new.batch = tx[c].batch /\ new.pc = pc
    BY <2>1, <2>2 DEF Tx, Phases
  <2>4. tx' = [tx EXCEPT ![c] = new]
    BY <2>2 DEF TypeOK
  <2>5. new.op \in Ops /\ (new.pc = "member" => ~new.batch) /\ new.pc # "plan"
    BY <2>1, <2>2, <2>3
  <2>6. UNCHANGED <<store, env>> /\ lock' \in Clients \cup {None}
    BY <1>3 DEF FetchExisting, TypeOK
  <2> HIDE DEF new
  <2>7. QED
    BY <2>3, <2>4, <2>5, <2>6, TxStep
<1>4. ASSUME NEW c \in Clients, VerifyMembership(c) PROVE TypeInv'
  <2> DEFINE new == [tx[c] EXCEPT !.pc = IF tx[c].op.do = "delete" THEN "lock" ELSE "plan"]
  <2>1. new \in Tx /\ new.op = tx[c].op /\ new.batch = tx[c].batch
        /\ new.pc = IF tx[c].op.do = "delete" THEN "lock" ELSE "plan"
    BY DEF TypeOK, Tx, Phases
  <2>2. IF tx[c].batch THEN tx[c].op = NoOp ELSE tx[c].op \in Ops
    BY <1>4 DEF VerifyMembership, OpChosen
  <2>3. new.pc = "lock" => new.op \in Ops
    BY <2>1, <2>2 DEF NoOp
  <2>4. tx' = [tx EXCEPT ![c] = new]
    BY <1>4 DEF VerifyMembership
  <2> HIDE DEF new
  <2>5. QED
    BY <1>4, <2>1, <2>2, <2>3, <2>4, TxStep DEF VerifyMembership, TypeInv, TypeOK, store, env
<1>5. ASSUME NEW c \in Clients, LoadSubscription(c) PROVE TypeInv'
  BY <1>5 DEF LoadSubscription, TypeOK, OpChosen, store, env, Tx, Phases
<1>6. ASSUME NEW c \in Clients, NextInBatch(c) PROVE TypeInv'
  <2>1. PICK op \in SnippetOps :
          tx' = [tx EXCEPT ![c].op = op, ![c].count = @ + 1,
                           ![c].found = EmptyRow("absent"),
                           ![c].pc = IF op.do = "create" THEN "limits" ELSE "fetch"]
    BY <1>6 DEF NextInBatch
  <2> DEFINE new == [tx[c] EXCEPT !.op = op, !.count = @ + 1,
                                  !.found = EmptyRow("absent"),
                                  !.pc = IF op.do = "create" THEN "limits" ELSE "fetch"]
  <2>2. EmptyRow("absent") \in Row
    BY DEF EmptyRow, Row
  <2>3. tx[c] \in Tx /\ op \in SnippetOps \cup FolderOps \cup {NoOp}
    BY DEF TypeOK
  <2>4. /\ new.op = op /\ new.count = tx[c].count + 1 /\ new.found = EmptyRow("absent")
        /\ new.pc \in {"limits", "fetch"}
    BY <2>3 DEF Tx
  <2>5. new \in Tx
    <3> DEFINE pc == IF op.do = "create" THEN "limits" ELSE "fetch"
    <3>1. pc \in Phases
      BY DEF Phases
    <3> HIDE DEF pc
    <3>2. tx[c].count + 1 \in Nat
      BY <2>3 DEF Tx
    <3>3. \A t \in Tx, n \in Nat, r \in Row, o \in SnippetOps \cup FolderOps \cup {NoOp} :
            [t EXCEPT !.op = o, !.count = n, !.found = r, !.pc = pc] \in Tx
      BY <3>1 DEF Tx
    <3>4. QED
      BY <3>2, <3>3, <2>2, <2>3 DEF pc
  <2>6. tx' = [tx EXCEPT ![c] = new]
    BY <2>1 DEF TypeOK
  <2>7. op \in Ops
    BY DEF Ops
  <2> HIDE DEF new
  <2>8. QED
    BY <1>6, <2>6, <2>7, <2>4, <2>5, TxStep DEF NextInBatch, TypeInv, TypeOK, store, env
<1>7. ASSUME NEW c \in Clients, EnforceLimits(c) PROVE TypeInv'
  BY <1>7 DEF EnforceLimits, TypeOK, OpChosen, store, env, Tx, Phases
<1>8. ASSUME NEW c \in Clients, CheckTrigger(c) PROVE TypeInv'
  <2> DEFINE new == [tx[c] EXCEPT !.pc = "lock"]
  <2>1. tx[c] \in Tx
    BY DEF TypeOK
  <2>2. new \in Tx /\ new.pc = "lock" /\ new.op = tx[c].op
    BY <2>1 DEF Tx, Phases
  <2>3. tx[c].op \in Ops
    BY <1>8 DEF CheckTrigger, OpChosen
  <2>4. tx' = [tx EXCEPT ![c] = new]
    BY <1>8 DEF CheckTrigger
  <2> HIDE DEF new
  <2>5. QED
    BY <1>8, <2>2, <2>3, <2>4, TxStep DEF CheckTrigger, TypeInv, TypeOK, store, env
<1>9. ASSUME NEW c \in Clients, TakeLock(c) PROVE TypeInv'
  BY <1>9 DEF TakeLock, TypeOK, OpChosen, store, env, Tx, Phases
<1>10. ASSUME NEW c \in Clients, AssignVersion(c) PROVE TypeInv'
  <2>1. \A d \in deltas \cup tx[c].pend : d.version \in Nat
    BY DEF TypeOK, Tx, Delta
  <2>2. PICK v \in Nat : tx' = [tx EXCEPT ![c].version = v + 1, ![c].pc = "write"]
    BY <1>10, <2>1 DEF AssignVersion
  <2>3. QED
    BY <1>10, <2>2 DEF AssignVersion, TypeOK, OpChosen, store, env, Tx, Phases
<1>11. ASSUME NEW c \in Clients, WriteRow(c) PROVE TypeInv'
  <2> DEFINE op == tx[c].op
  <2>1. op \in Ops
    BY <1>11 DEF WriteRow, OpChosen
  <2>2. Written(c) \in Row /\ DeltaOf(c) \in Delta
    BY <2>1, WrittenType
  <2>3. (IF op.folder = None THEN {} ELSE {<<op.id, op.folder>>})
          \in SUBSET (SnippetIds \X FolderIds)
    BY <2>1, OpFields
  <2>4. [tx[c].dirty EXCEPT ![op.id] = Written(c)] \in [Entities -> Row \cup {None}]
    BY <2>2 DEF TypeOK, Tx
  <2> DEFINE new == [tx[c] EXCEPT
                       !.dirty = [@ EXCEPT ![op.id] = Written(c)],
                       !.pend  = @ \cup {DeltaOf(c)},
                       !.links = @ \cup (IF op.folder = None THEN {} ELSE {<<op.id, op.folder>>}),
                       !.pc    = IF tx[c].batch THEN "next" ELSE "commit"]
  <2>5. tx[c] \in Tx
    BY DEF TypeOK
  <2>6. new.pc \in {"next", "commit"}
    BY <2>5 DEF Tx
  <2>7. new \in Tx
    BY <2>2, <2>3, <2>4, <2>5 DEF Tx, Phases
  <2>8. tx' = [tx EXCEPT ![c] = new]
    BY <1>11 DEF WriteRow
  <2>9. UNCHANGED <<store, env, lock>>
    BY <1>11 DEF WriteRow
  <2> HIDE DEF new
  <2>10. QED
    BY <2>8, <2>9, <2>6, <2>7, TxStep DEF TypeInv, TypeOK, store, env
<1>12. ASSUME NEW c \in Clients, Publish(c) PROVE TypeInv'
  BY <1>12, VisibleType, NoTxType
     DEF Publish, Release, TypeOK, OpChosen, env, Tx, NoTx
<1>13. ASSUME NEW c \in Clients, Rollback(c) PROVE TypeInv'
  BY <1>13, NoTxType DEF Rollback, Release, TypeOK, OpChosen, store, env, NoTx
<1>14. CASE DeltaPurge
  BY <1>14 DEF DeltaPurge, TypeOK, OpChosen, env
<1>15. ASSUME NEW S \in SUBSET Entities, Clean(S), sweep' \in {"snippets", "folders"}
       PROVE TypeInv'
  BY <1>15 DEF Clean, TypeOK, OpChosen, EmptyRow, Row
<1>16. CASE Tick
  BY <1>16 DEF Tick, TypeOK, OpChosen, store
<1>17. CASE ChangePlan
  BY <1>17 DEF ChangePlan, TypeOK, OpChosen, store
<1>18. CASE RemoveMember
  BY <1>18 DEF RemoveMember, TypeOK, OpChosen, store
<1>19. CASE UNCHANGED vars
  BY <1>19 DEF vars, TypeOK, OpChosen
<1>20. QED
  BY <1>1, <1>2, <1>3, <1>4, <1>5, <1>6, <1>7, <1>8, <1>9, <1>10, <1>11, <1>12, <1>13,
     <1>14, <1>15, <1>16, <1>17, <1>18, <1>19
     DEF Next, Request, Proceed, Maintenance, Commit, Reject, Drop,
         CleanupSnippets, CleanupFolders, Entities

\* The initial tables are well typed.
LEMMA InitTypeInv == Init => TypeInv
BY SyncStoreAssumption, NoTxType
   DEF Init, TypeInv, TypeOK, OpChosen, EmptyRow, Row, NoTx

\* Type correctness of the tables and of every transaction, maintenance included.
THEOREM SpecTypeOK == Spec => []TypeOK
BY InitTypeInv, TypeStep, PTL DEF Spec, TypeInv
-----------------------------------------------------------------------------
(* Versions.  The lock separates the transactions that number deltas, so what  *)
(* one of them holds uncommitted lies above everything that is committed, and  *)
(* stays there until it commits.                                               *)

Above(v, D) == \A x \in D : x.version < v

Distinct(D) == \A d, e \in D : d.version = e.version => d = e

PendAbove ==
  \A c \in Clients :
    /\ \A d \in tx[c].pend : Above(d.version, deltas)
    /\ Distinct(tx[c].pend)
    /\ tx[c].pc = "write" => Above(tx[c].version, deltas \cup tx[c].pend)

VersionInv == TypeOK /\ LockGuardsVersions /\ PendAbove /\ Distinct(deltas)

\* The step of c is none that numbers: it keeps the uncommitted deltas, or
\* begins without any.
SameNumbering(c) ==
  tx'[c].pend \in {tx[c].pend, {}} /\ tx'[c].pc \notin {"version", "write"}

\* A statement that neither numbers nor ends keeps the invariant.
LEMMA QuietStep ==
  ASSUME VersionInv, TypeOK', NEW c \in Clients, SameNumbering(c),
         \A k \in Clients \ {c} : tx'[k] = tx[k], UNCHANGED <<deltas, lock>>
  PROVE  VersionInv'
<1>1. LockGuardsVersions'
  <2> SUFFICES ASSUME NEW k \in Clients, Numbering(k)' PROVE lock' = k
    BY DEF LockGuardsVersions
  <2>1. Numbering(k)
    BY DEF Numbering, SameNumbering
  <2>2. QED
    BY <2>1 DEF VersionInv, LockGuardsVersions
<1>2. PendAbove'
  <2> SUFFICES ASSUME NEW k \in Clients
               PROVE  /\ \A d \in tx'[k].pend : Above(d.version, deltas)
                      /\ Distinct(tx'[k].pend)
                      /\ tx'[k].pc = "write" => Above(tx'[k].version, deltas \cup tx'[k].pend)
    BY DEF PendAbove, Above
  <2>1. tx'[k].pend \in {tx[k].pend, {}} /\ (tx'[k].pc = "write" => tx'[k] = tx[k])
    BY DEF SameNumbering
  <2>2. QED
    BY <2>1 DEF VersionInv, PendAbove, Distinct
<1>3. QED
  BY <1>1, <1>2 DEF VersionInv, Distinct

\* Ending a transaction, with or without publishing what it holds, keeps it.
LEMMA EndStep ==
  ASSUME VersionInv, TypeOK', NEW c \in Clients, tx' = [tx EXCEPT ![c] = NoTx],
         Release(c), deltas' \in {deltas, deltas \cup tx[c].pend}
  PROVE  VersionInv'
<1>1. tx'[c].pend = {} /\ tx'[c].pc = "idle" /\ \A k \in Clients \ {c} : tx'[k] = tx[k]
  BY DEF VersionInv, TypeOK, NoTx
<1>2. \A k \in Clients \ {c} : Numbering(k) => deltas' = deltas /\ lock' = k
  BY DEF VersionInv, LockGuardsVersions, Numbering, Release
<1>3. LockGuardsVersions'
  <2> SUFFICES ASSUME NEW k \in Clients, Numbering(k)' PROVE lock' = k
    BY DEF LockGuardsVersions
  <2>1. k # c /\ Numbering(k)
    BY <1>1 DEF Numbering
  <2>2. QED
    BY <2>1, <1>2
<1>4. PendAbove'
  <2> SUFFICES ASSUME NEW k \in Clients
               PROVE  /\ \A d \in tx'[k].pend : Above(d.version, deltas')
                      /\ Distinct(tx'[k].pend)
                      /\ tx'[k].pc = "write" => Above(tx'[k].version, deltas' \cup tx'[k].pend)
    BY DEF PendAbove, Above
  <2>1. CASE k = c
    BY <2>1, <1>1 DEF Distinct
  <2>2. CASE k # c /\ Numbering(k)
    BY <2>2, <1>1, <1>2 DEF VersionInv, PendAbove
  <2>3. CASE k # c /\ ~Numbering(k)
    BY <2>3, <1>1 DEF Numbering, Distinct
  <2>4. QED
    BY <2>1, <2>2, <2>3
<1>5. Distinct(deltas')
  <2>1. \A d \in deltas, e \in tx[c].pend : d.version < e.version
    BY DEF VersionInv, PendAbove, Above
  <2>2. \A d \in deltas \cup tx[c].pend : d.version \in Nat
    BY DEF VersionInv, TypeOK, Tx, Delta
  <2>3. Distinct(deltas) /\ Distinct(tx[c].pend)
    BY DEF VersionInv, PendAbove
  <2>4. QED
    BY <2>1, <2>2, <2>3 DEF Distinct
<1>6. QED
  BY <1>3, <1>4, <1>5 DEF VersionInv, Distinct

\* Removing deltas, as the purge does, keeps it.
LEMMA FewerDeltas ==
  ASSUME VersionInv, TypeOK', deltas' \subseteq deltas, UNCHANGED <<tx, lock>>
  PROVE  VersionInv'
  BY DEF VersionInv, LockGuardsVersions, Numbering, PendAbove, Above, Distinct

\* Every step keeps the lock, the numbers in the making and those handed out in order.
LEMMA VersionStep == VersionInv /\ TypeOK' /\ [Next]_vars => VersionInv'
<1> SUFFICES ASSUME VersionInv, TypeOK', [Next]_vars PROVE VersionInv'
  OBVIOUS
<1> USE DEF store, env
<1>0. tx \in [Clients -> Tx]
  BY DEF VersionInv, TypeOK
<1>1. ASSUME NEW c \in Clients, Begin(c) \/ BeginBatch(c) PROVE VersionInv'
  <2>1. CASE Begin(c)
    BY <1>0, <2>1, QuietStep DEF Begin, SameNumbering, NoTx
  <2>2. CASE BeginBatch(c)
    BY <1>0, <2>2, QuietStep DEF BeginBatch, SameNumbering, NoTx
  <2>3. QED
    BY <1>1, <2>1, <2>2
<1>2. ASSUME NEW c \in Clients, FetchExisting(c) PROVE VersionInv'
  BY <1>0, <1>2, QuietStep DEF FetchExisting, SameNumbering, Tx
<1>3. ASSUME NEW c \in Clients, VerifyMembership(c) PROVE VersionInv'
  BY <1>0, <1>3, QuietStep DEF VerifyMembership, SameNumbering, Tx
<1>4. ASSUME NEW c \in Clients, LoadSubscription(c) PROVE VersionInv'
  BY <1>0, <1>4, QuietStep DEF LoadSubscription, SameNumbering, Tx
<1>5. ASSUME NEW c \in Clients, NextInBatch(c) PROVE VersionInv'
  BY <1>0, <1>5, QuietStep DEF NextInBatch, SameNumbering, Tx
<1>6. ASSUME NEW c \in Clients, EnforceLimits(c) PROVE VersionInv'
  BY <1>0, <1>6, QuietStep DEF EnforceLimits, SameNumbering, Tx
<1>7. ASSUME NEW c \in Clients, CheckTrigger(c) PROVE VersionInv'
  BY <1>0, <1>7, QuietStep DEF CheckTrigger, SameNumbering, Tx
<1>8. ASSUME NEW c \in Clients, TakeLock(c) PROVE VersionInv'
  <2>1. /\ tx'[c].pend = tx[c].pend /\ tx'[c].pc = "version"
        /\ \A k \in Clients \ {c} : tx'[k] = tx[k]
        /\ lock' = c /\ lock \in {None, c} /\ deltas' = deltas
    BY <1>0, <1>8 DEF TakeLock, Tx
  <2>2. \A k \in Clients \ {c} : ~Numbering(k)
    BY <2>1, SyncStoreAssumption DEF VersionInv, LockGuardsVersions
  <2>3. LockGuardsVersions'
    BY <2>1, <2>2 DEF LockGuardsVersions, Numbering
  <2>4. PendAbove'
    BY <2>1 DEF VersionInv, PendAbove, Above, Distinct
  <2>5. QED
    BY <2>1, <2>3, <2>4 DEF VersionInv, Distinct
<1>9. ASSUME NEW c \in Clients, AssignVersion(c) PROVE VersionInv'
  <2>1. PICK v : /\ IsMaxVersion(v, deltas \cup tx[c].pend)
                 /\ tx' = [tx EXCEPT ![c].version = v + 1, ![c].pc = "write"]
    BY <1>9 DEF AssignVersion
  <2>2. /\ tx'[c].pend = tx[c].pend /\ tx'[c].pc = "write" /\ tx'[c].version = v + 1
        /\ \A k \in Clients \ {c} : tx'[k] = tx[k]
    BY <1>0, <2>1 DEF Tx
  <2>3. Above(v + 1, deltas \cup tx[c].pend)
    BY <1>0, <2>1 DEF IsMaxVersion, Above, VersionInv, TypeOK, Tx, Delta
  <2>4. Numbering(c) /\ UNCHANGED <<deltas, lock>>
    BY <1>9 DEF AssignVersion, Numbering
  <2>5. LockGuardsVersions'
    BY <2>2, <2>4 DEF VersionInv, LockGuardsVersions, Numbering
  <2>6. PendAbove'
    BY <2>2, <2>3, <2>4 DEF VersionInv, PendAbove, Above, Distinct
  <2>7. QED
    BY <2>4, <2>5, <2>6 DEF VersionInv, Distinct
<1>10. ASSUME NEW c \in Clients, WriteRow(c) PROVE VersionInv'
  <2> DEFINE d == DeltaOf(c)
  <2>1. d.version = tx[c].version
    BY DEF DeltaOf
  <2> HIDE DEF d
  <2>2. /\ tx'[c].pend = tx[c].pend \cup {d} /\ tx'[c].pc \in {"next", "commit"}
        /\ \A k \in Clients \ {c} : tx'[k] = tx[k]
    BY <1>0, <1>10 DEF WriteRow, Tx, d
  <2>3. Numbering(c) /\ UNCHANGED <<deltas, lock>>
    BY <1>10 DEF WriteRow, Numbering
  <2>4. Above(d.version, deltas \cup tx[c].pend)
    BY <1>10, <2>1 DEF WriteRow, VersionInv, PendAbove
  <2>5. LockGuardsVersions'
    BY <2>2, <2>3 DEF VersionInv, LockGuardsVersions, Numbering
  <2>6. Distinct(tx'[c].pend)
    <3>1. \A x \in tx[c].pend : x.version < d.version /\ x.version \in Nat /\ d.version \in Nat
      BY <1>0, <2>1, <2>4 DEF Above, Tx, Delta
    <3>2. Distinct(tx[c].pend)
      BY DEF VersionInv, PendAbove
    <3>3. QED
      BY <2>2, <3>1, <3>2 DEF Distinct
  <2>7. \A x \in tx'[c].pend : Above(x.version, deltas)
    BY <2>2, <2>4 DEF VersionInv, PendAbove, Above
  <2>8. PendAbove'
    BY <2>2, <2>3, <2>6, <2>7 DEF VersionInv, PendAbove, Above, Distinct
  <2>9. QED
    BY <2>3, <2>5, <2>8 DEF VersionInv, Distinct
<1>11. ASSUME NEW c \in Clients, Publish(c) PROVE VersionInv'
  BY <1>11, EndStep DEF Publish
<1>12. ASSUME NEW c \in Clients, Rollback(c) PROVE VersionInv'
  BY <1>12, EndStep DEF Rollback
<1>13. CASE DeltaPurge
  BY <1>13, FewerDeltas DEF DeltaPurge
<1>14. ASSUME NEW S \in SUBSET Entities, Clean(S) PROVE VersionInv'
  BY <1>14, FewerDeltas DEF Clean
<1>15. CASE Tick \/ ChangePlan \/ RemoveMember \/ UNCHANGED vars
  BY <1>15, FewerDeltas DEF Tick, ChangePlan, RemoveMember, vars
<1>16. QED
  BY <1>1, <1>2, <1>3, <1>4, <1>5, <1>6, <1>7, <1>8, <1>9, <1>10, <1>11, <1>12,
     <1>13, <1>14, <1>15
     DEF Next, Request, Proceed, Maintenance, Commit, Reject, Drop,
         CleanupSnippets, CleanupFolders, Entities

\* The invariant every step keeps.
Inv == TypeInv /\ VersionInv

\* It holds in every behaviour, maintenance included.
LEMMA SpecInv == Spec => []Inv
<1>1. Init => Inv
  <2> SUFFICES ASSUME Init PROVE Inv
    OBVIOUS
  <2>1. TypeInv
    BY InitTypeInv
  <2>2. VersionInv
    BY <2>1 DEF Init, TypeInv, VersionInv, LockGuardsVersions, Numbering, PendAbove,
                Above, Distinct, NoTx
  <2>3. QED
    BY <2>1, <2>2 DEF Inv
<1>2. Inv /\ [Next]_vars => Inv'
  BY TypeStep, VersionStep DEF Inv, TypeInv
<1>3. QED
  BY <1>1, <1>2, PTL DEF Spec

\* Only the holder of the workspace's advisory lock has versions in the making.
THEOREM SpecLockGuardsVersions == Spec => []LockGuardsVersions
BY SpecInv, PTL DEF Inv, VersionInv

\* The retained deltas have distinct versions, whatever was purged, and a version
\* that was handed out lies above all of them.
THEOREM SpecVersionsDistinct == Spec => []VersionsDistinct
<1>1. Inv => VersionsDistinct
  BY DEF Inv, VersionInv, VersionsDistinct, Distinct, PendAbove, Above
<1>2. QED
  BY <1>1, SpecInv, PTL

\* A commit puts its deltas on top of every retained one.
THEOREM SpecNewVersionsOnTop == Spec => NewVersionsOnTop
<1> DEFINE OnTop == \A d \in deltas' \ deltas, x \in deltas : d.version > x.version
<1>1. Inv /\ [Next]_vars => [OnTop]_vars
  <2> SUFFICES ASSUME Inv, [Next]_vars, NEW d \in deltas' \ deltas, NEW x \in deltas
               PROVE  d.version > x.version
    OBVIOUS
  <2>1. PICK c \in Clients : Publish(c) 
    BY DEF Next, Request, Proceed, Maintenance, vars, store, env, Begin, BeginBatch,
           FetchExisting, VerifyMembership, LoadSubscription, NextInBatch, EnforceLimits,
           CheckTrigger, TakeLock, AssignVersion, WriteRow, Commit, Reject, Drop, Rollback,
           DeltaPurge, CleanupSnippets, CleanupFolders, Clean, Tick, ChangePlan, RemoveMember
  <2>2. d \in tx[c].pend
    BY <2>1 DEF Publish
  <2>3. x.version < d.version
    BY <2>2 DEF Inv, VersionInv, PendAbove, Above
  <2>4. x.version \in Nat /\ d.version \in Nat
    BY <2>2 DEF Inv, TypeInv, TypeOK, Tx, Delta
  <2>5. QED
    BY <2>3, <2>4
<1>2. QED
  BY <1>1, SpecInv, PTL DEF Spec, NewVersionsOnTop
-----------------------------------------------------------------------------
(* Triggers.  The check before the lock proves nothing; the unique index does, *)
(* since it sees the rows of the one transaction that writes on top of what is *)
(* committed.                                                                  *)

UniqueIn(view) ==
  \A s, t \in ActiveIn(view, SnippetIds) : view[s].trigger = view[t].trigger => s = t

\* A transaction without deltas has written no row.
DirtyHasDelta ==
  \A c \in Clients : tx[c].pend = {} => \A e \in Entities : tx[c].dirty[e] = None

TriggerInv ==
  DirtyHasDelta /\ UniqueIn(rows) /\ \A c \in Clients : UniqueIn(Visible(c))

\* A transaction that has written no row reads the committed rows.
LEMMA VisibleWithoutWrites ==
  ASSUME TypeOK, TriggerInv, NEW c \in Clients, tx[c].pend = {}
  PROVE  Visible(c) = rows
BY DEF TypeOK, TriggerInv, DirtyHasDelta, Visible

\* Beginning, or a statement that writes no row, keeps it.
LEMMA TriggerQuietStep ==
  ASSUME TypeOK, TriggerInv, NEW c \in Clients, UNCHANGED rows,
         \A k \in Clients \ {c} : tx'[k] = tx[k],
         \/ tx'[c].pend = tx[c].pend /\ tx'[c].dirty = tx[c].dirty
         \/ tx'[c].pend = {} /\ tx'[c].dirty = [e \in Entities |-> None]
  PROVE  TriggerInv'
<1>1. DirtyHasDelta'
  BY DEF TriggerInv, DirtyHasDelta
<1>2. ASSUME NEW k \in Clients PROVE UniqueIn(Visible(k))'
  <2>1. Visible(k)' \in {Visible(k), rows}
    BY DEF Visible, TypeOK
  <2>2. QED
    BY <2>1 DEF TriggerInv, UniqueIn, ActiveIn
<1>3. QED
  BY <1>1, <1>2 DEF TriggerInv, UniqueIn, ActiveIn

\* Writing a row, where the unique index allows it, keeps triggers unique in the
\* writer's view; the lock keeps every other view free of writes.
LEMMA TriggerWriteStep ==
  ASSUME Inv, TriggerInv, NEW c \in Clients, WriteRow(c)
  PROVE  TriggerInv'
<1> DEFINE op == tx[c].op
           view == Visible(c)
           row == Written(c)
<1>1. op \in Ops /\ op.id \in Entities
  BY OpFields DEF Inv, TypeInv, OpChosen, WriteRow
<1>2. /\ tx'[c].pend = tx[c].pend \cup {DeltaOf(c)} /\ rows' = rows
      /\ tx'[c].dirty = [tx[c].dirty EXCEPT ![op.id] = row]
      /\ \A k \in Clients \ {c} : tx'[k] = tx[k]
  BY DEF Inv, TypeInv, TypeOK, WriteRow, store, Tx
<1>3. row \in Row /\ row # None
  BY <1>1, WrittenType, RowAssumption DEF Inv, TypeInv
<1>4. Visible(c)' = [view EXCEPT ![op.id] = row]
  <2>1. tx[c].dirty \in [Entities -> Row \cup {None}]
    BY DEF Inv, TypeInv, TypeOK, Tx
  <2> HIDE DEF row, op
  <2>2. QED
    BY <1>1, <1>2, <1>3, <2>1 DEF Visible
<1>5. op.id \in SnippetIds /\ row.state = "active" => ~TriggerTaken(view, op.id, row.trigger)
  BY DEF WriteRow, WriteAllowed
<1>6. UniqueIn(view) /\ view \in [Entities -> Row]
  BY VisibleType DEF TriggerInv, Inv, TypeInv
<1> HIDE DEF op, view, row
<1>7. UniqueIn(Visible(c)')
  BY <1>1, <1>4, <1>5, <1>6 DEF UniqueIn, ActiveIn, TriggerTaken, Entities
<1>8. ASSUME NEW k \in Clients \ {c} PROVE UniqueIn(Visible(k)')
  BY <1>2 DEF TriggerInv, Visible
<1>9. DirtyHasDelta'
  BY <1>2 DEF TriggerInv, DirtyHasDelta
<1>10. QED
  BY <1>2, <1>7, <1>8, <1>9 DEF TriggerInv, UniqueIn, ActiveIn

\* Committing or rolling back keeps it: the others read the rows as committed.
LEMMA TriggerEndStep ==
  ASSUME Inv, TriggerInv, NEW c \in Clients, tx' = [tx EXCEPT ![c] = NoTx],
         rows' \in {rows, Visible(c)}
  PROVE  TriggerInv'
<1>1. /\ tx'[c].pend = {} /\ tx'[c].dirty = [e \in Entities |-> None]
      /\ \A k \in Clients \ {c} : tx'[k] = tx[k]
  BY DEF Inv, TypeInv, TypeOK, NoTx
<1>2. UniqueIn(rows')
  BY DEF TriggerInv
<1>3. DirtyHasDelta'
  BY <1>1 DEF TriggerInv, DirtyHasDelta
<1>4. ASSUME NEW k \in Clients PROVE UniqueIn(Visible(k)')
  <2>1. CASE k # c /\ tx[k].pend # {}
    <3>1. tx[c].pend = {}
      BY <2>1 DEF Inv, VersionInv, LockGuardsVersions, Numbering
    <3>2. rows' = rows
      BY <3>1, VisibleWithoutWrites DEF Inv, TypeInv
    <3>3. QED
      BY <1>1, <2>1, <3>2 DEF TriggerInv, Visible
  <2>2. CASE k = c \/ tx[k].pend = {}
    <3>1. \A e \in Entities : tx'[k].dirty[e] = None
      BY <1>1, <2>2 DEF TriggerInv, DirtyHasDelta
    <3>2. Visible(k)' = rows'
      BY <3>1, VisibleType DEF Visible, Inv, TypeInv, TypeOK
    <3>3. QED
      BY <1>2, <3>2
  <2>3. QED
    BY <2>1, <2>2
<1>5. QED
  BY <1>2, <1>3, <1>4 DEF TriggerInv, UniqueIn, ActiveIn

\* Hard-deleting rows no transaction has written takes no active row away and
\* adds none.
LEMMA TriggerCleanStep ==
  ASSUME Inv, TriggerInv, NEW S \in SUBSET Entities, Clean(S)
  PROVE  TriggerInv'
<1>1. UNCHANGED tx
  BY DEF Clean
<1>2. rows' \in [Entities -> Row]
  BY DEF Clean, Inv, TypeInv, TypeOK, EmptyRow, Row
<1>3. \A e \in Entities : rows'[e].state = "active" => rows'[e] = rows[e]
  BY DEF Clean, EmptyRow
<1>4. UniqueIn(rows')
  BY <1>2, <1>3 DEF TriggerInv, UniqueIn, ActiveIn, Entities
<1>5. ASSUME NEW k \in Clients PROVE UniqueIn(Visible(k)')
  <2>1. \A e \in Entities : Visible(k)'[e].state = "active" => Visible(k)'[e] = Visible(k)[e]
    BY <1>1, <1>3 DEF Visible
  <2>2. QED
    BY <2>1 DEF TriggerInv, UniqueIn, ActiveIn, Entities
<1>6. QED
  BY <1>1, <1>4, <1>5 DEF TriggerInv, DirtyHasDelta, UniqueIn, ActiveIn

\* Every step keeps triggers unique in the tables and in every view.
LEMMA TriggerStep == Inv /\ TriggerInv /\ [Next]_vars => TriggerInv'
<1> SUFFICES ASSUME Inv, TriggerInv, [Next]_vars PROVE TriggerInv'
  OBVIOUS
<1> USE DEF store, env
<1>0. TypeOK /\ tx \in [Clients -> Tx]
  BY DEF Inv, TypeInv, TypeOK
<1>1. ASSUME NEW c \in Clients, Begin(c) PROVE TriggerInv'
  BY <1>0, <1>1, TriggerQuietStep DEF Begin, NoTx
<1>2. ASSUME NEW c \in Clients, BeginBatch(c) PROVE TriggerInv'
  BY <1>0, <1>2, TriggerQuietStep DEF BeginBatch, NoTx
<1>3. ASSUME NEW c \in Clients, FetchExisting(c) PROVE TriggerInv'
  BY <1>0, <1>3, TriggerQuietStep DEF FetchExisting, Tx
<1>4. ASSUME NEW c \in Clients, VerifyMembership(c) PROVE TriggerInv'
  BY <1>0, <1>4, TriggerQuietStep DEF VerifyMembership, Tx
<1>5. ASSUME NEW c \in Clients, LoadSubscription(c) PROVE TriggerInv'
  BY <1>0, <1>5, TriggerQuietStep DEF LoadSubscription, Tx
<1>6. ASSUME NEW c \in Clients, NextInBatch(c) PROVE TriggerInv'
  BY <1>0, <1>6, TriggerQuietStep DEF NextInBatch, Tx
<1>7. ASSUME NEW c \in Clients, EnforceLimits(c) PROVE TriggerInv'
  BY <1>0, <1>7, TriggerQuietStep DEF EnforceLimits, Tx
<1>8. ASSUME NEW c \in Clients, CheckTrigger(c) PROVE TriggerInv'
  BY <1>0, <1>8, TriggerQuietStep DEF CheckTrigger, Tx
<1>9. ASSUME NEW c \in Clients, TakeLock(c) PROVE TriggerInv'
  BY <1>0, <1>9, TriggerQuietStep DEF TakeLock, Tx
<1>10. ASSUME NEW c \in Clients, AssignVersion(c) PROVE TriggerInv'
  BY <1>0, <1>10, TriggerQuietStep DEF AssignVersion, Tx
<1>11. ASSUME NEW c \in Clients, WriteRow(c) PROVE TriggerInv'
  BY <1>11, TriggerWriteStep
<1>12. ASSUME NEW c \in Clients, Publish(c) PROVE TriggerInv'
  BY <1>12, TriggerEndStep DEF Publish
<1>13. ASSUME NEW c \in Clients, Rollback(c) PROVE TriggerInv'
  BY <1>13, TriggerEndStep DEF Rollback
<1>14. ASSUME NEW S \in SUBSET Entities, Clean(S) PROVE TriggerInv'
  BY <1>14, TriggerCleanStep
<1>15. ASSUME UNCHANGED <<rows, tx>> PROVE TriggerInv'
  BY <1>15 DEF TriggerInv, DirtyHasDelta, UniqueIn, ActiveIn, Visible
<1>16. QED
  BY <1>1, <1>2, <1>3, <1>4, <1>5, <1>6, <1>7, <1>8, <1>9, <1>10, <1>11, <1>12,
     <1>13, <1>14, <1>15
     DEF Next, Request, Proceed, Maintenance, Commit, Reject, Drop, DeltaPurge, Tick,
         ChangePlan, RemoveMember, vars, CleanupSnippets, CleanupFolders, Entities

\* No two active snippets share a trigger, whatever the check before the lock saw
\* and whatever the maintenance removed.
THEOREM SpecTriggersUnique == Spec => []TriggersUnique
<1>1. Init => TriggerInv
  BY SyncStoreAssumption DEF Init, TriggerInv, DirtyHasDelta, UniqueIn, ActiveIn, Visible,
       NoTx, EmptyRow, Entities
<1>2. TriggerInv => TriggersUnique
  BY DEF TriggerInv, UniqueIn, TriggersUnique
<1>3. QED
  BY <1>1, <1>2, SpecInv, TriggerStep, PTL DEF Spec
-----------------------------------------------------------------------------
(* No gaps, as long as nothing is purged.  The versions of the committed deltas  *)
(* and those the holder of the lock has not committed yet follow each other.     *)

Cover(D, low, high) ==
  /\ \A d \in D : d.version \in low..high
  /\ \A v \in low..high : \E d \in D : d.version = v

\* The uncommitted deltas of c continue the committed ones.
PendFollows(c) ==
  /\ tx[c].pc = "write" =>
       tx[c].version > published /\ Cover(tx[c].pend, published + 1, tx[c].version - 1)
  /\ tx[c].pc # "write" /\ tx[c].pend # {} => Cover(tx[c].pend, published + 1, tx[c].version)

GapInv == Cover(deltas, 1, published) /\ \A c \in Clients : PendFollows(c)

\* A step that neither numbers, writes nor commits keeps the numbering gap-free.
LEMMA GapQuietStep ==
  ASSUME Inv, GapInv, NEW c \in Clients, UNCHANGED <<deltas, published>>,
         \A k \in Clients \ {c} : tx'[k] = tx[k], tx'[c].pc # "write",
         \/ tx[c].pc # "write" /\ tx'[c].pend = tx[c].pend /\ tx'[c].version = tx[c].version
         \/ tx'[c].pend = {}
  PROVE  GapInv'
<1>1. ASSUME NEW k \in Clients PROVE PendFollows(k)'
  <2>1. CASE k = c
    BY <2>1 DEF GapInv, PendFollows
  <2>2. CASE k # c
    BY <2>2 DEF GapInv, PendFollows
  <2>3. QED
    BY <2>1, <2>2
<1>2. QED
  BY <1>1 DEF GapInv

\* MAX(version) + 1 is the version after the transaction's last one.
LEMMA GapAssignStep ==
  ASSUME Inv, GapInv, NEW c \in Clients, AssignVersion(c)
  PROVE  GapInv'
<1> DEFINE D == deltas \cup tx[c].pend
<1>1. PICK v : /\ IsMaxVersion(v, D)
               /\ tx' = [tx EXCEPT ![c].version = v + 1, ![c].pc = "write"]
  BY DEF AssignVersion
<1>2. /\ tx'[c].pend = tx[c].pend /\ tx'[c].pc = "write" /\ tx'[c].version = v + 1
      /\ \A k \in Clients \ {c} : tx'[k] = tx[k]
  BY <1>1 DEF Inv, TypeInv, TypeOK, Tx
<1>3. tx[c].pc = "version" /\ UNCHANGED <<deltas, published>>
  BY DEF AssignVersion, store
<1>4. published \in Nat /\ tx[c].version \in Nat /\ \A d \in D : d.version \in Nat
  BY DEF Inv, TypeInv, TypeOK, Tx, Delta
<1>5. v >= published /\ v \in Nat /\ Cover(tx[c].pend, published + 1, v)
  <2>1. CASE tx[c].pend = {}
    <3>1. v = published
      BY <1>1, <1>4, <2>1 DEF IsMaxVersion, GapInv, Cover
    <3>2. QED
      BY <1>4, <2>1, <3>1 DEF Cover
  <2>2. CASE tx[c].pend # {}
    <3>1. Cover(tx[c].pend, published + 1, tx[c].version)
      BY <1>3, <2>2 DEF GapInv, PendFollows
    <3>2. tx[c].version > published /\ \E d \in tx[c].pend : d.version = tx[c].version
      BY <1>4, <2>2, <3>1 DEF Cover
    <3>3. v = tx[c].version
      BY <1>1, <1>4, <3>1, <3>2 DEF IsMaxVersion, GapInv, Cover
    <3>4. QED
      BY <1>4, <3>1, <3>2, <3>3
  <2>3. QED
    BY <2>1, <2>2
<1>6. PendFollows(c)'
  BY <1>2, <1>3, <1>4, <1>5 DEF PendFollows, Cover
<1>7. ASSUME NEW k \in Clients \ {c} PROVE PendFollows(k)'
  BY <1>2, <1>3 DEF GapInv, PendFollows
<1>8. QED
  BY <1>3, <1>6, <1>7 DEF GapInv

\* A written delta extends the transaction's versions by one.
LEMMA GapWriteStep ==
  ASSUME Inv, GapInv, NEW c \in Clients, WriteRow(c)
  PROVE  GapInv'
<1> DEFINE d == DeltaOf(c)
<1>1. d.version = tx[c].version
  BY DEF DeltaOf
<1> HIDE DEF d
<1>2. /\ tx'[c].pend = tx[c].pend \cup {d} /\ tx'[c].pc # "write"
      /\ tx'[c].version = tx[c].version
      /\ \A k \in Clients \ {c} : tx'[k] = tx[k]
  BY DEF Inv, TypeInv, TypeOK, WriteRow, Tx, d
<1>3. tx[c].pc = "write" /\ UNCHANGED <<deltas, published>>
  BY DEF WriteRow, store
<1>4. published \in Nat /\ tx[c].version \in Nat /\ \A x \in tx[c].pend : x.version \in Nat
  BY DEF Inv, TypeInv, TypeOK, Tx, Delta
<1>5. tx[c].version > published /\ Cover(tx[c].pend, published + 1, tx[c].version - 1)
  BY <1>3 DEF GapInv, PendFollows
<1>6. Cover(tx[c].pend \cup {d}, published + 1, tx[c].version)
  BY <1>1, <1>4, <1>5 DEF Cover
<1>7. PendFollows(c)'
  BY <1>2, <1>3, <1>6 DEF PendFollows, Cover
<1>8. ASSUME NEW k \in Clients \ {c} PROVE PendFollows(k)'
  BY <1>2, <1>3 DEF GapInv, PendFollows
<1>9. QED
  BY <1>3, <1>7, <1>8 DEF GapInv

\* A commit extends the published versions by those of the transaction.
LEMMA GapPublishStep ==
  ASSUME Inv, GapInv, NEW c \in Clients, Publish(c), tx[c].pc # "write"
  PROVE  GapInv'
<1>1. /\ tx'[c].pend = {} /\ tx'[c].pc = "idle"
      /\ \A k \in Clients \ {c} : tx'[k] = tx[k]
  BY DEF Inv, TypeInv, TypeOK, Publish, NoTx
<1>2. /\ deltas' = deltas \cup tx[c].pend
      /\ published' = IF tx[c].pend = {} THEN published ELSE tx[c].version
  BY DEF Publish
<1>3. published \in Nat /\ tx[c].version \in Nat /\ \A x \in deltas \cup tx[c].pend : x.version \in Nat
  BY DEF Inv, TypeInv, TypeOK, Tx, Delta
<1>4. CASE tx[c].pend = {}
  <2>1. UNCHANGED <<deltas, published>>
    BY <1>2, <1>4
  <2>2. QED
    BY <1>1, <2>1, GapQuietStep
<1>5. CASE tx[c].pend # {}
  <2>1. Cover(tx[c].pend, published + 1, tx[c].version)
    BY <1>5 DEF GapInv, PendFollows
  <2>2. Cover(deltas', 1, published')
    BY <1>2, <1>3, <1>5, <2>1 DEF GapInv, Cover
  <2>3. \A k \in Clients \ {c} : tx[k].pend = {} /\ tx[k].pc # "write"
    BY <1>5 DEF Inv, VersionInv, LockGuardsVersions, Numbering
  <2>4. ASSUME NEW k \in Clients PROVE PendFollows(k)'
    BY <1>1, <2>3 DEF PendFollows
  <2>5. QED
    BY <2>2, <2>4 DEF GapInv
<1>6. QED
  BY <1>4, <1>5

\* Every step of the request path keeps the numbering gap-free.
LEMMA GapStep == Inv /\ GapInv /\ [WriteNext]_vars => GapInv'
<1> SUFFICES ASSUME Inv, GapInv, [WriteNext]_vars PROVE GapInv'
  OBVIOUS
<1> USE DEF store, env
<1>0. tx \in [Clients -> Tx]
  BY DEF Inv, TypeInv, TypeOK
<1>1. ASSUME NEW c \in Clients, Begin(c) PROVE GapInv'
  BY <1>0, <1>1, GapQuietStep DEF Begin, NoTx
<1>2. ASSUME NEW c \in Clients, BeginBatch(c) PROVE GapInv'
  BY <1>0, <1>2, GapQuietStep DEF BeginBatch, NoTx
<1>3. ASSUME NEW c \in Clients, FetchExisting(c) PROVE GapInv'
  BY <1>0, <1>3, GapQuietStep DEF FetchExisting, Tx
<1>4. ASSUME NEW c \in Clients, VerifyMembership(c) PROVE GapInv'
  BY <1>0, <1>4, GapQuietStep DEF VerifyMembership, Tx
<1>5. ASSUME NEW c \in Clients, LoadSubscription(c) PROVE GapInv'
  BY <1>0, <1>5, GapQuietStep DEF LoadSubscription, Tx
<1>6. ASSUME NEW c \in Clients, NextInBatch(c) PROVE GapInv'
  BY <1>0, <1>6, GapQuietStep DEF NextInBatch, Tx
<1>7. ASSUME NEW c \in Clients, EnforceLimits(c) PROVE GapInv'
  BY <1>0, <1>7, GapQuietStep DEF EnforceLimits, Tx
<1>8. ASSUME NEW c \in Clients, CheckTrigger(c) PROVE GapInv'
  BY <1>0, <1>8, GapQuietStep DEF CheckTrigger, Tx
<1>9. ASSUME NEW c \in Clients, TakeLock(c) PROVE GapInv'
  BY <1>0, <1>9, GapQuietStep DEF TakeLock, Tx
<1>10. ASSUME NEW c \in Clients, AssignVersion(c) PROVE GapInv'
  BY <1>10, GapAssignStep
<1>11. ASSUME NEW c \in Clients, WriteRow(c) PROVE GapInv'
  BY <1>11, GapWriteStep
<1>12. ASSUME NEW c \in Clients, Commit(c) PROVE GapInv'
  BY <1>12, GapPublishStep DEF Commit
<1>13. ASSUME NEW c \in Clients, Rollback(c) PROVE GapInv'
  BY <1>0, <1>13, GapQuietStep DEF Rollback, NoTx
<1>14. ASSUME UNCHANGED <<deltas, published, tx>> PROVE GapInv'
  BY <1>14 DEF GapInv, PendFollows
<1>15. QED
  BY <1>1, <1>2, <1>3, <1>4, <1>5, <1>6, <1>7, <1>8, <1>9, <1>10, <1>11, <1>12, <1>13, <1>14
     DEF WriteNext, Request, Proceed, Reject, Drop, ChangePlan, RemoveMember, vars

LEMMA WriteGap == WriteSpec => []GapInv
<1>1. WriteSpec => Spec
  <2>1. [WriteNext]_vars => [Next]_vars
    BY DEF WriteNext, Next
  <2>2. QED
    BY <2>1, PTL DEF WriteSpec, Spec
<1>2. Init => GapInv
  BY DEF Init, GapInv, PendFollows, Cover, NoTx
<1>3. QED
  BY <1>1, <1>2, SpecInv, GapStep, PTL DEF WriteSpec

\* While nothing is purged the committed versions are exactly 1..published,
\* however many requests and batches are rejected or dropped.
THEOREM WriteVersionsGapFree == WriteSpec => []VersionsGapFree
<1>1. GapInv => VersionsGapFree
  BY DEF GapInv, Cover, VersionsGapFree
<1>2. QED
  BY <1>1, WriteGap, PTL
-----------------------------------------------------------------------------
(* The kinds of steps: most statements change only where their transaction is,  *)
(* few change what it holds or the tables.                                      *)

SameHeld(c) ==
  /\ tx'[c].pend = tx[c].pend /\ tx'[c].dirty = tx[c].dirty /\ tx'[c].links = tx[c].links

HoldsNothing(c) ==
  /\ tx[c].pend = {} /\ tx[c].links = {} /\ tx[c].dirty = [e \in Entities |-> None]

\* An update or a delete is of a row that is or was in the table.
Known(c) == tx[c].op.do \in {"update", "delete"} => Visible(c)[tx[c].op.id].state # "absent"

Quiet(c) ==
  /\ UNCHANGED store /\ \A k \in Clients \ {c} : tx'[k] = tx[k]
  /\ SameHeld(c) \/ HoldsNothing(c)'
  /\ (SameHeld(c) /\ tx'[c].op = tx[c].op) \/ Known(c)'

LEMMA RequestKinds ==
  ASSUME Inv, NEW c \in Clients, Request(c)
  PROVE  Quiet(c) \/ WriteRow(c) \/ Commit(c)
<1> USE DEF store, env
<1>0. tx \in [Clients -> Tx]
  BY DEF Inv, TypeInv, TypeOK
<1>1. CASE Begin(c)
  <2>1. PICK op \in Ops :
          /\ Requestable(op)
          /\ tx' = [tx EXCEPT ![c] =
                      [NoTx EXCEPT !.pc = IF op.do = "create" THEN "member" ELSE "fetch",
                                   !.op = op, !.at = now]]
    BY <1>1 DEF Begin, Ops
  <2>2. /\ tx'[c].op = op /\ \A k \in Clients \ {c} : tx'[k] = tx[k]
        /\ HoldsNothing(c)'
    BY <1>0, <2>1 DEF NoTx, HoldsNothing
  <2>3. UNCHANGED store
    BY <1>1 DEF Begin
  <2>4. op.id \in Entities /\ op.do \in {"create", "update", "delete"}
    BY OpFields
  <2>5. Visible(c)'[op.id] = rows[op.id]
    BY <2>2, <2>3, <2>4 DEF Visible, HoldsNothing
  <2>6. Known(c)'
    BY <2>1, <2>2, <2>5 DEF Known, Requestable
  <2> QED
    BY <2>2, <2>3, <2>6 DEF Quiet
<1>2. CASE BeginBatch(c)
  BY <1>0, <1>2 DEF BeginBatch, Quiet, HoldsNothing, Known, NoTx, NoOp
<1>3. CASE FetchExisting(c)
  BY <1>0, <1>3 DEF FetchExisting, Quiet, SameHeld, Tx
<1>4. CASE VerifyMembership(c)
  BY <1>0, <1>4 DEF VerifyMembership, Quiet, SameHeld, Tx
<1>5. CASE LoadSubscription(c)
  BY <1>0, <1>5 DEF LoadSubscription, Quiet, SameHeld, Tx
<1>6. CASE NextInBatch(c)
  <2>1. PICK op \in SnippetOps :
          /\ IF op.do = "create" THEN Unused(op.id) ELSE Visible(c)[op.id].state # "absent"
          /\ tx' = [tx EXCEPT ![c].op = op, ![c].count = @ + 1,
                              ![c].found = EmptyRow("absent"),
                              ![c].pc = IF op.do = "create" THEN "limits" ELSE "fetch"]
    BY <1>6 DEF NextInBatch
  <2>2. /\ tx'[c].op = op /\ SameHeld(c) /\ \A k \in Clients \ {c} : tx'[k] = tx[k]
    BY <1>0, <2>1 DEF SameHeld, Tx
  <2>3. UNCHANGED store
    BY <1>6 DEF NextInBatch
  <2>4. Visible(c)' = Visible(c)
    BY <2>2, <2>3 DEF Visible, SameHeld
  <2>5. Known(c)'
    BY <2>1, <2>2, <2>4 DEF Known
  <2> QED
    BY <2>2, <2>3, <2>5 DEF Quiet
<1>7. CASE EnforceLimits(c)
  BY <1>0, <1>7 DEF EnforceLimits, Quiet, SameHeld, Tx
<1>8. CASE CheckTrigger(c)
  BY <1>0, <1>8 DEF CheckTrigger, Quiet, SameHeld, Tx
<1>9. CASE TakeLock(c)
  BY <1>0, <1>9 DEF TakeLock, Quiet, SameHeld, Tx
<1>10. CASE AssignVersion(c)
  BY <1>0, <1>10 DEF AssignVersion, Quiet, SameHeld, Tx
<1>11. CASE Rollback(c)
  BY <1>0, <1>11 DEF Rollback, Quiet, HoldsNothing, Known, NoTx, NoOp
<1> QED
  BY <1>1, <1>2, <1>3, <1>4, <1>5, <1>6, <1>7, <1>8, <1>9, <1>10, <1>11
     DEF Request, Proceed, Reject, Drop

LEMMA StepKinds ==
  ASSUME Inv, [Next]_vars
  PROVE  \/ \E c \in Clients : Quiet(c) \/ WriteRow(c) \/ Commit(c)
         \/ \E S \in SUBSET Entities : Clean(S)
         \/ UNCHANGED <<rows, links, tx>>
<1>1. CASE \E c \in Clients : Request(c)
  BY <1>1, RequestKinds
<1>2. CASE Maintenance \/ ChangePlan \/ RemoveMember \/ UNCHANGED vars
  BY <1>2 DEF Maintenance, DeltaPurge, CleanupSnippets, CleanupFolders, Tick, ChangePlan,
              RemoveMember, vars, store, Entities
<1> QED
  BY <1>1, <1>2 DEF Next

LEMMA WriteKinds ==
  ASSUME Inv, [WriteNext]_vars
  PROVE  \/ \E c \in Clients : Quiet(c) \/ WriteRow(c) \/ Commit(c)
         \/ UNCHANGED <<store, tx>>
BY RequestKinds DEF WriteNext, ChangePlan, RemoveMember, vars, store

\* While a transaction holds uncommitted rows nobody else publishes any.
LEMMA OneWriter ==
  ASSUME Inv, TriggerInv, NEW c \in Clients, Publish(c), NEW k \in Clients \ {c}, tx[k].pend # {}
  PROVE  UNCHANGED <<rows, deltas>>
<1>1. tx[c].pend = {}
  BY DEF Inv, VersionInv, LockGuardsVersions, Numbering
<1> QED
  BY <1>1, VisibleWithoutWrites DEF Publish, Inv, TypeInv
-----------------------------------------------------------------------------
(* Links.  A row that a link needs is neither absent nor gone, and what an open  *)
(* transaction has written to one does not change that.                         *)

Good(row) == row.state \in {"active", "deleted"}

\* A link that is not committed is one of a snippet its transaction has created.
OwnLinks(c) == \A l \in tx[c].links : tx[c].dirty[l[1]] # None /\ Good(tx[c].dirty[l[1]]) /\ Good(rows[l[2]])

\* Only a delete of a row that is gone leaves a row that is not good.
DirtyRows(c) ==
  \A e \in Entities : tx[c].dirty[e] # None =>
    Good(tx[c].dirty[e]) \/ (tx[c].dirty[e].state = "gone" /\ rows[e].state = "gone")

LinkInv ==
  /\ LinksHaveRows
  /\ \A c \in Clients : OwnLinks(c) /\ DirtyRows(c) /\ Known(c)

\* A row is not taken from what a transaction sees by what it holds.
LEMMA VisibleRows ==
  ASSUME Inv, LinkInv, NEW c \in Clients, NEW e \in Entities
  PROVE  /\ Good(rows[e]) => Good(Visible(c)[e])
         /\ Visible(c)[e].state = "absent" => rows[e].state = "absent"
         /\ Visible(c)[e].state = "gone" => rows[e].state = "gone"
BY DEF LinkInv, DirtyRows, Visible, Good

LEMMA ChangedId ==
  ASSUME Inv, NEW c \in Clients, tx[c].op.do \in {"update", "delete"}
  PROVE  tx[c].op.id \in Entities
<1>1. tx[c].op \in Ops \cup {NoOp}
  BY DEF Inv, TypeInv, TypeOK, Tx, Ops
<1>2. tx[c].op # NoOp
  BY DEF NoOp
<1>3. tx[c].op \in Ops
  BY <1>1, <1>2
<1> QED
  BY <1>3, OpFields

LEMMA LinkQuietStep ==
  ASSUME Inv, LinkInv, NEW c \in Clients, Quiet(c)
  PROVE  LinkInv'
<1>1. rows' = rows /\ links' = links
  BY DEF Quiet, store
<1>2. ASSUME NEW k \in Clients \ {c} PROVE OwnLinks(k)' /\ DirtyRows(k)' /\ Known(k)'
  <2>1. tx'[k] = tx[k] /\ Visible(k)' = Visible(k)
    BY <1>1 DEF Quiet, Visible
  <2> QED
    BY <1>1, <2>1 DEF LinkInv, OwnLinks, DirtyRows, Known, Good
<1>3. OwnLinks(c)' /\ DirtyRows(c)'
  <2>1. CASE SameHeld(c)
    BY <1>1, <2>1 DEF SameHeld, LinkInv, OwnLinks, DirtyRows, Good
  <2>2. CASE HoldsNothing(c)'
    BY <2>2 DEF HoldsNothing, OwnLinks, DirtyRows
  <2> QED
    BY <2>1, <2>2 DEF Quiet
<1>4. Known(c)'
  <2>1. CASE SameHeld(c) /\ tx'[c].op = tx[c].op
    BY <1>1, <2>1 DEF SameHeld, LinkInv, Known, Visible
  <2> QED
    BY <2>1 DEF Quiet
<1>5. LinksHaveRows'
  BY <1>1 DEF LinkInv, LinksHaveRows
<1> QED
  BY <1>2, <1>3, <1>4, <1>5 DEF LinkInv

\* What an operation leaves in its row.
LEMMA WrittenIs ==
  ASSUME Inv, NEW c \in Clients, Known(c), WriteRow(c)
  PROVE  /\ tx[c].op.id \in Entities /\ Written(c) \in Row /\ DeltaOf(c) \in Delta
         /\ \/ Good(Written(c)) /\ Written(c).version = tx[c].version
            \/ Visible(c)[tx[c].op.id].state = "gone" /\ Written(c) = Visible(c)[tx[c].op.id]
         /\ tx[c].op.do = "create" => Written(c).state = "active"
<1> DEFINE op == tx[c].op
           old == Visible(c)[op.id]
<1>1. op \in Ops
  BY DEF Inv, TypeInv, OpChosen, WriteRow
<1>2. /\ op.id \in Entities /\ op.do \in {"create", "update", "delete"}
      /\ old \in Row /\ Written(c) \in Row /\ DeltaOf(c) \in Delta
  BY <1>1, OpFields, VisibleType, WrittenType DEF Inv, TypeInv
<1>3. CASE op.do = "create"
  BY <1>2, <1>3 DEF Written, Created, Updated, Deleted, Good
<1>4. CASE op.do = "update"
  <2>1. old.state \in {"active", "deleted"}
    BY <1>4 DEF WriteRow, WriteAllowed
  <2> HIDE DEF old
  <2>2. Written(c).state = old.state /\ Written(c).version = tx[c].version
    BY <1>2, <1>4 DEF Written, Created, Updated, Deleted, Row, old
  <2> QED
    BY <1>2, <1>4, <2>1, <2>2 DEF Good
<1>5. CASE op.do = "delete"
  <2>1. old.state # "absent"
    BY <1>5 DEF Known
  <2>2. CASE old.state = "gone"
    BY <1>2, <1>5, <2>2 DEF Written, Created, Updated, Deleted
  <2>3. CASE old.state # "gone"
    <3> HIDE DEF old
    <3>1. Written(c).state = "deleted" /\ Written(c).version = tx[c].version
      BY <1>2, <1>5, <2>3 DEF Written, Created, Updated, Deleted, Row, old
    <3> QED
      BY <1>2, <1>5, <3>1 DEF Good
  <2> QED
    BY <2>2, <2>3
<1> QED
  BY <1>2, <1>3, <1>4, <1>5

\* What a write changes in its transaction.
LEMMA WriteIs ==
  ASSUME Inv, NEW c \in Clients, Known(c), WriteRow(c)
  PROVE  /\ UNCHANGED store /\ \A k \in Clients \ {c} : tx'[k] = tx[k]
         /\ tx'[c].op = tx[c].op /\ tx'[c].version = tx[c].version
         /\ tx'[c].pend = tx[c].pend \cup {DeltaOf(c)}
         /\ tx'[c].dirty = [tx[c].dirty EXCEPT ![tx[c].op.id] = Written(c)]
         /\ \A l \in tx'[c].links : l \in tx[c].links \/ (l = <<tx[c].op.id, tx[c].op.folder>> /\ tx[c].op.folder # None)
         /\ Visible(c)' = [Visible(c) EXCEPT ![tx[c].op.id] = Written(c)]
<1> DEFINE id == tx[c].op.id
           row == Written(c)
<1>1. id \in Entities /\ row \in Row /\ row # None
  BY WrittenIs, RowAssumption
<1>2. /\ tx'[c].op = tx[c].op /\ tx'[c].version = tx[c].version
      /\ tx'[c].pend = tx[c].pend \cup {DeltaOf(c)}
      /\ tx'[c].dirty = [tx[c].dirty EXCEPT ![id] = row]
      /\ tx'[c].links = tx[c].links \cup (IF tx[c].op.folder = None THEN {} ELSE {<<id, tx[c].op.folder>>})
      /\ \A k \in Clients \ {c} : tx'[k] = tx[k]
  BY DEF WriteRow, Inv, TypeInv, TypeOK, Tx
<1>3. UNCHANGED store
  BY DEF WriteRow
<1>4. tx[c].dirty \in [Entities -> Row \cup {None}]
  BY DEF Inv, TypeInv, TypeOK, Tx
<1> HIDE DEF row, id
<1>5. Visible(c)' = [Visible(c) EXCEPT ![id] = row]
  BY <1>1, <1>2, <1>3, <1>4 DEF Visible, store
<1> QED
  BY <1>2, <1>3, <1>5 DEF id, row

LEMMA LinkWriteStep ==
  ASSUME Inv, LinkInv, NEW c \in Clients, WriteRow(c)
  PROVE  LinkInv'
<1> DEFINE id == tx[c].op.id
           row == Written(c)
           new == <<id, tx[c].op.folder>>
<1>0. Known(c)
  BY DEF LinkInv
<1>1. /\ UNCHANGED store /\ \A k \in Clients \ {c} : tx'[k] = tx[k]
      /\ tx'[c].op = tx[c].op
      /\ tx'[c].dirty = [tx[c].dirty EXCEPT ![id] = row]
      /\ \A l \in tx'[c].links : l \in tx[c].links \/ (l = new /\ tx[c].op.folder # None)
      /\ Visible(c)' = [Visible(c) EXCEPT ![id] = row]
  BY <1>0, WriteIs
<1>2. /\ id \in Entities /\ row \in Row /\ row # None
      /\ Good(row) \/ (Visible(c)[id].state = "gone" /\ row = Visible(c)[id])
      /\ tx[c].op.do = "create" => row.state = "active"
  BY <1>0, WrittenIs, RowAssumption
<1>3. tx[c].dirty \in [Entities -> Row \cup {None}] /\ Visible(c) \in [Entities -> Row]
  BY VisibleType DEF Inv, TypeInv, TypeOK, Tx
<1>4. tx[c].op.folder # None =>
        tx[c].op.do = "create" /\ Good(rows[tx[c].op.folder]) /\ new \in SnippetIds \X FolderIds
  <2>1. tx[c].op \in Ops
    BY DEF Inv, TypeInv, OpChosen, WriteRow
  <2>2. tx[c].op.folder # None => tx[c].op.do = "create"
    BY <2>1 DEF Ops, SnippetOps, FolderOps
  <2>3. tx[c].op.folder # None => Good(rows[tx[c].op.folder])
    BY DEF WriteRow, WriteAllowed, Good
  <2> QED
    BY <2>1, <2>2, <2>3, OpFields
<1>5. tx[c].links \in SUBSET (SnippetIds \X FolderIds)
  BY DEF Inv, TypeInv, TypeOK, Tx
<1>6. rows' = rows /\ links' = links
  BY <1>1 DEF store
<1> HIDE DEF id, row
<1>7. OwnLinks(c)'
  <2> SUFFICES ASSUME NEW l \in tx'[c].links
               PROVE  tx'[c].dirty[l[1]] # None /\ Good(tx'[c].dirty[l[1]]) /\ Good(rows[l[2]])
    BY <1>6 DEF OwnLinks, Good
  <2>1. CASE l \in tx[c].links
    <3>1. tx[c].dirty[l[1]] # None /\ Good(tx[c].dirty[l[1]]) /\ Good(rows[l[2]]) /\ l[1] \in Entities
      BY <1>5, <2>1 DEF LinkInv, OwnLinks, Entities
    <3>2. CASE l[1] = id
      <4>1. Good(Visible(c)[id])
        BY <3>1, <3>2 DEF Visible
      <4> QED
        BY <1>1, <1>2, <1>3, <3>1, <3>2, <4>1 DEF Good
    <3>3. CASE l[1] # id
      BY <1>1, <1>3, <3>1, <3>3
    <3> QED
      BY <3>2, <3>3
  <2>2. CASE l = new /\ tx[c].op.folder # None
    <3>1. l[1] = id /\ l[2] = tx[c].op.folder
      BY <2>2
    <3> QED
      BY <1>1, <1>2, <1>3, <1>4, <2>2, <3>1 DEF Good
  <2> QED
    BY <1>1, <2>1, <2>2
<1>8. DirtyRows(c)'
  <2> SUFFICES ASSUME NEW e \in Entities, tx'[c].dirty[e] # None
               PROVE  Good(tx'[c].dirty[e]) \/ (tx'[c].dirty[e].state = "gone" /\ rows[e].state = "gone")
    BY <1>6 DEF DirtyRows, Good
  <2>1. CASE e = id
    BY <1>1, <1>2, <1>3, <2>1, VisibleRows
  <2>2. CASE e # id
    BY <1>1, <1>3, <2>2 DEF LinkInv, DirtyRows
  <2> QED
    BY <2>1, <2>2
<1>9. Known(c)'
  BY <1>1, <1>2, <1>3 DEF Known, Good, id
<1>10. ASSUME NEW k \in Clients \ {c} PROVE OwnLinks(k)' /\ DirtyRows(k)' /\ Known(k)'
  <2>1. tx'[k] = tx[k] /\ Visible(k)' = Visible(k)
    BY <1>1, <1>6 DEF Visible
  <2> QED
    BY <1>6, <2>1 DEF LinkInv, OwnLinks, DirtyRows, Known, Good
<1>11. LinksHaveRows'
  BY <1>6 DEF LinkInv, LinksHaveRows
<1> QED
  BY <1>7, <1>8, <1>9, <1>10, <1>11 DEF LinkInv
\* A commit brings its links and the rows they need; whoever else holds links keeps the
\* lock, so that nothing is committed beside them.
LEMMA LinkCommitStep ==
  ASSUME Inv, TriggerInv, LinkInv, NEW c \in Clients, Publish(c)
  PROVE  LinkInv'
<1>1. /\ tx' = [tx EXCEPT ![c] = NoTx] /\ rows' = Visible(c)
      /\ links' = links \cup tx[c].links
  BY DEF Publish
<1>2. /\ HoldsNothing(c)' /\ tx'[c].op = NoOp /\ \A k \in Clients \ {c} : tx'[k] = tx[k]
  BY <1>1 DEF Inv, TypeInv, TypeOK, NoTx, HoldsNothing
<1>3. links \in SUBSET (SnippetIds \X FolderIds) /\ tx[c].links \in SUBSET (SnippetIds \X FolderIds)
  BY DEF Inv, TypeInv, TypeOK, Tx
<1>4. LinksHaveRows'
  <2> SUFFICES ASSUME NEW l \in links', NEW e \in {l[1], l[2]} PROVE Good(rows'[e])
    BY DEF LinksHaveRows, Good
  <2>1. e \in Entities
    BY <1>1, <1>3 DEF Entities
  <2>2. CASE l \in links
    BY <1>1, <2>1, <2>2, VisibleRows DEF LinkInv, LinksHaveRows, Good
  <2>3. CASE l \in tx[c].links
    <3>1. Good(Visible(c)[l[1]]) /\ Good(rows[l[2]])
      BY <1>3, <2>3 DEF LinkInv, OwnLinks, Visible, Entities
    <3> QED
      BY <1>1, <2>1, <3>1, VisibleRows
  <2> QED
    BY <1>1, <2>2, <2>3
<1>5. OwnLinks(c)' /\ DirtyRows(c)' /\ Known(c)'
  BY <1>2 DEF HoldsNothing, OwnLinks, DirtyRows, Known, NoOp
<1>6. ASSUME NEW k \in Clients \ {c} PROVE OwnLinks(k)' /\ DirtyRows(k)' /\ Known(k)'
  <2>1. CASE tx[k].pend # {}
    <3>1. rows' = rows /\ Visible(k)' = Visible(k)
      BY <1>2, <2>1, OneWriter DEF Visible
    <3> QED
      BY <1>2, <3>1 DEF LinkInv, OwnLinks, DirtyRows, Known, Good
  <2>2. CASE tx[k].pend = {}
    <3>1. \A e \in Entities : tx[k].dirty[e] = None
      BY <2>2 DEF TriggerInv, DirtyHasDelta
    <3>2. tx[k].links = {}
      <4> SUFFICES ASSUME NEW l \in tx[k].links PROVE FALSE
        OBVIOUS
      <4>1. l[1] \in Entities /\ tx[k].dirty[l[1]] # None
        BY DEF LinkInv, OwnLinks, Inv, TypeInv, TypeOK, Tx, Entities
      <4> QED
        BY <3>1, <4>1
    <3>3. OwnLinks(k)' /\ DirtyRows(k)'
      BY <1>2, <3>1, <3>2 DEF OwnLinks, DirtyRows
    <3>4. tx[k].op.do \in {"update", "delete"} =>
            tx[k].op.id \in Entities /\ Visible(k)[tx[k].op.id] = rows[tx[k].op.id]
      BY <3>1, ChangedId DEF Visible
    <3>5. tx[k].op.do \in {"update", "delete"} => Visible(k)'[tx[k].op.id] = rows'[tx[k].op.id]
      BY <1>2, <3>1, <3>4 DEF Visible
    <3>6. Known(k)'
      BY <1>1, <1>2, <3>4, <3>5, VisibleRows DEF LinkInv, Known
    <3> QED
      BY <3>3, <3>6
  <2> QED
    BY <2>1, <2>2
<1> QED
  BY <1>4, <1>5, <1>6 DEF LinkInv

\* The clean-up takes the links along, and spares rows that an open transaction has
\* written or linked.
LEMMA LinkCleanStep ==
  ASSUME Inv, LinkInv, NEW S \in SUBSET Entities, Clean(S)
  PROVE  LinkInv'
<1> DEFINE old == {e \in S : rows[e].state = "deleted" /\ Expired(rows[e].deletedAt)}
<1>1. /\ \A c \in Clients, e \in old : tx[c].dirty[e] = None
      /\ \A c \in Clients : \A l \in tx[c].links : l[2] \notin old
      /\ rows' = [e \in Entities |-> IF e \in old THEN EmptyRow("gone") ELSE rows[e]]
      /\ links' = {l \in links : l[1] \notin old /\ l[2] \notin old}
      /\ tx' = tx
  BY DEF Clean
<1>2. \A e \in old : rows[e].state = "deleted" /\ rows'[e].state = "gone"
  BY <1>1 DEF EmptyRow
<1>3. \A e \in Entities : e \notin old => rows'[e] = rows[e]
  BY <1>1
<1>4. links \in SUBSET (SnippetIds \X FolderIds)
      /\ \A c \in Clients : tx[c].links \in SUBSET (SnippetIds \X FolderIds)
  BY DEF Inv, TypeInv, TypeOK, Tx
<1> HIDE DEF old
<1>5. LinksHaveRows'
  BY <1>1, <1>3, <1>4 DEF LinkInv, LinksHaveRows, Entities
<1>6. ASSUME NEW k \in Clients PROVE OwnLinks(k)' /\ DirtyRows(k)' /\ Known(k)'
  <2>1. OwnLinks(k)'
    BY <1>1, <1>3, <1>4 DEF LinkInv, OwnLinks, Good, Entities
  <2>2. DirtyRows(k)'
    BY <1>1, <1>2, <1>3 DEF LinkInv, DirtyRows, Good
  <2>3. Known(k)'
    <3>1. tx[k].op.do \in {"update", "delete"} => tx[k].op.id \in Entities
      BY ChangedId
    <3> QED
      BY <1>1, <1>2, <1>3, <3>1 DEF LinkInv, Known, Visible
  <2> QED
    BY <2>1, <2>2, <2>3
<1> QED
  BY <1>5, <1>6 DEF LinkInv

LEMMA LinkStep == Inv /\ TriggerInv /\ LinkInv /\ [Next]_vars => LinkInv'
<1> SUFFICES ASSUME Inv, TriggerInv, LinkInv, [Next]_vars PROVE LinkInv'
  OBVIOUS
<1>1. CASE UNCHANGED <<rows, links, tx>>
  BY <1>1 DEF LinkInv, LinksHaveRows, OwnLinks, DirtyRows, Known, Visible, Good
<1> QED
  BY <1>1, StepKinds, LinkQuietStep, LinkWriteStep, LinkCommitStep, LinkCleanStep DEF Commit

\* The invariants of the tables and of the transactions together.
TablesInv == Inv /\ TriggerInv /\ LinkInv

LEMMA SpecTables == Spec => []TablesInv
<1>1. Init => TriggerInv
  BY SyncStoreAssumption DEF Init, TriggerInv, DirtyHasDelta, UniqueIn, ActiveIn, Visible,
       NoTx, EmptyRow, Entities
<1>2. Init => LinkInv
  BY DEF Init, LinkInv, LinksHaveRows, OwnLinks, DirtyRows, Known, NoTx, NoOp
<1>3. QED
  BY <1>1, <1>2, SpecInv, TriggerStep, LinkStep, PTL DEF Spec, TablesInv

\* Every link joins rows that still exist, whatever is created, deleted and cleaned up at
\* a time.
THEOREM SpecLinksHaveRows == Spec => []LinksHaveRows
<1>1. TablesInv => LinksHaveRows BY DEF TablesInv, LinkInv
<1>2. QED BY <1>1, SpecTables, PTL
-----------------------------------------------------------------------------
(* Rows and deltas.  What a transaction sees is what the committed deltas and    *)
(* its own leave behind, as long as nothing is purged.                          *)

\* d is the newest delta of D on e, and tells what the row is.
Tells(d, D, e, row) ==
  /\ d.entity = e /\ d.version = row.version /\ \A x \in D : x.entity = e => x.version <= d.version
  /\ row.state = "active" => d.do # "delete" /\ d.trigger = row.trigger /\ d.body = row.body

Match(view, D) ==
  \A e \in Entities :
    /\ view[e].state # "gone"
    /\ IF view[e].state = "absent" THEN \A d \in D : d.entity # e
       ELSE \E d \in D : Tells(d, D, e, view[e])

MatchInv == Match(rows, deltas) /\ \A c \in Clients : Match(Visible(c), deltas \cup tx[c].pend)

\* A row written together with a delta above all others.
LEMMA MatchWrite ==
  ASSUME NEW view \in [Entities -> Row], NEW D \in SUBSET Delta, Match(view, D),
         NEW d \in Delta, Above(d.version, D), NEW row \in Row, Good(row),
         row.version = d.version,
         row.state = "active" => d.do # "delete" /\ d.trigger = row.trigger /\ d.body = row.body
  PROVE  Match([view EXCEPT ![d.entity] = row], D \cup {d})
<1> SUFFICES ASSUME NEW e \in Entities
             PROVE  LET r == [view EXCEPT ![d.entity] = row][e]
                    IN /\ r.state # "gone"
                       /\ IF r.state = "absent" THEN \A x \in D \cup {d} : x.entity # e
                          ELSE \E x \in D \cup {d} : Tells(x, D \cup {d}, e, r)
  BY DEF Match
<1>1. d.entity \in Entities /\ \A x \in D \cup {d} : x.version \in Nat
  BY DEF Delta
<1>2. CASE e = d.entity
  <2>1. [view EXCEPT ![d.entity] = row][e] = row
    BY <1>1, <1>2
  <2>2. Tells(d, D \cup {d}, e, row)
    BY <1>1, <1>2 DEF Tells, Above
  <2> QED
    BY <2>1, <2>2 DEF Good
<1>3. CASE e # d.entity
  <2>1. [view EXCEPT ![d.entity] = row][e] = view[e]
    BY <1>3
  <2>2. ASSUME NEW x \in D, Tells(x, D, e, view[e]) PROVE Tells(x, D \cup {d}, e, view[e])
    BY <1>3, <2>2 DEF Tells
  <2>3. /\ view[e].state # "gone"
        /\ view[e].state = "absent" => \A x \in D \cup {d} : x.entity # e
    BY <1>3 DEF Match
  <2>4. view[e].state # "absent" => \E x \in D \cup {d} : Tells(x, D \cup {d}, e, view[e])
    <3> SUFFICES ASSUME view[e].state # "absent" PROVE \E x \in D : Tells(x, D \cup {d}, e, view[e])
      OBVIOUS
    <3>1. PICK x \in D : Tells(x, D, e, view[e])
      BY DEF Match
    <3> QED
      BY <2>2, <3>1
  <2> QED
    BY <2>1, <2>3, <2>4
<1> QED
  BY <1>2, <1>3

LEMMA MatchQuietStep ==
  ASSUME Inv, MatchInv, NEW c \in Clients, Quiet(c)
  PROVE  MatchInv'
<1>1. rows' = rows /\ deltas' = deltas
  BY DEF Quiet, store
<1>2. ASSUME NEW k \in Clients \ {c} PROVE Visible(k)' = Visible(k) /\ tx'[k].pend = tx[k].pend
  BY <1>1 DEF Quiet, Visible
<1>3. CASE SameHeld(c)
  <2>1. Visible(c)' = Visible(c) /\ tx'[c].pend = tx[c].pend
    BY <1>1, <1>3 DEF SameHeld, Visible
  <2> QED
    BY <1>1, <1>2, <2>1 DEF MatchInv
<1>4. CASE HoldsNothing(c)'
  <2>1. \A e \in Entities : Visible(c)'[e] = rows'[e]
    BY <1>4 DEF HoldsNothing, Visible
  <2>2. tx'[c].pend = {} /\ deltas' \cup tx'[c].pend = deltas
    BY <1>1, <1>4 DEF HoldsNothing
  <2>3. Match(Visible(c)', deltas' \cup tx'[c].pend)
    BY <1>1, <2>1, <2>2 DEF MatchInv, Match
  <2> QED
    BY <1>1, <1>2, <2>3 DEF MatchInv
<1> QED
  BY <1>3, <1>4 DEF Quiet

LEMMA MatchWriteStep ==
  ASSUME Inv, LinkInv, MatchInv, NEW c \in Clients, WriteRow(c)
  PROVE  MatchInv'
<1> DEFINE id == tx[c].op.id
           row == Written(c)
           d == DeltaOf(c)
           D == deltas \cup tx[c].pend
<1>0. Known(c)
  BY DEF LinkInv
<1>1. /\ rows' = rows /\ deltas' = deltas /\ \A k \in Clients \ {c} : tx'[k] = tx[k]
      /\ tx'[c].pend = tx[c].pend \cup {d}
      /\ Visible(c)' = [Visible(c) EXCEPT ![id] = row]
  BY <1>0, WriteIs DEF store
<1>2. Visible(c) \in [Entities -> Row] /\ D \in SUBSET Delta /\ Match(Visible(c), D)
  BY VisibleType DEF Inv, TypeInv, TypeOK, Tx, MatchInv
<1>3. /\ id \in Entities /\ row \in Row /\ d \in Delta /\ Good(row) /\ row.version = tx[c].version
      /\ tx[c].op.do = "create" => row.state = "active"
  BY <1>0, <1>2, WrittenIs DEF Match
<1>4. d.entity = id /\ d.version = tx[c].version
  BY DEF DeltaOf
<1>5. Above(tx[c].version, D)
  BY DEF WriteRow, Inv, VersionInv, PendAbove
<1>6. row.state = "active" => d.do # "delete" /\ d.trigger = row.trigger /\ d.body = row.body
  <2> SUFFICES ASSUME row.state = "active"
               PROVE  d.do # "delete" /\ d.trigger = row.trigger /\ d.body = row.body
    OBVIOUS
  <2>1. tx[c].op.do # "delete"
    <3> SUFFICES ASSUME tx[c].op.do = "delete" PROVE FALSE
      OBVIOUS
    <3>1. Visible(c)[id] \in Row /\ Visible(c)[id].state # "gone"
      BY <1>2, <1>3 DEF Match
    <3>2. row = [Visible(c)[id] EXCEPT !.state = "deleted", !.deletedAt = tx[c].at, !.version = tx[c].version]
      BY <3>1 DEF Written, Created, Updated, Deleted
    <3> QED
      BY <3>1, <3>2 DEF Row
  <2> QED
    BY <2>1 DEF DeltaOf
<1> HIDE DEF id, row, d, D
<1>7. Match([Visible(c) EXCEPT ![d.entity] = row], D \cup {d})
  BY <1>2, <1>3, <1>4, <1>5, <1>6, MatchWrite
<1>8. Match(Visible(c)', deltas' \cup tx'[c].pend)
  <2>1. deltas' \cup tx'[c].pend = D \cup {d}
    BY <1>1 DEF D
  <2> QED
    BY <1>1, <1>4, <1>7, <2>1
<1>9. ASSUME NEW k \in Clients \ {c} PROVE Visible(k)' = Visible(k) /\ tx'[k].pend = tx[k].pend
  BY <1>1 DEF Visible
<1> QED
  BY <1>1, <1>8, <1>9 DEF MatchInv

LEMMA MatchCommitStep ==
  ASSUME Inv, TriggerInv, MatchInv, NEW c \in Clients, Publish(c)
  PROVE  MatchInv'
<1>1. /\ tx' = [tx EXCEPT ![c] = NoTx] /\ rows' = Visible(c)
      /\ deltas' = deltas \cup tx[c].pend
  BY DEF Publish
<1>2. /\ HoldsNothing(c)' /\ \A k \in Clients \ {c} : tx'[k] = tx[k]
  BY <1>1 DEF Inv, TypeInv, TypeOK, NoTx, HoldsNothing
<1>3. Match(rows', deltas')
  BY <1>1 DEF MatchInv
<1>4. ASSUME NEW k \in Clients PROVE Match(Visible(k)', deltas' \cup tx'[k].pend)
  <2>1. CASE k # c /\ tx[k].pend # {}
    <3>1. rows' = rows /\ deltas' = deltas /\ tx'[k] = tx[k]
      BY <1>2, <2>1, OneWriter
    <3>2. Visible(k)' = Visible(k)
      BY <3>1 DEF Visible
    <3> QED
      BY <3>1, <3>2 DEF MatchInv
  <2>2. CASE k = c \/ tx[k].pend = {}
    <3>1. tx'[k].pend = {} /\ \A e \in Entities : tx'[k].dirty[e] = None
      BY <1>2, <2>2 DEF HoldsNothing, TriggerInv, DirtyHasDelta
    <3>2. deltas' \cup tx'[k].pend = deltas' /\ \A e \in Entities : Visible(k)'[e] = rows'[e]
      BY <3>1 DEF Visible
    <3> QED
      BY <1>3, <3>2 DEF Match
  <2> QED
    BY <2>1, <2>2
<1> QED
  BY <1>3, <1>4 DEF MatchInv

LEMMA MatchStep == TablesInv /\ MatchInv /\ [WriteNext]_vars => MatchInv'
<1> SUFFICES ASSUME TablesInv, MatchInv, [WriteNext]_vars PROVE MatchInv'
  OBVIOUS
<1>1. CASE UNCHANGED <<store, tx>>
  BY <1>1 DEF store, MatchInv, Match, Visible
<1> QED
  BY <1>1, WriteKinds, MatchQuietStep, MatchWriteStep, MatchCommitStep DEF Commit, TablesInv

LEMMA WriteTables == WriteSpec => []TablesInv
<1>1. [WriteNext]_vars => [Next]_vars
  BY DEF WriteNext, Next
<1>2. QED
  BY <1>1, SpecTables, PTL DEF WriteSpec, Spec

LEMMA WriteMatch == WriteSpec => []MatchInv
<1>1. Init => MatchInv
  BY DEF Init, MatchInv, Match, Visible, NoTx, EmptyRow
<1>2. QED
  BY <1>1, MatchStep, WriteTables, PTL DEF WriteSpec

\* While nothing is purged the newest delta on an entity tells its row: replaying the log
\* gives the table back.
THEOREM WriteRowsMatchDeltas == WriteSpec => []RowsMatchDeltas
<1>1. MatchInv => RowsMatchDeltas
  <2> SUFFICES ASSUME MatchInv PROVE RowsMatchDeltas
    OBVIOUS
  <2> DEFINE D(e) == {d \in deltas : d.entity = e}
             Top(d, e) == /\ \A x \in D(e) : x.version <= d.version
                          /\ d.version = rows[e].version
                          /\ rows[e].state = "active" =>
                               d.trigger = rows[e].trigger /\ d.body = rows[e].body
  <2>1. ASSUME NEW e \in Entities, rows[e].state = "absent" PROVE D(e) = {}
    BY <2>1 DEF MatchInv, Match
  <2>2. ASSUME NEW e \in Entities, rows[e].state # "absent" PROVE \E d \in D(e) : Top(d, e)
    <3>1. PICK d \in deltas : Tells(d, deltas, e, rows[e])
      BY <2>2 DEF MatchInv, Match
    <3> QED
      BY <3>1 DEF Tells
  <2> QED
    BY <2>1, <2>2 DEF RowsMatchDeltas
<1>2. QED
  BY <1>1, WriteMatch, PTL
-----------------------------------------------------------------------------
(* Whole transactions.  A transaction holds one delta for every operation it has  *)
(* finished, and has written no row without one.                                *)

\* The operation of the transaction is under way.
Busy(c) == tx[c].pc \in {"fetch", "limits", "trigger", "lock", "version", "write"}

Finished(c) == IF tx[c].batch THEN IF Busy(c) THEN tx[c].count - 1 ELSE tx[c].count
               ELSE IF tx[c].pc = "commit" THEN 1 ELSE 0

WholeInv ==
  \A c \in Clients :
    /\ IsFiniteSet(tx[c].pend) /\ Cardinality(tx[c].pend) = Finished(c)
    /\ IF tx[c].batch THEN tx[c].pc # "commit" ELSE tx[c].pc # "next"
    /\ \A e \in Entities : tx[c].dirty[e] # None => \E d \in tx[c].pend : d.entity = e

\* A transaction that goes on without a write.
LEMMA WholeQuietStep ==
  ASSUME Inv, WholeInv, NEW c \in Clients, \A k \in Clients \ {c} : tx'[k] = tx[k],
         (SameHeld(c) /\ Finished(c)' = Finished(c)) \/ (HoldsNothing(c)' /\ Finished(c)' = 0),
         IF tx'[c].batch THEN tx'[c].pc # "commit" ELSE tx'[c].pc # "next"
  PROVE  WholeInv'
<1>1. ASSUME NEW k \in Clients \ {c}
      PROVE  /\ IsFiniteSet(tx'[k].pend) /\ Cardinality(tx'[k].pend) = Finished(k)'
             /\ IF tx'[k].batch THEN tx'[k].pc # "commit" ELSE tx'[k].pc # "next"
             /\ \A e \in Entities : tx'[k].dirty[e] # None => \E d \in tx'[k].pend : d.entity = e
  <2>1. tx'[k] = tx[k] /\ Finished(k)' = Finished(k)
    BY DEF Finished, Busy
  <2> QED
    BY <2>1 DEF WholeInv
<1>2. /\ IsFiniteSet(tx'[c].pend) /\ Cardinality(tx'[c].pend) = Finished(c)'
      /\ \A e \in Entities : tx'[c].dirty[e] # None => \E d \in tx'[c].pend : d.entity = e
  <2>1. CASE SameHeld(c) /\ Finished(c)' = Finished(c)
    BY <2>1 DEF SameHeld, WholeInv
  <2>2. CASE HoldsNothing(c)' /\ Finished(c)' = 0
    BY <2>2, FS_EmptySet DEF HoldsNothing
  <2> QED
    BY <2>1, <2>2
<1> QED
  BY <1>1, <1>2 DEF WholeInv

LEMMA WholeWriteStep ==
  ASSUME Inv, LinkInv, WholeInv, NEW c \in Clients, WriteRow(c)
  PROVE  WholeInv'
<1> DEFINE d == DeltaOf(c)
           id == tx[c].op.id
<1>0. Known(c)
  BY DEF LinkInv
<1>1. /\ tx'[c].pend = tx[c].pend \cup {d} /\ \A k \in Clients \ {c} : tx'[k] = tx[k]
      /\ tx'[c].dirty = [tx[c].dirty EXCEPT ![id] = Written(c)]
  BY <1>0, WriteIs
<1>2. /\ tx[c].pc = "write" /\ tx'[c].pc = (IF tx[c].batch THEN "next" ELSE "commit")
      /\ tx'[c].batch = tx[c].batch /\ tx'[c].count = tx[c].count
      /\ tx[c].count \in Nat /\ tx[c].dirty \in [Entities -> Row \cup {None}]
  BY DEF WriteRow, Inv, TypeInv, TypeOK, Tx
<1>3. d \notin tx[c].pend /\ d.entity = id
  <2>1. Above(tx[c].version, tx[c].pend) /\ tx[c].version \in Nat
    BY <1>2 DEF Inv, VersionInv, PendAbove, Above, TypeInv, TypeOK, Tx
  <2>2. d.version = tx[c].version /\ d.entity = id
    BY DEF DeltaOf
  <2> QED
    BY <2>1, <2>2 DEF Above
<1> HIDE DEF d, id
<1>4. IsFiniteSet(tx'[c].pend) /\ Cardinality(tx'[c].pend) = Cardinality(tx[c].pend) + 1
  <2>1. IsFiniteSet(tx[c].pend)
    BY DEF WholeInv
  <2> QED
    BY <1>1, <1>3, <2>1, FS_AddElement
<1>5. Cardinality(tx'[c].pend) = Finished(c)'
  <2>1. Finished(c)' = Finished(c) + 1
    BY <1>2 DEF Finished, Busy
  <2>2. Cardinality(tx[c].pend) = Finished(c)
    BY DEF WholeInv
  <2> QED
    BY <1>4, <2>1, <2>2
<1>6. \A e \in Entities : tx'[c].dirty[e] # None => \E x \in tx'[c].pend : x.entity = e
  BY <1>1, <1>2, <1>3 DEF WholeInv
<1>7. IF tx'[c].batch THEN tx'[c].pc # "commit" ELSE tx'[c].pc # "next"
  BY <1>2
<1>8. ASSUME NEW k \in Clients \ {c}
      PROVE  /\ IsFiniteSet(tx'[k].pend) /\ Cardinality(tx'[k].pend) = Finished(k)'
             /\ IF tx'[k].batch THEN tx'[k].pc # "commit" ELSE tx'[k].pc # "next"
             /\ \A e \in Entities : tx'[k].dirty[e] # None => \E x \in tx'[k].pend : x.entity = e
  <2>1. tx'[k] = tx[k] /\ Finished(k)' = Finished(k)
    BY <1>1 DEF Finished, Busy
  <2> QED
    BY <2>1 DEF WholeInv
<1> QED
  BY <1>4, <1>5, <1>6, <1>7, <1>8 DEF WholeInv

LEMMA WholeStep == Inv /\ LinkInv /\ WholeInv /\ [Next]_vars => WholeInv'
<1> SUFFICES ASSUME Inv, LinkInv, WholeInv, [Next]_vars PROVE WholeInv'
  OBVIOUS
<1> USE DEF store, env
<1>0. tx \in [Clients -> Tx]
  BY DEF Inv, TypeInv, TypeOK
<1>1. ASSUME NEW c \in Clients, Begin(c) PROVE WholeInv'
  BY <1>0, <1>1, WholeQuietStep DEF Begin, NoTx, HoldsNothing, Finished
<1>2. ASSUME NEW c \in Clients, BeginBatch(c) PROVE WholeInv'
  BY <1>0, <1>2, WholeQuietStep DEF BeginBatch, NoTx, HoldsNothing, Finished, Busy
<1>3. ASSUME NEW c \in Clients, FetchExisting(c) PROVE WholeInv'
  <2>1. /\ SameHeld(c) /\ \A k \in Clients \ {c} : tx'[k] = tx[k]
        /\ tx'[c].batch = tx[c].batch /\ tx'[c].count = tx[c].count
        /\ tx[c].pc = "fetch" /\ tx'[c].pc \in {"member", "lock", "limits"}
        /\ tx[c].batch => tx'[c].pc \in {"lock", "limits"}
    BY <1>0, <1>3 DEF FetchExisting, SameHeld, Tx
  <2>2. Finished(c)' = Finished(c)
    BY <2>1 DEF Finished, Busy
  <2> QED
    BY <2>1, <2>2, WholeQuietStep
<1>4. ASSUME NEW c \in Clients, VerifyMembership(c) PROVE WholeInv'
  <2>1. /\ SameHeld(c) /\ \A k \in Clients \ {c} : tx'[k] = tx[k]
        /\ tx'[c].batch = tx[c].batch /\ tx'[c].count = tx[c].count
        /\ tx[c].pc = "member" /\ tx'[c].pc = IF tx[c].op.do = "delete" THEN "lock" ELSE "plan"
    BY <1>0, <1>4 DEF VerifyMembership, SameHeld, Tx
  <2>2. tx[c].batch => tx[c].op.do = "none"
    BY <2>1 DEF Inv, TypeInv, OpChosen, NoOp
  <2>3. Finished(c)' = Finished(c)
    BY <2>1, <2>2 DEF Finished, Busy
  <2> QED
    BY <2>1, <2>3, WholeQuietStep
<1>5. ASSUME NEW c \in Clients, LoadSubscription(c) PROVE WholeInv'
  <2>1. /\ SameHeld(c) /\ \A k \in Clients \ {c} : tx'[k] = tx[k]
        /\ tx'[c].batch = tx[c].batch /\ tx'[c].count = tx[c].count
        /\ tx[c].pc = "plan" /\ tx'[c].pc = IF tx[c].batch THEN "next" ELSE "limits"
    BY <1>0, <1>5 DEF LoadSubscription, SameHeld, Tx
  <2>2. Finished(c)' = Finished(c)
    BY <2>1 DEF Finished, Busy
  <2> QED
    BY <2>1, <2>2, WholeQuietStep
<1>6. ASSUME NEW c \in Clients, NextInBatch(c) PROVE WholeInv'
  <2>1. /\ SameHeld(c) /\ \A k \in Clients \ {c} : tx'[k] = tx[k]
        /\ tx'[c].batch = tx[c].batch /\ tx'[c].count = tx[c].count + 1 /\ tx[c].count \in Nat
        /\ tx[c].pc = "next" /\ tx'[c].pc \in {"limits", "fetch"}
    BY <1>0, <1>6 DEF NextInBatch, SameHeld, Tx
  <2>2. tx[c].batch
    BY <2>1 DEF WholeInv
  <2>3. Finished(c)' = Finished(c)
    BY <2>1, <2>2 DEF Finished, Busy
  <2> QED
    BY <2>1, <2>2, <2>3, WholeQuietStep
<1>7. ASSUME NEW c \in Clients, EnforceLimits(c) \/ CheckTrigger(c) \/ TakeLock(c) \/ AssignVersion(c)
      PROVE WholeInv'
  <2>1. /\ SameHeld(c) /\ \A k \in Clients \ {c} : tx'[k] = tx[k]
        /\ tx'[c].batch = tx[c].batch /\ tx'[c].count = tx[c].count /\ Busy(c) /\ Busy(c)'
    <3>1. CASE EnforceLimits(c) BY <1>0, <3>1 DEF EnforceLimits, SameHeld, Tx, Busy
    <3>2. CASE CheckTrigger(c) BY <1>0, <3>2 DEF CheckTrigger, SameHeld, Tx, Busy
    <3>3. CASE TakeLock(c) BY <1>0, <3>3 DEF TakeLock, SameHeld, Tx, Busy
    <3>4. CASE AssignVersion(c) BY <1>0, <3>4 DEF AssignVersion, SameHeld, Tx, Busy
    <3> QED BY <1>7, <3>1, <3>2, <3>3, <3>4
  <2>2. Finished(c)' = Finished(c)
    BY <2>1 DEF Finished, Busy
  <2> QED
    BY <2>1, <2>2, WholeQuietStep DEF Busy
<1>8. ASSUME NEW c \in Clients, Publish(c) \/ Rollback(c) PROVE WholeInv'
  <2>1. /\ HoldsNothing(c)' /\ \A k \in Clients \ {c} : tx'[k] = tx[k]
        /\ ~tx'[c].batch /\ tx'[c].pc = "idle"
    BY <1>0, <1>8 DEF Publish, Rollback, NoTx, HoldsNothing
  <2>2. Finished(c)' = 0
    BY <2>1 DEF Finished
  <2> QED
    BY <2>1, <2>2, WholeQuietStep
<1>9. CASE UNCHANGED tx
  BY <1>9 DEF WholeInv, Finished, Busy
<1> QED
  BY <1>1, <1>2, <1>3, <1>4, <1>5, <1>6, <1>7, <1>8, <1>9, WholeWriteStep
     DEF Next, Request, Proceed, Commit, Reject, Drop, Maintenance, DeltaPurge, CleanupSnippets,
         CleanupFolders, Clean, Tick, ChangePlan, RemoveMember, vars

LEMMA SpecWhole == Spec => []WholeInv
<1>1. Init => WholeInv
  BY FS_EmptySet DEF Init, WholeInv, Finished, NoTx
<1>2. QED
  BY <1>1, WholeStep, SpecTables, PTL DEF Spec, TablesInv

\* A row differs after a commit exactly where the transaction held a delta: the newest one
\* tells the row, and lies above what told the committed row.
LEMMA CommittedRows ==
  ASSUME Inv, MatchInv, WholeInv, NEW c \in Clients, NEW e \in Entities
  PROVE  Visible(c)[e] # rows[e] <=> \E d \in tx[c].pend : d.entity = e
<1> DEFINE view == Visible(c)[e]
           D == deltas \cup tx[c].pend
<1>1. \A x \in D : x.version \in Nat
  BY DEF Inv, TypeInv, TypeOK, Tx, Delta
<1>2. /\ IF view.state = "absent" THEN \A d \in D : d.entity # e ELSE \E d \in D : Tells(d, D, e, view)
      /\ IF rows[e].state = "absent" THEN \A d \in deltas : d.entity # e
         ELSE \E d \in deltas : Tells(d, deltas, e, rows[e])
  BY DEF MatchInv, Match
<1>3. ASSUME view # rows[e] PROVE \E d \in tx[c].pend : d.entity = e
  BY <1>3 DEF Visible, WholeInv
<1>4. ASSUME NEW d \in tx[c].pend, d.entity = e, view = rows[e] PROVE FALSE
  <2>1. \A x \in deltas : x.version < d.version
    BY DEF Inv, VersionInv, PendAbove, Above
  <2>2. view.state # "absent"
    BY <1>2, <1>4
  <2>3. PICK x \in deltas : Tells(x, deltas, e, rows[e])
    BY <1>2, <1>4, <2>2
  <2>4. PICK y \in D : Tells(y, D, e, view)
    BY <1>2, <2>2
  <2>5. x.version = y.version /\ d.version <= y.version /\ x.version < d.version
    BY <1>4, <2>1, <2>3, <2>4 DEF Tells
  <2> QED
    BY <1>1, <2>5
<1> QED
  BY <1>3, <1>4

\* A step publishes a whole transaction or nothing: its versions follow the last one, its
\* deltas are those of its operations, and the rows change where they say.
THEOREM WriteCommitsAtomically == WriteSpec => CommitsAtomically
<1> DEFINE new == deltas' \ deltas
           asked(c) == IF tx[c].batch THEN tx[c].count ELSE 1
           Versions == {d.version : d \in new} = (published + 1)..published'
           Rows == \A e \in Entities : rows'[e] # rows[e] <=> \E d \in new : d.entity = e
           Whole == \A c \in Clients : tx[c].pc # "idle" /\ tx'[c].pc = "idle" /\ new # {}
                                         => Cardinality(new) = asked(c)
           I == TablesInv /\ GapInv /\ MatchInv /\ WholeInv
<1>1. ASSUME I, UNCHANGED store PROVE Versions /\ Rows /\ Whole
  <2>1. new = {} /\ published' = published /\ rows' = rows
    BY <1>1 DEF store
  <2>2. published \in Nat
    BY <1>1 DEF TablesInv, Inv, TypeInv, TypeOK
  <2> QED
    BY <2>1, <2>2
<1>2. ASSUME I, NEW c \in Clients, Commit(c) PROVE Versions /\ Rows /\ Whole
  <2>0. TablesInv /\ GapInv /\ MatchInv /\ WholeInv /\ Inv
    BY <1>2 DEF TablesInv
  <2>1. /\ tx[c].pc \in {"commit", "next"} /\ rows' = Visible(c) /\ deltas' = deltas \cup tx[c].pend
        /\ published' = IF tx[c].pend = {} THEN published ELSE tx[c].version
    BY <1>2 DEF Commit, Publish
  <2>2. published \in Nat /\ tx[c].version \in Nat /\ \A d \in deltas \cup tx[c].pend : d.version \in Nat
    BY <2>0 DEF Inv, TypeInv, TypeOK, Tx, Delta
  <2>3. new = tx[c].pend
    <3>1. \A d \in tx[c].pend : d \notin deltas
      BY <2>0, <2>2 DEF Inv, VersionInv, PendAbove, Above
    <3> QED
      BY <2>1, <3>1
  <2> HIDE DEF new
  <2>4. Versions
    <3>1. CASE tx[c].pend = {}
      BY <2>1, <2>2, <2>3, <3>1
    <3>2. CASE tx[c].pend # {}
      <4>1. Cover(tx[c].pend, published + 1, tx[c].version)
        BY <2>0, <2>1, <3>2 DEF GapInv, PendFollows
      <4> QED
        BY <2>1, <2>2, <2>3, <3>2, <4>1 DEF Cover
    <3> QED
      BY <3>1, <3>2
  <2>5. Rows
    BY <2>0, <2>1, <2>3, CommittedRows
  <2>6. Whole
    <3> SUFFICES ASSUME NEW k \in Clients, tx[k].pc # "idle", tx'[k].pc = "idle", new # {}
                 PROVE  Cardinality(new) = asked(k)
      OBVIOUS
    <3>1. k = c
      BY <1>2, <2>0 DEF Commit, Publish, Inv, TypeInv, TypeOK
    <3>2. Cardinality(tx[c].pend) = Finished(c)
          /\ IF tx[c].batch THEN tx[c].pc # "commit" ELSE tx[c].pc # "next"
      BY <2>0 DEF WholeInv
    <3>3. Finished(c) = asked(c)
      BY <2>1, <3>2 DEF Finished, Busy
    <3> QED
      BY <2>3, <3>1, <3>2, <3>3
  <2> QED
    BY <2>4, <2>5, <2>6
<1>3. ASSUME I, [WriteNext]_vars PROVE Versions /\ Rows /\ Whole
  <2>1. Inv /\ LinkInv
    BY <1>3 DEF TablesInv
  <2>2. ASSUME NEW c \in Clients, Quiet(c) PROVE UNCHANGED store
    BY <2>2 DEF Quiet
  <2>3. ASSUME NEW c \in Clients, WriteRow(c) PROVE UNCHANGED store
    BY <2>3 DEF WriteRow
  <2> HIDE DEF I, Versions, Rows, Whole
  <2> QED
    BY <1>1, <1>2, <1>3, <2>1, <2>2, <2>3, WriteKinds
<1>4. I /\ [WriteNext]_vars => [Versions /\ Rows /\ Whole]_vars
  <2> HIDE DEF I, Versions, Rows, Whole
  <2> QED
    BY <1>3
<1>5. WriteSpec => []WholeInv
  <2>1. [WriteNext]_vars => [Next]_vars
    BY DEF WriteNext, Next
  <2> QED
    BY <2>1, SpecWhole, PTL DEF WriteSpec, Spec
<1> QED
  BY <1>4, <1>5, WriteTables, WriteGap, WriteMatch, PTL DEF WriteSpec, CommitsAtomically
-----------------------------------------------------------------------------
(* The free limits, of snippets and of folders alike: S is one of the two tables  *)
(* and F its limit.                                                             *)

FreeLimits == {<<SnippetIds, FreeSnippets>>, <<FolderIds, FreeFolders>>}

Free == \A p \in Plans : ~Paid(p)

Size(view, S) == Cardinality(ActiveIn(view, S))

\* c has found room for a row of S, and has not written it yet.
Claims(c, S) ==
  tx[c].pc \in {"trigger", "lock", "version", "write"} /\ tx[c].op.do = "create" /\ tx[c].op.id \in S

\* Those who may add to S when they commit
Adders(S) ==
  {c \in Clients : (Claims(c, S) /\ tx[c].pend = {}) \/ Size(Visible(c), S) > Size(rows, S)}

\* There is room for the requests that run beside the last one that found room.
RoomInv(S, F) ==
  /\ Size(rows, S) + 1 <= F + Cardinality(Clients)
  /\ Adders(S) # {} => Size(rows, S) + Cardinality(Adders(S)) + 1 <= F + Cardinality(Clients)

\* A transaction that has written rows adds one row, or counted its own.
OwnInv(c, S, F) ==
  tx[c].pend # {} => /\ Size(Visible(c), S) <= F \/ Size(Visible(c), S) <= Size(rows, S) + 1
                     /\ Claims(c, S) => Size(Visible(c), S) < F

SizeInv(S, F) == RoomInv(S, F) /\ \A c \in Clients : OwnInv(c, S, F)

LEMMA LimitType ==
  ASSUME NEW S, NEW F, <<S, F>> \in FreeLimits
  PROVE  S \in SUBSET Entities /\ IsFiniteSet(S) /\ F \in Nat
<1>1. S \in SUBSET Entities /\ F \in Nat
  BY SyncStoreAssumption DEF FreeLimits, Entities
<1> QED
  BY <1>1, FS_Subset, SyncStoreAssumption

LEMMA SizeType ==
  ASSUME NEW S \in SUBSET Entities, NEW view
  PROVE  IsFiniteSet(ActiveIn(view, S)) /\ Size(view, S) \in Nat
<1>1. ActiveIn(view, S) \subseteq Entities
  BY DEF ActiveIn
<1>2. IsFiniteSet(ActiveIn(view, S))
  BY <1>1, FS_Subset, SyncStoreAssumption
<1> QED
  BY <1>2, FS_CardinalityType DEF Size

LEMMA SizeOfFewer ==
  ASSUME NEW S \in SUBSET Entities, NEW view, NEW less, ActiveIn(less, S) \subseteq ActiveIn(view, S)
  PROVE  Size(less, S) <= Size(view, S)
BY SizeType, FS_Subset DEF Size

LEMMA SizeOfMore ==
  ASSUME NEW S \in SUBSET Entities, NEW view, NEW more, NEW e,
         ActiveIn(more, S) \subseteq ActiveIn(view, S) \cup {e}
  PROVE  Size(more, S) <= Size(view, S) + 1
<1> DEFINE A == ActiveIn(view, S)
           B == ActiveIn(more, S)
<1>1. IsFiniteSet(A) /\ Cardinality(A) \in Nat /\ B \subseteq A \cup {e}
  BY SizeType DEF Size
<1> HIDE DEF A, B
<1>2. IsFiniteSet(A \cup {e}) /\ Cardinality(A \cup {e}) <= Cardinality(A) + 1
  <2>1. Cardinality(A \cup {e}) = IF e \in A THEN Cardinality(A) ELSE Cardinality(A) + 1
    BY <1>1, FS_AddElement
  <2>2. IsFiniteSet(A \cup {e})
    BY <1>1, FS_AddElement
  <2> QED
    BY <1>1, <2>1, <2>2
<1>3. Cardinality(B) <= Cardinality(A \cup {e}) /\ Cardinality(B) \in Nat /\ Cardinality(A \cup {e}) \in Nat
  BY <1>1, <1>2, FS_Subset, FS_CardinalityType
<1> QED
  BY <1>1, <1>2, <1>3 DEF Size, A, B

LEMMA AddersType ==
  ASSUME NEW A \in SUBSET Clients
  PROVE  /\ IsFiniteSet(A) /\ Cardinality(A) \in Nat /\ Cardinality(A) <= Cardinality(Clients)
         /\ \A c \in Clients \ A : Cardinality(A) + 1 <= Cardinality(Clients)
         /\ Cardinality(Clients) \in Nat /\ Cardinality(Clients) >= 1
         /\ A # {} => Cardinality(A) >= 1
<1>1. /\ IsFiniteSet(A) /\ Cardinality(A) \in Nat /\ Cardinality(A) <= Cardinality(Clients)
      /\ Cardinality(Clients) \in Nat
  BY FS_Subset, FS_CardinalityType, SyncStoreAssumption
<1>2. ASSUME NEW c \in Clients \ A PROVE Cardinality(A) + 1 <= Cardinality(Clients)
  <2>1. Cardinality(A \cup {c}) = Cardinality(A) + 1
    BY <1>1, FS_AddElement
  <2> QED
    BY <2>1, FS_Subset, SyncStoreAssumption
<1>3. Cardinality(Clients) # 0 /\ (A # {} => Cardinality(A) # 0)
  BY <1>1, FS_EmptySet, SyncStoreAssumption
<1> QED
  BY <1>1, <1>2, <1>3

\* Two ways to keep the room: nobody new may add and nothing was added, or the limit is
\* not reached.
LEMMA RoomKeeps ==
  ASSUME NEW S, NEW F, <<S, F>> \in FreeLimits, RoomInv(S, F),
         Size(rows, S)' <= Size(rows, S), Adders(S)' \subseteq Adders(S)
  PROVE  RoomInv(S, F)'
<1>1. S \in SUBSET Entities /\ F \in Nat
  BY LimitType
<1>2. Size(rows, S) \in Nat /\ Size(rows', S) \in Nat
  BY <1>1, SizeType
<1>3. Adders(S) \in SUBSET Clients
  BY DEF Adders
<1>4. /\ Cardinality(Adders(S)) \in Nat /\ Cardinality(Adders(S)') \in Nat /\ Cardinality(Clients) \in Nat
      /\ Cardinality(Adders(S)') <= Cardinality(Adders(S))
  BY <1>3, AddersType, FS_Subset
<1> QED
  BY <1>1, <1>2, <1>4 DEF RoomInv

LEMMA RoomLeft ==
  ASSUME NEW S, NEW F, <<S, F>> \in FreeLimits, Size(rows, S)' < F
  PROVE  RoomInv(S, F)'
<1>1. S \in SUBSET Entities /\ F \in Nat
  BY LimitType
<1>2. Size(rows', S) \in Nat
  BY <1>1, SizeType
<1>3. Adders(S)' \in SUBSET Clients
  BY DEF Adders
<1>4. /\ Cardinality(Adders(S)') \in Nat /\ Cardinality(Clients) \in Nat
      /\ Cardinality(Adders(S)') <= Cardinality(Clients) /\ Cardinality(Clients) >= 1
  BY <1>3, AddersType
<1> QED
  BY <1>1, <1>2, <1>4 DEF RoomInv

\* Room is found before it is claimed, and what was claimed stays so until it is written
\* or given up.
LEMMA ClaimStep ==
  ASSUME Inv, Free, NEW S, NEW F, <<S, F>> \in FreeLimits, NEW c \in Clients, Request(c),
         ~WriteRow(c), ~Commit(c), Claims(c, S)'
  PROVE  SameHeld(c) /\ (Claims(c, S) \/ Size(Visible(c), S) < F)
<1>0. tx \in [Clients -> Tx]
  BY DEF Inv, TypeInv, TypeOK
<1>1. CASE Begin(c)
  BY <1>0, <1>1 DEF Begin, NoTx, Claims
<1>2. CASE BeginBatch(c)
  BY <1>0, <1>2 DEF BeginBatch, NoTx, Claims
<1>3. CASE FetchExisting(c)
  <2>1. tx'[c].op = tx[c].op /\ (tx'[c].pc \in {"member", "limits"} \/ (tx'[c].pc = "lock" /\ tx[c].op.do = "delete"))
    BY <1>0, <1>3 DEF FetchExisting, Tx
  <2> QED
    BY <2>1 DEF Claims
<1>4. CASE VerifyMembership(c)
  <2>1. tx'[c].op = tx[c].op /\ (tx'[c].pc = "plan" \/ (tx'[c].pc = "lock" /\ tx[c].op.do = "delete"))
    BY <1>0, <1>4 DEF VerifyMembership, Tx
  <2> QED
    BY <2>1 DEF Claims
<1>5. CASE LoadSubscription(c)
  BY <1>0, <1>5 DEF LoadSubscription, Tx, Claims
<1>6. CASE NextInBatch(c)
  <2>1. tx'[c].pc \in {"limits", "fetch"}
    BY <1>0, <1>6 DEF NextInBatch, Tx
  <2> QED
    BY <2>1 DEF Claims
<1>7. CASE EnforceLimits(c)
  <2>1. SameHeld(c) /\ tx'[c].op = tx[c].op /\ WithinLimits(c) /\ tx[c].plan \in Plans
    BY <1>0, <1>7 DEF EnforceLimits, SameHeld, Tx
  <2>2. tx[c].op.do = "create" /\ tx[c].op.id \in S /\ ~Paid(tx[c].plan)
    BY <2>1 DEF Claims, Free
  <2>3. CASE S = SnippetIds /\ F = FreeSnippets
    BY <2>1, <2>2, <2>3 DEF WithinLimits, SnippetLimits, FreeRoom, Size
  <2>4. CASE S = FolderIds /\ F = FreeFolders
    <3>1. tx[c].op.id \notin SnippetIds
      BY <2>2, <2>4, SyncStoreAssumption
    <3> QED
      BY <2>1, <2>2, <2>4, <3>1 DEF WithinLimits, FolderLimits, FreeRoom, Size
  <2> QED
    BY <2>1, <2>3, <2>4 DEF FreeLimits
<1>8. CASE CheckTrigger(c)
  <2>1. SameHeld(c) /\ tx'[c].op = tx[c].op /\ tx[c].pc = "trigger"
    BY <1>0, <1>8 DEF CheckTrigger, SameHeld, Tx
  <2> QED
    BY <2>1 DEF Claims
<1>9. CASE TakeLock(c)
  <2>1. SameHeld(c) /\ tx'[c].op = tx[c].op /\ tx[c].pc = "lock"
    BY <1>0, <1>9 DEF TakeLock, SameHeld, Tx
  <2> QED
    BY <2>1 DEF Claims
<1>10. CASE AssignVersion(c)
  <2>1. SameHeld(c) /\ tx'[c].op = tx[c].op /\ tx[c].pc = "version"
    BY <1>0, <1>10 DEF AssignVersion, SameHeld, Tx
  <2> QED
    BY <2>1 DEF Claims
<1>11. CASE Rollback(c)
  BY <1>0, <1>11 DEF Rollback, NoTx, Claims
<1> QED
  BY <1>1, <1>2, <1>3, <1>4, <1>5, <1>6, <1>7, <1>8, <1>9, <1>10, <1>11
     DEF Request, Proceed, Reject, Drop

LEMMA SizeQuietStep ==
  ASSUME Inv, TriggerInv, NEW S, NEW F, <<S, F>> \in FreeLimits, SizeInv(S, F),
         NEW c \in Clients, Quiet(c),
         Claims(c, S)' => SameHeld(c) /\ (Claims(c, S) \/ Size(Visible(c), S) < F)
  PROVE  SizeInv(S, F)'
<1>1. rows' = rows /\ \A k \in Clients \ {c} : tx'[k] = tx[k]
  BY DEF Quiet, store
<1>2. ASSUME NEW k \in Clients \ {c}
      PROVE  Visible(k)' = Visible(k) /\ Claims(k, S)' = Claims(k, S) /\ tx'[k].pend = tx[k].pend
  BY <1>1 DEF Visible, Claims
<1>3. ASSUME NEW k \in Clients \ {c} PROVE OwnInv(k, S, F)'
  BY <1>1, <1>2 DEF SizeInv, OwnInv
<1>4. CASE SameHeld(c)
  <2>1. Visible(c)' = Visible(c) /\ tx'[c].pend = tx[c].pend
    BY <1>1, <1>4 DEF SameHeld, Visible
  <2>2. OwnInv(c, S, F)'
    BY <1>1, <2>1 DEF SizeInv, OwnInv
  <2>3. CASE Adders(S)' \subseteq Adders(S)
    <3>1. S \in SUBSET Entities /\ Size(rows, S) \in Nat
      BY LimitType, SizeType
    <3>2. RoomInv(S, F)'
      BY <1>1, <2>3, <3>1, RoomKeeps DEF SizeInv
    <3> QED
      BY <1>3, <2>2, <3>2 DEF SizeInv
  <2>4. CASE ~(Adders(S)' \subseteq Adders(S))
    <3>1. PICK k \in Adders(S)' : k \notin Adders(S)
      BY <2>4
    <3>2. k \in Clients /\ k = c
      BY <1>1, <1>2, <3>1 DEF Adders
    <3>3. Claims(c, S)' /\ ~Claims(c, S) /\ tx[c].pend = {}
      BY <1>1, <2>1, <3>1, <3>2 DEF Adders
    <3>4. Visible(c) = rows
      BY <3>3, VisibleWithoutWrites DEF Inv, TypeInv
    <3>5. Size(rows, S)' < F
      BY <1>1, <3>3, <3>4
    <3> QED
      BY <1>3, <2>2, <3>5, RoomLeft DEF SizeInv
  <2> QED
    BY <2>3, <2>4
<1>5. CASE HoldsNothing(c)' /\ ~SameHeld(c)
  <2>1. ~Claims(c, S)' /\ tx'[c].pend = {}
    BY <1>5 DEF HoldsNothing
  <2>2. ActiveIn(Visible(c)', S) = ActiveIn(rows', S)
    <3>1. \A e \in Entities : Visible(c)'[e] = rows'[e]
      BY <1>5 DEF HoldsNothing, Visible
    <3> QED
      BY <3>1, LimitType DEF ActiveIn
  <2>3. S \in SUBSET Entities /\ Size(rows, S) \in Nat
    BY LimitType, SizeType
  <2>4. c \notin Adders(S)'
    BY <1>1, <2>1, <2>2, <2>3 DEF Adders, Size
  <2>5. Adders(S)' \subseteq Adders(S)
    BY <1>1, <1>2, <2>4 DEF Adders
  <2>6. RoomInv(S, F)'
    BY <1>1, <2>3, <2>5, RoomKeeps DEF SizeInv
  <2>7. OwnInv(c, S, F)'
    BY <2>1 DEF OwnInv
  <2> QED
    BY <1>3, <2>6, <2>7 DEF SizeInv
<1> QED
  BY <1>4, <1>5 DEF Quiet

\* A write adds at most the row that was claimed.
LEMMA SizeOfWrite ==
  ASSUME Inv, NEW S \in SUBSET Entities, NEW c \in Clients, Known(c), WriteRow(c)
  PROVE  \/ Size(Visible(c), S)' <= Size(Visible(c), S)
         \/ Claims(c, S) /\ Size(Visible(c), S)' <= Size(Visible(c), S) + 1
<1> DEFINE id == tx[c].op.id
           row == Written(c)
           view == Visible(c)
<1>1. /\ id \in Entities /\ row \in Row /\ view \in [Entities -> Row]
      /\ Visible(c)' = [view EXCEPT ![id] = row]
  BY WrittenIs, WriteIs, VisibleType DEF Inv, TypeInv
<1>2. tx[c].op.do \in {"create", "update", "delete"}
  BY OpFields DEF Inv, TypeInv, OpChosen, WriteRow
<1>3. CASE tx[c].op.do = "create" /\ id \in S
  <2>1. Claims(c, S)
    BY <1>3 DEF Claims, WriteRow
  <2> HIDE DEF id, row, view
  <2>2. ActiveIn(Visible(c)', S) \subseteq ActiveIn(view, S) \cup {id}
    BY <1>1 DEF ActiveIn
  <2>3. Size(Visible(c)', S) <= Size(view, S) + 1
    BY <2>2, SizeOfMore
  <2> QED
    BY <2>1, <2>3 DEF view
<1>4. CASE tx[c].op.do # "create" \/ id \notin S
  <2>1. tx[c].op.do # "create" => (row.state = "active" => view[id].state = "active")
    BY <1>1, <1>2 DEF Written, Created, Updated, Deleted, Row
  <2> HIDE DEF id, row, view
  <2>2. ActiveIn(Visible(c)', S) \subseteq ActiveIn(view, S)
    BY <1>1, <1>4, <2>1 DEF ActiveIn
  <2>3. Size(Visible(c)', S) <= Size(view, S)
    BY <2>2, SizeOfFewer
  <2> QED
    BY <2>3 DEF view
<1> QED
  BY <1>3, <1>4

LEMMA SizeWriteStep ==
  ASSUME Inv, TriggerInv, LinkInv, NEW S, NEW F, <<S, F>> \in FreeLimits, SizeInv(S, F),
         NEW c \in Clients, WriteRow(c)
  PROVE  SizeInv(S, F)'
<1> DEFINE before == Size(Visible(c), S)
           after  == Size(Visible(c)', S)
           stored == Size(rows, S)
<1>0. S \in SUBSET Entities /\ F \in Nat /\ before \in Nat /\ after \in Nat /\ stored \in Nat
  BY LimitType, SizeType
<1>1. rows' = rows /\ \A k \in Clients \ {c} : tx'[k] = tx[k]
  BY DEF WriteRow, store, Inv, TypeInv, TypeOK
<1>2. ASSUME NEW k \in Clients \ {c}
      PROVE  Visible(k)' = Visible(k) /\ Claims(k, S)' = Claims(k, S) /\ tx'[k].pend = tx[k].pend
  BY <1>1 DEF Visible, Claims
<1>3. tx'[c].pc \in {"next", "commit"}
  BY DEF WriteRow, Inv, TypeInv, TypeOK, Tx
<1>4. ~Claims(c, S)'
  BY <1>3 DEF Claims
<1>5. after <= before \/ (Claims(c, S) /\ after <= before + 1)
  BY <1>0, SizeOfWrite DEF LinkInv
<1>6. /\ tx[c].pend = {} => before = stored
      /\ tx[c].pend # {} => /\ before <= F \/ before <= stored + 1
                            /\ Claims(c, S) => before < F
  BY VisibleWithoutWrites DEF Inv, TypeInv, SizeInv, OwnInv
<1>7. OwnInv(c, S, F)'
  <2> HIDE DEF before, after, stored
  <2>1. after <= F \/ after <= stored + 1
    BY <1>0, <1>5, <1>6
  <2> QED
    BY <1>1, <1>4, <2>1 DEF OwnInv, after, stored
<1>8. ASSUME NEW k \in Clients \ {c} PROVE OwnInv(k, S, F)'
  BY <1>1, <1>2 DEF SizeInv, OwnInv
<1>9. RoomInv(S, F)'
  <2>1. CASE Adders(S)' \subseteq Adders(S)
    BY <1>0, <1>1, <2>1, RoomKeeps DEF SizeInv
  <2>2. CASE ~(Adders(S)' \subseteq Adders(S))
    <3>1. PICK k \in Adders(S)' : k \notin Adders(S)
      BY <2>2
    <3>2. k \in Clients /\ k = c
      BY <1>1, <1>2, <3>1 DEF Adders
    <3>3. after > stored
      BY <1>1, <1>4, <3>1, <3>2 DEF Adders
    <3>4. ~(before > stored) /\ ~(Claims(c, S) /\ tx[c].pend = {})
      BY <3>1, <3>2 DEF Adders
    <3> HIDE DEF before, after, stored
    <3>5. stored < F
      BY <1>0, <1>5, <1>6, <3>3, <3>4
    <3>6. Size(rows, S)' < F
      BY <1>1, <3>5 DEF stored
    <3> QED
      BY <3>6, RoomLeft
  <2> QED
    BY <2>1, <2>2
<1> QED
  BY <1>7, <1>8, <1>9 DEF SizeInv

LEMMA SizeCommitStep ==
  ASSUME Inv, TriggerInv, NEW S, NEW F, <<S, F>> \in FreeLimits, SizeInv(S, F),
         NEW c \in Clients, Publish(c)
  PROVE  SizeInv(S, F)'
<1> DEFINE new    == Size(Visible(c), S)
           stored == Size(rows, S)
           A      == Adders(S)
           B      == Adders(S)'
<1>0. S \in SUBSET Entities /\ F \in Nat /\ new \in Nat /\ stored \in Nat
  BY LimitType, SizeType
<1>1. rows' = Visible(c) /\ \A k \in Clients \ {c} : tx'[k] = tx[k]
  BY DEF Publish, Inv, TypeInv, TypeOK
<1>2. HoldsNothing(c)' /\ ~Claims(c, S)'
  BY DEF Publish, Inv, TypeInv, TypeOK, NoTx, HoldsNothing, Claims
<1>3. c \notin B
  <2>1. \A e \in Entities : Visible(c)'[e] = rows'[e]
    BY <1>2 DEF HoldsNothing, Visible
  <2>2. Size(Visible(c)', S) = Size(rows', S)
    BY <1>0, <2>1 DEF ActiveIn, Size
  <2>3. Size(rows', S) \in Nat
    BY <1>0, SizeType
  <2> QED
    BY <1>2, <2>2, <2>3 DEF Adders
<1>4. OwnInv(c, S, F)'
  BY <1>2 DEF HoldsNothing, OwnInv
<1>5. CASE tx[c].pend = {}
  <2>1. rows' = rows
    BY <1>1, <1>5, VisibleWithoutWrites DEF Inv, TypeInv
  <2>2. ASSUME NEW k \in Clients \ {c}
        PROVE  Visible(k)' = Visible(k) /\ Claims(k, S)' = Claims(k, S) /\ tx'[k].pend = tx[k].pend
    BY <1>1, <2>1 DEF Visible, Claims
  <2>3. ASSUME NEW k \in Clients \ {c} PROVE OwnInv(k, S, F)'
    BY <2>1, <2>2 DEF SizeInv, OwnInv
  <2>4. B \subseteq A
    BY <1>3, <2>1, <2>2 DEF Adders
  <2>5. RoomInv(S, F)'
    BY <1>0, <2>1, <2>4, RoomKeeps DEF SizeInv
  <2> QED
    BY <1>4, <2>3, <2>5 DEF SizeInv
<1>6. CASE tx[c].pend # {}
  <2>1. ASSUME NEW k \in Clients \ {c} PROVE tx[k].pend = {} /\ tx'[k].pend = {}
    BY <1>1, <1>6 DEF Inv, VersionInv, LockGuardsVersions, Numbering
  <2>2. ASSUME NEW k \in Clients \ {c} PROVE OwnInv(k, S, F)'
    BY <2>1 DEF OwnInv
  <2>3. ASSUME NEW k \in Clients \ {c} PROVE k \in B => k \in A
    <3>1. \A e \in Entities : tx'[k].dirty[e] = None
      BY <1>1, <2>1 DEF TriggerInv, DirtyHasDelta
    <3>2. \A e \in Entities : Visible(k)'[e] = rows'[e]
      BY <3>1 DEF Visible
    <3>3. Size(Visible(k)', S) = Size(rows', S)
      BY <1>0, <3>2 DEF ActiveIn, Size
    <3>4. Size(rows', S) \in Nat
      BY <1>0, SizeType
    <3>5. k \in B => Claims(k, S)'
      BY <3>3, <3>4 DEF Adders
    <3> QED
      BY <1>1, <2>1, <3>5 DEF Adders, Claims
  <2>4. B \subseteq A \ {c}
    BY <1>3, <2>3 DEF Adders
  <2>5. A \in SUBSET Clients /\ B \in SUBSET Clients
    BY <2>4 DEF Adders
  <2>6. RoomInv(S, F)'
    <3>1. CASE new <= stored
      BY <1>0, <1>1, <2>4, <3>1, RoomKeeps DEF SizeInv
    <3>2. CASE new > stored
      <4>1. c \in A
        BY <3>2 DEF Adders
      <4>2. stored + Cardinality(A) + 1 <= F + Cardinality(Clients)
        BY <4>1 DEF SizeInv, RoomInv
      <4>3. new <= F \/ new <= stored + 1
        BY <1>6 DEF SizeInv, OwnInv
      <4> HIDE DEF A, B
      <4>4. IsFiniteSet(A) /\ IsFiniteSet(A \ {c}) /\ Cardinality(A \ {c}) = Cardinality(A) - 1
        <5>1. IsFiniteSet(A)
          BY <2>5, AddersType
        <5> QED
          BY <4>1, <5>1, FS_RemoveElement
      <4>5. Cardinality(B) <= Cardinality(A \ {c})
        BY <2>4, <4>4, FS_Subset
      <4>6. /\ Cardinality(A) \in Nat /\ Cardinality(B) \in Nat /\ Cardinality(Clients) \in Nat
            /\ Cardinality(Clients) >= 1 /\ Cardinality(A) >= 1
            /\ Cardinality(B) + 1 <= Cardinality(Clients)
        BY <1>3, <2>5, <4>1, AddersType
      <4> HIDE DEF new, stored
      <4>7. new + 1 <= F + Cardinality(Clients) /\ new + Cardinality(B) + 1 <= F + Cardinality(Clients)
        BY <1>0, <4>2, <4>3, <4>4, <4>5, <4>6
      <4> QED
        BY <1>1, <4>7 DEF RoomInv, new, B
    <3> QED
      BY <1>0, <3>1, <3>2
  <2> QED
    BY <1>4, <2>2, <2>6 DEF SizeInv
<1> QED
  BY <1>5, <1>6

\* The clean-up takes rows that were deleted, and no transaction has written them.
LEMMA SizeCleanStep ==
  ASSUME Inv, NEW S, NEW F, <<S, F>> \in FreeLimits, SizeInv(S, F), NEW T \in SUBSET Entities, Clean(T)
  PROVE  SizeInv(S, F)'
<1> DEFINE old == {e \in T : rows[e].state = "deleted" /\ Expired(rows[e].deletedAt)}
<1>0. S \in SUBSET Entities
  BY LimitType
<1>1. /\ \A c \in Clients, e \in old : tx[c].dirty[e] = None
      /\ rows' = [e \in Entities |-> IF e \in old THEN EmptyRow("gone") ELSE rows[e]]
      /\ tx' = tx
  BY DEF Clean
<1>2. \A e \in old : rows[e].state = "deleted"
  OBVIOUS
<1> HIDE DEF old
<1>3. \A e \in Entities : rows'[e].state = "active" <=> rows[e].state = "active"
  BY <1>1, <1>2 DEF EmptyRow
<1>4. Size(rows, S)' = Size(rows, S)
  BY <1>0, <1>3 DEF ActiveIn, Size
<1>5. ASSUME NEW k \in Clients PROVE Size(Visible(k), S)' = Size(Visible(k), S)
  <2>1. \A e \in Entities : Visible(k)'[e].state = "active" <=> Visible(k)[e].state = "active"
    BY <1>1, <1>3 DEF Visible
  <2> QED
    BY <1>0, <2>1 DEF ActiveIn, Size
<1>6. \A k \in Clients : Claims(k, S)' = Claims(k, S)
  BY <1>1 DEF Claims
<1>7. Adders(S)' = Adders(S)
  BY <1>1, <1>4, <1>5, <1>6 DEF Adders
<1>8. RoomInv(S, F)'
  BY <1>4, <1>7 DEF SizeInv, RoomInv
<1>9. ASSUME NEW k \in Clients PROVE OwnInv(k, S, F)'
  BY <1>1, <1>4, <1>5, <1>6 DEF SizeInv, OwnInv
<1> QED
  BY <1>8, <1>9 DEF SizeInv

LEMMA SizeStep ==
  ASSUME TablesInv, Free, NEW S, NEW F, <<S, F>> \in FreeLimits, SizeInv(S, F), [Next]_vars
  PROVE  SizeInv(S, F)'
<1>0. Inv /\ TriggerInv /\ LinkInv
  BY DEF TablesInv
<1>1. ASSUME NEW c \in Clients, Request(c) PROVE SizeInv(S, F)'
  <2>1. CASE WriteRow(c)
    BY <1>0, <2>1, SizeWriteStep
  <2>2. CASE Commit(c)
    BY <1>0, <2>2, SizeCommitStep DEF Commit
  <2>3. CASE ~WriteRow(c) /\ ~Commit(c)
    <3>1. Quiet(c)
      BY <1>0, <1>1, <2>3, RequestKinds
    <3>2. Claims(c, S)' => SameHeld(c) /\ (Claims(c, S) \/ Size(Visible(c), S) < F)
      BY <1>0, <1>1, <2>3, ClaimStep
    <3> QED
      BY <1>0, <3>1, <3>2, SizeQuietStep
  <2> QED
    BY <2>1, <2>2, <2>3
<1>2. CASE \E T \in SUBSET Entities : Clean(T)
  BY <1>0, <1>2, SizeCleanStep
<1>3. CASE UNCHANGED <<rows, tx>>
  BY <1>3 DEF SizeInv, RoomInv, OwnInv, Adders, Claims, Visible
<1> QED
  BY <1>1, <1>2, <1>3 DEF Next, Maintenance, DeltaPurge, CleanupSnippets, CleanupFolders, Tick,
     ChangePlan, RemoveMember, vars, store, Entities

SizesInv == Free => SizeInv(SnippetIds, FreeSnippets) /\ SizeInv(FolderIds, FreeFolders)

LEMMA InitSize ==
  ASSUME Init, NEW S, NEW F, <<S, F>> \in FreeLimits
  PROVE  SizeInv(S, F)
<1>1. S \in SUBSET Entities /\ F \in Nat
  BY LimitType
<1>2. ASSUME NEW c \in Clients PROVE tx[c] = NoTx /\ Visible(c) = rows
  BY DEF Init, NoTx, Visible
<1>3. Size(rows, S) = 0
  <2>1. ActiveIn(rows, S) = {}
    BY <1>1 DEF Init, ActiveIn, EmptyRow
  <2> QED
    BY <2>1, FS_EmptySet DEF Size
<1>4. Adders(S) = {}
  BY <1>2, <1>3 DEF Adders, Claims, NoTx
<1>5. RoomInv(S, F)
  <2>1. Cardinality(Clients) \in Nat /\ Cardinality(Clients) >= 1
    BY AddersType
  <2> QED
    BY <1>1, <1>3, <1>4, <2>1 DEF RoomInv
<1>6. ASSUME NEW c \in Clients PROVE OwnInv(c, S, F)
  BY <1>2 DEF OwnInv, NoTx
<1> QED
  BY <1>5, <1>6 DEF SizeInv

\* While every plan is free the requests in flight overrun the limits of snippets and of
\* folders by less than there are clients: the count is taken before the lock and is not
\* taken again.
THEOREM SpecFreeLimitOverrun == Spec => []FreeLimitOverrun
<1>1. <<SnippetIds, FreeSnippets>> \in FreeLimits /\ <<FolderIds, FreeFolders>> \in FreeLimits
  BY DEF FreeLimits
<1>2. Init => SizesInv
  BY <1>1, InitSize DEF SizesInv
<1>3. TablesInv /\ SizesInv /\ [Next]_vars => SizesInv'
  BY <1>1, SizeStep DEF SizesInv
<1>4. SizesInv => FreeLimitOverrun
  <2> SUFFICES ASSUME SizesInv, Free PROVE FreeLimitOverrun
    BY DEF FreeLimitOverrun, Free
  <2>1. /\ FreeSnippets \in Nat /\ FreeFolders \in Nat /\ Cardinality(Clients) \in Nat
        /\ Size(rows, SnippetIds) \in Nat /\ Size(rows, FolderIds) \in Nat
    BY <1>1, LimitType, SizeType, AddersType
  <2>2. /\ Size(rows, SnippetIds) + 1 <= FreeSnippets + Cardinality(Clients)
        /\ Size(rows, FolderIds) + 1 <= FreeFolders + Cardinality(Clients)
    BY DEF SizesInv, SizeInv, RoomInv
  <2> QED
    BY <2>1, <2>2 DEF FreeLimitOverrun, Size
<1>5. QED
  BY <1>2, <1>3, <1>4, SpecTables, PTL DEF Spec
-----------------------------------------------------------------------------
(* The device that reads beside the writers.  What it holds of an entity is      *)
(* current, or some delta on the entity lies above its cursor and will replace   *)
(* it.                                                                         *)

Below == {p \in Nat \X Nat : p[1] < p[2]}

LEMMA BelowWellFounded == IsWellFoundedOn(Below, Nat)
  BY NatLessThanWellFounded DEF OpToRel, Below

\* Every set of numbers that is not empty and has a bound has a greatest one.
LEMMA GreatestNumber ==
  ASSUME NEW T \in SUBSET Nat, T # {}, NEW bound \in Nat, \A m \in T : m <= bound
  PROVE  \E n \in T : \A m \in T : m <= n
<1> DEFINE Rest == {bound - m : m \in T}
<1>1. Rest \in SUBSET Nat /\ Rest # {}
  <2>1. \A m \in T : bound - m \in Nat
    <3>1. ASSUME NEW m \in T PROVE bound - m \in Nat
      <4>1. m \in Nat /\ m <= bound
        OBVIOUS
      <4> QED
        BY <4>1
    <3> QED
      BY <3>1
  <2>2. PICK m \in T : TRUE
    OBVIOUS
  <2>3. bound - m \in Rest
    OBVIOUS
  <2> QED
    BY <2>1, <2>3
<1>2. PICK r \in Rest : \A m \in Rest : ~(<<m, r>> \in Below)
  BY <1>1, BelowWellFounded, WFMin
<1>3. \A m \in Rest : ~(m < r)
  BY <1>1, <1>2, Zenon DEF Below
<1>4. PICK n \in T : r = bound - n
  BY <1>2
<1>5. ASSUME NEW m \in T PROVE m <= n
  <2>1. bound - m \in Rest
    OBVIOUS
  <2>2. ~(bound - m < bound - n)
    BY <1>3, <1>4, <2>1
  <2> QED
    BY <2>2
<1> QED
  BY <1>5

\* What is known of the tables while nothing is purged
StoreInv == TablesInv /\ GapInv /\ MatchInv /\ WholeInv /\ IsFiniteSet(deltas)

LEMMA VersionRange ==
  ASSUME StoreInv
  PROVE  /\ published \in Nat /\ \A d \in deltas : d.version \in Nat /\ d.version \in 1..published
BY DEF StoreInv, TablesInv, Inv, TypeInv, TypeOK, Delta, GapInv, Cover

\* Deltas come on top, and a row changes only with one.
LEMMA StoreMoves ==
  ASSUME StoreInv, [WriteNext]_vars
  PROVE  /\ deltas \subseteq deltas' /\ published' >= published /\ IsFiniteSet(deltas')
         /\ \A e \in Entities :
              \/ \E d \in deltas' : d.entity = e /\ d.version > published
              \/ rows'[e] = rows[e] /\ \A d : d.entity = e => (d \in deltas' <=> d \in deltas)
<1>0. Inv /\ GapInv /\ MatchInv /\ WholeInv /\ IsFiniteSet(deltas) /\ published \in Nat
  BY VersionRange DEF StoreInv, TablesInv
<1>1. CASE UNCHANGED store
  BY <1>0, <1>1 DEF store
<1>2. ASSUME NEW c \in Clients, Commit(c)
      PROVE  /\ deltas \subseteq deltas' /\ published' >= published /\ IsFiniteSet(deltas')
             /\ \A e \in Entities :
                  \/ \E d \in deltas' : d.entity = e /\ d.version > published
                  \/ rows'[e] = rows[e] /\ \A d : d.entity = e => (d \in deltas' <=> d \in deltas)
  <2>1. /\ tx[c].pc \in {"commit", "next"} /\ rows' = Visible(c) /\ deltas' = deltas \cup tx[c].pend
        /\ published' = IF tx[c].pend = {} THEN published ELSE tx[c].version
    BY <1>2 DEF Commit, Publish
  <2>2. tx[c].version \in Nat /\ \A d \in tx[c].pend : d.version \in Nat
    BY <1>0 DEF Inv, TypeInv, TypeOK, Tx, Delta
  <2>3. \A d \in tx[c].pend : d.version > published /\ d.version <= tx[c].version
    BY <1>0, <2>1, <2>2 DEF GapInv, PendFollows, Cover
  <2>4. published' >= published
    BY <1>0, <2>1, <2>2, <2>3
  <2>5. IsFiniteSet(deltas')
    BY <1>0, <2>1, FS_Union DEF WholeInv
  <2>6. ASSUME NEW e \in Entities, ~\E d \in deltas' : d.entity = e /\ d.version > published
        PROVE  rows'[e] = rows[e] /\ \A d : d.entity = e => (d \in deltas' <=> d \in deltas)
    <3>1. ~\E d \in tx[c].pend : d.entity = e
      BY <2>1, <2>3, <2>6
    <3> QED
      BY <1>0, <2>1, <3>1, CommittedRows
  <2> QED
    BY <2>1, <2>4, <2>5, <2>6
<1>3. ASSUME NEW c \in Clients, Quiet(c) \/ WriteRow(c) PROVE UNCHANGED store
  BY <1>3 DEF Quiet, WriteRow
<1> QED
  BY <1>0, <1>1, <1>2, <1>3, WriteKinds

LEMMA WriteStore == WriteSpec => []StoreInv
<1>1. Init => IsFiniteSet(deltas)
  BY FS_EmptySet DEF Init
<1>2. StoreInv /\ [WriteNext]_vars => IsFiniteSet(deltas)'
  BY StoreMoves
<1>3. [WriteNext]_vars => [Next]_vars
  BY DEF WriteNext, Next
<1>4. QED
  BY <1>1, <1>2, <1>3, WriteTables, WriteGap, WriteMatch, SpecWhole, PTL DEF StoreInv, WriteSpec, Spec

\* A page holds the deltas above the cursor up to the next one, and no other.
LEMMA PageIs ==
  ASSUME StoreInv, NEW since \in Nat, since <= published
  PROVE  /\ NextSince(since) \in since..published
         /\ Page(since) = {d \in deltas : since < d.version /\ d.version <= NextSince(since)}
<1> DEFINE newer == {d \in deltas : d.version > since}
           before(v) == {x \in newer : x.version < v}
           P == Page(since)
           n == NextSince(since)
<1>1. published \in Nat /\ \A d \in deltas : d.version \in Nat /\ d.version <= published
  BY VersionRange
<1>2. P = {d \in newer : Cardinality(before(d.version)) < PageLimit}
  BY DEF Page
<1>3. CASE P = {}
  <2>1. n = since
    BY <1>3 DEF NextSince
  <2> QED
    BY <1>1, <1>3, <2>1
<1>4. CASE P # {}
  <2> DEFINE V == {d.version : d \in P}
  <2>1. V \in SUBSET Nat /\ V # {} /\ \A v \in V : v <= published
    BY <1>1, <1>2, <1>4
  <2>2. PICK v \in V : \A w \in V : w <= v
    BY <1>1, <2>1, GreatestNumber
  <2>3. n = CHOOSE w \in V : \A d \in P : d.version <= w
    BY <1>4 DEF NextSince
  <2>4. n \in V /\ \A d \in P : d.version <= n
    BY <2>2, <2>3
  <2>5. PICK d \in P : d.version = n
    BY <2>4
  <2>6. since < n /\ n \in Nat /\ n <= published /\ Cardinality(before(n)) < PageLimit
    BY <1>1, <1>2, <2>5
  <2> HIDE DEF n
  <2>7. ASSUME NEW x \in newer, x.version <= n PROVE x \in P
    <3>1. before(x.version) \subseteq before(n)
      BY <1>1, <2>6, <2>7
    <3>2. IsFiniteSet(before(n))
      BY FS_Subset DEF StoreInv
    <3>3. /\ Cardinality(before(x.version)) <= Cardinality(before(n))
          /\ Cardinality(before(x.version)) \in Nat /\ Cardinality(before(n)) \in Nat
      <4>1. IsFiniteSet(before(x.version))
        BY FS_Subset DEF StoreInv
      <4> QED
        BY <3>1, <3>2, <4>1, FS_Subset, FS_CardinalityType
    <3>4. Cardinality(before(x.version)) < PageLimit
      BY <2>6, <3>3, SyncReaderAssumption
    <3> QED
      BY <1>2, <2>7, <3>4
  <2>8. P = {x \in deltas : since < x.version /\ x.version <= n}
    <3>1. \A x \in P : x \in newer /\ x.version <= n
      BY <1>2, <2>4
    <3> QED
      BY <1>1, <2>7, <3>1
  <2> QED
    BY <1>1, <2>6, <2>8 DEF n
<1> QED
  BY <1>3, <1>4

NoNewer(e, v) == \A d \in deltas : d.entity = e => d.version <= v

Current(e) == ~Overtaken(e) => rd.replica[e] = Shown(rows[e])

\* What a device can hold of an entity
Content == [trigger: Triggers \cup {None}, body: Bodies \cup {None}] \cup {None}

ReaderType ==
  /\ rd \in [pc: {"new", "version", "snippets", "folders", "ready", "page"},
             cursor: Nat, version: Nat, replica: [Entities -> Content]]
  /\ rd.cursor <= published /\ rd.version <= published

\* What the device knows of e.
Follows(e) ==
  /\ (\A d \in deltas : d.entity # e) => rd.replica[e] = None
  /\ rd.pc \in {"ready", "page"} /\ NoNewer(e, rd.cursor) => Current(e)
  /\ rd.pc = "folders" /\ e \in SnippetIds /\ NoNewer(e, rd.version) => Current(e)

ReaderInv == ReaderType /\ \A e \in Entities : Follows(e)

LEMMA ContentType ==
  ASSUME StoreInv
  PROVE  /\ \A e \in Entities : Shown(rows[e]) \in Content
         /\ \A d \in deltas : ShownBy(d) \in Content
<1>1. rows \in [Entities -> Row] /\ deltas \in SUBSET Delta
  BY DEF StoreInv, TablesInv, Inv, TypeInv, TypeOK
<1>2. ASSUME NEW e \in Entities PROVE Shown(rows[e]) \in Content
  BY <1>1 DEF Shown, Content, Row
<1>3. ASSUME NEW d \in deltas PROVE ShownBy(d) \in Content
  BY <1>1 DEF ShownBy, Content, Delta
<1> QED
  BY <1>2, <1>3

\* An entity the log does not know has no row to show.
LEMMA Unknown ==
  ASSUME StoreInv, NEW e \in Entities, \A d \in deltas : d.entity # e
  PROVE  Shown(rows[e]) = None
<1>1. rows[e].state = "absent"
  BY DEF StoreInv, MatchInv, Match, Tells
<1> QED
  BY <1>1 DEF Shown

\* The newest delta on an entity shows its row, unless the row was deleted before it.
LEMMA NewestShown ==
  ASSUME StoreInv, NEW e \in Entities, NEW d \in NewestOn(e, deltas), ~Overtaken(e)
  PROVE  ShownBy(d) = Shown(rows[e])
<1>1. d \in deltas /\ d.entity = e /\ \A x \in deltas : x.entity = e => x.version <= d.version
  BY DEF NewestOn
<1>2. rows[e].state \in {"active", "deleted"}
  BY <1>1 DEF StoreInv, MatchInv, Match, TablesInv, Inv, TypeInv, TypeOK, Row
<1>3. PICK t \in deltas : Tells(t, deltas, e, rows[e])
  BY <1>2 DEF StoreInv, MatchInv, Match
<1>4. CASE rows[e].state = "active"
  <2>1. t.version = d.version
    BY <1>1, <1>3, VersionRange DEF Tells
  <2>2. t = d
    BY <1>1, <2>1 DEF StoreInv, TablesInv, Inv, VersionInv, Distinct
  <2> QED
    BY <1>3, <1>4, <2>2 DEF Tells, Shown, ShownBy
<1>5. CASE rows[e].state = "deleted"
  <2>1. d.do = "delete"
    BY <1>5 DEF Overtaken
  <2> QED
    BY <1>5, <2>1 DEF Shown, ShownBy
<1> QED
  BY <1>2, <1>4, <1>5

\* A commit changes what the device should hold only together with a delta it has not read.
LEMMA ReaderStoreStep ==
  ASSUME StoreInv, StoreInv', ReaderInv, [WriteNext]_vars, UNCHANGED rd
  PROVE  ReaderInv'
<1>1. /\ deltas \subseteq deltas' /\ published' >= published /\ published \in Nat
      /\ \A e \in Entities :
              \/ \E d \in deltas' : d.entity = e /\ d.version > published
              \/ rows'[e] = rows[e] /\ \A d : d.entity = e => (d \in deltas' <=> d \in deltas)
  BY StoreMoves, VersionRange
<1>3. published' \in Nat /\ \A d \in deltas' : d.version \in Nat
  BY DEF StoreInv, TablesInv, Inv, TypeInv, TypeOK, Delta
<1>4. ReaderType'
  BY <1>1, <1>3 DEF ReaderInv, ReaderType
<1>5. ASSUME NEW e \in Entities PROVE Follows(e)'
  <2>1. CASE \E d \in deltas' : d.entity = e /\ d.version > published
    <3>1. ~NoNewer(e, rd.cursor)' /\ ~NoNewer(e, rd.version)' /\ ~(\A d \in deltas' : d.entity # e)
      BY <1>1, <1>3, <2>1 DEF NoNewer, ReaderInv, ReaderType
    <3> QED
      BY <3>1 DEF Follows
  <2>2. CASE rows'[e] = rows[e] /\ \A d : d.entity = e => (d \in deltas' <=> d \in deltas)
    <3>1. NoNewer(e, rd.cursor)' <=> NoNewer(e, rd.cursor)
      BY <2>2 DEF NoNewer
    <3>2. NoNewer(e, rd.version)' <=> NoNewer(e, rd.version)
      BY <2>2 DEF NoNewer
    <3>3. Overtaken(e)' <=> Overtaken(e)
      BY <2>2 DEF Overtaken, NewestOn
    <3>4. Current(e)' <=> Current(e)
      BY <2>2, <3>3 DEF Current
    <3>5. (\A d \in deltas' : d.entity # e) <=> (\A d \in deltas : d.entity # e)
      BY <2>2
    <3> QED
      BY <3>1, <3>2, <3>4, <3>5 DEF Follows, ReaderInv
  <2> QED
    BY <1>1, <2>1, <2>2
<1> QED
  BY <1>4, <1>5 DEF ReaderInv

\* A snapshot's first query
LEMMA ReadVersionStep ==
  ASSUME StoreInv, ReaderInv, ReadVersion, UNCHANGED vars
  PROVE  ReaderInv'
<1>0. published \in Nat /\ \A v \in {0} \cup {d.version : d \in deltas} : v \in Nat /\ v <= published
  BY VersionRange
<1>1. ASSUME NEW v \in Nat, v <= published, rd' = [rd EXCEPT !.pc = "snippets", !.version = v]
      PROVE  ReaderInv'
  <2>1. ReaderType'
    BY <1>0, <1>1 DEF ReaderInv, ReaderType, vars
  <2>2. ASSUME NEW e \in Entities PROVE Follows(e)'
    BY <1>1 DEF ReaderInv, ReaderType, Follows, vars
  <2> QED
    BY <2>1, <2>2 DEF ReaderInv
<1> QED
  BY <1>0, <1>1 DEF ReadVersion

\* What a query of the snapshot reads of its kind of rows is current.
LEMMA SnapshotSteps ==
  ASSUME StoreInv, ReaderInv, ReadSnippets \/ ReadFolders, UNCHANGED vars
  PROVE  ReaderInv'
<1>0. /\ rd \in [pc: {"new", "version", "snippets", "folders", "ready", "page"},
                 cursor: Nat, version: Nat, replica: [Entities -> Content]]
      /\ rd.cursor <= published /\ rd.version <= published /\ published \in Nat
      /\ \A e \in Entities : Follows(e)
  BY VersionRange DEF ReaderInv, ReaderType
<1>1. UNCHANGED <<rows, deltas, published>>
  BY DEF vars
<1>2. ASSUME NEW e \in Entities PROVE Overtaken(e)' <=> Overtaken(e)
  BY <1>1 DEF Overtaken, NewestOn
<1>3. CASE ReadSnippets
  <2>1. rd' = [rd EXCEPT !.pc = "folders",
                 !.replica = [e \in Entities |-> IF e \in SnippetIds THEN ActiveView[e] ELSE @[e]]]
    BY <1>3 DEF ReadSnippets
  <2>2. /\ rd'.pc = "folders" /\ rd'.cursor = rd.cursor /\ rd'.version = rd.version
        /\ rd'.replica = [e \in Entities |-> IF e \in SnippetIds THEN Shown(rows[e]) ELSE rd.replica[e]]
    BY <1>0, <2>1 DEF ActiveView
  <2>3. rd'.replica \in [Entities -> Content]
    BY <1>0, <2>2, ContentType
  <2>4. ReaderType'
    BY <1>0, <1>1, <2>1, <2>2, <2>3 DEF ReaderType
  <2>5. ASSUME NEW e \in Entities PROVE Follows(e)'
    <3>1. (\A d \in deltas' : d.entity # e) => rd'.replica[e] = None
      BY <1>0, <1>1, <2>2, Unknown DEF Follows
    <3>2. e \in SnippetIds => Current(e)'
      BY <1>1, <2>2 DEF Current
    <3> QED
      BY <2>2, <3>1, <3>2 DEF Follows
  <2> QED
    BY <2>4, <2>5 DEF ReaderInv
<1>4. CASE ReadFolders
  <2>1. rd' = [rd EXCEPT !.pc = "ready", !.cursor = rd.version, !.version = 0,
                 !.replica = [e \in Entities |-> IF e \in FolderIds THEN ActiveView[e] ELSE @[e]]]
        /\ rd.pc = "folders"
    BY <1>4 DEF ReadFolders
  <2>2. /\ rd'.pc = "ready" /\ rd'.cursor = rd.version /\ rd'.version = 0
        /\ rd'.replica = [e \in Entities |-> IF e \in FolderIds THEN Shown(rows[e]) ELSE rd.replica[e]]
    BY <1>0, <2>1 DEF ActiveView
  <2>3. rd'.replica \in [Entities -> Content]
    BY <1>0, <2>2, ContentType
  <2>4. ReaderType'
    <3>1. rd' = [pc |-> rd'.pc, cursor |-> rd'.cursor, version |-> rd'.version, replica |-> rd'.replica]
      BY <1>0, <2>1
    <3> QED
      BY <1>0, <1>1, <2>2, <2>3, <3>1 DEF ReaderType
  <2>5. ASSUME NEW e \in Entities PROVE Follows(e)'
    <3>1. (\A d \in deltas' : d.entity # e) => rd'.replica[e] = None
      BY <1>0, <1>1, <2>2, Unknown DEF Follows
    <3>2. ASSUME NoNewer(e, rd.cursor)' PROVE Current(e)'
      <4>1. CASE e \in FolderIds
        BY <1>1, <2>2, <4>1 DEF Current
      <4>2. CASE e \notin FolderIds
        <5>1. e \in SnippetIds /\ NoNewer(e, rd.version)
          BY <1>1, <2>2, <3>2, <4>2 DEF NoNewer, Entities
        <5>2. Current(e)
          BY <1>0, <2>1, <5>1 DEF Follows
        <5> QED
          BY <1>1, <1>2, <2>2, <4>2, <5>2 DEF Current
      <4> QED
        BY <4>1, <4>2
    <3> QED
      BY <2>2, <3>1, <3>2 DEF Follows
  <2> QED
    BY <2>4, <2>5 DEF ReaderInv
<1> QED
  BY <1>3, <1>4

\* A device with nothing, or that reads from the beginning, or asks for a page
LEMMA StartSteps ==
  ASSUME StoreInv, ReaderInv, StartSnapshot \/ StartFromZero \/ Poll, UNCHANGED vars
  PROVE  ReaderInv'
<1>0. /\ rd \in [pc: {"new", "version", "snippets", "folders", "ready", "page"},
                 cursor: Nat, version: Nat, replica: [Entities -> Content]]
      /\ rd.cursor <= published /\ rd.version <= published /\ published \in Nat
      /\ \A e \in Entities : Follows(e)
  BY VersionRange DEF ReaderInv, ReaderType
<1>1. UNCHANGED <<rows, deltas, published>>
  BY DEF vars
<1>2. ASSUME NEW e \in Entities PROVE Overtaken(e)' <=> Overtaken(e)
  BY <1>1 DEF Overtaken, NewestOn
<1>3. CASE StartSnapshot
  <2>1. rd' = [rd EXCEPT !.pc = "version", !.replica = [e \in Entities |-> None]]
    BY <1>3 DEF StartSnapshot
  <2>2. ReaderType'
    BY <1>0, <1>1, <2>1 DEF ReaderType, Content
  <2>3. ASSUME NEW e \in Entities PROVE Follows(e)'
    BY <1>0, <2>1 DEF Follows
  <2> QED
    BY <2>2, <2>3 DEF ReaderInv
<1>4. CASE StartFromZero
  <2>1. rd' = [rd EXCEPT !.pc = "ready"] /\ rd.cursor = 0
    BY <1>4 DEF StartFromZero
  <2>2. ReaderType'
    BY <1>0, <1>1, <2>1 DEF ReaderType
  <2>3. ASSUME NEW e \in Entities PROVE Follows(e)'
    <3>1. (\A d \in deltas : d.entity # e) => rd.replica[e] = None /\ Shown(rows[e]) = None
      BY <1>0, Unknown DEF Follows
    <3>2. ASSUME NoNewer(e, rd.cursor)' PROVE \A d \in deltas : d.entity # e
      <4>1. \A d \in deltas : d.version \in Nat /\ d.version >= 1
        BY VersionRange
      <4>2. rd'.cursor = 0
        BY <1>0, <2>1
      <4> QED
        BY <1>1, <3>2, <4>1, <4>2 DEF NoNewer
    <3>3. rd'.replica = rd.replica /\ rd'.pc = "ready"
      BY <1>0, <2>1
    <3> QED
      BY <1>1, <3>1, <3>2, <3>3 DEF Follows, Current
  <2> QED
    BY <2>2, <2>3 DEF ReaderInv
<1>5. CASE Poll
  <2>1. /\ rd.pc = "ready"
        /\ rd' = [rd EXCEPT !.pc = "new", !.cursor = 0] \/ rd' = [rd EXCEPT !.pc = "page"]
    BY <1>5 DEF Poll
  <2>2. ReaderType'
    <3>1. CASE rd' = [rd EXCEPT !.pc = "new", !.cursor = 0]
      <4>1. rd' = [pc |-> "new", cursor |-> 0, version |-> rd.version, replica |-> rd.replica]
        <5>1. rd \in [pc: {"new", "version", "snippets", "folders", "ready", "page"},
                      cursor: Nat, version: Nat, replica: [Entities -> Content]]
          BY <1>0
        <5> QED
          BY <3>1, <5>1
      <4> QED
        BY <1>0, <1>1, <4>1 DEF ReaderType
    <3>2. CASE rd' = [rd EXCEPT !.pc = "page"]
      BY <1>0, <1>1, <3>2 DEF ReaderType
    <3> QED
      BY <2>1, <3>1, <3>2
  <2>3. rd'.replica = rd.replica /\ (rd'.pc = "new" \/ (rd'.pc = "page" /\ rd'.cursor = rd.cursor))
    BY <1>0, <2>1
  <2>4. ASSUME NEW e \in Entities PROVE Follows(e)'
    BY <1>0, <1>1, <1>2, <2>1, <2>3 DEF Follows, Current, NoNewer
  <2> QED
    BY <2>2, <2>4 DEF ReaderInv
<1> QED
  BY <1>3, <1>4, <1>5

\* Of the deltas of a page on an entity one is the newest.
LEMMA PageHasNewest ==
  ASSUME StoreInv, NEW D \in SUBSET deltas, NEW e, NEW x \in D, x.entity = e
  PROVE  NewestOn(e, D) # {}
<1> DEFINE V == {d.version : d \in {y \in D : y.entity = e}}
<1>1. V \in SUBSET Nat /\ V # {} /\ \A v \in V : v <= published
  BY VersionRange
<1>2. PICK v \in V : \A w \in V : w <= v
  BY <1>1, VersionRange, GreatestNumber
<1>3. PICK d \in D : d.entity = e /\ d.version = v
  BY <1>2
<1>4. \A y \in D : y.entity = e => y.version <= d.version
  BY <1>2, <1>3
<1> QED
  BY <1>3, <1>4 DEF NewestOn

\* Replaying a page brings every entity up to the new cursor.
LEMMA PageStep ==
  ASSUME StoreInv, ReaderInv, ReadPage, UNCHANGED vars
  PROVE  ReaderInv'
<1> DEFINE n == NextSince(rd.cursor)
           P == Page(rd.cursor)
<1>0. /\ rd \in [pc: {"new", "version", "snippets", "folders", "ready", "page"},
                 cursor: Nat, version: Nat, replica: [Entities -> Content]]
      /\ rd.cursor <= published /\ rd.version <= published /\ published \in Nat
      /\ \A e \in Entities : Follows(e)
  BY VersionRange DEF ReaderInv, ReaderType
<1>1. UNCHANGED <<rows, deltas, published>>
  BY DEF vars
<1>2. /\ n \in rd.cursor..published
      /\ P = {d \in deltas : rd.cursor < d.version /\ d.version <= n}
  BY <1>0, PageIs
<1>3. rd' = [rd EXCEPT !.pc = "ready", !.cursor = n, !.replica = Replay(rd.replica, P)] /\ rd.pc = "page"
  BY <1>0 DEF ReadPage
<1> HIDE DEF n, P
<1>4. /\ rd'.pc = "ready" /\ rd'.cursor = n /\ rd'.version = rd.version
      /\ rd'.replica = Replay(rd.replica, P)
      /\ rd' = [pc |-> rd'.pc, cursor |-> rd'.cursor, version |-> rd'.version, replica |-> rd'.replica]
  BY <1>0, <1>3
<1>5. ASSUME NEW e \in Entities, \A d \in P : d.entity # e
      PROVE  rd'.replica[e] = rd.replica[e]
  <2>1. NewestOn(e, P) = {}
    BY <1>5 DEF NewestOn
  <2> QED
    BY <1>4, <2>1 DEF Replay
<1>6. ASSUME NEW e \in Entities, NEW x \in P, x.entity = e
      PROVE  \E d \in NewestOn(e, P) : rd'.replica[e] = ShownBy(d)
  <2>1. NewestOn(e, P) # {}
    BY <1>2, <1>6, PageHasNewest
  <2> QED
    BY <1>4, <2>1 DEF Replay
<1>7. ReaderType'
  <2>1. ASSUME NEW e \in Entities PROVE rd'.replica[e] \in Content
    <3>1. CASE \A d \in P : d.entity # e
      BY <1>0, <1>5, <3>1
    <3>2. CASE \E d \in P : d.entity = e
      BY <1>2, <1>6, <3>2, ContentType DEF NewestOn
    <3> QED
      BY <3>1, <3>2
  <2>2. rd'.replica \in [Entities -> Content]
    BY <1>4, <2>1 DEF Replay
  <2>3. n \in Nat /\ n <= published
    BY <1>0, <1>2
  <2> QED
    BY <1>0, <1>1, <1>4, <2>2, <2>3 DEF ReaderType
<1>8. ASSUME NEW e \in Entities PROVE Follows(e)'
  <2>1. (\A d \in deltas' : d.entity # e) => rd'.replica[e] = None
    BY <1>0, <1>1, <1>2, <1>5 DEF Follows
  <2>2. ASSUME NoNewer(e, rd.cursor)', ~Overtaken(e) PROVE rd'.replica[e] = Shown(rows[e])
    <3>1. \A d \in deltas : d.entity = e => d.version <= n
      BY <1>1, <1>4, <2>2 DEF NoNewer
    <3>2. \A d \in deltas : d.version \in Nat
      BY VersionRange
    <3>3. CASE \A d \in P : d.entity # e
      <4>1. NoNewer(e, rd.cursor)
        BY <1>0, <1>2, <3>1, <3>2, <3>3 DEF NoNewer
      <4> QED
        BY <1>0, <1>3, <1>5, <2>2, <3>3, <4>1 DEF Follows, Current
    <3>4. CASE \E d \in P : d.entity = e
      <4>1. PICK d \in NewestOn(e, P) : rd'.replica[e] = ShownBy(d)
        BY <1>6, <3>4
      <4>2. d \in deltas /\ d.entity = e /\ rd.cursor < d.version
        BY <1>2, <4>1 DEF NewestOn
      <4>3. ASSUME NEW x \in deltas, x.entity = e PROVE x.version <= d.version
        <5>1. CASE x \in P
          BY <4>1, <4>3, <5>1 DEF NewestOn
        <5>2. CASE x \notin P
          <6>1. x.version <= rd.cursor
            BY <1>0, <1>2, <3>1, <3>2, <4>3, <5>2
          <6> QED
            BY <1>0, <3>2, <4>2, <6>1
        <5> QED
          BY <5>1, <5>2
      <4>4. d \in NewestOn(e, deltas)
        BY <4>2, <4>3 DEF NewestOn
      <4> QED
        BY <2>2, <4>1, <4>4, NewestShown
    <3> QED
      BY <3>3, <3>4
  <2>3. Overtaken(e)' <=> Overtaken(e)
    BY <1>1 DEF Overtaken, NewestOn
  <2> QED
    BY <1>1, <1>4, <2>1, <2>2, <2>3 DEF Follows, Current
<1> QED
  BY <1>7, <1>8 DEF ReaderInv

ReaderNext == Beside(WriteNext) \/ (Read /\ UNCHANGED vars)

LEMMA ReaderStep == StoreInv /\ StoreInv' /\ ReaderInv /\ [ReaderNext]_allVars => ReaderInv'
<1> SUFFICES ASSUME StoreInv, StoreInv', ReaderInv, [ReaderNext]_allVars PROVE ReaderInv'
  OBVIOUS
<1>1. CASE [WriteNext]_vars /\ UNCHANGED rd
  BY <1>1, ReaderStoreStep
<1>2. CASE Read /\ UNCHANGED vars
  BY <1>2, ReadVersionStep, SnapshotSteps, StartSteps, PageStep DEF Read
<1> QED
  BY <1>1, <1>2 DEF ReaderNext, Beside, allVars

LEMMA InitReader ==
  ASSUME Init, ReaderInit, StoreInv
  PROVE  ReaderInv
<1>1. published \in Nat /\ deltas = {} /\ \A e \in Entities : Shown(rows[e]) = None
  BY VersionRange DEF Init, Shown, EmptyRow
<1>2. ReaderType
  BY <1>1 DEF ReaderInit, ReaderType, Content
<1>3. ASSUME NEW e \in Entities PROVE Follows(e)
  BY DEF ReaderInit, Follows
<1> QED
  BY <1>2, <1>3 DEF ReaderInv

LEMMA SpecReader == ReaderSpec => [](StoreInv /\ ReaderInv)
<1>1. [ReaderNext]_allVars => [WriteNext]_vars
  BY DEF ReaderNext, Beside, allVars, vars
<1>2. ReaderSpec => WriteSpec
  BY <1>1, PTL DEF ReaderSpec, ReaderNext, WriteSpec
<1>3. QED
  BY <1>2, InitReader, ReaderStep, WriteStore, PTL DEF ReaderSpec, ReaderNext

\* Once the device has read every published version, by whatever mixture of snapshot and
\* pages and beside whatever writes, it holds the workspace's active content, entities
\* whose delete was overtaken by an update excepted.
THEOREM ReaderReplicaConverges == ReaderSpec => []ReplicaConverges
<1>1. StoreInv /\ ReaderInv => ReplicaConverges
  <2> SUFFICES ASSUME StoreInv, ReaderInv, CaughtUp, NEW e \in Entities, ~Overtaken(e)
               PROVE  rd.replica[e] = Shown(rows[e])
    BY DEF ReplicaConverges, ActiveView
  <2>1. NoNewer(e, rd.cursor)
    BY VersionRange DEF NoNewer, CaughtUp
  <2> QED
    BY <2>1 DEF ReaderInv, Follows, Current, CaughtUp
<1>2. QED
  BY <1>1, SpecReader, PTL

\* A page moves the cursor over exactly the versions it holds, however many were committed
\* since the retention check.
THEOREM ReaderNothingSkipped == ReaderSpec => NothingSkipped
<1>1. ASSUME StoreInv, ReaderInv, [ReaderNext]_allVars
      PROVE  [rd.pc = "page" /\ rd'.pc = "ready" =>
                {d.version : d \in Page(rd.cursor)} = (rd.cursor + 1)..rd'.cursor]_rd
  <2> SUFFICES ASSUME rd.pc = "page", rd'.pc = "ready", rd' # rd
               PROVE  {d.version : d \in Page(rd.cursor)} = (rd.cursor + 1)..rd'.cursor
    OBVIOUS
  <2>0. rd.cursor \in Nat /\ rd.cursor <= published /\ published \in Nat
    BY <1>1, VersionRange DEF ReaderInv, ReaderType
  <2>1. ReadPage
    BY <1>1 DEF ReaderNext, Beside, allVars, Read, StartSnapshot, StartFromZero, ReadVersion,
       ReadSnippets, ReadFolders, Poll
  <2>2. rd'.cursor = NextSince(rd.cursor)
    BY <1>1, <2>1 DEF ReadPage, ReaderInv, ReaderType
  <2>3. /\ rd'.cursor \in rd.cursor..published
        /\ Page(rd.cursor) = {d \in deltas : rd.cursor < d.version /\ d.version <= rd'.cursor}
    BY <1>1, <2>0, <2>2, PageIs
  <2>4. \A v \in (rd.cursor + 1)..rd'.cursor : \E d \in deltas : d.version = v
    BY <1>1, <2>0, <2>3 DEF StoreInv, GapInv, Cover
  <2>5. \A d \in deltas : d.version \in Nat
    BY <1>1, VersionRange
  <2>6. ASSUME NEW v \in (rd.cursor + 1)..rd'.cursor PROVE \E d \in Page(rd.cursor) : d.version = v
    BY <2>0, <2>3, <2>4, <2>6
  <2>7. ASSUME NEW d \in Page(rd.cursor) PROVE d.version \in (rd.cursor + 1)..rd'.cursor
    BY <2>0, <2>3, <2>5, <2>7
  <2> QED
    BY <2>6, <2>7
<1>2. QED
  BY <1>1, SpecReader, PTL DEF ReaderSpec, ReaderNext, NothingSkipped
=============================================================================
