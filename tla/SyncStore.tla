------------------------------ MODULE SyncStore ------------------------------
(***************************************************************************)
(* The tables of one workspace as the sync service sees them, and the      *)
(* transactions that write them (src/src/sync/service.rs).  Every request  *)
(* is one Postgres transaction at READ COMMITTED: each SQL statement is a  *)
(* step of its own and reads what is committed at that moment, overlaid    *)
(* with the writes of its own transaction.  Versions are handed out under  *)
(* the advisory lock of the workspace, held until the transaction ends.    *)
(* The scheduler purges and cleans up without taking that lock.            *)
(***************************************************************************)
EXTENDS Integers, FiniteSets

CONSTANTS
  Clients,       \* users with at most one request in flight each
  SnippetIds,    \* identities gen_random_uuid can hand to snippets
  FolderIds,     \* identities it can hand to folders
  Triggers,      \* snippet triggers
  Bodies,        \* snippet contents (and folder names)
  LongBodies,    \* those longer than FREE_TIER_MAX_CONTENT_CHARS
  Plans,         \* the (tier, status) pairs the subscription may take
  InitPlan,      \* the one it starts with
  FreeSnippets,  \* FREE_TIER_MAX_SNIPPETS
  FreeFolders,   \* FREE_TIER_MAX_FOLDERS
  BatchLimit,    \* MAX_BATCH_SIZE
  Retention,     \* DELTA_RETENTION_DAYS, in ticks
  VersionBound,  \* bound: no request begins once this version is published
  TimeBound,     \* bound: the clock stops here
  None           \* "no value": NULL, an omitted field, a free lock

Tiers    == {"free", "pro", "teams"}
Statuses == {"active", "past_due", "cancelled", "pending_payment", "deactivated"}
Entities == SnippetIds \cup FolderIds

ASSUME SyncStoreAssumption ==
  /\ SnippetIds \cap FolderIds = {}
  /\ IsFiniteSet(Entities) /\ IsFiniteSet(Clients) /\ Clients # {}
  /\ LongBodies \subseteq Bodies
  /\ Plans \subseteq [tier: Tiers, status: Statuses] /\ InitPlan \in Plans
  /\ FreeSnippets \in Nat /\ FreeFolders \in Nat /\ BatchLimit \in Nat
  /\ Retention \in Nat /\ VersionBound \in Nat /\ TimeBound \in Nat
  /\ None \notin Clients \cup Entities \cup Triggers \cup Bodies

VARIABLES
  rows,      \* tables snippets and folders: the row of every identity
  links,     \* table snippet_folders
  deltas,    \* table sync_deltas
  plan,      \* the workspace's row of subscriptions
  members,   \* the clients in workspace_members
  lock,      \* holder of pg_advisory_xact_lock(workspace), or None
  tx,        \* the transaction each client's request runs
  now,       \* the database clock
  sweep,     \* the table soft_delete_cleanup will clean next
  published  \* history: the version of the last committed sync mutation

vars  == <<rows, links, deltas, plan, members, lock, tx, now, sweep, published>>
store == <<rows, links, deltas, published>>
env   == <<plan, members, now, sweep>>
-----------------------------------------------------------------------------
(* Rows, deltas, requests and transactions. *)

Row == [state: {"absent", "active", "deleted", "gone"},
        trigger: Triggers \cup {None}, body: Bodies \cup {None},
        version: Nat, deletedAt: Nat]

\* A row can be told from the absence of one.
ASSUME RowAssumption == None \notin Row

EmptyRow(s) == [state |-> s, trigger |-> None, body |-> None,
                version |-> 0, deletedAt |-> 0]

Delta == [version: Nat, entity: Entities, do: {"create", "update", "delete"},
          trigger: Triggers \cup {None}, body: Bodies \cup {None}, at: Nat]

SnippetOps ==
  [do: {"create"}, id: SnippetIds, trigger: Triggers, body: Bodies,
   folder: FolderIds \cup {None}]
  \cup [do: {"update"}, id: SnippetIds, trigger: Triggers \cup {None},
        body: Bodies \cup {None}, folder: {None}]
  \cup [do: {"delete"}, id: SnippetIds, trigger: {None}, body: {None}, folder: {None}]

FolderOps ==
  [do: {"create"}, id: FolderIds, trigger: {None}, body: Bodies, folder: {None}]
  \cup [do: {"update"}, id: FolderIds, trigger: {None}, body: Bodies \cup {None},
        folder: {None}]
  \cup [do: {"delete"}, id: FolderIds, trigger: {None}, body: {None}, folder: {None}]

NoOp == [do |-> "none", id |-> None, trigger |-> None, body |-> None, folder |-> None]

Phases == {"idle", "fetch", "member", "plan", "next", "limits", "trigger",
           "lock", "version", "write", "commit"}

Tx == [pc: Phases, batch: BOOLEAN, count: Nat, op: SnippetOps \cup FolderOps \cup {NoOp},
       found: Row, plan: Plans, version: Nat, dirty: [Entities -> Row \cup {None}],
       pend: SUBSET Delta, links: SUBSET (SnippetIds \X FolderIds), at: Nat]

NoTx == [pc |-> "idle", batch |-> FALSE, count |-> 0, op |-> NoOp,
         found |-> EmptyRow("absent"), plan |-> InitPlan, version |-> 0,
         dirty |-> [e \in Entities |-> None], pend |-> {}, links |-> {}, at |-> 0]

\* What a statement of c's transaction reads.
Visible(c) == [e \in Entities |-> IF tx[c].dirty[e] = None THEN rows[e] ELSE tx[c].dirty[e]]

ActiveIn(view, S) == {e \in S : view[e].state = "active"}

Paid(p)       == p.tier \in {"pro", "teams"}
SoftLocked(p) == p.status \in {"cancelled", "deactivated"}

Unused(e) == /\ rows[e].state = "absent"
             /\ \A c \in Clients : tx[c].op.id # e /\ tx[c].dirty[e] = None

\* Requests name rows the client has heard of; a create gets a new identity.
Requestable(op) ==
  IF op.do = "create" THEN Unused(op.id) ELSE rows[op.id].state # "absent"
-----------------------------------------------------------------------------
Init ==
  /\ rows = [e \in Entities |-> EmptyRow("absent")]
  /\ links = {} /\ deltas = {} /\ published = 0
  /\ plan = InitPlan /\ members = Clients
  /\ lock = None /\ tx = [c \in Clients |-> NoTx]
  /\ now = 0 /\ sweep = "snippets"

Begin(c) ==
  /\ tx[c].pc = "idle" /\ published < VersionBound
  /\ \E op \in SnippetOps \cup FolderOps :
       /\ Requestable(op)
       /\ tx' = [tx EXCEPT ![c] =
                  [NoTx EXCEPT !.pc = IF op.do = "create" THEN "member" ELSE "fetch",
                               !.op = op, !.at = now]]
  /\ UNCHANGED <<store, env, lock>>

BeginBatch(c) ==
  /\ tx[c].pc = "idle" /\ published < VersionBound
  /\ tx' = [tx EXCEPT ![c] = [NoTx EXCEPT !.pc = "member", !.batch = TRUE, !.at = now]]
  /\ UNCHANGED <<store, env, lock>>

(* The statements before the lock: each reads, checks and moves on. *)

RowFound(c) == Visible(c)[tx[c].op.id].state = "active"

FetchExisting(c) ==
  /\ tx[c].pc = "fetch" /\ RowFound(c)
  /\ tx' = [tx EXCEPT ![c].found = Visible(c)[tx[c].op.id],
                      ![c].pc = CASE ~tx[c].batch -> "member"
                                  [] tx[c].batch /\ tx[c].op.do = "delete" -> "lock"
                                  [] OTHER -> "limits"]
  /\ UNCHANGED <<store, env, lock>>

VerifyMembership(c) ==
  /\ tx[c].pc = "member" /\ c \in members
  /\ tx' = [tx EXCEPT ![c].pc = IF tx[c].op.do = "delete" THEN "lock" ELSE "plan"]
  /\ UNCHANGED <<store, env, lock>>

LoadSubscription(c) ==
  /\ tx[c].pc = "plan"
  /\ tx' = [tx EXCEPT ![c].plan = plan, ![c].pc = IF tx[c].batch THEN "next" ELSE "limits"]
  /\ UNCHANGED <<store, env, lock>>

\* A batch takes its next operation; the plan and the membership are not re-read.
NextInBatch(c) ==
  /\ tx[c].pc = "next" /\ tx[c].count < BatchLimit
  /\ \E op \in SnippetOps :
       /\ IF op.do = "create" THEN Unused(op.id) ELSE Visible(c)[op.id].state # "absent"
       /\ tx' = [tx EXCEPT ![c].op = op, ![c].count = @ + 1,
                           ![c].found = EmptyRow("absent"),
                           ![c].pc = IF op.do = "create" THEN "limits" ELSE "fetch"]
  /\ UNCHANGED <<store, env, lock>>

\* Mutant: the count may equal the limit.
FreeRoom_Inclusive(c, S, max) ==
  tx[c].op.do = "create" => Cardinality(ActiveIn(Visible(c), S)) <= max

FreeRoom(c, S, max) ==
  tx[c].op.do = "create" => Cardinality(ActiveIn(Visible(c), S)) < max

SnippetLimits(c) ==
  LET body == IF tx[c].op.body = None THEN tx[c].found.body ELSE tx[c].op.body
  IN  Paid(tx[c].plan) \/ (body \notin LongBodies /\ FreeRoom(c, SnippetIds, FreeSnippets))

FolderLimits(c) ==
  Paid(tx[c].plan) \/ (~SoftLocked(tx[c].plan) /\ FreeRoom(c, FolderIds, FreeFolders))

WithinLimits(c) == IF tx[c].op.id \in SnippetIds THEN SnippetLimits(c) ELSE FolderLimits(c)

EnforceLimits(c) ==
  /\ tx[c].pc = "limits" /\ WithinLimits(c)
  /\ tx' = [tx EXCEPT ![c].pc = IF tx[c].op.trigger = None THEN "lock" ELSE "trigger"]
  /\ UNCHANGED <<store, env, lock>>

\* An active snippet of the view other than e already answers to trigger t.
TriggerTaken(view, e, t) ==
  \E s \in SnippetIds \ {e} : view[s].state = "active" /\ view[s].trigger = t

CheckTrigger(c) ==
  /\ tx[c].pc = "trigger" /\ ~TriggerTaken(Visible(c), tx[c].op.id, tx[c].op.trigger)
  /\ tx' = [tx EXCEPT ![c].pc = "lock"]
  /\ UNCHANGED <<store, env, lock>>
-----------------------------------------------------------------------------
(* assign_next_version: the lock, then MAX(version) + 1. *)

\* Mutants: nobody waits for the lock; its holder waits for itself.
TakeLock_NoWait(c) ==
  /\ tx[c].pc = "lock" /\ lock' = c
  /\ tx' = [tx EXCEPT ![c].pc = "version"]
  /\ UNCHANGED <<store, env>>

TakeLock_NotReentrant(c) ==
  /\ tx[c].pc = "lock" /\ lock = None /\ lock' = c
  /\ tx' = [tx EXCEPT ![c].pc = "version"]
  /\ UNCHANGED <<store, env>>

TakeLock(c) ==
  /\ tx[c].pc = "lock" /\ lock \in {None, c}
  /\ lock' = c
  /\ tx' = [tx EXCEPT ![c].pc = "version"]
  /\ UNCHANGED <<store, env>>

\* v is COALESCE(MAX(version), 0) over the deltas D.
IsMaxVersion(v, D) ==
  IF D = {} THEN v = 0
  ELSE \E d \in D : d.version = v /\ \A x \in D : x.version <= v

\* Mutant: MAX(version) without COALESCE is NULL for the first mutation.
AssignVersion_NoCoalesce(c) ==
  LET D == deltas \cup tx[c].pend
  IN /\ tx[c].pc = "version"
     /\ \E v \in {None} \cup {d.version + 1 : d \in D} :
          /\ IF D = {} THEN v = None ELSE \A d \in D : d.version < v
          /\ tx' = [tx EXCEPT ![c].version = v, ![c].pc = "write"]
     /\ UNCHANGED <<store, env, lock>>

\* Mutant: COUNT(*) + 1 instead of MAX(version) + 1.
AssignVersion_Counts(c) ==
  /\ tx[c].pc = "version"
  /\ tx' = [tx EXCEPT ![c].version = Cardinality(deltas \cup tx[c].pend) + 1,
                      ![c].pc = "write"]
  /\ UNCHANGED <<store, env, lock>>

AssignVersion(c) ==
  LET D == deltas \cup tx[c].pend
  IN /\ tx[c].pc = "version"
     /\ \E v \in {0} \cup {d.version : d \in D} :
          /\ IsMaxVersion(v, D)
          /\ tx' = [tx EXCEPT ![c].version = v + 1, ![c].pc = "write"]
     /\ UNCHANGED <<store, env, lock>>

(* The row write, the delta and the folder link. *)

Given(new, old) == IF new = None THEN old ELSE new

\* The row as the INSERT or UPDATE leaves it.  UPDATE ... WHERE id = $n looks
\* neither at deleted_at nor at what changed since the row was fetched.
Created(t) == [state |-> "active", trigger |-> t.op.trigger, body |-> t.op.body,
               version |-> t.version, deletedAt |-> 0]

\* Mutant: the UPDATE forgets to set the version.
Updated_KeepsVersion(t, old) ==
  [old EXCEPT !.trigger = Given(t.op.trigger, t.found.trigger),
              !.body = Given(t.op.body, t.found.body)]

Updated(t, old) == [old EXCEPT !.trigger = Given(t.op.trigger, t.found.trigger),
                               !.body = Given(t.op.body, t.found.body),
                               !.version = t.version]

Deleted(t, old) ==
  IF old.state = "gone" THEN old
  ELSE [old EXCEPT !.state = "deleted", !.deletedAt = t.at, !.version = t.version]

Written(c) ==
  LET t == tx[c]  old == Visible(c)[t.op.id]
  IN  CASE t.op.do = "create" -> Created(t)
        [] t.op.do = "update" -> Updated(t, old)
        [] OTHER -> Deleted(t, old)

\* A delete delta names the trigger, an update or create delta the whole row.
DeltaOf(c) ==
  LET t == tx[c]
  IN [version |-> t.version, entity |-> t.op.id, do |-> t.op.do,
      trigger |-> IF t.op.do = "delete" THEN t.found.trigger ELSE Written(c).trigger,
      body |-> IF t.op.do = "delete" THEN None ELSE Written(c).body, at |-> t.at]

\* Mutant: no unique index behind the check that ran before the lock.
WriteAllowed_NoIndex(c) ==
  LET op == tx[c].op
  IN /\ op.do = "update" => Visible(c)[op.id].state \in {"active", "deleted"}
     /\ op.folder # None => rows[op.folder].state \in {"active", "deleted"}

\* idx_snippets_workspace_trigger, the row UPDATE ... RETURNING needs, and the
\* foreign key of snippet_folders.
WriteAllowed(c) ==
  LET op == tx[c].op  row == Written(c)
  IN /\ (op.id \in SnippetIds /\ row.state = "active")
          => ~TriggerTaken(Visible(c), op.id, row.trigger)
     /\ op.do = "update" => Visible(c)[op.id].state \in {"active", "deleted"}
     /\ op.folder # None => rows[op.folder].state \in {"active", "deleted"}

WriteRow(c) ==
  LET op == tx[c].op
  IN /\ tx[c].pc = "write" /\ WriteAllowed(c)
     /\ tx' = [tx EXCEPT
          ![c].dirty = [@ EXCEPT ![op.id] = Written(c)],
          ![c].pend  = @ \cup {DeltaOf(c)},
          ![c].links = @ \cup (IF op.folder = None THEN {} ELSE {<<op.id, op.folder>>}),
          ![c].pc    = IF tx[c].batch THEN "next" ELSE "commit"]
     /\ UNCHANGED <<store, env, lock>>

Release(c) == lock' = IF lock = c THEN None ELSE lock

\* What COMMIT makes visible, and the end of the transaction.
Publish(c) ==
  /\ rows' = Visible(c)
  /\ deltas' = deltas \cup tx[c].pend
  /\ links' = links \cup tx[c].links
  /\ published' = IF tx[c].pend = {} THEN published ELSE tx[c].version
  /\ tx' = [tx EXCEPT ![c] = NoTx]
  /\ Release(c)
  /\ UNCHANGED env

Commit(c) == tx[c].pc \in {"commit", "next"} /\ Publish(c)

Rollback(c) ==
  /\ tx' = [tx EXCEPT ![c] = NoTx]
  /\ Release(c)
  /\ UNCHANGED <<store, env>>

\* A check or a write that fails: the handler answers with the error.
Fails(c) ==
  \/ tx[c].pc = "fetch" /\ ~RowFound(c)
  \/ tx[c].pc = "member" /\ c \notin members
  \/ tx[c].pc = "limits" /\ ~WithinLimits(c)
  \/ tx[c].pc = "trigger" /\ TriggerTaken(Visible(c), tx[c].op.id, tx[c].op.trigger)
  \/ tx[c].pc = "write" /\ ~WriteAllowed(c)

\* Mutant: a batch keeps the items before the failing one.
Reject_KeepsItems(c) == Fails(c) /\ Publish(c)

Reject(c) == Fails(c) /\ Rollback(c)

\* The connection or the process goes away in the middle of the request.
Drop(c) == tx[c].pc # "idle" /\ Rollback(c)
-----------------------------------------------------------------------------
(* The scheduler's two tasks on these tables, the clock, and the changes   *)
(* other services make to the subscription and the membership.             *)

Expired(t) == t < now - Retention

DeltaPurge ==
  /\ \E d \in deltas : Expired(d.at)
  /\ deltas' = {d \in deltas : ~Expired(d.at)}
  /\ UNCHANGED <<rows, links, published, env, lock, tx>>

\* Mutant: the links of a hard-deleted row stay behind.
Clean_KeepsLinks(S) ==
  LET old == {e \in S : rows[e].state = "deleted" /\ Expired(rows[e].deletedAt)}
  IN /\ \A c \in Clients, e \in old : tx[c].dirty[e] = None
     /\ \A c \in Clients : \A l \in tx[c].links : l[2] \notin old
     /\ rows' = [e \in Entities |-> IF e \in old THEN EmptyRow("gone") ELSE rows[e]]
     /\ UNCHANGED <<links, deltas, published, plan, members, now, lock, tx>>

\* DELETE FROM snippets, then DELETE FROM folders; a row an open transaction
\* has written makes the statement wait, and so does the key lock
\* its new folder link holds; a hard-deleted row takes its links along.
Clean(S) ==
  LET old == {e \in S : rows[e].state = "deleted" /\ Expired(rows[e].deletedAt)}
  IN /\ \A c \in Clients, e \in old : tx[c].dirty[e] = None
     /\ \A c \in Clients : \A l \in tx[c].links : l[2] \notin old
     /\ rows' = [e \in Entities |-> IF e \in old THEN EmptyRow("gone") ELSE rows[e]]
     /\ links' = {l \in links : l[1] \notin old /\ l[2] \notin old}
     /\ UNCHANGED <<deltas, published, plan, members, now, lock, tx>>

CleanupSnippets == sweep = "snippets" /\ sweep' = "folders" /\ Clean(SnippetIds)
CleanupFolders  == sweep = "folders" /\ sweep' = "snippets" /\ Clean(FolderIds)

\* Transactions are short next to the retention: none spans two ticks.
Tick ==
  /\ now < TimeBound
  /\ \A c \in Clients : tx[c].pc # "idle" => tx[c].at = now
  /\ now' = now + 1
  /\ UNCHANGED <<store, plan, members, sweep, lock, tx>>

ChangePlan ==
  /\ \E p \in Plans : plan' = p
  /\ UNCHANGED <<store, members, now, sweep, lock, tx>>

RemoveMember ==
  /\ \E c \in members : members' = members \ {c}
  /\ UNCHANGED <<store, plan, now, sweep, lock, tx>>
-----------------------------------------------------------------------------
\* The steps a request that is not dropped goes on taking.
Proceed(c) ==
  \/ FetchExisting(c) \/ VerifyMembership(c) \/ LoadSubscription(c) \/ NextInBatch(c)
  \/ EnforceLimits(c) \/ CheckTrigger(c) \/ AssignVersion(c) \/ WriteRow(c)
  \/ Commit(c) \/ Reject(c)

Request(c) == Begin(c) \/ BeginBatch(c) \/ Proceed(c) \/ TakeLock(c) \/ Drop(c)

Maintenance == DeltaPurge \/ CleanupSnippets \/ CleanupFolders \/ Tick

Next == (\E c \in Clients : Request(c)) \/ Maintenance \/ ChangePlan \/ RemoveMember

Spec == Init /\ [][Next]_vars

\* Between two purges of interest: the request path and the changes around it.
WriteNext == (\E c \in Clients : Request(c)) \/ ChangePlan \/ RemoveMember

WriteSpec == Init /\ [][WriteNext]_vars
-----------------------------------------------------------------------------
\* The tables hold what their columns can hold, and a transaction only what its
\* statements can have read and computed (MAX of no version is 0, not NULL).
TypeOK ==
  /\ rows \in [Entities -> Row]
  /\ links \in SUBSET (SnippetIds \X FolderIds)
  /\ deltas \in SUBSET Delta
  /\ plan \in Plans /\ members \in SUBSET Clients
  /\ lock \in Clients \cup {None}
  /\ tx \in [Clients -> Tx]
  /\ now \in Nat /\ sweep \in {"snippets", "folders"} /\ published \in Nat
-----------------------------------------------------------------------------
(* Safety. *)

\* No two active snippets of the workspace share a trigger, whatever the check
\* before the lock saw (check_trigger_uniqueness against the unique index).
TriggersUnique ==
  \A s, t \in ActiveIn(rows, SnippetIds) : rows[s].trigger = rows[t].trigger => s = t

\* A transaction that was handed a version and has not ended holds the advisory
\* lock, between the items of a batch too: no two are numbering at once.
Numbering(c) == tx[c].pc \in {"version", "write"} \/ tx[c].pend # {}

LockGuardsVersions == \A c \in Clients : Numbering(c) => lock = c

\* Retained deltas never share a version, purges included, and a version handed
\* out but not committed lies above them all (assign_next_version).
VersionsDistinct ==
  /\ \A d, e \in deltas : d.version = e.version => d = e
  /\ \A c \in Clients : tx[c].pc = "write" => \A d \in deltas : d.version < tx[c].version

\* While nothing is purged the deltas carry exactly the versions 1..published:
\* a rejected or dropped request, in a batch or alone, leaves no gap.
VersionsGapFree == {d.version : d \in deltas} = 1..published

\* The newest delta on an entity (while nothing is purged) carries the version
\* of its row and, as long as the row is active, its content: replaying the log
\* gives the table back.
RowsMatchDeltas ==
  \A e \in Entities :
    LET D == {d \in deltas : d.entity = e}
    IN  IF rows[e].state = "absent" THEN D = {}
        ELSE \E d \in D : /\ \A x \in D : x.version <= d.version
                          /\ d.version = rows[e].version
                          /\ rows[e].state = "active" =>
                               d.trigger = rows[e].trigger /\ d.body = rows[e].body

\* A step publishes a whole transaction or nothing: one delta per operation the
\* request holds, versions that follow the last published one without a gap, and
\* rows changed exactly where there are deltas (record_delta next to every row
\* write, batch_operations all or nothing, rollback on every error path).
CommitsAtomically ==
  [][LET new == deltas' \ deltas
         asked(c) == IF tx[c].batch THEN tx[c].count ELSE 1
     IN /\ {d.version : d \in new} = (published + 1)..published'
        /\ \A e \in Entities : rows'[e] # rows[e] <=> \E d \in new : d.entity = e
        /\ \A c \in Clients : tx[c].pc # "idle" /\ tx'[c].pc = "idle" /\ new # {}
                                => Cardinality(new) = asked(c)]_vars

\* Whatever has been purged, a new delta goes on top of every retained one.
NewVersionsOnTop ==
  [][\A d \in deltas' \ deltas, x \in deltas : d.version > x.version]_vars

\* While the plan is free, requests that counted before the lock can overrun the
\* free-tier limit, but by no more than the other requests in flight.
FreeLimitOverrun ==
  (\A p \in Plans : ~Paid(p)) =>
    /\ Cardinality(ActiveIn(rows, SnippetIds)) < FreeSnippets + Cardinality(Clients)
    /\ Cardinality(ActiveIn(rows, FolderIds)) < FreeFolders + Cardinality(Clients)

\* Every link joins a snippet and a folder whose rows still exist (the foreign
\* keys of snippet_folders against the two statements of soft_delete_cleanup).
LinksHaveRows ==
  \A l \in links : \A e \in {l[1], l[2]} : rows[e].state \in {"active", "deleted"}

(* Liveness. *)

\* Under the fairness of FairReaderSpec every request ends: nobody waits for ever on the
\* advisory lock, a batch that takes it once per operation included.
EveryRequestEnds == \A c \in Clients : tx[c].pc # "idle" ~> tx[c].pc = "idle"
=============================================================================
