----------------------------- MODULE SyncReader -----------------------------
(***************************************************************************)
(* A device that follows one workspace through GET /sync/snapshot and GET  *)
(* /sync/deltas (get_snapshot and get_deltas of src/src/sync/service.rs),  *)
(* beside the transactions of SyncStore.  Neither read runs in a           *)
(* transaction: every query takes its own connection from the pool and     *)
(* sees what is committed at that moment.                                  *)
(***************************************************************************)
EXTENDS SyncStore

CONSTANTS
  Reader,     \* the client whose device reads
  PageLimit   \* the effective limit of one page of deltas

ASSUME SyncReaderAssumption == Reader \in Clients /\ PageLimit \in Nat \ {0}

VARIABLE
  rd     \* the device: its read in progress, its cursor, its replica

allVars == <<vars, rd>>

\* What a row or a delta shows a client: its content, or nothing once deleted.
Shown(row) == IF row.state = "active" THEN [trigger |-> row.trigger, body |-> row.body]
              ELSE None
ShownBy(d) == IF d.do = "delete" THEN None ELSE [trigger |-> d.trigger, body |-> d.body]

ActiveView == [e \in Entities |-> Shown(rows[e])]

NewestOn(e, D) == {d \in D : d.entity = e /\ \A x \in D : x.entity = e => x.version <= d.version}

\* The client's replay of a page: the newest delta of the page on an entity wins.
Replay(replica, D) ==
  [e \in Entities |-> IF NewestOn(e, D) = {} THEN replica[e]
                      ELSE ShownBy(CHOOSE d \in NewestOn(e, D) : TRUE)]

\* The page get_deltas returns: the PageLimit lowest versions above since.
Page(since) ==
  LET newer == {d \in deltas : d.version > since}
  IN  {d \in newer : Cardinality({x \in newer : x.version < d.version}) < PageLimit}

\* get_deltas asks for a snapshot if the cursor lies below the oldest retained
\* version and the oldest retained delta is itself past the retention.
SnapshotNeeded(since) ==
  /\ since > 0 /\ deltas # {}
  /\ \A d \in deltas : since < d.version
  /\ \E d \in deltas : Expired(d.at)

\* Mutants: the newest version there is; the cursor the request came with.
NextSince_Newest(since) ==
  IF Page(since) = {} THEN since
  ELSE CHOOSE v \in {d.version : d \in deltas} : \A d \in deltas : d.version <= v
NextSince_Stuck(since) == since

NextSince(since) ==
  IF Page(since) = {} THEN since
  ELSE CHOOSE v \in {d.version : d \in Page(since)} : \A d \in Page(since) : d.version <= v
-----------------------------------------------------------------------------
ReaderInit ==
  rd = [pc |-> "new", cursor |-> 0, version |-> 0, replica |-> [e \in Entities |-> None]]

\* A device without a replica takes a snapshot or, since since_version defaults
\* to 0, reads the deltas from the beginning.
StartSnapshot ==
  /\ rd.pc = "new" /\ Reader \in members
  /\ rd' = [rd EXCEPT !.pc = "version", !.replica = [e \in Entities |-> None]]

StartFromZero ==
  /\ rd.pc = "new" /\ rd.cursor = 0
  /\ rd' = [rd EXCEPT !.pc = "ready"]

ReadVersion ==
  /\ rd.pc = "version"
  /\ \E v \in {0} \cup {d.version : d \in deltas} :
       /\ IsMaxVersion(v, deltas)
       /\ rd' = [rd EXCEPT !.pc = "snippets", !.version = v]

ReadSnippets ==
  /\ rd.pc = "snippets"
  /\ rd' = [rd EXCEPT !.pc = "folders",
              !.replica = [e \in Entities |-> IF e \in SnippetIds THEN ActiveView[e] ELSE @[e]]]

\* Mutant: the version is read last and not first.
ReadFolders_LateVersion ==
  /\ rd.pc = "folders"
  /\ \E v \in {0} \cup {d.version : d \in deltas} :
       /\ IsMaxVersion(v, deltas)
       /\ rd' = [rd EXCEPT !.pc = "ready", !.cursor = v, !.version = 0,
                  !.replica = [e \in Entities |-> IF e \in FolderIds THEN ActiveView[e] ELSE @[e]]]

ReadFolders ==
  /\ rd.pc = "folders"
  /\ rd' = [rd EXCEPT !.pc = "ready", !.cursor = rd.version, !.version = 0,
              !.replica = [e \in Entities |-> IF e \in FolderIds THEN ActiveView[e] ELSE @[e]]]

\* get_deltas, first query: the retention check.
Poll ==
  /\ rd.pc = "ready" /\ Reader \in members
  /\ rd' = IF SnapshotNeeded(rd.cursor) THEN [rd EXCEPT !.pc = "new", !.cursor = 0]
           ELSE [rd EXCEPT !.pc = "page"]

\* get_deltas, second query: one page, which the client replays.
ReadPage ==
  /\ rd.pc = "page"
  /\ rd' = [rd EXCEPT !.pc = "ready", !.cursor = NextSince(@),
                      !.replica = Replay(@, Page(rd.cursor))]

Read == \/ StartSnapshot \/ StartFromZero \/ ReadVersion \/ ReadSnippets
        \/ ReadFolders \/ Poll \/ ReadPage

\* A step of the store beside the device.
Beside(A) == A /\ UNCHANGED rd

ReaderSpec ==
  Init /\ ReaderInit
  /\ [][Beside(WriteNext) \/ (Read /\ UNCHANGED vars)]_allVars

\* A device that keeps asking, beside requests that go on: tokio polls every task
\* that can run, and Postgres queues the waiters of a lock in order.
FairReaderSpec ==
  /\ ReaderSpec
  /\ WF_allVars(Read /\ UNCHANGED vars)
  /\ \A c \in Clients : WF_allVars(Beside(Proceed(c))) /\ SF_allVars(Beside(TakeLock(c)))
-----------------------------------------------------------------------------
CaughtUp == rd.pc = "ready" /\ rd.cursor = published

\* A delete and an update raced: the row is deleted, its newest delta is not.
Overtaken(e) ==
  rows[e].state = "deleted" /\ \E d \in NewestOn(e, deltas) : d.do # "delete"

\* Once the device has read every published version, by whatever mixture of
\* snapshot and pages, its replica is the workspace's active content, except for
\* entities whose delete was overtaken by an update.
ReplicaConverges ==
  CaughtUp => \A e \in Entities : ~Overtaken(e) => rd.replica[e] = ActiveView[e]

\* The cursor skips nothing: it moves over exactly the versions of the page that
\* was returned, however many were committed since the check before it.
NothingSkipped ==
  [][rd.pc = "page" /\ rd'.pc = "ready" =>
       {d.version : d \in Page(rd.cursor)} = (rd.cursor + 1)..rd'.cursor]_rd

\* A device that keeps polling while it stays a member catches up for good once
\* writers pause (the bound on versions makes them pause).
CatchesUp == []<>(CaughtUp \/ Reader \notin members)
=============================================================================
