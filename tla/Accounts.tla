------------------------------ MODULE Accounts -------------------------------
(***************************************************************************)
(* The life of a user account: registration, login (which reactivates),    *)
(* OAuth callbacks, change of address and deletion                         *)
(* (src/src/auth/service.rs, src/src/auth/oauth.rs), teams owned           *)
(* (src/src/workspace/service.rs), deletion by an admin                    *)
(* (src/src/admin/service.rs) and the hard delete of the scheduler         *)
(* (src/src/scheduler/service.rs) against the keys of users, workspaces,   *)
(* workspace_members, referrals, oauth_accounts, email_change_requests and *)
(* the tables that name the creator of a row.                              *)
(***************************************************************************)
EXTENDS Naturals, FiniteSets

CONSTANTS
  Users,       \* the rows of users that can come to be (their ids)
  Emails,      \* addresses
  Identities,  \* identities at an OAuth provider (provider, external_id)
  Changes,     \* email change requests
  Tasks,       \* requests in flight
  Retention,   \* days a deleted account is kept: 30
  ChangeTTL,   \* days an email change request can be used: 1
  TimeBound,   \* bound of the clock
  RequestBound, \* bound: requests that are made
  CrashBound,  \* bound: runs of the hard delete that die halfway
  None,        \* NULL, and no row yet
  Gone         \* a row that was deleted

UserRow == [email: Emails, deleted: Nat \cup {None}]
ChangeRow == [user: Users, email: Emails, at: Nat, used: BOOLEAN]

ASSUME AccountsAssumption ==
  /\ {Retention, ChangeTTL, TimeBound, CrashBound, RequestBound} \subseteq Nat
  /\ None # Gone /\ {None, Gone} \cap (Nat \cup Users \cup Emails) = {}
  \* rows can be told from the absence of one
  /\ {None, Gone} \cap UserRow = {} /\ None \notin ChangeRow

VARIABLES
  row,        \* users: None, Gone or [email, deleted]
  member,     \* users with the owner's membership of their individual workspace
  space,      \* workspaces and their subscriptions: pairs of type and owner
  billed,     \* workspaces a row of billing_events refers to
  referrals,  \* pairs of referrer and referred user
  authored,   \* rows that name their creator: pairs of a user and the workspace of the row
              \* (snippets, folders, team invites), or None (admin invites, coupon codes)
  link,       \* oauth_accounts: the user of each identity
  change,     \* email_change_requests: None or [user, email, at, used]
  task,       \* the task of each request
  sweep,      \* the running account_hard_delete_check: [pc, ids]
  picked,     \* history: users that were expired when a sweep selected them
  now, crashes, requests

vars == <<row, member, space, billed, referrals, authored, link, change, task, sweep, picked, now, crashes, requests>>
spaces == <<member, space, billed>>
others == <<link, change>>
clock == <<now, crashes, requests>>

Present(u) == row[u] \notin {None, Gone}
Active(u) == Present(u) /\ row[u].deleted = None
Taken(e) == \E u \in Users : Present(u) /\ row[u].email = e
ActiveOn(e) == \E u \in Users : Active(u) /\ row[u].email = e

\* WHERE deleted_at > now - 30 days, and its counterpart in the scheduler
Reactivable(u) == Present(u) /\ row[u].deleted # None /\ row[u].deleted + Retention > now
Expired(u) == Present(u) /\ row[u].deleted # None /\ row[u].deleted + Retention < now
-----------------------------------------------------------------------------
Idle == [pc |-> "idle", user |-> None, email |-> None, arg |-> None]

Init ==
  /\ row = [u \in Users |-> None] /\ link = [i \in Identities |-> None]
  /\ change = [c \in Changes |-> None] /\ task = [t \in Tasks |-> Idle]
  /\ member = {} /\ space = {} /\ billed = {} /\ referrals = {} /\ authored = {} /\ picked = {}
  /\ sweep = [pc |-> "idle", ids |-> {}, user |-> None] /\ now = 0 /\ crashes = 0 /\ requests = 0

Comes == requests < RequestBound /\ requests' = requests + 1
Starts(t, pc, u, e, a) ==
  /\ task[t].pc = "idle" /\ Comes
  /\ task' = [task EXCEPT ![t] = [pc |-> pc, user |-> u, email |-> e, arg |-> a]]
Ends(t) == task' = [task EXCEPT ![t] = Idle]

\* Mutant: a partial index, UNIQUE (email) WHERE deleted_at IS NULL.
Free_Partial(e) == ~ActiveOn(e)

\* idx_users_email is over all rows, the deleted ones too.
Free(e) == ~Taken(e)

\* The rows of a new account, made in one transaction: its uncommitted INSERT
\* makes every other INSERT of the address wait.
Create(u, e) ==
  /\ row[u] = None /\ Free(e)
  /\ row' = [row EXCEPT ![u] = [email |-> e, deleted |-> None]]
  /\ member' = member \cup {u} /\ space' = space \cup {<<"individual", u>>} /\ UNCHANGED billed

(* register; the referral code, if any, is that of user r. *)

StartRegister(t, e, r) ==
  /\ ~ActiveOn(e) /\ Starts(t, "register", None, e, r)
  /\ UNCHANGED <<row, spaces, referrals, authored, others, sweep, picked, now, crashes>>

FinishRegister(t, u) ==
  LET r == task[t].arg
  IN /\ task[t].pc = "register" /\ Create(u, task[t].email)
     /\ r # None => Active(r)
     /\ referrals' = referrals \cup (IF r = None THEN {} ELSE {<<r, u>>})
     /\ Ends(t) /\ UNCHANGED <<authored, others, sweep, picked, clock>>

(* login reads the row and later sets deleted_at to NULL where the row it read  *)
(* was deleted.  The refresh token it inserts needs the user to be there still. *)

StartLogin(t, u) ==
  /\ Active(u) \/ Reactivable(u)
  /\ Starts(t, "login", u, None, row[u].deleted)
  /\ UNCHANGED <<row, spaces, referrals, authored, others, sweep, picked, now, crashes>>

FinishLogin(t) ==
  LET u == task[t].user
  IN /\ task[t].pc = "login" /\ Present(u)
     /\ row' = IF task[t].arg = None THEN row ELSE [row EXCEPT ![u].deleted = None]
     /\ Ends(t) /\ UNCHANGED <<spaces, referrals, authored, others, sweep, picked, clock>>

(* oauth_callback: find the link, else the address, else create an account.     *)

StartCallback(t, i, e) ==
  /\ link[i] = None
  /\ \/ \E u \in Users : Active(u) /\ row[u].email = e /\ Starts(t, "link", u, e, i)
     \/ ~ActiveOn(e) /\ Starts(t, "create", None, e, i)
  /\ UNCHANGED <<row, spaces, referrals, authored, others, sweep, picked, now, crashes>>

FinishLink(t) ==
  LET i == task[t].arg
  IN /\ task[t].pc = "link" /\ link[i] = None /\ Present(task[t].user)
     /\ link' = [link EXCEPT ![i] = task[t].user]
     /\ Ends(t) /\ UNCHANGED <<row, spaces, referrals, authored, change, sweep, picked, clock>>

FinishCreate(t, u) ==
  LET i == task[t].arg
  IN /\ task[t].pc = "create" /\ link[i] = None /\ Create(u, task[t].email)
     /\ link' = [link EXCEPT ![i] = u]
     /\ Ends(t) /\ UNCHANGED <<referrals, authored, change, sweep, picked, clock>>
-----------------------------------------------------------------------------
(* An access token outlives the deletion of its user for some minutes.          *)

Authenticated(u) == Present(u) /\ row[u].deleted \in {None, now}

\* delete_account counts the teams first.
StartDelete(t, u) ==
  /\ Authenticated(u) /\ <<"team", u>> \notin space /\ Starts(t, "delete", u, None, None)
  /\ UNCHANGED <<row, spaces, referrals, authored, others, sweep, picked, now, crashes>>

\* delete_user of the admin service reads the role only.
StartDeleteByAdmin(t, u) ==
  /\ Present(u) /\ Starts(t, "delete", u, None, None)
  /\ UNCHANGED <<row, spaces, referrals, authored, others, sweep, picked, now, crashes>>

FinishDelete(t) ==
  LET u == task[t].user
  IN /\ task[t].pc = "delete"
     /\ row' = IF Present(u) THEN [row EXCEPT ![u].deleted = now] ELSE row
     /\ Ends(t) /\ UNCHANGED <<spaces, referrals, authored, others, sweep, picked, clock>>

CreateTeam(u) ==
  /\ Authenticated(u) /\ space' = space \cup {<<"team", u>>}
  /\ Comes /\ UNCHANGED <<row, member, billed, referrals, authored, others, task, sweep, picked, now, crashes>>

\* The admin's delete_workspace refuses individual workspaces; billing_events
\* refers to its workspace without ON DELETE, so one with an event stays.
DeleteTeam(u) ==
  /\ <<"team", u>> \in space \ billed /\ space' = space \ {<<"team", u>>}
  /\ authored' = {p \in authored : p[2] # <<"team", u>>}
  /\ Comes /\ UNCHANGED <<row, member, billed, referrals, others, task, sweep, picked, now, crashes>>

\* process_webhook records an event of a workspace.
RecordEvent(w) ==
  /\ w \in space /\ billed' = billed \cup {w}
  /\ Comes /\ UNCHANGED <<row, member, space, referrals, authored, others, task, sweep, picked, now, crashes>>

\* A row that names u as its creator: a snippet, a folder or an invite in the team of another
\* owner, or a row of no workspace.  In u's own workspaces such a row adds nothing: the
\* workspace names u as well and takes the row along.  Who is a member of whose team is
\* left out: every account may write in every team.
Author(u, w) ==
  /\ Authenticated(u) /\ w \in {None} \cup {s \in space : s[1] = "team" /\ s[2] # u}
  /\ authored' = authored \cup {<<u, w>>}
  /\ Comes /\ UNCHANGED <<row, spaces, referrals, others, task, sweep, picked, now, crashes>>

\* soft_delete_cleanup: whoever deleted it, a deleted row of a workspace goes in the end.
CleanUp(p) ==
  /\ p[2] # None /\ authored' = authored \ {p}
  /\ Comes /\ UNCHANGED <<row, spaces, referrals, others, task, sweep, picked, now, crashes>>

(* initiate_email_change and verify_email_change                                *)

RequestChange(c, u, e) ==
  /\ change[c] = None /\ Authenticated(u) /\ ~ActiveOn(e)
  /\ change' = [change EXCEPT ![c] = [user |-> u, email |-> e, at |-> now, used |-> FALSE]]
  /\ Comes /\ UNCHANGED <<row, spaces, referrals, authored, link, task, sweep, picked, now, crashes>>

StartVerify(t, c) ==
  /\ change[c] # None /\ ~change[c].used /\ now <= change[c].at + ChangeTTL
  /\ Starts(t, "verify", change[c].user, change[c].email, c)
  /\ UNCHANGED <<row, spaces, referrals, authored, others, sweep, picked, now, crashes>>

FinishVerify(t) ==
  LET u == task[t].user  e == task[t].email  c == task[t].arg
  IN /\ task[t].pc = "verify" /\ Present(u) /\ (row[u].email = e \/ Free(e))
     /\ row' = [row EXCEPT ![u].email = e] /\ change' = [change EXCEPT ![c].used = TRUE]
     /\ Ends(t) /\ UNCHANGED <<spaces, referrals, authored, link, sweep, picked, clock>>

\* An error, a lost connection or a killed process: the transaction rolls back.
Fail(t) ==
  /\ task[t].pc # "idle" /\ Ends(t)
  /\ UNCHANGED <<row, spaces, referrals, authored, others, sweep, picked, clock>>
-----------------------------------------------------------------------------
(* account_hard_delete_check: select the expired, then three statements for each *)
(* of them, each committed by itself; a failing one ends the run.                *)

\* Mutant: the selection has no condition on the age of the deletion.
Selected_AnyAge == {u \in Users : Present(u) /\ row[u].deleted # None}

Selected == {u \in Users : Expired(u)}

StartSweep ==
  /\ sweep.pc = "idle" /\ Selected # {}
  /\ sweep' = [pc |-> "next", ids |-> Selected, user |-> None]
  /\ picked' = picked \cup {u \in Selected : Expired(u)}
  /\ UNCHANGED <<row, spaces, referrals, authored, others, task, clock>>

\* Mutant: the workspaces are left to a cascade that the schema does not have.
SweepMembers_NoSpaces(u) ==
  /\ sweep.pc = "next" /\ u \in sweep.ids
  /\ member' = member \ {u} /\ sweep' = [sweep EXCEPT !.pc = "user", !.user = u]
  /\ UNCHANGED <<row, space, billed, referrals, authored, others, task, picked, clock>>

\* DELETE FROM workspace_members
SweepMembers(u) ==
  /\ sweep.pc = "next" /\ u \in sweep.ids
  /\ member' = member \ {u} /\ sweep' = [sweep EXCEPT !.pc = "spaces", !.user = u]
  /\ UNCHANGED <<row, space, billed, referrals, authored, others, task, picked, clock>>

SpacesOf(u) == {w \in space : w[2] = u}

EndSweep == sweep' = [pc |-> "idle", ids |-> {}, user |-> None]

\* DELETE FROM workspaces, whatever has become of their owner; what is in them cascades.
SweepSpaces ==
  LET u == sweep.user
  IN /\ sweep.pc = "spaces"
     /\ IF SpacesOf(u) \cap billed # {}
          THEN EndSweep /\ UNCHANGED <<space, authored>>
          ELSE /\ space' = space \ SpacesOf(u) /\ sweep' = [sweep EXCEPT !.pc = "user"]
               /\ authored' = {p \in authored : p[2] \notin SpacesOf(u)}
     /\ UNCHANGED <<row, member, billed, referrals, others, task, picked, clock>>

\* What a foreign key to users without CASCADE keeps from being deleted.
Referenced(u) ==
  \/ u \in member \/ SpacesOf(u) # {}
  \/ (\E p \in referrals : u \in {p[1], p[2]}) \/ \E p \in authored : p[1] = u

\* Mutant: the links of the user do not cascade.
SweepUser_KeepsLinks ==
  LET u == sweep.user
      rest == sweep.ids \ {u}
  IN /\ sweep.pc = "user" /\ Expired(u) /\ ~Referenced(u)
     /\ sweep' = [pc |-> IF rest = {} THEN "idle" ELSE "next", ids |-> rest, user |-> None]
     /\ row' = [row EXCEPT ![u] = Gone]
     /\ UNCHANGED <<spaces, referrals, authored, others, task, picked, clock>>

\* DELETE FROM users, only if it is still expired; identities and requests cascade.
SweepUser ==
  LET u == sweep.user
      rest == sweep.ids \ {u}
      goOn == sweep' = [pc |-> IF rest = {} THEN "idle" ELSE "next", ids |-> rest, user |-> None]
  IN /\ sweep.pc = "user"
     /\ \/ Expired(u) /\ Referenced(u) /\ EndSweep /\ UNCHANGED <<row, others>>
        \/ ~Expired(u) /\ goOn /\ UNCHANGED <<row, others>>
        \/ /\ Expired(u) /\ ~Referenced(u) /\ goOn /\ row' = [row EXCEPT ![u] = Gone]
           /\ link' = [i \in Identities |-> IF link[i] = u THEN None ELSE link[i]]
           /\ change' = [c \in Changes |-> IF change[c] # None /\ change[c].user = u
                                             THEN None ELSE change[c]]
     /\ UNCHANGED <<spaces, referrals, authored, task, picked, clock>>

\* A statement fails or the process dies; the next run selects again.
SweepDies ==
  /\ sweep.pc # "idle" /\ crashes < CrashBound /\ crashes' = crashes + 1 /\ EndSweep
  /\ UNCHANGED <<row, spaces, referrals, authored, others, task, picked, now, requests>>

Tick ==
  /\ now < TimeBound /\ now' = now + 1
  /\ UNCHANGED <<row, spaces, referrals, authored, others, task, sweep, picked, crashes, requests>>
-----------------------------------------------------------------------------
Handle(t) ==
  \/ FinishLogin(t) \/ FinishLink(t) \/ FinishDelete(t) \/ FinishVerify(t) \/ Fail(t)
  \/ \E u \in Users :
       \/ FinishRegister(t, u) \/ FinishCreate(t, u)
       \/ StartLogin(t, u) \/ StartDelete(t, u) \/ StartDeleteByAdmin(t, u)
  \/ \E e \in Emails :
       \/ \E r \in Users \cup {None} : StartRegister(t, e, r)
       \/ \E i \in Identities : StartCallback(t, i, e)
  \/ \E c \in Changes : StartVerify(t, c)

Statement ==
  \/ \E u \in Users :
       CreateTeam(u) \/ DeleteTeam(u) \/ \E w \in space \cup {None} : Author(u, w)
  \/ \E p \in authored : CleanUp(p)
  \/ \E w \in space : RecordEvent(w)
  \/ \E c \in Changes, u \in Users, e \in Emails : RequestChange(c, u, e)

Sweep == StartSweep \/ (\E u \in Users : SweepMembers(u)) \/ SweepSpaces \/ SweepUser

Next == (\E t \in Tasks : Handle(t)) \/ Statement \/ Sweep \/ SweepDies \/ Tick

\* The scheduler runs its daily task for ever, and time goes on.
Spec == Init /\ [][Next]_vars /\ WF_vars(Sweep) /\ WF_vars(Tick)
-----------------------------------------------------------------------------
\* Foreign keys: what a row refers to is there.
ForeignKeys ==
  \A u \in Users :
    ~Present(u) => ~Referenced(u) /\ (\A i \in Identities : link[i] # u)
                   /\ (\A c \in Changes : change[c] # None => change[c].user # u)

TypeOK ==
  /\ row \in [Users -> {None, Gone} \cup UserRow]
  /\ member \subseteq Users /\ space \subseteq {"individual", "team"} \X Users
  /\ billed \subseteq space /\ referrals \subseteq Users \X Users /\ picked \subseteq Users
  /\ authored \subseteq Users \X (space \cup {None})
  /\ link \in [Identities -> Users \cup {None}]
  /\ change \in [Changes -> {None} \cup ChangeRow]
  /\ DOMAIN task = Tasks /\ sweep.ids \subseteq Users /\ {now, crashes, requests} \subseteq Nat
  /\ ForeignKeys

\* Two accounts never share an address, be they deleted or not: a deleted one that
\* can come back by a login still has its address, whatever registrations, OAuth
\* callbacks and changes of address ran meanwhile.
EmailUnique ==
  \A u, v \in Users : Present(u) /\ Present(v) /\ row[u].email = row[v].email => u = v

\* An account that is not gone has its individual workspace, unless a hard delete
\* found it expired: what statements of other requests fall between those of the
\* hard delete, and wherever it dies, costs no other account its data.
OrphansWereExpired ==
  \A u \in Users : Present(u) /\ <<"individual", u>> \notin space => u \in picked

\* What refers to u, or to a workspace of u, and survives the first two statements of the
\* hard delete.
Kept(u) ==
  \/ SpacesOf(u) \cap billed # {}
  \/ (\E p \in referrals : u \in {p[1], p[2]}) \/ \E p \in authored : p[1] = u

\* While no such row refers to an expired account, every account that is past its retention
\* is removed or comes back, also when a run dies halfway.  One that is kept ends each
\* day's run, and with it the turn of the accounts after it.
HardDeleted ==
  [](\A u \in Users : Expired(u) => ~Kept(u)) => \A u \in Users : Expired(u) ~> ~Expired(u)
=============================================================================
