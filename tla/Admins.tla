-------------------------------- MODULE Admins ---------------------------------
(***************************************************************************)
(* The admins: demote_admin (src/src/admin/service.rs), create_admin_invite *)
(* and register_via_invite (src/src/auth/service.rs).  The role in an      *)
(* access token is not looked up again, so a demoted admin goes on until   *)
(* the token expires.                                                      *)
(***************************************************************************)
EXTENDS Naturals, FiniteSets

CONSTANTS
  People,        \* who can have an account, known by the address
  Founders,      \* the admins at the start
  AdminInvites,  \* invites that can be created
  Invitee,       \* Invitee[i]: the address of invite i
  AdminTasks,    \* requests in flight
  MaxPending,    \* MAX_PENDING_ADMIN_INVITES: 5
  AdminBound,    \* bound: requests
  Nil            \* no account, no invite, nothing

ASSUME AdminsAssumption ==
  /\ IsFiniteSet(People) /\ Founders \subseteq People /\ Founders # {}
  /\ Invitee \in [AdminInvites -> People]
  /\ Nil \notin People \cup AdminInvites \cup {"admin", "user", "pending", "used", "expired"}
  /\ IsFiniteSet(AdminInvites) /\ IsFiniteSet(AdminTasks) /\ AdminTasks # {}
  /\ MaxPending \in Nat /\ AdminBound \in Nat

VARIABLES
  role,      \* users: role of each address, Nil without an account
  adminInv,  \* admin_invites
  job,       \* the task of each request
  made,      \* history: accounts made with each invite
  bid        \* requests so far

adminVars == <<role, adminInv, job, made, bid>>

NoJob == [pc |-> "idle", on |-> Nil]
AdminSet == {p \in People : role[p] = "admin"}
Pending == {i \in AdminInvites : adminInv[i] = "pending"}

AdminInit ==
  /\ role = [p \in People |-> IF p \in Founders THEN "admin" ELSE Nil]
  /\ adminInv = [i \in AdminInvites |-> Nil] /\ job = [t \in AdminTasks |-> NoJob]
  /\ made = [i \in AdminInvites |-> 0] /\ bid = 0

Asks(t, pc, x) ==
  /\ job[t].pc = "idle" /\ bid < AdminBound /\ bid' = bid + 1
  /\ job' = [job EXCEPT ![t] = [pc |-> pc, on |-> x]] /\ UNCHANGED <<role, adminInv, made>>

Steps(t, from, to) ==
  job[t].pc = from /\ job' = [job EXCEPT ![t].pc = to] /\ UNCHANGED bid

Finishes(t, from) ==
  job[t].pc = from /\ job' = [job EXCEPT ![t] = NoJob] /\ UNCHANGED bid
-----------------------------------------------------------------------------
\* demote_admin: not oneself; the target is an admin.
StartDemote(t, a, p) == a # p /\ role[a] # Nil /\ role[p] = "admin" /\ Asks(t, "count", p)

\* Mutant: the check lets the last admin go.
CountAdmins_Any(t) ==
  AdminSet # {} /\ Steps(t, "count", "demote") /\ UNCHANGED <<role, adminInv, made>>

CountAdmins(t) ==
  Cardinality(AdminSet) > 1 /\ Steps(t, "count", "demote") /\ UNCHANGED <<role, adminInv, made>>

DemoteAdmin(t) ==
  /\ Finishes(t, "demote") /\ role' = [role EXCEPT ![job[t].on] = "user"]
  /\ UNCHANGED <<adminInv, made>>

\* create_admin_invite
StartInvite(t) == Cardinality(Pending) < MaxPending /\ Asks(t, "invite", Nil)

InsertInvite(t, i) ==
  /\ adminInv[i] = Nil /\ Finishes(t, "invite") /\ adminInv' = [adminInv EXCEPT ![i] = "pending"]
  /\ UNCHANGED <<role, made>>

AdminInviteExpires(i) ==
  /\ i \in Pending /\ adminInv' = [adminInv EXCEPT ![i] = "expired"]
  /\ UNCHANGED <<role, job, made, bid>>

\* register_via_invite: the invite is valid, the address is free, ...
StartRegistration(t, i) == i \in Pending /\ role[Invitee[i]] = Nil /\ Asks(t, "insert", i)

\* Mutant: no unique index of addresses
InsertAdmin_NoIndex(t) == Steps(t, "insert", "commit") /\ UNCHANGED <<role, adminInv, made>>

\* ... the transaction inserts the user, whose address is unique, ...
InsertAdmin(t) ==
  /\ job[t].pc = "insert"
  /\ \A o \in AdminTasks : job[o].pc = "commit" => Invitee[job[o].on] # Invitee[job[t].on]
  /\ role[Invitee[job[t].on]] = Nil
  /\ Steps(t, "insert", "commit") /\ UNCHANGED <<role, adminInv, made>>

\* ... a workspace, a subscription and a token, and marks the invite used.
CommitAdmin(t) ==
  LET i == job[t].on
  IN /\ Finishes(t, "commit") /\ role' = [role EXCEPT ![Invitee[i]] = "admin"]
     /\ adminInv' = [adminInv EXCEPT ![i] = "used"] /\ made' = [made EXCEPT ![i] = @ + 1]

AdminFails(t) ==
  job[t].pc # "idle" /\ Finishes(t, job[t].pc) /\ UNCHANGED <<role, adminInv, made>>

AdminNext ==
  \/ \E t \in AdminTasks :
       \/ \E a, p \in People : StartDemote(t, a, p)
       \/ CountAdmins(t) \/ DemoteAdmin(t) \/ StartInvite(t) \/ InsertAdmin(t) \/ CommitAdmin(t)
       \/ AdminFails(t)
       \/ \E i \in AdminInvites : InsertInvite(t, i) \/ StartRegistration(t, i)
  \/ \E i \in AdminInvites : AdminInviteExpires(i)

AdminSpec == AdminInit /\ [][AdminNext]_adminVars
-----------------------------------------------------------------------------
Job ==
  [pc: {"idle", "invite"}, on: {Nil}] \cup [pc: {"count", "demote"}, on: People]
    \cup [pc: {"insert", "commit"}, on: AdminInvites]

AdminTypeOK ==
  /\ role \in [People -> {"admin", "user", Nil}]
  /\ adminInv \in [AdminInvites -> {Nil, "pending", "used", "expired"}]
  /\ job \in [AdminTasks -> Job] /\ made \in [AdminInvites -> Nat] /\ bid \in Nat

\* Demotions and pending invites as resources that are checked first and used up later
AdminLimits == INSTANCE CheckThenAct WITH
  Resources <- {"demotions", "invites"}, Actors <- AdminTasks,
  Capacity <- [r \in {"demotions", "invites"} |->
            IF r = "demotions" THEN Cardinality(People) - 1 ELSE MaxPending],
  used <- [r \in {"demotions", "invites"} |->
            IF r = "demotions" THEN Cardinality(People \ AdminSet) ELSE Cardinality(Pending)],
  checked <- [r \in {"demotions", "invites"} |->
            {t \in AdminTasks : job[t].pc = IF r = "demotions" THEN "demote" ELSE "invite"}]

\* An invite makes at most one account, and only one that is marked used did,
\* whatever registrations with it, or with another invite to its address, overlap: what
\* keeps this is the unique address, not the look at the invite.
InviteMakesOne ==
  \A i \in AdminInvites : made[i] <= 1 /\ (made[i] = 1 => adminInv[i] = "used")

\* Demoting an admin does to the admins that must remain, and inviting one to the
\* invites that may be pending, what checking, acting and leaving do to a limit: with
\* two demotions at a time the last admin can go, with one at a time not.
AdminsImplement == AdminLimits!Spec
=============================================================================
