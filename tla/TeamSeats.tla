------------------------------- MODULE TeamSeats -------------------------------
(***************************************************************************)
(* A team workspace, its members and its invites                           *)
(* (src/src/workspace/service.rs).  join_via_invite is a transaction of    *)
(* statements that each see what is committed (READ COMMITTED); a row it   *)
(* writes is locked until it ends.                                         *)
(***************************************************************************)
EXTENDS Integers, FiniteSets

CONSTANTS
  Persons, Owner,  \* users; the one who owns the team
  TeamInvites,     \* invites that can be created
  MaxUses,         \* MaxUses[i]: max_uses of invite i
  Joiners,         \* requests in flight
  MaxSeats,        \* MAX_TEAM_SEATS: 3
  JoinBound,       \* bound: requests to join
  NoOne            \* neither a person nor an invite

ASSUME TeamSeatsAssumption ==
  /\ Owner \in Persons /\ IsFiniteSet(Persons) /\ NoOne \notin Persons \cup TeamInvites
  /\ MaxUses \in [TeamInvites -> Nat]
  /\ IsFiniteSet(Joiners) /\ Joiners # {}
  /\ MaxSeats \in Nat \ {0} /\ JoinBound \in Nat

VARIABLES
  members,  \* workspace_members
  invite,   \* team_invites: the row of each invite
  join,     \* the transaction of each request; value: the times_used it wrote
  joined,   \* history: the joins each invite was used for
  asked     \* requests so far

seatVars == <<members, invite, join, joined, asked>>

NoJoin == [pc |-> "idle", person |-> NoOne, on |-> NoOne, seen |-> 0, value |-> 0]

SeatInit ==
  /\ members = {Owner} /\ invite = [i \in TeamInvites |-> [state |-> "none", used |-> 0]]
  /\ join = [j \in Joiners |-> NoJoin] /\ joined = [i \in TeamInvites |-> 0] /\ asked = 0

CreateInvite(i) ==
  /\ invite[i].state = "none" /\ invite' = [invite EXCEPT ![i].state = "valid"]
  /\ UNCHANGED <<members, join, joined, asked>>

\* expires_at has come.
InviteExpires(i) ==
  /\ invite[i].state = "valid" /\ invite' = [invite EXCEPT ![i].state = "expired"]
  /\ UNCHANGED <<members, join, joined, asked>>

\* remove_member, which only the owner may ask for, and a hard-deleted account
RemoveMember(p) ==
  /\ p \in members \ {Owner} /\ members' = members \ {p}
  /\ UNCHANGED <<invite, join, joined, asked>>
-----------------------------------------------------------------------------
Goes(j, pc) == join' = [join EXCEPT ![j].pc = pc]
Beside == UNCHANGED <<members, invite, joined, asked>>

FetchInvite(j, p, i) ==
  /\ join[j].pc = "idle" /\ asked < JoinBound /\ asked' = asked + 1
  /\ invite[i].state = "valid" /\ invite[i].used < MaxUses[i]
  /\ join' = [join EXCEPT ![j] =
       [pc |-> "seats", person |-> p, on |-> i, seen |-> invite[i].used, value |-> 0]]
  /\ UNCHANGED <<members, invite, joined>>

\* Mutant: a full team lets one more in.
CountSeats_Inclusive(j) ==
  join[j].pc = "seats" /\ Cardinality(members) <= MaxSeats /\ Goes(j, "member") /\ Beside

CountSeats(j) ==
  join[j].pc = "seats" /\ Cardinality(members) < MaxSeats /\ Goes(j, "member") /\ Beside

CheckMember(j) ==
  join[j].pc = "member" /\ join[j].person \notin members /\ Goes(j, "insert") /\ Beside

\* A row that another transaction has inserted and not committed is waited for.
Inserting(p) == {j \in Joiners : join[j].pc \in {"increment", "commit"} /\ join[j].person = p}

InsertMember(j) ==
  /\ join[j].pc = "insert" /\ Inserting(join[j].person) = {} /\ join[j].person \notin members
  /\ Goes(j, "increment") /\ Beside

\* Mutant: the value comes from the row that was fetched.
IncrementUses_FromFetch(j) ==
  /\ join[j].pc = "increment"
  /\ \A o \in Joiners : join[o].pc = "commit" => join[o].on # join[j].on
  /\ join' = [join EXCEPT ![j] = [@ EXCEPT !.pc = "commit", !.value = join[j].seen + 1]]
  /\ Beside

\* The row of the invite is locked, then read again.
IncrementUses(j) ==
  /\ join[j].pc = "increment"
  /\ \A o \in Joiners : join[o].pc = "commit" => join[o].on # join[j].on
  /\ join' = [join EXCEPT ![j] = [@ EXCEPT !.pc = "commit",
                                           !.value = invite[join[j].on].used + 1]]
  /\ Beside

CommitJoin(j) ==
  /\ join[j].pc = "commit" /\ members' = members \cup {join[j].person}
  /\ invite' = [invite EXCEPT ![join[j].on].used = join[j].value]
  /\ joined' = [joined EXCEPT ![join[j].on] = @ + 1]
  /\ join' = [join EXCEPT ![j] = NoJoin] /\ UNCHANGED asked

\* A refusal, an error or a lost connection: the transaction is rolled back.
JoinFails(j) ==
  join[j].pc # "idle" /\ join' = [join EXCEPT ![j] = NoJoin] /\ Beside

SeatNext ==
  \/ \E i \in TeamInvites : CreateInvite(i) \/ InviteExpires(i)
  \/ \E p \in Persons : RemoveMember(p)
  \/ \E j \in Joiners :
       \/ \E p \in Persons, i \in TeamInvites : FetchInvite(j, p, i)
       \/ CountSeats(j) \/ CheckMember(j) \/ InsertMember(j) \/ IncrementUses(j)
       \/ CommitJoin(j) \/ JoinFails(j)

SeatSpec == SeatInit /\ [][SeatNext]_seatVars
-----------------------------------------------------------------------------
InviteRow == [state: {"none", "valid", "expired"}, used: Nat]
Join == [pc: {"idle", "seats", "member", "insert", "increment", "commit"},
         person: Persons \cup {NoOne}, on: TeamInvites \cup {NoOne}, seen: Nat, value: Nat]

SeatTypeOK ==
  /\ members \in SUBSET Persons /\ invite \in [TeamInvites -> InviteRow]
  /\ join \in [Joiners -> Join] /\ joined \in [TeamInvites -> Nat] /\ asked \in Nat

\* The two limits as resources that are checked first and used up later
SeatHolders == {j \in Joiners : join[j].pc \in {"member", "insert", "increment", "commit"}}
InviteHolders(i) == {j \in Joiners : join[j].pc # "idle" /\ join[j].on = i}

Seats == INSTANCE CheckThenAct WITH
  Resources <- {Owner}, Actors <- Joiners, Capacity <- [o \in {Owner} |-> MaxSeats],
  used <- [o \in {Owner} |-> Cardinality(members)], checked <- [o \in {Owner} |-> SeatHolders]

Uses == INSTANCE CheckThenAct WITH
  Resources <- TeamInvites, Actors <- Joiners, Capacity <- MaxUses,
  used <- [i \in TeamInvites |-> invite[i].used],
  checked <- [i \in TeamInvites |-> InviteHolders(i)]

\* The most members a team has, then: as many above its seats as requests ran beside
\* the last one that counted; with one request at a time never more than three.
SeatsBounded == Cardinality(members) + 1 <= MaxSeats + Cardinality(Joiners)

\* Every use of an invite is counted, however the joins overlap: the counter that
\* refuses further joins is the number of joins.
UsesCounted == \A i \in TeamInvites : invite[i].used = joined[i]

\* Joining and leaving do to seats, and to uses, what checking, acting and leaving do
\* to a limit.
SeatsImplement == Seats!Spec /\ Uses!Spec
=============================================================================
