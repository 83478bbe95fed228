---------------------------- MODULE AccountsProofs -----------------------------
(***************************************************************************)
(* Theorems about Accounts for any users, addresses, requests and times.   *)
(***************************************************************************)
EXTENDS Accounts, TLAPS

\* What a request holds between its two statements: values it read, and for a change of
\* address the row it will mark, which goes only with its user.
TaskOK(k) ==
  /\ k.pc \in {"idle", "register", "login", "link", "create", "delete", "verify"}
  /\ k.pc = "register" => k.email \in Emails /\ k.arg \in Users \cup {None}
  /\ k.pc = "login" => k.user \in Users
  /\ k.pc = "link" => k.user \in Users /\ k.arg \in Identities
  /\ k.pc = "create" => k.email \in Emails /\ k.arg \in Identities
  /\ k.pc = "delete" => k.user \in Users
  /\ k.pc = "verify" =>
       /\ k.user \in Users /\ k.email \in Emails /\ k.arg \in Changes /\ row[k.user] # None
       /\ Present(k.user) => change[k.arg] # None /\ change[k.arg].user = k.user

TaskInv == \A t \in Tasks : TaskOK(task[t])

\* The hard delete works on users it found expired.
SweepInv ==
  /\ sweep \in [pc: {"idle", "next", "spaces", "user"}, ids: SUBSET Users, user: Users \cup {None}]
  /\ sweep.ids \subseteq picked
  /\ sweep.pc \in {"spaces", "user"} => sweep.user \in sweep.ids

AccountsInv == TypeOK /\ TaskInv /\ SweepInv /\ EmailUnique /\ OrphansWereExpired
-----------------------------------------------------------------------------
\* TypeOK without its foreign keys.
Typed ==
  /\ row \in [Users -> {None, Gone} \cup UserRow]
  /\ member \subseteq Users /\ space \subseteq {"individual", "team"} \X Users
  /\ billed \subseteq space /\ referrals \subseteq Users \X Users /\ picked \subseteq Users
  /\ authored \subseteq Users \X (space \cup {None})
  /\ link \in [Identities -> Users \cup {None}]
  /\ change \in [Changes -> {None} \cup ChangeRow]
  /\ DOMAIN task = Tasks /\ sweep.ids \subseteq Users /\ {now, crashes, requests} \subseteq Nat

LEMMA TypeParts == TypeOK <=> Typed /\ ForeignKeys
  BY DEF TypeOK, Typed

\* A row of users that is neither missing nor gone has its columns.
LEMMA RowOf ==
  ASSUME Typed, NEW u \in Users, Present(u)
  PROVE  row[u] \in UserRow /\ row[u].email \in Emails /\ row[u].deleted \in Nat \cup {None}
  BY DEF Typed, Present, UserRow

\* Inserting a row, or writing columns of one, leaves the type of the table.
LEMMA RowTyped ==
  ASSUME AccountsAssumption, NEW r \in UserRow
  PROVE  r # None /\ r # Gone
  BY DEF AccountsAssumption

LEMMA WriteDeleted ==
  ASSUME AccountsAssumption, Typed, NEW u \in Users, Present(u), NEW d \in Nat \cup {None},
         row' = [row EXCEPT ![u].deleted = d]
  PROVE  /\ row' \in [Users -> {None, Gone} \cup UserRow]
         /\ \A v \in Users : Present(v)' <=> Present(v)
         /\ \A v \in Users : row[v] # None => row'[v] # None
         /\ \A v \in Users : Present(v) => row'[v].email = row[v].email
<1>1. row[u] \in UserRow
  BY RowOf
<1>2. [row[u] EXCEPT !.deleted = d] \in UserRow /\ [row[u] EXCEPT !.deleted = d].email = row[u].email
  BY <1>1 DEF UserRow
<1>3. row' = [row EXCEPT ![u] = [row[u] EXCEPT !.deleted = d]]
  OBVIOUS
<1>4. [row[u] EXCEPT !.deleted = d] # None /\ [row[u] EXCEPT !.deleted = d] # Gone
  BY <1>2, RowTyped
<1> HIDE <1>3
<1> DEFINE r == [row[u] EXCEPT !.deleted = d]
<1> HIDE DEF r
<1>5. row' = [row EXCEPT ![u] = r] /\ r \in UserRow /\ r # None /\ r # Gone /\ r.email = row[u].email
  BY <1>2, <1>3, <1>4 DEF r
<1>6. row' \in [Users -> {None, Gone} \cup UserRow]
  BY <1>5 DEF Typed
<1>7. \A v \in Users : row'[v] = IF v = u THEN r ELSE row[v]
  BY <1>5 DEF Typed
<1> QED
  BY <1>5, <1>6, <1>7 DEF Present

\* Referential integrity survives a step that keeps the users it has and adds only rows
\* that refer to users who are there.
LEMMA KeysKept ==
  ASSUME Typed, Typed', ForeignKeys,
         \A v \in Users : Present(v) => Present(v)',
         \A v \in member' : v \in member \/ Present(v)',
         \A w \in space' : w \in space \/ Present(w[2])',
         \A p \in referrals' : p \in referrals \/ (Present(p[1])' /\ Present(p[2])'),
         \A p \in authored' : p \in authored \/ Present(p[1])',
         \A i \in Identities : link'[i] # None => link'[i] = link[i] \/ Present(link[i])',
         \A c \in Changes : change'[c] # None =>
            Present(change[c].user)' \/ (change[c] # None /\ change'[c].user = change[c].user),
         None \notin Users
  PROVE  ForeignKeys'
<1> SUFFICES ASSUME NEW u \in Users, ~Present(u)'
             PROVE  /\ ~Referenced(u)' /\ (\A i \in Identities : link'[i] # u)
                    /\ (\A c \in Changes : change'[c] # None => change'[c].user # u)
  BY DEF ForeignKeys
<1>1. ~Present(u)
  OBVIOUS
<1>2. /\ ~Referenced(u) /\ (\A i \in Identities : link[i] # u)
      /\ (\A c \in Changes : change[c] # None => change[c].user # u)
  BY <1>1 DEF ForeignKeys
<1>3. u \notin member'
  BY <1>2 DEF Referenced
<1>4. SpacesOf(u)' = {}
  <2>1. \A w \in space' : w[2] = u => w \in space
    OBVIOUS
  <2> QED
    BY <1>2, <2>1 DEF Referenced, SpacesOf
<1>5. \A p \in referrals' : u \notin {p[1], p[2]}
  <2> SUFFICES ASSUME NEW p \in referrals', u \in {p[1], p[2]} PROVE FALSE
    OBVIOUS
  <2>1. p \in referrals
    OBVIOUS
  <2> QED
    BY <1>2, <2>1 DEF Referenced
<1>6. \A p \in authored' : p[1] # u
  <2> SUFFICES ASSUME NEW p \in authored', p[1] = u PROVE FALSE
    OBVIOUS
  <2>1. p \in authored
    OBVIOUS
  <2> QED
    BY <1>2, <2>1 DEF Referenced
<1>7. \A i \in Identities : link'[i] # u
  BY <1>2 DEF Present
<1>8. \A c \in Changes : change'[c] # None => change'[c].user # u
  BY <1>2 DEF Present
<1>9. ~Referenced(u)'
  BY <1>3, <1>4, <1>5, <1>6 DEF Referenced
<1> QED
  BY <1>7, <1>8, <1>9

\* The requests in flight hold what they held.
LEMMA TasksKept ==
  ASSUME TaskInv,
         \A v \in Users : row[v] # None => row'[v] # None /\ (Present(v)' => Present(v)),
         \A c \in Changes, v \in Users : change[c] # None /\ change[c].user = v /\ Present(v)' =>
                              change'[c] # None /\ change'[c].user = v,
         \A s \in Tasks : task'[s] = task[s] \/ TaskOK(task[s])'
  PROVE  TaskInv'
<1>1. SUFFICES ASSUME NEW s \in Tasks, task'[s] = task[s]
               PROVE  TaskOK(task[s])'
  BY DEF TaskInv
<1>2. TaskOK(task[s])
  BY DEF TaskInv
<1>3. CASE task[s].pc # "verify"
  BY <1>1, <1>2, <1>3 DEF TaskOK
<1>4. CASE task[s].pc = "verify"
  <2> DEFINE u == task[s].user  c == task[s].arg
  <2>1. u \in Users /\ c \in Changes /\ row'[u] # None
    BY <1>2, <1>4 DEF TaskOK
  <2>2. row'[u] \notin {None, Gone} => change'[c] # None /\ change'[c].user = u
    BY <1>2, <1>4, <2>1 DEF TaskOK, Present
  <2> QED
    BY <1>1, <1>2, <1>4, <2>1, <2>2 DEF TaskOK, Present
<1> QED
  BY <1>3, <1>4

\* The task a request that ends is left with.
LEMMA EndsOK ==
  ASSUME Typed, NEW t \in Tasks, Ends(t)
  PROVE  DOMAIN task' = Tasks /\ \A s \in Tasks : task'[s] = task[s] \/ TaskOK(task[s])'
<1>1. DOMAIN task' = Tasks /\ \A s \in Tasks : task'[s] = task[s] \/ task'[s] = Idle
  BY DEF Typed, Ends
<1> QED
  BY <1>1 DEF TaskOK, Idle

\* A step on requests and the clock alone.
LEMMA Quiet ==
  ASSUME AccountsInv, UNCHANGED <<row, spaces, referrals, authored, others, sweep, picked>>,
         {now', crashes', requests'} \subseteq Nat, DOMAIN task' = Tasks,
         \A s \in Tasks : task'[s] = task[s] \/ TaskOK(task'[s])
  PROVE  AccountsInv'
<1>1. TypeOK'
  BY DEF AccountsInv, TypeOK, ForeignKeys, Referenced, SpacesOf, Present, spaces, others
<1>2. TaskInv'
  BY DEF AccountsInv, TaskInv, TaskOK, Present, others
<1> QED
  BY <1>1, <1>2 DEF AccountsInv, SweepInv, EmailUnique, OrphansWereExpired, Present, spaces

\* A request that arrives, with what it read.
LEMMA ArrivalOK ==
  ASSUME AccountsAssumption, AccountsInv, NEW t \in Tasks, NEW pc, NEW u, NEW e, NEW a, Starts(t, pc, u, e, a),
         TaskOK([pc |-> pc, user |-> u, email |-> e, arg |-> a]),
         UNCHANGED <<row, spaces, referrals, authored, others, sweep, picked, now, crashes>>
  PROVE  AccountsInv'
<1> DEFINE k == [pc |-> pc, user |-> u, email |-> e, arg |-> a]
<1>1. TaskOK(k)
  OBVIOUS
<1> HIDE DEF k
<1>2. task' = [task EXCEPT ![t] = k] /\ requests' = requests + 1
  BY DEF Starts, Comes, k
<1>3. Typed
  BY TypeParts DEF AccountsInv
<1>4. DOMAIN task' = Tasks /\ \A s \in Tasks : task'[s] = task[s] \/ task'[s] = k
  BY <1>2, <1>3 DEF Typed
<1>5. {now', crashes', requests'} \subseteq Nat
  BY <1>2, <1>3 DEF Typed
<1> QED
  BY <1>1, <1>4, <1>5, Quiet

LEMMA Arrivals ==
  ASSUME AccountsAssumption, AccountsInv, NEW t \in Tasks,
         \/ \E u \in Users : StartLogin(t, u) \/ StartDelete(t, u) \/ StartDeleteByAdmin(t, u)
         \/ \E e \in Emails : \/ \E r \in Users \cup {None} : StartRegister(t, e, r)
                            \/ \E i \in Identities : StartCallback(t, i, e)
         \/ \E c \in Changes : StartVerify(t, c)
  PROVE  AccountsInv'
<1>1. ASSUME NEW u \in Users, StartLogin(t, u) \/ StartDelete(t, u) \/ StartDeleteByAdmin(t, u)
      PROVE  AccountsInv'
  <2>1. CASE StartLogin(t, u)
    <3>1. TaskOK([pc |-> "login", user |-> u, email |-> None, arg |-> row[u].deleted])
      BY DEF TaskOK
    <3> QED
      BY <2>1, <3>1, ArrivalOK DEF StartLogin
  <2>2. CASE StartDelete(t, u) \/ StartDeleteByAdmin(t, u)
    <3>1. TaskOK([pc |-> "delete", user |-> u, email |-> None, arg |-> None])
      BY DEF TaskOK
    <3> QED
      BY <2>2, <3>1, ArrivalOK DEF StartDelete, StartDeleteByAdmin
  <2> QED
    BY <1>1, <2>1, <2>2
<1>2. ASSUME NEW e \in Emails, NEW r \in Users \cup {None}, StartRegister(t, e, r)
      PROVE  AccountsInv'
  <2>1. TaskOK([pc |-> "register", user |-> None, email |-> e, arg |-> r])
    BY DEF TaskOK
  <2> QED
    BY <1>2, <2>1, ArrivalOK DEF StartRegister
<1>3. ASSUME NEW e \in Emails, NEW i \in Identities, StartCallback(t, i, e)
      PROVE  AccountsInv'
  <2>1. ASSUME NEW u \in Users, Starts(t, "link", u, e, i) PROVE AccountsInv'
    <3>1. TaskOK([pc |-> "link", user |-> u, email |-> e, arg |-> i])
      BY DEF TaskOK
    <3> QED
      BY <1>3, <2>1, <3>1, ArrivalOK DEF StartCallback
  <2>2. CASE Starts(t, "create", None, e, i)
    <3>1. TaskOK([pc |-> "create", user |-> None, email |-> e, arg |-> i])
      BY DEF TaskOK
    <3> QED
      BY <1>3, <2>2, <3>1, ArrivalOK DEF StartCallback
  <2> QED
    BY <1>3, <2>1, <2>2 DEF StartCallback
<1>4. ASSUME NEW c \in Changes, StartVerify(t, c)
      PROVE  AccountsInv'
  <2>1. Typed /\ ForeignKeys
    BY TypeParts DEF AccountsInv
  <2>2. change[c] # None /\ change[c] \in ChangeRow
    BY <1>4, <2>1 DEF StartVerify, Typed
  <2>3. change[c].user \in Users /\ change[c].email \in Emails
    BY <2>2 DEF ChangeRow
  <2>4. row[change[c].user] # None
    BY <2>1, <2>2, <2>3 DEF ForeignKeys, Present
  <2>5. TaskOK([pc |-> "verify", user |-> change[c].user, email |-> change[c].email, arg |-> c])
    BY <2>2, <2>3, <2>4 DEF TaskOK
  <2> QED
    BY <1>4, <2>5, ArrivalOK DEF StartVerify
<1> QED
  BY <1>1, <1>2, <1>3, <1>4

\* An account that comes to be has its workspace and an address of its own.
LEMMA Created ==
  ASSUME AccountsAssumption, AccountsInv, NEW u \in Users, NEW e \in Emails, Create(u, e),
         UNCHANGED <<sweep, picked>>
  PROVE  /\ row' \in [Users -> {None, Gone} \cup UserRow]
         /\ member' \subseteq Users /\ space' \subseteq {"individual", "team"} \X Users /\ billed' \subseteq space'
         /\ space \subseteq space'
         /\ \A v \in Users : Present(v)' <=> Present(v) \/ v = u
         /\ \A v \in Users : row[v] # None => row'[v] = row[v]
         /\ \A v \in member' : v \in member \/ Present(v)'
         /\ \A w \in space' : w \in space \/ Present(w[2])'
         /\ EmailUnique' /\ OrphansWereExpired' /\ SweepInv'
<1>1. Typed
  BY TypeParts DEF AccountsInv
<1> DEFINE r == [email |-> e, deleted |-> None]
<1>2. r \in UserRow /\ r.email = e
  BY DEF UserRow
<1>3. r # None /\ r # Gone
  BY <1>2, RowTyped
<1>4. row[u] = None /\ row' = [row EXCEPT ![u] = r]
  BY DEF Create
<1> HIDE DEF r
<1>5. row' \in [Users -> {None, Gone} \cup UserRow]
  BY <1>1, <1>2, <1>4 DEF Typed
<1>6. \A v \in Users : row'[v] = IF v = u THEN r ELSE row[v]
  BY <1>1, <1>4 DEF Typed
<1>7. \A v \in Users : Present(v)' <=> Present(v) \/ v = u
  BY <1>3, <1>6 DEF Present
<1>8. EmailUnique'
  BY <1>2, <1>4, <1>6, <1>7 DEF AccountsInv, EmailUnique, Create, Free, Taken
<1>9. OrphansWereExpired'
  BY <1>7 DEF AccountsInv, OrphansWereExpired, Create
<1>10. \A w \in space' : w \in space \/ Present(w[2])'
  BY <1>7 DEF Create
<1>11. \A v \in member' : v \in member \/ Present(v)'
  BY <1>7 DEF Create
<1>12. space \subseteq space'
  BY DEF Create
<1> QED
  BY <1>1, <1>4, <1>5, <1>6, <1>7, <1>8, <1>9, <1>10, <1>11, <1>12 DEF Typed, Create, AccountsInv, SweepInv

LEMMA FinishRegisterOK ==
  ASSUME AccountsAssumption, AccountsInv, NEW t \in Tasks, NEW u \in Users, FinishRegister(t, u)
  PROVE  AccountsInv'
<1> DEFINE r == task[t].arg
<1>1. Typed /\ ForeignKeys /\ TaskInv
  BY TypeParts DEF AccountsInv
<1>2. task[t].email \in Emails /\ r \in Users \cup {None}
  BY <1>1 DEF TaskInv, TaskOK, FinishRegister
<1>3. Create(u, task[t].email) /\ UNCHANGED <<authored, others, sweep, picked, clock>> /\ Ends(t)
  BY DEF FinishRegister
<1>4. /\ row' \in [Users -> {None, Gone} \cup UserRow]
      /\ member' \subseteq Users /\ space' \subseteq {"individual", "team"} \X Users /\ billed' \subseteq space'
      /\ space \subseteq space'
      /\ \A v \in Users : Present(v)' <=> Present(v) \/ v = u
      /\ \A v \in Users : row[v] # None => row'[v] = row[v]
      /\ \A v \in member' : v \in member \/ Present(v)'
      /\ \A w \in space' : w \in space \/ Present(w[2])'
      /\ EmailUnique' /\ OrphansWereExpired' /\ SweepInv'
  BY <1>2, <1>3, Created
<1>5. DOMAIN task' = Tasks /\ \A s \in Tasks : task'[s] = task[s] \/ TaskOK(task[s])'
  BY <1>1, <1>3, EndsOK
<1>6. /\ referrals' \subseteq Users \X Users
      /\ \A p \in referrals' : p \in referrals \/ (Present(p[1])' /\ Present(p[2])')
  <2>1. CASE r = None
    BY <1>1, <2>1 DEF FinishRegister, Typed
  <2>2. CASE r \in Users /\ Present(r)
    <3>1. referrals' \subseteq referrals \cup {<<r, u>>}
      BY DEF FinishRegister
    <3> QED
      BY <1>1, <1>4, <2>2, <3>1 DEF Typed
  <2> QED
    BY <1>2, <2>1, <2>2 DEF FinishRegister, Active
<1>7. Typed'
  <2>1. authored' \subseteq Users \X (space' \cup {None})
    BY <1>1, <1>3, <1>4 DEF Typed
  <2> QED
    BY <1>1, <1>3, <1>4, <1>5, <1>6, <2>1 DEF Typed, others, clock
<1>8. ForeignKeys'
  BY <1>1, <1>3, <1>4, <1>6, <1>7, KeysKept DEF others, AccountsAssumption
<1>9. TaskInv'
  <2>1. \A v \in Users : row[v] # None => row'[v] # None /\ (Present(v)' => Present(v))
    BY <1>4 DEF Present
  <2>2. \A c \in Changes, v \in Users : change[c] # None /\ change[c].user = v /\ Present(v)' =>
                              change'[c] # None /\ change'[c].user = v
    BY <1>3 DEF others
  <2> QED
    BY <1>1, <1>5, <2>1, <2>2, TasksKept
<1> QED
  BY <1>4, <1>7, <1>8, <1>9, TypeParts DEF AccountsInv, TypeOK, Typed

LEMMA FinishCreateOK ==
  ASSUME AccountsAssumption, AccountsInv, NEW t \in Tasks, NEW u \in Users, FinishCreate(t, u)
  PROVE  AccountsInv'
<1>1. Typed /\ ForeignKeys /\ TaskInv
  BY TypeParts DEF AccountsInv
<1>2. task[t].email \in Emails /\ task[t].arg \in Identities
  BY <1>1 DEF TaskInv, TaskOK, FinishCreate
<1>3. Create(u, task[t].email) /\ UNCHANGED <<referrals, authored, change, sweep, picked, clock>> /\ Ends(t)
  BY DEF FinishCreate
<1>4. /\ row' \in [Users -> {None, Gone} \cup UserRow]
      /\ member' \subseteq Users /\ space' \subseteq {"individual", "team"} \X Users /\ billed' \subseteq space'
      /\ space \subseteq space'
      /\ \A v \in Users : Present(v)' <=> Present(v) \/ v = u
      /\ \A v \in Users : row[v] # None => row'[v] = row[v]
      /\ \A v \in member' : v \in member \/ Present(v)'
      /\ \A w \in space' : w \in space \/ Present(w[2])'
      /\ EmailUnique' /\ OrphansWereExpired' /\ SweepInv'
  BY <1>2, <1>3, Created
<1>5. DOMAIN task' = Tasks /\ \A s \in Tasks : task'[s] = task[s] \/ TaskOK(task[s])'
  BY <1>1, <1>3, EndsOK
<1>6. /\ link' \in [Identities -> Users \cup {None}]
      /\ \A i \in Identities : link'[i] # None => link'[i] = link[i] \/ Present(link[i])'
  <2>1. link' = [link EXCEPT ![task[t].arg] = u]
    BY DEF FinishCreate
  <2>2. \A i \in Identities : link'[i] = link[i] \/ link'[i] = u
    BY <1>1, <2>1 DEF Typed
  <2> QED
    BY <1>1, <1>4, <2>1, <2>2 DEF Typed, Present
<1>7. Typed'
  <2>1. authored' \subseteq Users \X (space' \cup {None})
    BY <1>1, <1>3, <1>4 DEF Typed
  <2> QED
    BY <1>1, <1>3, <1>4, <1>5, <1>6, <2>1 DEF Typed, clock
<1>8. ForeignKeys'
  BY <1>1, <1>3, <1>4, <1>6, <1>7, KeysKept DEF AccountsAssumption
<1>9. TaskInv'
  <2>1. \A v \in Users : row[v] # None => row'[v] # None /\ (Present(v)' => Present(v))
    BY <1>4 DEF Present
  <2>2. \A c \in Changes, v \in Users : change[c] # None /\ change[c].user = v /\ Present(v)' =>
                              change'[c] # None /\ change'[c].user = v
    BY <1>3
  <2> QED
    BY <1>1, <1>5, <2>1, <2>2, TasksKept
<1> QED
  BY <1>4, <1>7, <1>8, <1>9, TypeParts DEF AccountsInv, TypeOK, Typed

\* A step that neither makes nor removes a user, nor moves an address, and leaves the
\* workspaces and the hard delete alone.
LEMMA SameUsers ==
  ASSUME AccountsAssumption, AccountsInv, UNCHANGED <<spaces, referrals, authored, sweep, picked, clock>>,
         row' \in [Users -> {None, Gone} \cup UserRow],
         link' \in [Identities -> Users \cup {None}], change' \in [Changes -> {None} \cup ChangeRow],
         \A v \in Users : Present(v)' <=> Present(v),
         \A v \in Users : row[v] # None => row'[v] # None,
         \A i \in Identities : link'[i] # None => link'[i] = link[i] \/ Present(link[i])',
         \A c \in Changes : change[c] # None => change'[c] # None,
         \A c \in Changes : change'[c] # None => change[c] # None /\ change'[c].user = change[c].user,
         EmailUnique', NEW t \in Tasks, Ends(t)
  PROVE  AccountsInv'
<1>1. Typed /\ ForeignKeys /\ TaskInv
  BY TypeParts DEF AccountsInv
<1>2. DOMAIN task' = Tasks /\ \A s \in Tasks : task'[s] = task[s] \/ TaskOK(task[s])'
  BY <1>1, EndsOK
<1>3. Typed'
  BY <1>1, <1>2 DEF Typed, spaces, clock
<1>4. ForeignKeys'
  BY <1>1, <1>3, KeysKept DEF spaces, AccountsAssumption
<1>5. TaskInv'
  BY <1>1, <1>2, TasksKept
<1>6. OrphansWereExpired'
  BY DEF AccountsInv, OrphansWereExpired, spaces
<1> QED
  BY <1>3, <1>4, <1>5, <1>6, TypeParts DEF AccountsInv, SweepInv, TypeOK, Typed

LEMMA FinishOK ==
  ASSUME AccountsAssumption, AccountsInv, NEW t \in Tasks,
         FinishLogin(t) \/ FinishLink(t) \/ FinishDelete(t) \/ FinishVerify(t) \/ Fail(t)
  PROVE  AccountsInv'
<1>1. Typed /\ ForeignKeys /\ TaskInv /\ TaskOK(task[t]) /\ EmailUnique
  BY TypeParts DEF AccountsInv, TaskInv
<1> DEFINE u == task[t].user
<1>2. CASE FinishLogin(t) \/ FinishDelete(t)
  <2>1. u \in Users
    BY <1>1, <1>2 DEF TaskOK, FinishLogin, FinishDelete
  <2>2. \/ row' = row
        \/ Present(u) /\ \E d \in Nat \cup {None} : row' = [row EXCEPT ![u].deleted = d]
    BY <1>1, <1>2 DEF FinishLogin, FinishDelete, Typed
  <2>3. /\ row' \in [Users -> {None, Gone} \cup UserRow]
        /\ \A v \in Users : Present(v)' <=> Present(v)
        /\ \A v \in Users : row[v] # None => row'[v] # None
        /\ \A v \in Users : Present(v) => row'[v].email = row[v].email
    <3>1. CASE row' = row
      BY <1>1, <3>1 DEF Typed, Present
    <3>2. ASSUME Present(u), NEW d \in Nat \cup {None}, row' = [row EXCEPT ![u].deleted = d]
          PROVE  /\ row' \in [Users -> {None, Gone} \cup UserRow]
                 /\ \A v \in Users : Present(v)' <=> Present(v)
                 /\ \A v \in Users : row[v] # None => row'[v] # None
                 /\ \A v \in Users : Present(v) => row'[v].email = row[v].email
      BY <1>1, <2>1, <3>2, WriteDeleted
    <3> QED
      BY <2>2, <3>1, <3>2
  <2>4. EmailUnique'
    BY <1>1, <2>3 DEF EmailUnique
  <2>5. UNCHANGED <<spaces, referrals, authored, sweep, picked, clock, link, change>> /\ Ends(t)
    BY <1>2 DEF FinishLogin, FinishDelete, others
  <2>6. link' \in [Identities -> Users \cup {None}] /\ change' \in [Changes -> {None} \cup ChangeRow]
    BY <1>1, <2>5 DEF Typed
  <2> QED
    BY <2>3, <2>4, <2>5, <2>6, SameUsers
<1>3. CASE FinishLink(t)
  <2>1. u \in Users /\ task[t].arg \in Identities /\ Present(u)
    BY <1>1, <1>3 DEF TaskOK, FinishLink
  <2>2. UNCHANGED <<row, spaces, referrals, authored, sweep, picked, clock, change>> /\ Ends(t)
    BY <1>3 DEF FinishLink
  <2>3. link' = [link EXCEPT ![task[t].arg] = u]
    BY <1>3 DEF FinishLink
  <2>4. link' \in [Identities -> Users \cup {None}]
    BY <1>1, <2>1, <2>3 DEF Typed
  <2>5. \A i \in Identities : link'[i] # None => link'[i] = link[i] \/ Present(link[i])'
    <3>1. \A i \in Identities : link'[i] = link[i] \/ link'[i] = u
      BY <1>1, <2>3 DEF Typed
    <3> QED
      BY <2>1, <2>2, <3>1 DEF Present
  <2>6. /\ \A v \in Users : Present(v)' <=> Present(v)
        /\ EmailUnique'
        /\ row' \in [Users -> {None, Gone} \cup UserRow] /\ change' \in [Changes -> {None} \cup ChangeRow]
    BY <1>1, <2>2 DEF Present, EmailUnique, Typed
  <2> QED
    BY <2>2, <2>4, <2>5, <2>6, SameUsers
<1>4. CASE FinishVerify(t)
  <2> DEFINE e == task[t].email  c == task[t].arg
  <2>1. /\ u \in Users /\ e \in Emails /\ c \in Changes /\ Present(u)
        /\ change[c] # None /\ change[c].user = u
    BY <1>1, <1>4 DEF TaskOK, FinishVerify
  <2>2. UNCHANGED <<spaces, referrals, authored, sweep, picked, clock, link>> /\ Ends(t)
    BY <1>4 DEF FinishVerify
  <2> DEFINE r == [row[u] EXCEPT !.email = e]
  <2>3. row' = [row EXCEPT ![u] = r] /\ r \in UserRow /\ r.email = e /\ r # None /\ r # Gone
    <3>1. row[u] \in UserRow
      BY <1>1, <2>1, RowOf
    <3>2. r \in UserRow /\ r.email = e
      BY <2>1, <3>1 DEF UserRow
    <3> QED
      BY <1>4, <3>2, RowTyped DEF FinishVerify
  <2> HIDE DEF r
  <2>4. \A v \in Users : row'[v] = IF v = u THEN r ELSE row[v]
    BY <1>1, <2>3 DEF Typed
  <2>5. /\ row' \in [Users -> {None, Gone} \cup UserRow]
        /\ \A v \in Users : Present(v)' <=> Present(v)
        /\ \A v \in Users : row[v] # None => row'[v] # None
    BY <1>1, <2>1, <2>3, <2>4 DEF Present, Typed
  <2>6. EmailUnique'
    <3>1. \A v \in Users : Present(v) /\ v # u => row[v].email # e
      BY <1>1, <1>4, <2>1 DEF FinishVerify, Free, Taken, EmailUnique
    <3> QED
      BY <1>1, <2>1, <2>3, <2>4, <2>5, <3>1 DEF EmailUnique
  <2>7. /\ change' \in [Changes -> {None} \cup ChangeRow]
        /\ \A d \in Changes : change[d] # None => change'[d] # None
        /\ \A d \in Changes : change'[d] # None => change[d] # None /\ change'[d].user = change[d].user
    <3> DEFINE h == [change[c] EXCEPT !.used = TRUE]
    <3>1. change[c] \in ChangeRow
      BY <1>1, <2>1 DEF Typed
    <3>2. h \in ChangeRow /\ h.user = change[c].user
      BY <3>1 DEF ChangeRow
    <3>3. h # None
      BY <3>2 DEF AccountsAssumption
    <3>4. change' = [change EXCEPT ![c] = h]
      BY <1>4 DEF FinishVerify
    <3> HIDE DEF h
    <3> QED
      BY <1>1, <2>1, <3>2, <3>3, <3>4 DEF Typed
  <2>8. link' \in [Identities -> Users \cup {None}]
    BY <1>1, <2>2 DEF Typed
  <2>9. \A i \in Identities : link'[i] # None => link'[i] = link[i] \/ Present(link[i])'
    BY <2>2
  <2>10. UNCHANGED <<spaces, referrals, authored, sweep, picked, clock>>
    BY <2>2
  <2> QED
    BY <2>2, <2>7, <2>8, <2>9, <2>10, <2>5, <2>6, SameUsers
<1>5. CASE Fail(t)
  <2>1. UNCHANGED <<row, spaces, referrals, authored, sweep, picked, clock, link, change>> /\ Ends(t)
    BY <1>5 DEF Fail, others
  <2>2. /\ \A v \in Users : Present(v)' <=> Present(v)
        /\ EmailUnique' /\ link' \in [Identities -> Users \cup {None}]
        /\ row' \in [Users -> {None, Gone} \cup UserRow] /\ change' \in [Changes -> {None} \cup ChangeRow]
    BY <1>1, <2>1 DEF Present, EmailUnique, Typed
  <2> QED
    BY <2>1, <2>2, SameUsers
<1> QED
  BY <1>2, <1>3, <1>4, <1>5

LEMMA StatementOK ==
  ASSUME AccountsAssumption, AccountsInv, Statement
  PROVE  AccountsInv'
<1>1. Typed /\ ForeignKeys /\ TaskInv
  BY TypeParts DEF AccountsInv
<1>2. UNCHANGED <<row, member, referrals, link, task, sweep, picked, now, crashes>> /\ requests' \in Nat
  <2>1. UNCHANGED <<row, member, referrals, link, task, sweep, picked, now, crashes>> /\ requests' = requests + 1
    BY Zenon DEF Statement, CreateTeam, DeleteTeam, Author, CleanUp, RecordEvent, RequestChange, Comes,
                 spaces, others
  <2> QED
    BY <1>1, <2>1 DEF Typed
<1>3. /\ space' \subseteq {"individual", "team"} \X Users /\ billed' \subseteq space'
      /\ \A w \in space' : w \in space \/ Present(w[2])'
      /\ \A v \in Users : <<"individual", v>> \in space' <=> <<"individual", v>> \in space
      /\ authored' \subseteq Users \X (space' \cup {None})
      /\ \A p \in authored' : p \in authored \/ Present(p[1])'
  <2>1. ASSUME NEW u \in Users, CreateTeam(u) PROVE <1>3
    BY <1>1, <1>2, <2>1 DEF CreateTeam, Authenticated, Present, Typed
  <2>2. ASSUME NEW u \in Users, DeleteTeam(u) PROVE <1>3
    BY <1>1, <1>2, <2>2 DEF DeleteTeam, Present, Typed
  <2>3. ASSUME NEW w \in space, RecordEvent(w) PROVE <1>3
    BY <1>1, <1>2, <2>3 DEF RecordEvent, Present, Typed
  <2>4. ASSUME NEW c \in Changes, NEW u \in Users, NEW e \in Emails, RequestChange(c, u, e) PROVE <1>3
    BY <1>1, <2>4 DEF RequestChange, spaces, Typed
  <2>5. ASSUME NEW u \in Users, NEW w \in space \cup {None}, Author(u, w) PROVE <1>3
    <3>1. authored' = authored \cup {<<u, w>>} /\ UNCHANGED <<space, billed>> /\ Present(u)'
      BY <1>2, <2>5 DEF Author, spaces, Authenticated, Present
    <3> QED
      BY <1>1, <3>1 DEF Typed
  <2>6. ASSUME NEW p \in authored, CleanUp(p) PROVE <1>3
    BY <1>1, <2>6 DEF CleanUp, spaces, Typed
  <2> QED
    BY <2>1, <2>2, <2>3, <2>4, <2>5, <2>6 DEF Statement
<1>4. /\ change' \in [Changes -> {None} \cup ChangeRow]
      /\ \A c \in Changes : change[c] # None => change'[c] = change[c]
      /\ \A c \in Changes : change'[c] # None => Present(change[c].user)' \/ change'[c] = change[c]
  <2>1. CASE UNCHANGED change
    BY <1>1, <2>1 DEF Typed
  <2>2. ASSUME NEW c \in Changes, NEW u \in Users, NEW e \in Emails, RequestChange(c, u, e) PROVE <1>4
    <3> DEFINE h == [user |-> u, email |-> e, at |-> now, used |-> FALSE]
    <3>1. h \in ChangeRow /\ h.user = u
      BY <1>1 DEF ChangeRow, Typed
    <3>2. change' = [change EXCEPT ![c] = h] /\ change[c] = None /\ Present(u)
      BY <2>2 DEF RequestChange, Authenticated
    <3> HIDE DEF h
    <3>3. \A d \in Changes : change'[d] = IF d = c THEN h ELSE change[d]
      BY <1>1, <3>2 DEF Typed
    <3>4. change' \in [Changes -> {None} \cup ChangeRow]
      BY <1>1, <3>1, <3>2 DEF Typed
    <3> QED
      BY <1>2, <3>1, <3>2, <3>3, <3>4 DEF Present
  <2> QED
    BY <2>1, <2>2 DEF Statement, CreateTeam, DeleteTeam, Author, CleanUp, RecordEvent, others
<1>5. \A v \in Users : Present(v)' <=> Present(v)
  BY <1>2 DEF Present
<1>6. Typed'
  BY <1>1, <1>2, <1>3, <1>4 DEF Typed
<1>7. ForeignKeys'
  BY <1>1, <1>2, <1>3, <1>4, <1>5, <1>6, KeysKept DEF AccountsAssumption
<1>8. TaskInv'
  <2>1. \A s \in Tasks : task'[s] = task[s]
    BY <1>2
  <2>2. \A v \in Users : row[v] # None => row'[v] # None /\ (Present(v)' => Present(v))
    BY <1>2, <1>5
  <2>3. \A c \in Changes, v \in Users : change[c] # None /\ change[c].user = v /\ Present(v)' =>
                              change'[c] # None /\ change'[c].user = v
    BY <1>4
  <2> QED
    BY <1>1, <2>1, <2>2, <2>3, TasksKept
<1>9. EmailUnique' /\ OrphansWereExpired' /\ SweepInv'
  BY <1>2, <1>3, <1>5 DEF AccountsInv, EmailUnique, OrphansWereExpired, SweepInv
<1> QED
  BY <1>6, <1>7, <1>8, <1>9 DEF AccountsInv, TypeOK, Typed

\* The hard delete takes workspaces of users it selected, and at last the row of one that
\* nothing refers to any more.
LEMMA SweepOK ==
  ASSUME AccountsAssumption, AccountsInv, Sweep \/ SweepDies
  PROVE  AccountsInv'
<1>1. Typed /\ ForeignKeys /\ TaskInv /\ SweepInv /\ EmailUnique /\ OrphansWereExpired
  BY TypeParts DEF AccountsInv
<1>2. CASE StartSweep \/ SweepDies
  <2>1. /\ UNCHANGED <<row, spaces, referrals, authored, others, task, now, requests>> /\ crashes' \in Nat
        /\ picked \subseteq picked' /\ picked' \subseteq Users
    BY <1>1, <1>2 DEF StartSweep, SweepDies, clock, Typed, Selected
  <2>2. SweepInv'
    BY <1>1, <1>2 DEF StartSweep, SweepDies, EndSweep, Selected, SweepInv
  <2>3. Typed'
    BY <1>1, <2>1, <2>2 DEF Typed, spaces, others, SweepInv
  <2>4. ForeignKeys' /\ TaskInv' /\ EmailUnique' /\ OrphansWereExpired'
    BY <1>1, <2>1 DEF ForeignKeys, TaskInv, TaskOK, EmailUnique, OrphansWereExpired, Present, Referenced,
                      SpacesOf, spaces, others
  <2> QED
    BY <2>2, <2>3, <2>4 DEF AccountsInv, TypeOK, Typed
<1>3. ASSUME NEW u \in Users, SweepMembers(u)
      PROVE  AccountsInv'
  <2>1. /\ UNCHANGED <<row, space, billed, referrals, authored, others, task, picked, clock>>
        /\ member' \subseteq member
    BY <1>3 DEF SweepMembers
  <2>2. SweepInv'
    BY <1>1, <1>3 DEF SweepMembers, SweepInv
  <2>3. Typed'
    BY <1>1, <2>1, <2>2 DEF Typed, others, clock, SweepInv
  <2>4. ForeignKeys'
    BY <1>1, <2>1 DEF ForeignKeys, Present, Referenced, SpacesOf, others
  <2>5. TaskInv' /\ EmailUnique' /\ OrphansWereExpired'
    BY <1>1, <2>1 DEF TaskInv, TaskOK, EmailUnique, OrphansWereExpired, Present, others
  <2> QED
    BY <2>2, <2>3, <2>4, <2>5 DEF AccountsInv, TypeOK, Typed
<1>4. CASE SweepSpaces
  <2>1. /\ UNCHANGED <<row, member, billed, referrals, others, task, picked, clock>>
        /\ space' \subseteq space /\ billed' \subseteq space' /\ authored' \subseteq authored
    BY <1>1, <1>4 DEF SweepSpaces, Typed
  <2>2. \A w \in space \ space' : w[2] \in picked
    BY <1>1, <1>4 DEF SweepSpaces, SpacesOf, SweepInv
  <2>3. SweepInv'
    BY <1>1, <1>4 DEF SweepSpaces, EndSweep, SweepInv
  <2>4. Typed'
    <3>1. authored' \subseteq Users \X (space' \cup {None})
      <4>1. CASE UNCHANGED <<space, authored>>
        BY <1>1, <4>1 DEF Typed
      <4>2. CASE /\ space' = space \ SpacesOf(sweep.user)
                 /\ authored' = {p \in authored : p[2] \notin SpacesOf(sweep.user)}
        BY <1>1, <4>2 DEF Typed
      <4> QED
        BY <1>4, <4>1, <4>2 DEF SweepSpaces
    <3> QED
      BY <1>1, <2>1, <2>3, <3>1 DEF Typed, others, clock, SweepInv
  <2>5. ForeignKeys'
    BY <1>1, <2>1 DEF ForeignKeys, Present, Referenced, SpacesOf, others
  <2>6. TaskInv' /\ EmailUnique'
    BY <1>1, <2>1 DEF TaskInv, TaskOK, EmailUnique, Present, others
  <2>7. OrphansWereExpired'
    BY <1>1, <2>1, <2>2 DEF OrphansWereExpired, Present
  <2> QED
    BY <2>3, <2>4, <2>5, <2>6, <2>7 DEF AccountsInv, TypeOK, Typed
<1>5. CASE SweepUser
  <2> DEFINE u == sweep.user
  <2>1. u \in Users /\ u \in sweep.ids
    BY <1>1, <1>5 DEF SweepUser, SweepInv
  <2>2. UNCHANGED <<member, space, billed, referrals, authored, task, picked, now, crashes, requests>>
    BY <1>5 DEF SweepUser, spaces, clock
  <2>3. SweepInv'
    BY <1>1, <1>5, <2>2 DEF SweepUser, EndSweep, SweepInv
  <2>4. CASE UNCHANGED <<row, link, change>>
    <3>1. Typed'
      BY <1>1, <2>2, <2>3, <2>4 DEF Typed, SweepInv
    <3>2. ForeignKeys' /\ TaskInv' /\ EmailUnique' /\ OrphansWereExpired'
      BY <1>1, <2>2, <2>4 DEF ForeignKeys, TaskInv, TaskOK, EmailUnique, OrphansWereExpired, Present,
                              Referenced, SpacesOf
    <3> QED
      BY <2>3, <3>1, <3>2 DEF AccountsInv, TypeOK, Typed
  <2>5. CASE /\ ~Referenced(u) /\ row' = [row EXCEPT ![u] = Gone]
             /\ link' = [i \in Identities |-> IF link[i] = u THEN None ELSE link[i]]
             /\ change' = [c \in Changes |-> IF change[c] # None /\ change[c].user = u
                                               THEN None ELSE change[c]]
    <3>1. \A v \in Users : row'[v] = IF v = u THEN Gone ELSE row[v]
      BY <1>1, <2>1, <2>5 DEF Typed
    <3>2. \A v \in Users : Present(v)' <=> Present(v) /\ v # u
      BY <3>1 DEF Present
    <3>3. Typed'
      <4>1. row' \in [Users -> {None, Gone} \cup UserRow]
        BY <1>1, <2>1, <2>5 DEF Typed
      <4>2. link' \in [Identities -> Users \cup {None}] /\ change' \in [Changes -> {None} \cup ChangeRow]
        BY <1>1, <2>5 DEF Typed
      <4> QED
        BY <1>1, <2>2, <2>3, <4>1, <4>2 DEF Typed, SweepInv
    <3>4. ForeignKeys'
      <4> SUFFICES ASSUME NEW v \in Users, ~Present(v)'
                   PROVE  /\ ~Referenced(v)' /\ (\A i \in Identities : link'[i] # v)
                          /\ (\A c \in Changes : change'[c] # None => change'[c].user # v)
        BY DEF ForeignKeys
      <4>1. ~Referenced(v)
        BY <1>1, <2>5, <3>2 DEF ForeignKeys
      <4>2. ~Referenced(v)'
        BY <2>2, <4>1 DEF Referenced, SpacesOf
      <4>3. \A i \in Identities : link'[i] # v
        BY <1>1, <2>5, <3>2 DEF ForeignKeys, AccountsAssumption
      <4>4. \A c \in Changes : change'[c] # None => change'[c].user # v
        BY <1>1, <2>5, <3>2 DEF ForeignKeys
      <4> QED
        BY <4>2, <4>3, <4>4
    <3>5. TaskInv'
      <4>1. \A v \in Users : row[v] # None => row'[v] # None /\ (Present(v)' => Present(v))
        BY <3>1, <3>2 DEF AccountsAssumption
      <4>2. \A c \in Changes, v \in Users : change[c] # None /\ change[c].user = v /\ Present(v)' =>
                              change'[c] # None /\ change'[c].user = v
        BY <2>5, <3>2
      <4>3. \A s \in Tasks : task'[s] = task[s]
        BY <2>2
      <4> QED
        BY <1>1, <4>1, <4>2, <4>3, TasksKept
    <3>6. EmailUnique' /\ OrphansWereExpired'
      BY <1>1, <2>2, <3>1, <3>2 DEF EmailUnique, OrphansWereExpired
    <3> QED
      BY <2>3, <3>3, <3>4, <3>5, <3>6 DEF AccountsInv, TypeOK, Typed
  <2> QED
    BY <1>5, <2>4, <2>5 DEF SweepUser, others
<1> QED
  BY <1>2, <1>3, <1>4, <1>5 DEF Sweep
-----------------------------------------------------------------------------
LEMMA AccountsInvInit ==
  ASSUME AccountsAssumption, Init
  PROVE  AccountsInv
<1>1. TypeOK
  BY DEF AccountsAssumption, Init, TypeOK, ForeignKeys, Referenced, SpacesOf
<1>2. TaskInv
  BY DEF Init, TaskInv, TaskOK, Idle
<1>3. SweepInv /\ EmailUnique /\ OrphansWereExpired
  BY DEF AccountsAssumption, Init, SweepInv, EmailUnique, OrphansWereExpired, Present
<1> QED
  BY <1>1, <1>2, <1>3 DEF AccountsInv

LEMMA AccountsInvNext ==
  ASSUME AccountsAssumption, AccountsInv, [Next]_vars
  PROVE  AccountsInv'
<1>1. ASSUME NEW t \in Tasks, Handle(t)
      PROVE  AccountsInv'
  BY <1>1, Arrivals, FinishOK, FinishRegisterOK, FinishCreateOK, Zenon DEF Handle
<1>2. CASE Tick \/ UNCHANGED vars
  <2>1. /\ UNCHANGED <<row, spaces, referrals, authored, others, task, sweep, picked>>
        /\ {now', crashes', requests'} \subseteq Nat /\ DOMAIN task' = Tasks
    BY <1>2, TypeParts DEF AccountsInv, Typed, Tick, vars, spaces, others
  <2> QED
    BY <2>1, Quiet
<1> QED
  BY <1>1, <1>2, StatementOK, SweepOK DEF Next

\* What users, workspaces, members, referrals, identities and requests refer to is always
\* there, wherever the hard delete is and however it died.
THEOREM AccountsTypes == Spec => []TypeOK
<1>1. AccountsInv => TypeOK
  BY DEF AccountsInv
<1> QED
  BY <1>1, AccountsAssumption, AccountsInvInit, AccountsInvNext, PTL DEF Spec

\* No interleaving of registrations, OAuth callbacks, reactivating logins, changes of
\* address and deletions gives two accounts one address.
THEOREM EmailsAreUnique == Spec => []EmailUnique
<1>1. AccountsInv => EmailUnique
  BY DEF AccountsInv
<1> QED
  BY <1>1, AccountsAssumption, AccountsInvInit, AccountsInvNext, PTL DEF Spec

\* Only an account that a hard delete found expired ever lacks its individual workspace.
THEOREM OnlyExpiredLoseWorkspaces == Spec => []OrphansWereExpired
<1>1. AccountsInv => OrphansWereExpired
  BY DEF AccountsInv
<1> QED
  BY <1>1, AccountsAssumption, AccountsInvInit, AccountsInvNext, PTL DEF Spec
=============================================================================
