---------------------------- MODULE SessionsProofs -----------------------------
(***************************************************************************)
(* Theorems about Sessions for any tokens, requests, limits and times.     *)
(***************************************************************************)
EXTENDS Sessions, FiniteSetTheorems, TLAPS

ResetRow == [born: Nat, used: BOOLEAN, kept: BOOLEAN, uses: Nat]
Commits == {"issue", "epoch", "reset"}
Task == [pc: Phases, on: Tokens \cup Resets \cup {None}, full: BOOLEAN,
         mark: SUBSET (Tokens \cup Resets), epoch: Nat, over: SUBSET Commits]

\* A row that may be used comes from a login after the last end of all sessions, or
\* from one that was in flight then; expiry does not matter.
TokenOK(x) ==
  /\ token[x] \in Session
  /\ token[x].kept /\ ~token[x].revoked /\ token[x].epoch < user.epoch => token[x].over

\* A reset token that is not used has no uses.
ResetOK(r) ==
  /\ reset[r] \in ResetRow /\ reset[r].uses <= 1
  /\ ~reset[r].used => reset[r].uses = 0

\* What a task holds: rows that exist, the epoch of its user unless it knows better, and
\* a reset token without uses unless it knows better
TaskOK(t) ==
  /\ task[t].pc = "insert" => \A x \in task[t].mark : x \in Tokens /\ token[x] \in Session
  /\ task[t].pc = "forgot" => \A r \in task[t].mark : r \in Resets /\ ResetOK(r)
  /\ task[t].pc = "reset" =>
       /\ task[t].on \in Resets /\ ResetOK(task[t].on)
       /\ "reset" \notin task[t].over => reset[task[t].on].uses = 0
  /\ task[t].pc \in {"count", "evict", "insert", "refresh"} /\ task[t].epoch < user.epoch
       => "epoch" \in task[t].over

TokenInv == \A x \in Tokens : token[x] # None => TokenOK(x)
ResetInv == \A r \in Resets : reset[r] # None => ResetOK(r)
TaskInv == \A t \in Tasks : TaskOK(t)

SessionsInv == TypeOK /\ TokenInv /\ ResetInv /\ TaskInv
-----------------------------------------------------------------------------
LEMMA InitSessions == ASSUME SessionsAssumption, Init PROVE SessionsInv
<1>1. TypeOK BY DEF SessionsAssumption, Init, TypeOK, Idle, Phases
<1>2. QED BY <1>1 DEF Init, SessionsInv, TokenInv, ResetInv, TaskInv, TaskOK, Idle

\* A request comes: only its task changes, and perhaps the user's status.
LEMMA Arrives ==
  ASSUME SessionsInv, NEW t \in Tasks, NEW k \in Task,
         task[t].pc = "idle", requests' = requests + 1, task' = [task EXCEPT ![t] = k],
         UNCHANGED <<token, reset, slack, now>>,
         user' \in [epoch: Nat, status: {"active", "suspended"}, mustReset: BOOLEAN],
         user'.epoch = user.epoch,
         TaskOK(t)'
  PROVE  SessionsInv'
<1>1. TypeOK' BY DEF SessionsInv, TypeOK, Task, Commits
<1>2. (\A x \in Tokens : TokenOK(x) <=> TokenOK(x)') /\ (\A r \in Resets : ResetOK(r) <=> ResetOK(r)')
  BY DEF TokenOK, ResetOK
<1>3. \A o \in Tasks : TaskOK(o)'
  <2>1. TAKE o \in Tasks
  <2>2. CASE o = t BY <2>2
  <2>3. CASE o # t
    <3>1. task'[o] = task[o] BY <2>3 DEF SessionsInv, TypeOK
    <3>2. QED BY <3>1, <1>2 DEF SessionsInv, TaskInv, TaskOK
  <2>4. QED BY <2>2, <2>3
<1>4. QED BY <1>1, <1>2, <1>3 DEF SessionsInv, TokenInv, ResetInv, TaskInv

LEMMA StartsTask ==
  ASSUME SessionsAssumption, TypeOK, NEW t \in Tasks, NEW pc \in Phases, NEW x \in Tokens \cup Resets \cup {None},
         NEW epoch \in Nat, NEW over \in SUBSET Commits, Starts(t, pc, x, epoch, over)
  PROVE  \E k \in Task :
           /\ task[t].pc = "idle" /\ requests' = requests + 1 /\ task' = [task EXCEPT ![t] = k]
           /\ task'[t] = k /\ k.pc = pc /\ k.on = x /\ k.epoch = epoch /\ k.over = over /\ k.mark = {}
<1> DEFINE k == [Idle EXCEPT !.pc = pc, !.on = x, !.epoch = epoch, !.over = over]
<1>1. k \in Task /\ k.pc = pc /\ k.on = x /\ k.epoch = epoch /\ k.over = over /\ k.mark = {}
  BY DEF Idle, Task, Phases
<1>2. task' = [task EXCEPT ![t] = k] /\ task'[t] = k BY DEF Starts, TypeOK
<1>3. QED BY <1>1, <1>2 DEF Starts

LEMMA ComePreserves ==
  ASSUME SessionsAssumption, SessionsInv, NEW t \in Tasks, Come(t)
  PROVE  SessionsInv'
<1>0. TypeOK /\ user.epoch \in Nat /\ 0 \in Nat /\ None \in Tokens \cup Resets \cup {None}
  BY DEF SessionsInv, TypeOK
<1>1. CASE StartLogin(t)
  <2>1. PICK k \in Task :
          /\ task[t].pc = "idle" /\ requests' = requests + 1 /\ task' = [task EXCEPT ![t] = k]
          /\ task'[t] = k /\ k.pc = "count" /\ k.epoch = user.epoch
    BY <1>0, <1>1, StartsTask DEF StartLogin, Phases, Commits
  <2>2. TaskOK(t)' BY <1>0, <1>1, <2>1 DEF StartLogin, TaskOK
  <2>3. QED BY <1>0, <1>1, <2>1, <2>2, Arrives DEF StartLogin, TypeOK
<1>2. CASE StartOAuth(t)
  <2>0. {"issue"} \in SUBSET Commits /\ "insert" \in Phases BY DEF Commits, Phases
  <2>1. PICK k \in Task :
          /\ task[t].pc = "idle" /\ requests' = requests + 1 /\ task' = [task EXCEPT ![t] = k]
          /\ task'[t] = k /\ k.pc = "insert" /\ k.epoch = user.epoch /\ k.mark = {}
    BY <1>0, <1>2, <2>0, StartsTask DEF StartOAuth
  <2>2. TaskOK(t)' BY <1>0, <1>2, <2>1 DEF StartOAuth, TaskOK
  <2>3. QED BY <1>0, <1>2, <2>1, <2>2, Arrives DEF StartOAuth, TypeOK
<1>3. CASE StartForgot(t)
  <2> DEFINE k == [Idle EXCEPT !.pc = "forgot",
                               !.mark = {r \in Resets : Row(reset, r) /\ ~reset[r].used}]
  <2>1. k \in Task /\ k.pc = "forgot" /\ k.mark = {r \in Resets : Row(reset, r) /\ ~reset[r].used}
    BY DEF Idle, Task, Phases
  <2>2. /\ task[t].pc = "idle" /\ requests' = requests + 1
        /\ task' = [task EXCEPT ![t] = k] /\ task'[t] = k
    BY <1>0, <1>3 DEF StartForgot, TypeOK
  <2>3. \A r \in k.mark : r \in Resets /\ ResetOK(r) BY <2>1 DEF Row, SessionsInv, ResetInv
  <2>4. TaskOK(t)' BY <1>3, <2>1, <2>2, <2>3 DEF StartForgot, TaskOK, ResetOK
  <2>5. QED BY <1>0, <1>3, <2>1, <2>2, <2>4, Arrives DEF StartForgot, TypeOK
<1>4. CASE StartChange(t)
  <2>1. PICK k \in Task :
          /\ task[t].pc = "idle" /\ requests' = requests + 1 /\ task' = [task EXCEPT ![t] = k]
          /\ task'[t] = k /\ k.pc = "change"
    BY <1>0, <1>4, StartsTask DEF StartChange, Phases, Commits
  <2>2. TaskOK(t)' BY <2>1 DEF TaskOK
  <2>3. QED BY <1>0, <1>4, <2>1, <2>2, Arrives DEF StartChange, TypeOK
<1>5. CASE StartSuspend(t)
  <2>1. PICK k \in Task :
          /\ task[t].pc = "idle" /\ requests' = requests + 1 /\ task' = [task EXCEPT ![t] = k]
          /\ task'[t] = k /\ k.pc = "suspended"
    BY <1>0, <1>5, StartsTask DEF StartSuspend, Phases, Commits
  <2>2. TaskOK(t)' BY <2>1 DEF TaskOK
  <2>3. QED BY <1>0, <1>5, <2>1, <2>2, Arrives DEF StartSuspend, TypeOK
<1>6. ASSUME NEW x \in Tokens, StartRefresh(t, x) PROVE SessionsInv'
  <2>0. token[x] # None /\ token[x].kept /\ TokenOK(x) /\ token[x] \in Session
    BY <1>6 DEF StartRefresh, Row, SessionsInv, TokenInv, TokenOK
  <2>1. CASE Starts(t, "reuse", x, 0, {})
    <3>1. PICK k \in Task :
            /\ task[t].pc = "idle" /\ requests' = requests + 1 /\ task' = [task EXCEPT ![t] = k]
            /\ task'[t] = k /\ k.pc = "reuse"
      BY <1>0, <2>1, StartsTask DEF Phases, Commits
    <3>2. TaskOK(t)' BY <3>1 DEF TaskOK
    <3>3. QED BY <1>0, <1>6, <3>1, <3>2, Arrives DEF StartRefresh, TypeOK
  <2>2. CASE Live(x) /\ Starts(t, "refresh", x, token[x].epoch, IF token[x].over THEN {"epoch"} ELSE {})
    <3> DEFINE over == IF token[x].over THEN {"epoch"} ELSE {}
    <3>1. token[x].epoch \in Nat /\ over \in SUBSET Commits BY <2>0 DEF Session, Commits
    <3>2. Starts(t, "refresh", x, token[x].epoch, over) BY <2>2
    <3> HIDE DEF over
    <3>3. PICK k \in Task :
            /\ task[t].pc = "idle" /\ requests' = requests + 1 /\ task' = [task EXCEPT ![t] = k]
            /\ task'[t] = k /\ k.pc = "refresh" /\ k.epoch = token[x].epoch /\ k.over = over
      BY <1>0, <3>1, <3>2, StartsTask DEF Phases
    <3>4. token[x].epoch < user.epoch => "epoch" \in over BY <2>0, <2>2 DEF TokenOK, Live, over
    <3>5. TaskOK(t)' BY <1>6, <3>3, <3>4 DEF StartRefresh, TaskOK
    <3>6. QED BY <1>0, <1>6, <3>3, <3>5, Arrives DEF StartRefresh, TypeOK
  <2>3. QED BY <1>6, <2>1, <2>2 DEF StartRefresh
<1>7. ASSUME NEW x \in Tokens, StartLogout(t, x) \/ StartRevokeSession(t, x) PROVE SessionsInv'
  <2>1. PICK k \in Task :
          /\ task[t].pc = "idle" /\ requests' = requests + 1 /\ task' = [task EXCEPT ![t] = k]
          /\ task'[t] = k /\ k.pc = "revoke"
    BY <1>0, <1>7, StartsTask DEF StartLogout, StartRevokeSession, Phases, Commits
  <2>2. TaskOK(t)' BY <2>1 DEF TaskOK
  <2>3. QED BY <1>0, <1>7, <2>1, <2>2, Arrives DEF StartLogout, StartRevokeSession, TypeOK
<1>8. ASSUME NEW r \in Resets, StartReset(t, r) PROVE SessionsInv'
  <2>1. PICK k \in Task :
          /\ task[t].pc = "idle" /\ requests' = requests + 1 /\ task' = [task EXCEPT ![t] = k]
          /\ task'[t] = k /\ k.pc = "reset" /\ k.on = r
    BY <1>0, <1>8, StartsTask DEF StartReset, Phases, Commits
  <2>2. ResetOK(r) /\ reset[r].uses = 0
    BY <1>8 DEF StartReset, Usable, Row, SessionsInv, ResetInv, ResetOK
  <2>3. TaskOK(t)' BY <1>8, <2>1, <2>2 DEF StartReset, TaskOK, ResetOK
  <2>4. QED BY <1>0, <1>8, <2>1, <2>3, Arrives DEF StartReset, TypeOK
<1>9. QED BY <1>1, <1>2, <1>3, <1>4, <1>5, <1>6, <1>7, <1>8 DEF Come
-----------------------------------------------------------------------------
(* What the steps of a task do to the rows and to the other tasks              *)

LEMMA GoesTask ==
  ASSUME TypeOK, NEW t \in Tasks, NEW k \in Task, NEW commit \in SUBSET Commits, Goes(t, k, commit)
  PROVE  /\ task' \in [Tasks -> Task] /\ task'[t] = k
         /\ \A o \in Tasks \ {t} :
              \/ task'[o].pc = "idle"
              \/ /\ task'[o].pc = task[o].pc /\ task'[o].on = task[o].on
                 /\ task'[o].mark = task[o].mark /\ task'[o].epoch = task[o].epoch
                 /\ task'[o].over = task[o].over \cup commit /\ task'[o].full = task[o].full
<1>1. task \in [Tasks -> Task] BY DEF TypeOK, Task, Commits
<1>2. Idle \in [pc: Phases, on: {None}, full: BOOLEAN, mark: {{}}, epoch: {0}, over: {{}}] /\ Idle.pc = "idle"
  BY DEF Idle, Phases
<1>3. Idle \in Task BY <1>2 DEF Task
<1>4. ASSUME NEW o \in Tasks \ {t}, task[o].pc # "idle"
      PROVE  /\ task'[o] \in Task /\ task'[o].pc = task[o].pc /\ task'[o].on = task[o].on
             /\ task'[o].mark = task[o].mark /\ task'[o].epoch = task[o].epoch
             /\ task'[o].over = task[o].over \cup commit /\ task'[o].full = task[o].full
  <2>1. task'[o] = [task[o] EXCEPT !.over = @ \cup commit] BY <1>4 DEF Goes
  <2>2. task[o] \in Task BY <1>1
  <2>3. QED BY <2>1, <2>2 DEF Task
<1>5. ASSUME NEW o \in Tasks \ {t}, task[o].pc = "idle" PROVE task'[o] = Idle BY <1>5 DEF Goes
<1>6. task'[t] = k BY DEF Goes
<1>7. \A o \in Tasks : task'[o] \in Task BY <1>3, <1>4, <1>5, <1>6
<1>8. task' \in [Tasks -> Task] BY <1>7 DEF Goes
<1>9. QED BY <1>2, <1>4, <1>5, <1>6, <1>8

\* The other tasks keep what they hold: what moved beside them is noted in "over".
LEMMA OthersKeep ==
  ASSUME SessionsInv, NEW t \in Tasks, NEW k \in Task, NEW commit \in SUBSET Commits, Goes(t, k, commit),
         \A x \in Tokens : token[x] \in Session => token'[x] \in Session,
         \A r \in Resets : ResetOK(r) => ResetOK(r)',
         user'.epoch = user.epoch \/ "epoch" \in commit,
         "reset" \in commit \/ \A r \in Resets : ResetOK(r) => reset'[r].uses = reset[r].uses,
         TaskOK(t)'
  PROVE  TaskInv'
<1>1. SUFFICES ASSUME NEW o \in Tasks, o # t, task'[o].pc # "idle" PROVE TaskOK(o)'
  BY DEF TaskInv, TaskOK
<1>2. /\ task'[o].pc = task[o].pc /\ task'[o].on = task[o].on
      /\ task'[o].mark = task[o].mark /\ task'[o].epoch = task[o].epoch
      /\ task'[o].over = task[o].over \cup commit
  BY <1>1, GoesTask DEF SessionsInv
<1>3. TaskOK(o) BY DEF SessionsInv, TaskInv
<1>4. CASE task'[o].pc = "reset" BY <1>2, <1>3, <1>4 DEF TaskOK
<1>5. CASE task'[o].pc = "forgot" BY <1>2, <1>3, <1>5 DEF TaskOK
<1>6. CASE task'[o].pc \in {"count", "evict", "insert", "refresh"} BY <1>2, <1>3, <1>6 DEF TaskOK
<1>7. QED BY <1>4, <1>5, <1>6 DEF TaskOK

\* A revoked row stays a row, and is no session.
LEMMA RevokedRows ==
  ASSUME TypeOK, NEW S \in SUBSET Tokens, \A x \in S : token[x] \in Session
  PROVE  /\ RevokedBy(S) \in [Tokens -> {None} \cup Session]
         /\ \A x \in S : RevokedBy(S)[x] \in Session /\ RevokedBy(S)[x].revoked
         /\ \A x \in Tokens \ S : RevokedBy(S)[x] = token[x]
<1>1. \A x \in S : /\ [token[x] EXCEPT !.revoked = TRUE] \in Session
                   /\ [token[x] EXCEPT !.revoked = TRUE].revoked
  BY DEF Session
<1>2. \A x \in Tokens : RevokedBy(S)[x] = IF x \in S THEN [token[x] EXCEPT !.revoked = TRUE] ELSE token[x]
  BY DEF RevokedBy
<1>3. ASSUME NEW x \in Tokens PROVE RevokedBy(S)[x] \in {None} \cup Session
  <2>1. CASE x \in S BY <1>1, <1>2, <2>1
  <2>2. CASE x \notin S BY <1>2, <2>2 DEF TypeOK
  <2>3. QED BY <2>1, <2>2
<1>4. RevokedBy(S) \in [Tokens -> {None} \cup Session] BY <1>3 DEF RevokedBy
<1>5. QED BY <1>1, <1>2, <1>4

LEMMA AllRows == ASSUME TypeOK PROVE \A x \in All : x \in Tokens /\ token[x] \in Session
BY DEF All, Row, TypeOK

\* A new session takes over what its task knows.
LEMMA IssuePreserves ==
  ASSUME SessionsAssumption, SessionsInv, NEW t \in Tasks, NEW n \in Tokens, NEW S \in SUBSET Tokens,
         \A x \in S : token[x] \in Session, task[t].pc \in {"insert", "refresh"},
         Issue(t, n, S), UNCHANGED <<reset, user, requests, now>>
  PROVE  SessionsInv'
<1>0. TypeOK /\ task[t] \in Task /\ now \in Nat BY DEF SessionsInv, TypeOK, Task, Commits
<1> DEFINE row == New(task[t].epoch, "epoch" \in task[t].over)
<1>1. /\ row \in Session /\ row.epoch = task[t].epoch /\ row.over = ("epoch" \in task[t].over)
  BY <1>0 DEF New, Session, Task
<1>2. token' = [RevokedBy(S) EXCEPT ![n] = row] BY DEF Issue
<1> HIDE DEF row
<1>3. /\ token' \in [Tokens -> {None} \cup Session] /\ token'[n] = row
      /\ \A x \in S \ {n} : token'[x] \in Session /\ token'[x].revoked
      /\ \A x \in Tokens \ (S \cup {n}) : token'[x] = token[x]
  BY <1>0, <1>1, <1>2, RevokedRows
<1>4. row.epoch < user.epoch => row.over BY <1>1 DEF SessionsInv, TaskInv, TaskOK
<1>5. TokenInv'
  <2>1. SUFFICES ASSUME NEW x \in Tokens, token'[x] # None PROVE TokenOK(x)' BY DEF TokenInv
  <2>3. CASE x = n BY <1>1, <1>3, <1>4, <2>3 DEF TokenOK
  <2>4. CASE x \in S \ {n} BY <1>3, <2>4 DEF TokenOK
  <2>5. CASE x \notin S \cup {n} BY <1>3, <2>1, <2>5 DEF TokenOK, SessionsInv, TokenInv
  <2>6. QED BY <2>3, <2>4, <2>5
<1>6. Idle \in Task /\ Idle.pc = "idle" /\ {"issue"} \in SUBSET Commits
  BY DEF Idle, Task, Phases, Commits
<1>7. Goes(t, Idle, {"issue"}) BY DEF Issue
<1>8. TypeOK'
  <2>1. task' \in [Tasks -> Task] BY <1>0, <1>6, <1>7, GoesTask
  <2>2. slack' \in Nat BY <1>0 DEF Issue, TypeOK
  <2>3. QED BY <1>0, <1>3, <2>1, <2>2 DEF TypeOK, Task, Commits
<1>9. (\A r \in Resets : ResetOK(r) <=> ResetOK(r)') BY DEF ResetOK
<1>10. \A x \in Tokens : token[x] \in Session => token'[x] \in Session BY <1>1, <1>3
<1>11. TaskInv'
  <2>1. TaskOK(t)' BY <1>0, <1>6, <1>7, GoesTask DEF TaskOK
  <2>2. QED BY <1>6, <1>7, <1>9, <1>10, <2>1, OthersKeep DEF ResetOK
<1>12. QED BY <1>5, <1>8, <1>9, <1>11 DEF SessionsInv, ResetInv

\* All sessions end: no row is left to use, and every request in flight has missed it.
LEMMA EndAllRows ==
  ASSUME SessionsInv, EndAll
  PROVE  /\ token' \in [Tokens -> {None} \cup Session]
         /\ \A x \in Tokens : token[x] \in Session => token'[x] \in Session
         /\ user' \in [epoch: Nat, status: {"active", "suspended"}, mustReset: BOOLEAN]
         /\ TokenInv'
<1>0. TypeOK BY DEF SessionsInv
<1>1. /\ token' \in [Tokens -> {None} \cup Session]
      /\ \A x \in All : token'[x] \in Session /\ token'[x].revoked
      /\ \A x \in Tokens \ All : token'[x] = token[x]
  BY <1>0, AllRows, RevokedRows DEF EndAll, All
<1>2. TokenInv'
  <2>1. SUFFICES ASSUME NEW x \in Tokens, token'[x] # None PROVE TokenOK(x)' BY DEF TokenInv
  <2>3. CASE x \in All BY <1>1, <2>3 DEF TokenOK
  <2>4. CASE x \notin All BY <1>1, <2>1, <2>4 DEF TokenOK, All, Row, SessionsInv, TokenInv
  <2>5. QED BY <2>3, <2>4
<1>3. user' \in [epoch: Nat, status: {"active", "suspended"}, mustReset: BOOLEAN]
  BY <1>0 DEF EndAll, TypeOK
<1>4. QED BY <1>1, <1>2, <1>3

\* A step of a task that leaves the reset tokens alone and ends no session, or all
LEMMA TokenStep ==
  ASSUME SessionsInv, NEW t \in Tasks, NEW k \in Task, NEW commit \in SUBSET Commits, Goes(t, k, commit),
         \/ EndAll /\ "epoch" \in commit
         \/ /\ \E S \in SUBSET Tokens : /\ \A x \in S : token[x] \in Session
                                       /\ token' = RevokedBy(S)
            /\ user' \in [epoch: Nat, status: {"active", "suspended"}, mustReset: BOOLEAN]
            /\ user'.epoch = user.epoch,
         UNCHANGED <<reset, slack, requests, now>>,
         TaskOK(t)'
  PROVE  SessionsInv'
<1>0. TypeOK BY DEF SessionsInv
<1>1. /\ token' \in [Tokens -> {None} \cup Session]
      /\ \A x \in Tokens : token[x] \in Session => token'[x] \in Session
      /\ user' \in [epoch: Nat, status: {"active", "suspended"}, mustReset: BOOLEAN]
      /\ TokenInv'
      /\ user'.epoch = user.epoch \/ "epoch" \in commit
  <2>1. CASE EndAll /\ "epoch" \in commit BY <2>1, EndAllRows
  <2>2. CASE ~(EndAll /\ "epoch" \in commit)
    <3>1. PICK S \in SUBSET Tokens : (\A x \in S : token[x] \in Session) /\ token' = RevokedBy(S)
      BY <2>2
    <3>2. /\ token' \in [Tokens -> {None} \cup Session]
          /\ \A x \in S : token'[x] \in Session /\ token'[x].revoked
          /\ \A x \in Tokens \ S : token'[x] = token[x]
      BY <1>0, <3>1, RevokedRows
    <3>3. TokenInv' BY <2>2, <3>2 DEF TokenInv, TokenOK, SessionsInv
    <3>4. QED BY <2>2, <3>2, <3>3
  <2>3. QED BY <2>1, <2>2
<1>2. \A r \in Resets : ResetOK(r) <=> ResetOK(r)' BY DEF ResetOK
<1>3. task' \in [Tasks -> Task] BY <1>0, GoesTask
<1>4. TypeOK' BY <1>0, <1>1, <1>3 DEF TypeOK, Task, Commits
<1>5. TaskInv' BY <1>1, <1>2, OthersKeep
<1>6. QED BY <1>1, <1>2, <1>4, <1>5 DEF SessionsInv, ResetInv

\* No session ends: the user's rows are those that were.
LEMMA NoneRevoked ==
  ASSUME TypeOK, UNCHANGED token
  PROVE  \E S \in SUBSET Tokens : (\A x \in S : token[x] \in Session) /\ token' = RevokedBy(S)
<1>1. token = RevokedBy({}) BY DEF TypeOK, RevokedBy
<1>2. QED BY <1>1

LEMMA IdleTask == Idle \in Task /\ Idle.pc = "idle" BY DEF Idle, Task, Phases

\* The steps between the first read and the last write of a login
LEMMA CountPreserves ==
  ASSUME SessionsInv, NEW t \in Tasks, CountSessions(t) \/ RevokeOldest(t)
  PROVE  SessionsInv'
<1>0. TypeOK /\ task \in [Tasks -> Task] /\ task[t] \in Task BY DEF SessionsInv, TypeOK, Task, Commits
<1>1. TaskOK(t) BY DEF SessionsInv, TaskInv
<1>2. PICK k \in Task :
        /\ task' = [task EXCEPT ![t] = k] /\ k.pc \in {"evict", "insert"}
        /\ k.pc = "insert" => \A x \in k.mark : x \in Tokens /\ token[x] \in Session
        /\ task[t].pc \in {"count", "evict"} /\ k.epoch = task[t].epoch
        /\ "epoch" \in task[t].over => "epoch" \in k.over
  <2>1. CASE CountSessions(t)
    <3> DEFINE full == Cardinality(Active) >= MaxSessions
               k == [task[t] EXCEPT !.pc = "evict", !.full = full, !.over = @ \ {"issue"}]
    <3>2. task' = [task EXCEPT ![t] = k] /\ task[t].pc = "count" BY <2>1 DEF CountSessions
    <3>0. full \in BOOLEAN OBVIOUS
    <3> HIDE DEF full
    <3>1. k \in Task /\ k.pc = "evict" /\ k.epoch = task[t].epoch /\ k.over = task[t].over \ {"issue"}
      BY <1>0, <3>0 DEF Task, Phases
    <3>3. QED BY <3>1, <3>2
  <2>2. CASE RevokeOldest(t)
    <3>1. PICK S \in SUBSET Tokens :
            /\ IF task[t].full /\ Active # {} THEN \E x \in Tokens : Oldest(x) /\ S = {x} ELSE S = {}
            /\ task' = [task EXCEPT ![t] = [@ EXCEPT !.pc = "insert", !.mark = S]]
      BY <2>2 DEF RevokeOldest
    <3>2. \A x \in S : token[x] \in Session BY <1>0, <3>1 DEF Oldest, Active, Live, Row, TypeOK
    <3> DEFINE k == [task[t] EXCEPT !.pc = "insert", !.mark = S]
    <3>3. k \in Task /\ k.pc = "insert" /\ k.epoch = task[t].epoch /\ k.over = task[t].over /\ k.mark = S
      BY <1>0 DEF Task, Phases
    <3>4. task' = [task EXCEPT ![t] = k] /\ task[t].pc = "evict" BY <2>2, <3>1 DEF RevokeOldest
    <3>5. QED BY <3>2, <3>3, <3>4
  <2>3. QED BY <2>1, <2>2
<1>3. UNCHANGED <<token, reset, user, slack, requests, now>> BY DEF CountSessions, RevokeOldest
<1>4. task' \in [Tasks -> Task] /\ task'[t] = k /\ \A o \in Tasks \ {t} : task'[o] = task[o]
  BY <1>0, <1>2
<1>5. (\A x \in Tokens : TokenOK(x) <=> TokenOK(x)') /\ (\A r \in Resets : ResetOK(r) <=> ResetOK(r)')
  BY <1>3 DEF TokenOK, ResetOK
<1>6. TaskOK(t)' BY <1>1, <1>2, <1>3, <1>4 DEF TaskOK
<1>7. \A o \in Tasks \ {t} : TaskOK(o)' BY <1>3, <1>4, <1>5 DEF TaskOK, SessionsInv, TaskInv
<1>8. QED BY <1>0, <1>3, <1>4, <1>5, <1>6, <1>7
          DEF SessionsInv, TypeOK, TokenInv, ResetInv, TaskInv, Task, Commits

\* A reset token that was forgotten is used, and the new one has no uses.
LEMMA ForgotPreserves ==
  ASSUME SessionsInv, NEW t \in Tasks, NEW n \in Resets, Forgot(t, n)
  PROVE  SessionsInv'
<1>0. TypeOK /\ now \in Nat /\ TaskOK(t) BY DEF SessionsInv, TypeOK, TaskInv
<1> DEFINE row == [born |-> now, used |-> FALSE, kept |-> TRUE, uses |-> 0]
<1>1. row \in ResetRow /\ row.uses = 0 /\ ~row.used BY <1>0 DEF ResetRow
<1> HIDE DEF row
<1>15. reset'[n] = row BY DEF Forgot, row
<1>2. \A r \in Resets :
        reset'[r] = IF r = n THEN row
                    ELSE IF r \in task[t].mark THEN [reset[r] EXCEPT !.used = TRUE] ELSE reset[r]
  BY DEF Forgot, row
<1>3. ASSUME NEW r \in Resets, r # n, r \in task[t].mark
      PROVE  reset'[r] \in ResetRow /\ reset'[r].uses = reset[r].uses /\ reset'[r].used /\ ResetOK(r)
  <2>1. ResetOK(r) BY <1>0, <1>3 DEF Forgot, TaskOK
  <2>2. reset'[r] = [reset[r] EXCEPT !.used = TRUE] BY <1>2, <1>3
  <2>3. QED BY <2>1, <2>2 DEF ResetOK, ResetRow
<1>4. \A r \in Resets : ResetOK(r) => ResetOK(r)'
  <2>1. SUFFICES ASSUME NEW r \in Resets, ResetOK(r) PROVE ResetOK(r)' OBVIOUS
  <2>2. CASE r = n BY <1>1, <1>15, <2>2 DEF ResetOK
  <2>3. CASE r # n /\ r \in task[t].mark BY <1>3, <2>3 DEF ResetOK
  <2>4. CASE r # n /\ r \notin task[t].mark BY <1>2, <2>1, <2>4 DEF ResetOK
  <2>5. QED BY <2>2, <2>3, <2>4
<1>5. ResetInv'
  <2>1. SUFFICES ASSUME NEW r \in Resets, reset'[r] # None PROVE ResetOK(r)' BY DEF ResetInv
  <2>2. CASE r = n BY <1>1, <1>15, <2>2 DEF ResetOK
  <2>3. CASE r # n /\ r \in task[t].mark BY <1>3, <1>4, <2>3
  <2>4. CASE r # n /\ r \notin task[t].mark
    BY <1>2, <1>4, <2>1, <2>4 DEF SessionsInv, ResetInv
  <2>5. QED BY <2>2, <2>3, <2>4
<1>6. {"reset"} \in SUBSET Commits /\ Goes(t, Idle, {"reset"}) BY DEF Forgot, Commits
<1>7. TaskOK(t)' BY <1>0, <1>6, IdleTask, GoesTask DEF TaskOK
<1>8. TaskInv' BY <1>4, <1>6, <1>7, IdleTask, OthersKeep DEF Forgot
<1>9. \A r \in Resets : reset'[r] \in {None} \cup ResetRow
  BY <1>0, <1>1, <1>2, <1>3 DEF TypeOK, ResetRow
<1>10. reset' \in [Resets -> {None} \cup ResetRow] BY <1>9 DEF Forgot
<1>11. task' \in [Tasks -> Task] BY <1>0, <1>6, IdleTask, GoesTask
<1>12. TypeOK' BY <1>0, <1>10, <1>11 DEF Forgot, TypeOK, ResetRow, Task, Commits
<1>13. TokenInv' BY DEF Forgot, SessionsInv, TokenInv, TokenOK
<1>14. QED BY <1>5, <1>8, <1>12, <1>13 DEF SessionsInv

\* The token of a reset is used once, unless the request knows of another change.
LEMMA ResetPreserves ==
  ASSUME SessionsInv, NEW t \in Tasks, ResetPassword(t)
  PROVE  SessionsInv'
<1> DEFINE r == task[t].on
           k == [task[t] EXCEPT !.pc = "clear"]
           c == {"epoch", "reset"}
<1>0. TypeOK /\ task[t] \in Task BY DEF SessionsInv, TypeOK, Task, Commits
<1>1. /\ r \in Resets /\ ResetOK(r)
      /\ "reset" \notin task[t].over => reset[r].uses = 0
  BY DEF ResetPassword, SessionsInv, TaskInv, TaskOK
<1>2. /\ EndAll /\ Goes(t, k, c) /\ UNCHANGED <<slack, requests, now>>
      /\ reset' = [reset EXCEPT ![r].used = TRUE,
                                ![r].uses = IF "reset" \in task[t].over THEN @ ELSE @ + 1]
  BY DEF ResetPassword
<1>3. k \in Task /\ k.pc = "clear" /\ c \in SUBSET Commits BY <1>0 DEF Task, Phases, Commits
<1>4. reset'[r] \in ResetRow /\ reset'[r].used /\ reset'[r].uses <= 1
  <2>1. /\ reset[r].uses \in Nat /\ reset[r] \in ResetRow /\ r \in DOMAIN reset
        /\ "reset" \notin task[t].over => reset[r].uses = 0
        /\ reset[r].uses <= 1
    BY <1>0, <1>1 DEF ResetOK, ResetRow, TypeOK
  <2>2. CASE "reset" \in task[t].over
    <3>1. reset'[r] = [reset[r] EXCEPT !.used = TRUE, !.uses = reset[r].uses]
      BY <1>2, <2>1, <2>2
    <3>2. QED BY <2>1, <3>1 DEF ResetRow
  <2>3. CASE "reset" \notin task[t].over
    <3>1. reset'[r] = [reset[r] EXCEPT !.used = TRUE, !.uses = reset[r].uses + 1]
      BY <1>2, <2>1, <2>3
    <3>2. reset[r].uses + 1 = 1 BY <2>1, <2>3
    <3>3. reset'[r] = [reset[r] EXCEPT !.used = TRUE, !.uses = 1] BY <3>1, <3>2
    <3>4. PICK row \in ResetRow : row = reset[r] BY <2>1
    <3>5. /\ [row EXCEPT !.used = TRUE, !.uses = 1] \in ResetRow
          /\ [row EXCEPT !.used = TRUE, !.uses = 1].used
          /\ [row EXCEPT !.used = TRUE, !.uses = 1].uses = 1
      BY DEF ResetRow
    <3>6. QED BY <3>3, <3>4, <3>5
  <2>4. QED BY <2>2, <2>3
<1>5. \A o \in Resets \ {r} : reset'[o] = reset[o] BY <1>0, <1>2 DEF TypeOK
<1> HIDE DEF r, k, c
<1>6. \A o \in Resets : ResetOK(o) => ResetOK(o)' BY <1>4, <1>5 DEF ResetOK
<1>7. ResetInv' BY <1>4, <1>5, <1>6 DEF SessionsInv, ResetInv, ResetOK
<1>8. TaskOK(t)' BY <1>0, <1>2, <1>3, GoesTask DEF TaskOK
<1>9. TaskInv'
  <2>1. "epoch" \in c /\ "reset" \in c BY DEF c
  <2>2. QED BY <1>2, <1>3, <1>6, <1>8, <2>1, EndAllRows, OthersKeep
<1>10. reset' \in [Resets -> {None} \cup ResetRow]
  <2>1. \A o \in Resets : reset'[o] \in {None} \cup ResetRow BY <1>0, <1>4, <1>5 DEF TypeOK, ResetRow
  <2>2. QED BY <1>0, <1>2, <2>1 DEF TypeOK
<1>11. task' \in [Tasks -> Task] BY <1>0, <1>2, <1>3, GoesTask
<1>12. TypeOK' BY <1>0, <1>2, <1>10, <1>11, EndAllRows DEF TypeOK, ResetRow, Task, Commits
<1>13. TokenInv' BY <1>2, EndAllRows
<1>14. QED BY <1>7, <1>9, <1>12, <1>13 DEF SessionsInv
-----------------------------------------------------------------------------
LEMMA ProceedPreserves ==
  ASSUME SessionsAssumption, SessionsInv, NEW t \in Tasks, Proceed(t) \/ Fail(t)
  PROVE  SessionsInv'
<1>0. TypeOK /\ {} \in SUBSET Commits /\ {"epoch"} \in SUBSET Commits
  BY DEF SessionsInv, Commits
<1>1. ASSUME NEW c \in SUBSET Commits, Goes(t, Idle, c) PROVE TaskOK(t)'
  BY <1>0, <1>1, IdleTask, GoesTask DEF TaskOK
<1>2. CASE CountSessions(t) \/ RevokeOldest(t) BY <1>2, CountPreserves
<1>3. ASSUME EndAll, Goes(t, Idle, {"epoch"}), UNCHANGED <<reset, slack, requests, now>>
      PROVE  SessionsInv'
  BY <1>0, <1>1, <1>3, IdleTask, TokenStep
<1>4. CASE RevokeReused(t) BY <1>3, <1>4 DEF RevokeReused
<1>5. CASE ChangePassword(t) BY <1>3, <1>5 DEF ChangePassword
<1>6. CASE RevokeSuspended(t) BY <1>3, <1>6 DEF RevokeSuspended
<1>7. CASE RevokeOne(t)
  <2> DEFINE S == {task[t].on} \cap All
  <2>1. S \in SUBSET Tokens /\ \A x \in S : token[x] \in Session BY <1>0, AllRows
  <2>2. token' = RevokedBy(S) /\ UNCHANGED user BY <1>7 DEF RevokeOne
  <2>3. user' \in [epoch: Nat, status: {"active", "suspended"}, mustReset: BOOLEAN]
    BY <1>0, <2>2 DEF TypeOK
  <2> HIDE DEF S
  <2>4. QED BY <1>0, <1>1, <1>7, <2>1, <2>2, <2>3, IdleTask, TokenStep DEF RevokeOne
<1>8. CASE ResetPassword(t) BY <1>8, ResetPreserves
<1>9. CASE ClearMustReset(t)
  <2>1. /\ user' \in [epoch: Nat, status: {"active", "suspended"}, mustReset: BOOLEAN]
        /\ user'.epoch = user.epoch
    BY <1>0, <1>9 DEF ClearMustReset, TypeOK
  <2>2. QED BY <1>0, <1>1, <1>9, <2>1, IdleTask, NoneRevoked, TokenStep DEF ClearMustReset
<1>10. CASE Fail(t)
  <2>1. user' \in [epoch: Nat, status: {"active", "suspended"}, mustReset: BOOLEAN]
    BY <1>0, <1>10 DEF Fail, TypeOK
  <2>2. QED BY <1>0, <1>1, <1>10, <2>1, IdleTask, NoneRevoked, TokenStep DEF Fail
<1>11. ASSUME NEW n \in Tokens, InsertSession(t, n) PROVE SessionsInv'
  <2>1. task[t].mark \in SUBSET Tokens /\ \A x \in task[t].mark : token[x] \in Session
    BY <1>11 DEF InsertSession, SessionsInv, TaskInv, TaskOK
  <2>2. QED BY <1>11, <2>1, IssuePreserves DEF InsertSession
<1>12. ASSUME NEW n \in Tokens, Rotate(t, n) PROVE SessionsInv'
  <2>1. {task[t].on} \cap All \in SUBSET Tokens /\ \A x \in {task[t].on} \cap All : token[x] \in Session
    BY <1>0, AllRows
  <2>2. QED BY <1>12, <2>1, IssuePreserves DEF Rotate
<1>13. ASSUME NEW n \in Resets, Forgot(t, n) PROVE SessionsInv' BY <1>13, ForgotPreserves
<1>14. QED BY <1>2, <1>4, <1>5, <1>6, <1>7, <1>8, <1>9, <1>10, <1>11, <1>12, <1>13 DEF Proceed

\* Cleanup takes rows away, and neither it nor an admin nor the clock does more.
LEMMA OthersPreserve ==
  ASSUME SessionsAssumption, SessionsInv, Unsuspend \/ ForceReset \/ CleanTokens \/ CleanResets \/ Tick
  PROVE  SessionsInv'
<1>0. TypeOK /\ UNCHANGED task
  BY DEF SessionsInv, Unsuspend, ForceReset, CleanTokens, CleanResets, Tick
<1>1. /\ user' \in [epoch: Nat, status: {"active", "suspended"}, mustReset: BOOLEAN]
      /\ user'.epoch = user.epoch
  BY <1>0 DEF Unsuspend, ForceReset, CleanTokens, CleanResets, Tick, TypeOK
<1>2. \A x \in Tokens :
        \/ token'[x] = token[x]
        \/ token[x] \in Session /\ token'[x] \in Session /\ ~token'[x].kept
  <2>1. CASE CleanTokens
    <3>1. TAKE x \in Tokens
    <3>2. CASE token[x] # None /\ Old(token, x, TokenTTL, token[x].revoked)
      <4>1. token'[x] = [token[x] EXCEPT !.kept = FALSE] BY <2>1, <3>2 DEF CleanTokens
      <4>2. token[x] \in Session BY <1>0, <3>2 DEF TypeOK
      <4>3. PICK row \in Session : row = token[x] BY <4>2
      <4>4. [row EXCEPT !.kept = FALSE] \in Session /\ ~[row EXCEPT !.kept = FALSE].kept BY DEF Session
      <4>5. QED BY <4>1, <4>3, <4>4
    <3>3. CASE ~(token[x] # None /\ Old(token, x, TokenTTL, token[x].revoked))
      BY <2>1, <3>3 DEF CleanTokens
    <3>4. QED BY <3>2, <3>3
  <2>2. CASE ~CleanTokens BY <2>2 DEF Unsuspend, ForceReset, CleanResets, Tick
  <2>3. QED BY <2>1, <2>2
<1>3. \A r \in Resets :
        \/ reset'[r] = reset[r]
        \/ /\ reset[r] # None /\ reset'[r] \in ResetRow /\ reset'[r].used = reset[r].used
           /\ reset'[r].uses = reset[r].uses
  <2>1. CASE CleanResets
    <3>1. TAKE r \in Resets
    <3>2. CASE reset[r] # None /\ Old(reset, r, ResetTTL, reset[r].used)
      <4>1. reset'[r] = [reset[r] EXCEPT !.kept = FALSE] BY <2>1, <3>2 DEF CleanResets
      <4>2. reset[r] \in ResetRow BY <1>0, <3>2 DEF TypeOK, ResetRow
      <4>3. PICK row \in ResetRow : row = reset[r] BY <4>2
      <4>4. /\ [row EXCEPT !.kept = FALSE] \in ResetRow
            /\ [row EXCEPT !.kept = FALSE].used = row.used
            /\ [row EXCEPT !.kept = FALSE].uses = row.uses
        BY DEF ResetRow
      <4>5. QED BY <3>2, <4>1, <4>3, <4>4
    <3>3. CASE ~(reset[r] # None /\ Old(reset, r, ResetTTL, reset[r].used))
      BY <2>1, <3>3 DEF CleanResets
    <3>4. QED BY <3>2, <3>3
  <2>2. CASE ~CleanResets BY <2>2 DEF Unsuspend, ForceReset, CleanTokens, Tick
  <2>3. QED BY <2>1, <2>2
<1>4. token' \in [Tokens -> {None} \cup Session]
  <2>1. \A x \in Tokens : token'[x] \in {None} \cup Session BY <1>0, <1>2 DEF TypeOK
  <2>2. token' = [x \in Tokens |-> token'[x]]
    BY <1>0 DEF Unsuspend, ForceReset, CleanTokens, CleanResets, Tick, TypeOK
  <2>3. QED BY <2>1, <2>2
<1>5. reset' \in [Resets -> {None} \cup ResetRow]
  <2>1. \A r \in Resets : reset'[r] \in {None} \cup ResetRow BY <1>0, <1>3 DEF TypeOK, ResetRow
  <2>2. reset' = [r \in Resets |-> reset'[r]]
    BY <1>0 DEF Unsuspend, ForceReset, CleanTokens, CleanResets, Tick, TypeOK
  <2>3. QED BY <2>1, <2>2
<1>6. {slack, requests, now}' \subseteq Nat
  BY <1>0 DEF Unsuspend, ForceReset, CleanTokens, CleanResets, Tick, TypeOK
<1>7. TypeOK' BY <1>0, <1>1, <1>4, <1>5, <1>6 DEF TypeOK, ResetRow
<1>8. TokenInv' BY <1>1, <1>2 DEF SessionsInv, TokenInv, TokenOK
<1>9. (\A x \in Tokens : token[x] \in Session => token'[x] \in Session)
      /\ (\A r \in Resets : ResetOK(r) => ResetOK(r)' /\ reset'[r].uses = reset[r].uses)
  BY <1>2, <1>3 DEF ResetOK
<1>10. ResetInv' BY <1>3, <1>9 DEF SessionsInv, ResetInv
<1>11. TaskInv'
  <2>1. SUFFICES ASSUME NEW t \in Tasks PROVE TaskOK(t)' BY DEF TaskInv
  <2>2. TaskOK(t) /\ task'[t] = task[t] BY <1>0 DEF SessionsInv, TaskInv
  <2>3. QED BY <1>1, <1>9, <2>2 DEF TaskOK
<1>12. QED BY <1>7, <1>8, <1>10, <1>11 DEF SessionsInv

LEMMA StutterPreserves ==
  ASSUME SessionsInv, UNCHANGED vars PROVE SessionsInv'
BY DEF SessionsInv, TypeOK, TokenInv, TokenOK, ResetInv, ResetOK, TaskInv, TaskOK, vars

LEMMA NextPreserves ==
  ASSUME SessionsAssumption, SessionsInv, [Next]_vars PROVE SessionsInv'
<1>1. ASSUME NEW t \in Tasks, Come(t) \/ Proceed(t) \/ Fail(t) PROVE SessionsInv'
  BY <1>1, ComePreserves, ProceedPreserves
<1>2. CASE Unsuspend \/ ForceReset \/ CleanTokens \/ CleanResets \/ Tick
  BY <1>2, OthersPreserve
<1>3. CASE UNCHANGED vars BY <1>3, StutterPreserves
<1>4. QED BY <1>1, <1>2, <1>3 DEF Next
-----------------------------------------------------------------------------
\* Type correctness of the user's rows and of the requests in flight.
THEOREM SpecTypeOK == ASSUME SessionsAssumption PROVE Spec => []TypeOK
<1>1. Init => SessionsInv BY InitSessions
<1>2. SessionsInv /\ [Next]_vars => SessionsInv' BY NextPreserves
<1>3. SessionsInv => TypeOK BY DEF SessionsInv
<1>4. QED BY <1>1, <1>2, <1>3, PTL DEF Spec

\* A new password, a suspension and a token used twice end every session for good: for
\* any number of tokens and requests, none of an earlier login is live, but for those
\* of requests in flight at that moment.
THEOREM SpecEndedForGood == ASSUME SessionsAssumption PROVE Spec => []EndedForGood
<1>1. Init => SessionsInv BY InitSessions
<1>2. SessionsInv /\ [Next]_vars => SessionsInv' BY NextPreserves
<1>3. SessionsInv => EndedForGood
  BY DEF SessionsInv, TokenInv, TokenOK, EndedForGood, Active, Live, Row
<1>4. QED BY <1>1, <1>2, <1>3, PTL DEF Spec

\* For any number of requests with one reset token, and of new ones beside them, the
\* token changes the password once, except by requests beside another change.
THEOREM SpecResetOnce == ASSUME SessionsAssumption PROVE Spec => []ResetOnce
<1>1. Init => SessionsInv BY InitSessions
<1>2. SessionsInv /\ [Next]_vars => SessionsInv' BY NextPreserves
<1>3. SessionsInv => ResetOnce BY DEF SessionsInv, ResetInv, ResetOK, ResetOnce
<1>4. QED BY <1>1, <1>2, <1>3, PTL DEF Spec
-----------------------------------------------------------------------------
(* The number of sessions.  A request that has counted, or holds a token to      *)
(* rotate, leaves room for the session it will insert, unless it knows that      *)
(* another was issued in between.                                              *)

Limit == MaxSessions + slack

Room(t) ==
  "issue" \notin task[t].over =>
    /\ task[t].pc = "refresh" => Cardinality(Active \ {task[t].on}) < Limit
    /\ task[t].pc = "insert" => Cardinality(Active \ task[t].mark) < Limit
    /\ task[t].pc = "evict" /\ ~task[t].full => Cardinality(Active) < Limit

BoundInv == IsFiniteSet(Active) /\ SessionsBounded /\ \A t \in Tasks : Room(t)

LEMMA FiniteActive ==
  ASSUME IsFiniteSet(Active), NEW S \in SUBSET Active
  PROVE  /\ IsFiniteSet(S) /\ Cardinality(S) \in Nat /\ Cardinality(S) <= Cardinality(Active)
         /\ Cardinality(Active) \in Nat
         /\ \A n : IsFiniteSet(S \cup {n}) /\ Cardinality(S \cup {n}) \in Nat
                   /\ Cardinality(S \cup {n}) <= Cardinality(S) + 1
         /\ \A x \in Active : Cardinality(Active \ {x}) = Cardinality(Active) - 1
<1>1. /\ IsFiniteSet(S) /\ Cardinality(S) \in Nat /\ Cardinality(S) <= Cardinality(Active)
      /\ Cardinality(Active) \in Nat
  BY FS_Subset, FS_CardinalityType
<1>2. ASSUME NEW n
      PROVE  IsFiniteSet(S \cup {n}) /\ Cardinality(S \cup {n}) \in Nat
             /\ Cardinality(S \cup {n}) <= Cardinality(S) + 1
  <2>1. IsFiniteSet(S \cup {n})
    BY <1>1, FS_AddElement
  <2>2. Cardinality(S \cup {n}) = IF n \in S THEN Cardinality(S) ELSE Cardinality(S) + 1
    BY <1>1, FS_AddElement
  <2> QED
    BY <1>1, <2>1, <2>2
<1>3. \A x \in Active : Cardinality(Active \ {x}) = Cardinality(Active) - 1
  BY FS_RemoveElement
<1> QED
  BY <1>1, <1>2, <1>3

\* Task o knows what it knew, or more.
Same(o) ==
  \/ task'[o].pc \notin {"refresh", "insert", "evict"}
  \/ /\ task'[o].pc = task[o].pc /\ task'[o].on = task[o].on /\ task'[o].mark = task[o].mark
     /\ task'[o].full = task[o].full /\ task[o].over \subseteq task'[o].over

\* No session is added: whoever had room still has.
LEMMA BoundKeeps ==
  ASSUME SessionsAssumption, SessionsInv, BoundInv, Active' \subseteq Active, slack' = slack,
         \A o \in Tasks : Room(o)' \/ Same(o)
  PROVE  BoundInv'
<1>1. MaxSessions \in Nat /\ slack \in Nat
  BY DEF SessionsAssumption, SessionsInv, TypeOK
<1>2. IsFiniteSet(Active')
  BY FiniteActive DEF BoundInv
<1>3. SessionsBounded'
  BY <1>1, FiniteActive DEF BoundInv, SessionsBounded
<1>4. ASSUME NEW S PROVE /\ Cardinality(Active' \ S) \in Nat /\ Cardinality(Active \ S) \in Nat
                         /\ Cardinality(Active' \ S) <= Cardinality(Active \ S)
  <2>1. IsFiniteSet(Active \ S) /\ Cardinality(Active \ S) \in Nat /\ Cardinality(Active' \ S) \in Nat
    BY FiniteActive DEF BoundInv
  <2> QED
    BY <2>1, FS_Subset
<1>5. Cardinality(Active') \in Nat /\ Cardinality(Active) \in Nat /\ Cardinality(Active') <= Cardinality(Active)
  BY FiniteActive DEF BoundInv
<1>6. Limit' = Limit /\ Limit \in Nat
  BY <1>1 DEF Limit
<1>7. ASSUME NEW o \in Tasks, ~Room(o)' PROVE FALSE
  <2>1. Same(o) /\ "issue" \notin task'[o].over /\ task'[o].pc \in {"refresh", "insert", "evict"}
    BY <1>7 DEF Room
  <2>2. /\ task'[o].pc = task[o].pc /\ task'[o].on = task[o].on /\ task'[o].mark = task[o].mark
        /\ task'[o].full = task[o].full /\ "issue" \notin task[o].over /\ Room(o)
    BY <2>1 DEF Same, BoundInv
  <2>3. CASE task[o].pc = "refresh"
    <3>1. Cardinality(Active \ {task[o].on}) < Limit
      BY <2>2, <2>3 DEF Room
    <3>2. Cardinality(Active' \ {task[o].on}) < Limit
      <4>1. /\ Cardinality(Active' \ {task[o].on}) \in Nat /\ Cardinality(Active \ {task[o].on}) \in Nat
            /\ Cardinality(Active' \ {task[o].on}) <= Cardinality(Active \ {task[o].on})
        BY <1>4
      <4> QED
        BY <1>6, <3>1, <4>1
    <3> QED
      BY <1>6, <1>7, <2>2, <2>3, <3>2 DEF Room
  <2>4. CASE task[o].pc = "insert"
    <3>1. Cardinality(Active \ task[o].mark) < Limit
      BY <2>2, <2>4 DEF Room
    <3>2. Cardinality(Active' \ task[o].mark) < Limit
      <4>1. /\ Cardinality(Active' \ task[o].mark) \in Nat /\ Cardinality(Active \ task[o].mark) \in Nat
            /\ Cardinality(Active' \ task[o].mark) <= Cardinality(Active \ task[o].mark)
        BY <1>4
      <4> QED
        BY <1>6, <3>1, <4>1
    <3> QED
      BY <1>6, <1>7, <2>2, <2>4, <3>2 DEF Room
  <2>5. CASE task[o].pc = "evict"
    <3>1. ~task[o].full => Cardinality(Active) < Limit
      BY <2>2, <2>5 DEF Room
    <3>2. ~task[o].full => Cardinality(Active') < Limit
      BY <1>5, <1>6, <3>1
    <3> QED
      BY <1>6, <1>7, <2>2, <2>5, <3>2 DEF Room
  <2> QED
    BY <2>1, <2>2, <2>3, <2>4, <2>5
<1> QED
  BY <1>2, <1>3, <1>7 DEF BoundInv

\* Rows that are revoked or cleaned up, and the time that passes, add no session.
LEMMA NoneAdded ==
  ASSUME SessionsAssumption, SessionsInv, now' \in {now, now + 1},
         \A x \in Tokens : \/ token'[x] = token[x]
                           \/ token'[x] \in Session /\ (token'[x].revoked \/ ~token'[x].kept)
  PROVE  Active' \subseteq Active
<1> SUFFICES ASSUME NEW x \in Active' PROVE x \in Active
  OBVIOUS
<1>1. x \in Tokens /\ token'[x] # None /\ token'[x].kept /\ ~token'[x].revoked
      /\ now' < token'[x].born + TokenTTL
  BY DEF Active, Live, Row, Unexpired
<1>2. token'[x] = token[x]
  BY <1>1
<1>3. token[x] \in Session /\ now \in Nat /\ TokenTTL \in Nat
  BY <1>1, <1>2 DEF SessionsInv, TypeOK, SessionsAssumption
<1>4. token[x].born \in Nat
  BY <1>3 DEF Session
<1>5. now < token[x].born + TokenTTL
  BY <1>1, <1>2, <1>3, <1>4
<1> QED
  BY <1>1, <1>2, <1>5 DEF Active, Live, Row, Unexpired

\* A new session takes the room of its task, or is one more for others to know of.
LEMMA BoundIssue ==
  ASSUME SessionsAssumption, SessionsInv, BoundInv, NEW t \in Tasks, NEW n \in Tokens,
         NEW S \in SUBSET Tokens, \A x \in S : token[x] \in Session,
         Issue(t, n, S), now' = now,
         "issue" \notin task[t].over => Cardinality(Active \ S) < Limit
  PROVE  BoundInv'
<1>1. MaxSessions \in Nat /\ slack \in Nat
  BY DEF SessionsAssumption, SessionsInv, TypeOK
<1>2. /\ \A x \in S \ {n} : token'[x].revoked
      /\ \A x \in Tokens \ (S \cup {n}) : token'[x] = token[x]
  BY RevokedRows DEF Issue, SessionsInv
<1>3. Active' \subseteq (Active \ S) \cup {n}
  <2> SUFFICES ASSUME NEW x \in Active', x # n PROVE x \in Active \ S
    OBVIOUS
  <2>1. x \in Tokens \ (S \cup {n})
    BY <1>2 DEF Active, Live
  <2> QED
    BY <1>2, <2>1 DEF Active, Live, Row, Unexpired
<1>4. /\ IsFiniteSet((Active \ S) \cup {n})
      /\ Cardinality((Active \ S) \cup {n}) <= Cardinality(Active \ S) + 1
      /\ Cardinality((Active \ S) \cup {n}) \in Nat /\ Cardinality(Active \ S) \in Nat
      /\ Cardinality(Active) \in Nat /\ Cardinality(Active \ S) <= Cardinality(Active)
  BY FiniteActive DEF BoundInv
<1>5. /\ IsFiniteSet(Active') /\ Cardinality(Active') \in Nat
      /\ Cardinality(Active') <= Cardinality(Active \ S) + 1
  <2>1. IsFiniteSet(Active') /\ Cardinality(Active') <= Cardinality((Active \ S) \cup {n})
    BY <1>3, <1>4, FS_Subset
  <2>2. Cardinality(Active') \in Nat
    BY <2>1, FS_CardinalityType
  <2> QED
    BY <1>4, <2>1, <2>2
<1>6. SessionsBounded'
  <2>1. CASE "issue" \in task[t].over
    <3>1. slack' = slack + 1
      BY <2>1 DEF Issue
    <3> QED
      BY <1>1, <1>4, <1>5, <3>1 DEF BoundInv, SessionsBounded
  <2>2. CASE "issue" \notin task[t].over
    <3>1. slack' = slack
      BY <2>2 DEF Issue
    <3> QED
      BY <1>1, <1>4, <1>5, <2>2, <3>1 DEF Limit, SessionsBounded
  <2> QED
    BY <2>1, <2>2
<1>7. ASSUME NEW o \in Tasks PROVE Room(o)'
  <2>1. Idle \in Task /\ Idle.pc = "idle" /\ {"issue"} \in SUBSET Commits /\ Goes(t, Idle, {"issue"})
    BY IdleTask DEF Commits, Issue
  <2>2. task'[o].pc = "idle" \/ "issue" \in task'[o].over
    BY <2>1, GoesTask DEF SessionsInv
  <2> QED
    BY <2>2 DEF Room
<1> QED
  BY <1>5, <1>6, <1>7 DEF BoundInv

LEMMA ComeBound ==
  ASSUME SessionsAssumption, SessionsInv, BoundInv, NEW t \in Tasks, Come(t)
  PROVE  BoundInv'
<1>1. token' = token /\ slack' = slack /\ now' = now
  BY DEF Come, StartLogin, StartOAuth, StartForgot, StartChange, StartSuspend, StartRefresh,
     StartLogout, StartRevokeSession, StartReset
<1>2. Active' = Active
  BY <1>1 DEF Active, Live, Row, Unexpired
<1>3. task \in [Tasks -> Task]
  BY DEF SessionsInv, TypeOK, Task, Commits
<1>4. \A o \in Tasks \ {t} : task'[o] = task[o]
  BY <1>3 DEF Come, StartLogin, StartOAuth, StartForgot, StartChange, StartSuspend, StartRefresh,
     StartLogout, StartRevokeSession, StartReset, Starts
<1>5. Room(t)' \/ Same(t)
  <2>1. CASE \E x \in Tokens : StartRefresh(t, x)
    <3>1. PICK x \in Tokens : StartRefresh(t, x)
      BY <2>1
    <3>2. CASE token[x].revoked /\ Starts(t, "reuse", x, 0, {})
      BY <1>3, <3>2 DEF Starts, Idle, Same
    <3>3. CASE Live(x) /\ \E epoch, over : Starts(t, "refresh", x, epoch, over)
      <4>1. task'[t].pc = "refresh" /\ task'[t].on = x
        BY <1>3, <3>3 DEF Starts, Idle
      <4>2. Cardinality(Active \ {x}) = Cardinality(Active) - 1 /\ Cardinality(Active) \in Nat
        BY <3>3, FiniteActive DEF BoundInv, Active
      <4>3. Cardinality(Active) <= Limit /\ Limit \in Nat
        BY DEF BoundInv, SessionsBounded, Limit, SessionsAssumption, SessionsInv, TypeOK
      <4>4. Cardinality(Active \ {x}) < Limit
        BY <4>2, <4>3
      <4> QED
        BY <1>1, <1>2, <4>1, <4>4 DEF Room, Limit
    <3> QED
      BY <3>1, <3>2, <3>3 DEF StartRefresh
  <2>2. CASE StartOAuth(t)
    BY <1>3, <2>2 DEF StartOAuth, Starts, Idle, Room
  <2>3. CASE ~StartOAuth(t) /\ ~\E x \in Tokens : StartRefresh(t, x)
    <3>1. task'[t].pc \in {"count", "forgot", "change", "suspended", "revoke", "reset"}
      BY <1>3, <2>3 DEF Come, StartLogin, StartForgot, StartChange, StartSuspend, StartLogout,
         StartRevokeSession, StartReset, Starts, Idle
    <3> QED
      BY <3>1 DEF Same
  <2> QED
    BY <2>1, <2>2, <2>3
<1>6. \A o \in Tasks : Room(o)' \/ Same(o)
  BY <1>4, <1>5 DEF Same
<1> QED
  BY <1>1, <1>2, <1>6, BoundKeeps

\* A login counts, and chooses the session that will go if there is no room.
LEMMA LoginBound ==
  ASSUME SessionsAssumption, SessionsInv, BoundInv, NEW t \in Tasks, CountSessions(t) \/ RevokeOldest(t)
  PROVE  BoundInv'
<1>1. token' = token /\ slack' = slack /\ now' = now
  BY DEF CountSessions, RevokeOldest
<1>2. Active' = Active /\ Limit' = Limit
  BY <1>1 DEF Active, Live, Row, Unexpired, Limit
<1>3. task \in [Tasks -> Task] /\ task[t] \in Task
  BY DEF SessionsInv, TypeOK, Task, Commits
<1>4. \A o \in Tasks \ {t} : task'[o] = task[o]
  BY <1>3 DEF CountSessions, RevokeOldest
<1>5. /\ MaxSessions \in Nat \ {0} /\ slack \in Nat /\ Limit \in Nat \ {0} /\ MaxSessions <= Limit
      /\ Cardinality(Active) \in Nat /\ Cardinality(Active) <= Limit
  BY FiniteActive DEF BoundInv, SessionsBounded, Limit, SessionsAssumption, SessionsInv, TypeOK
<1>6. Room(t)'
  <2>1. CASE CountSessions(t)
    <3>1. task'[t].pc = "evict" /\ (~task'[t].full => ~(Cardinality(Active) >= MaxSessions))
      BY <1>3, <2>1 DEF CountSessions, Task
    <3>2. ~task'[t].full => Cardinality(Active) < Limit
      BY <1>5, <3>1
    <3> QED
      BY <1>2, <3>1, <3>2 DEF Room
  <2>2. CASE RevokeOldest(t)
    <3>1. PICK S \in SUBSET Tokens :
            /\ IF task[t].full /\ Active # {} THEN \E x \in Tokens : Oldest(x) /\ S = {x} ELSE S = {}
            /\ task' = [task EXCEPT ![t] = [@ EXCEPT !.pc = "insert", !.mark = S]]
      BY <2>2 DEF RevokeOldest
    <3>2. /\ task'[t].pc = "insert" /\ task'[t].mark = S /\ task'[t].over = task[t].over
          /\ task[t].pc = "evict"
      BY <1>3, <2>2, <3>1 DEF RevokeOldest, Task
    <3>3. "issue" \notin task[t].over => Cardinality(Active \ S) < Limit
      <4>1. CASE task[t].full /\ Active # {}
        <5>1. PICK x \in Active : S = {x}
          BY <3>1, <4>1 DEF Oldest
        <5>2. Cardinality(Active \ S) = Cardinality(Active) - 1
          BY <5>1, FiniteActive DEF BoundInv
        <5> QED
          BY <1>5, <5>2
      <4>2. CASE Active = {}
        <5>1. Cardinality(Active \ S) = 0
          BY <4>2, FS_EmptySet
        <5> QED
          BY <1>5, <5>1
      <4>3. CASE ~task[t].full
        <5>1. Active \ S = Active
          BY <3>1, <4>3
        <5>2. "issue" \notin task[t].over => Cardinality(Active) < Limit
          BY <3>2, <4>3 DEF BoundInv, Room
        <5> QED
          BY <5>1, <5>2
      <4> QED
        BY <4>1, <4>2, <4>3
    <3> QED
      BY <1>2, <3>2, <3>3 DEF Room
  <2> QED
    BY <2>1, <2>2
<1>7. \A o \in Tasks : Room(o)' \/ Same(o)
  BY <1>4, <1>6 DEF Same
<1> QED
  BY <1>1, <1>2, <1>7, BoundKeeps

LEMMA ProceedBound ==
  ASSUME SessionsAssumption, SessionsInv, BoundInv, NEW t \in Tasks, Proceed(t) \/ Fail(t)
  PROVE  BoundInv'
<1>0. TypeOK /\ task[t] \in Task /\ task \in [Tasks -> Task]
  BY DEF SessionsInv, TypeOK, Task, Commits
\* Sessions end, and the task ends or goes on to what adds none.
<1>1. ASSUME NEW S \in SUBSET Tokens, \A x \in S : token[x] \in Session, token' = RevokedBy(S),
             NEW k \in Task, k.pc \in {"idle", "clear"}, NEW c \in SUBSET Commits, Goes(t, k, c),
             slack' = slack, now' = now
      PROVE  BoundInv'
  <2>1. Active' \subseteq Active
    <3>1. \A x \in Tokens : token'[x] = token[x] \/ (token'[x] \in Session /\ token'[x].revoked)
      BY <1>0, <1>1, RevokedRows
    <3> QED
      BY <1>1, <3>1, NoneAdded
  <2>2. \A o \in Tasks : Same(o)
    BY <1>0, <1>1, GoesTask DEF Same
  <2> QED
    BY <1>1, <2>1, <2>2, BoundKeeps
<1>2. CASE CountSessions(t) \/ RevokeOldest(t)
  BY <1>2, LoginBound
<1>3. CASE RevokeReused(t) \/ ChangePassword(t) \/ RevokeSuspended(t)
  <2>1. All \in SUBSET Tokens /\ token' = RevokedBy(All)
    BY <1>3 DEF RevokeReused, ChangePassword, RevokeSuspended, EndAll, All
  <2>2. Goes(t, Idle, {"epoch"}) /\ slack' = slack /\ now' = now
    BY <1>3 DEF RevokeReused, ChangePassword, RevokeSuspended
  <2> QED
    BY <1>0, <1>1, <2>1, <2>2, AllRows, IdleTask DEF Commits
<1>4. CASE RevokeOne(t)
  <2> DEFINE S == {task[t].on} \cap All
  <2>1. S \in SUBSET Tokens /\ (\A x \in S : token[x] \in Session) /\ token' = RevokedBy(S)
    BY <1>0, <1>4, AllRows DEF RevokeOne
  <2>2. Goes(t, Idle, {}) /\ slack' = slack /\ now' = now
    BY <1>4 DEF RevokeOne
  <2> HIDE DEF S
  <2> QED
    BY <1>1, <2>1, <2>2, IdleTask
<1>5. CASE ResetPassword(t)
  <2>1. All \in SUBSET Tokens /\ token' = RevokedBy(All)
    BY <1>5 DEF ResetPassword, EndAll, All
  <2>2. /\ Goes(t, [task[t] EXCEPT !.pc = "clear"], {"epoch", "reset"})
        /\ slack' = slack /\ now' = now
    BY <1>5 DEF ResetPassword
  <2>3. [task[t] EXCEPT !.pc = "clear"] \in Task /\ [task[t] EXCEPT !.pc = "clear"].pc = "clear"
    BY <1>0 DEF Task, Phases
  <2> QED
    BY <1>0, <1>1, <2>1, <2>2, <2>3, AllRows DEF Commits
<1>6. CASE ClearMustReset(t) \/ Fail(t) \/ \E n \in Resets : Forgot(t, n)
  <2>1. token' = token /\ slack' = slack /\ now' = now
        /\ (Goes(t, Idle, {}) \/ Goes(t, Idle, {"reset"}))
    BY <1>6 DEF ClearMustReset, Fail, Forgot
  <2>2. {} \in SUBSET Commits /\ {"reset"} \in SUBSET Commits
    BY DEF Commits
  <2> QED
    BY <1>0, <1>1, <2>1, <2>2, IdleTask, NoneRevoked
<1>7. ASSUME NEW n \in Tokens, InsertSession(t, n) PROVE BoundInv'
  <2>1. task[t].mark \in SUBSET Tokens /\ \A x \in task[t].mark : token[x] \in Session
    BY <1>7 DEF InsertSession, SessionsInv, TaskInv, TaskOK
  <2>2. "issue" \notin task[t].over => Cardinality(Active \ task[t].mark) < Limit
    BY <1>7 DEF InsertSession, BoundInv, Room
  <2> QED
    BY <1>7, <2>1, <2>2, BoundIssue DEF InsertSession
<1>8. ASSUME NEW n \in Tokens, Rotate(t, n) PROVE BoundInv'
  <2> DEFINE S == {task[t].on} \cap All
  <2>1. S \in SUBSET Tokens /\ \A x \in S : token[x] \in Session
    BY <1>0, AllRows
  <2>2. Active \ S = Active \ {task[t].on}
    BY DEF Active, Live, All
  <2>3. "issue" \notin task[t].over => Cardinality(Active \ S) < Limit
    BY <1>8, <2>2 DEF Rotate, BoundInv, Room
  <2>4. Issue(t, n, S) /\ now' = now
    BY <1>8 DEF Rotate
  <2> HIDE DEF S
  <2> QED
    BY <2>1, <2>3, <2>4, BoundIssue
<1> QED
  BY <1>2, <1>3, <1>4, <1>5, <1>6, <1>7, <1>8 DEF Proceed

LEMMA OthersBound ==
  ASSUME SessionsAssumption, SessionsInv, BoundInv,
         Unsuspend \/ ForceReset \/ CleanTokens \/ CleanResets \/ Tick \/ UNCHANGED vars
  PROVE  BoundInv'
<1>1. task' = task /\ slack' = slack /\ now' \in {now, now + 1}
  BY DEF Unsuspend, ForceReset, CleanTokens, CleanResets, Tick, vars
<1>2. \A x \in Tokens : token'[x] = token[x] \/ (token'[x] \in Session /\ ~token'[x].kept)
  <2>1. CASE CleanTokens
    <3> TAKE x \in Tokens
    <3>1. CASE token[x] # None /\ Old(token, x, TokenTTL, token[x].revoked)
      <4>1. token'[x] = [token[x] EXCEPT !.kept = FALSE]
        BY <2>1, <3>1 DEF CleanTokens
      <4>2. token[x] \in Session
        BY <3>1 DEF SessionsInv, TypeOK
      <4>3. PICK row \in Session : row = token[x]
        BY <4>2
      <4>4. [row EXCEPT !.kept = FALSE] \in Session /\ ~[row EXCEPT !.kept = FALSE].kept
        BY DEF Session
      <4> QED
        BY <4>1, <4>3, <4>4
    <3>2. CASE ~(token[x] # None /\ Old(token, x, TokenTTL, token[x].revoked))
      BY <2>1, <3>2 DEF CleanTokens
    <3> QED
      BY <3>1, <3>2
  <2>2. CASE ~CleanTokens
    BY <2>2 DEF Unsuspend, ForceReset, CleanResets, Tick, vars
  <2> QED
    BY <2>1, <2>2
<1>3. Active' \subseteq Active
  BY <1>1, <1>2, NoneAdded
<1>4. \A o \in Tasks : Same(o)
  BY <1>1 DEF Same
<1> QED
  BY <1>1, <1>3, <1>4, BoundKeeps

\* Logins and refreshes of any number of requests, with expiry, logout, new passwords
\* and cleanup at any point, keep the sessions within MAX_SESSIONS, but for those issued
\* by OAuth or beside another issue.
THEOREM SpecSessionsBounded == ASSUME SessionsAssumption PROVE Spec => []SessionsBounded
<1>1. Init => SessionsInv /\ BoundInv
  <2> SUFFICES ASSUME Init PROVE BoundInv
    BY InitSessions
  <2>1. Active = {}
    BY DEF Init, Active, Live, Row
  <2>2. IsFiniteSet(Active) /\ SessionsBounded
    BY <2>1, FS_EmptySet DEF Init, SessionsBounded, SessionsAssumption
  <2>3. \A t \in Tasks : Room(t)
    BY DEF Init, Idle, Room
  <2> QED
    BY <2>2, <2>3 DEF BoundInv
<1>2. SessionsInv /\ BoundInv /\ [Next]_vars => (SessionsInv /\ BoundInv)'
  BY NextPreserves, ComeBound, ProceedBound, OthersBound DEF Next
<1>3. BoundInv => SessionsBounded
  BY DEF BoundInv
<1>4. QED
  BY <1>1, <1>2, <1>3, PTL DEF Spec
=============================================================================
