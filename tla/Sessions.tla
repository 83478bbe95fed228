------------------------------ MODULE Sessions -------------------------------
(***************************************************************************)
(* The sessions of one user: rows of refresh_tokens and                    *)
(* password_reset_tokens under login, refresh, logout, the OAuth callback, *)
(* forgotten, reset and changed passwords (src/src/auth/service.rs), what  *)
(* an admin does to the user (src/src/admin/service.rs) and the cleanup of *)
(* tokens (src/src/scheduler/service.rs).                                  *)
(***************************************************************************)
EXTENDS Naturals, FiniteSets

CONSTANTS
  Tokens,       \* the refresh tokens that can come to be
  Resets,       \* the password reset tokens that can come to be
  Tasks,        \* requests in flight
  MaxSessions,  \* MAX_SESSIONS: 5
  TokenTTL,     \* life of a refresh token: 30 days
  ResetTTL,     \* life of a reset token: 30 minutes
  Keep,         \* how long revoked and used tokens are kept: 7 days
  TimeBound,    \* bound of the clock
  RequestBound, \* bound: requests that are made
  None

ASSUME SessionsAssumption ==
  /\ {MaxSessions, TokenTTL, ResetTTL, Keep, TimeBound, RequestBound} \subseteq Nat
  /\ MaxSessions > 0 /\ None \notin Tokens \cup Resets

VARIABLES
  token,     \* refresh_tokens: None or [born, revoked, kept] and the history of its login
  reset,     \* password_reset_tokens: None or [born, used, kept] and its clean uses
  user,      \* the row of users: status, mustReset; epoch counts what ended all sessions:
             \* a new password, a suspension, a token used twice
  task,      \* the task of each request
  slack,     \* history: sessions issued by OAuth or beside another issue
  requests, now

vars == <<token, reset, user, task, slack, requests, now>>

\* A row that was cleaned up stays in the map with kept = FALSE, so that no id is reused.
Row(f, x) == f[x] # None /\ f[x].kept
Unexpired(x) == now < token[x].born + TokenTTL
Live(x) == Row(token, x) /\ ~token[x].revoked /\ Unexpired(x)
Active == {x \in Tokens : Live(x)}

\* Commits of others that a task has run beside: "issue", "epoch" or "reset"
Idle == [pc |-> "idle", on |-> None, full |-> FALSE, mark |-> {}, epoch |-> 0, over |-> {}]

Init ==
  /\ token = [x \in Tokens |-> None] /\ reset = [r \in Resets |-> None]
  /\ user = [epoch |-> 0, status |-> "active", mustReset |-> FALSE]
  /\ task = [t \in Tasks |-> Idle] /\ slack = 0 /\ requests = 0 /\ now = 0

Starts(t, pc, x, epoch, over) ==
  /\ task[t].pc = "idle" /\ requests < RequestBound /\ requests' = requests + 1
  /\ task' = [task EXCEPT ![t] = [Idle EXCEPT !.pc = pc, !.on = x, !.epoch = epoch, !.over = over]]

\* Task t goes on, or ends; the others have run beside what it commits.
Goes(t, next, commit) ==
  task' = [o \in Tasks |-> IF o = t THEN next
                           ELSE IF task[o].pc = "idle" THEN Idle
                           ELSE [task[o] EXCEPT !.over = @ \cup commit]]

RevokedBy(S) == [x \in Tokens |-> IF x \in S THEN [token[x] EXCEPT !.revoked = TRUE] ELSE token[x]]
All == {x \in Tokens : Row(token, x)}

\* UPDATE refresh_tokens SET revoked = true WHERE user_id = $1
EndAll == token' = RevokedBy(All) /\ user' = [user EXCEPT !.epoch = @ + 1]

New(epoch, over) == [born |-> now, revoked |-> FALSE, kept |-> TRUE, epoch |-> epoch, over |-> over]

\* INSERT INTO refresh_tokens, in the transaction that revokes the rows S
Issue(t, n, S) ==
  /\ token[n] = None
  /\ token' = [RevokedBy(S) EXCEPT ![n] = New(task[t].epoch, "epoch" \in task[t].over)]
  /\ slack' = IF "issue" \in task[t].over THEN slack + 1 ELSE slack
  /\ Goes(t, Idle, {"issue"})
-----------------------------------------------------------------------------
(* login: read the user and verify the password; in a transaction, count, revoke *)
(* the oldest if there are too many, insert.                                     *)

StartLogin(t) ==
  /\ Starts(t, "count", None, user.epoch, {}) /\ UNCHANGED <<token, reset, user, slack, now>>

\* Mutant: one session more than the limit is let in before the oldest goes.
CountSessions_OneMore(t) ==
  /\ task[t].pc = "count"
  /\ task' = [task EXCEPT ![t].pc = "evict", ![t].full = Cardinality(Active) > MaxSessions,
                          ![t].over = @ \ {"issue"}]
  /\ UNCHANGED <<token, reset, user, slack, requests, now>>

CountSessions(t) ==
  /\ task[t].pc = "count"
  /\ task' = [task EXCEPT ![t].pc = "evict", ![t].full = Cardinality(Active) >= MaxSessions,
                          ![t].over = @ \ {"issue"}]
  /\ UNCHANGED <<token, reset, user, slack, requests, now>>

Oldest(x) == x \in Active /\ \A y \in Active : token[x].born <= token[y].born

RevokeOldest(t) ==
  /\ task[t].pc = "evict"
  /\ \E S \in SUBSET Tokens :
       /\ IF task[t].full /\ Active # {} THEN \E x \in Tokens : Oldest(x) /\ S = {x} ELSE S = {}
       /\ task' = [task EXCEPT ![t] = [@ EXCEPT !.pc = "insert", !.mark = S]]
  /\ UNCHANGED <<token, reset, user, slack, requests, now>>

InsertSession(t, n) ==
  /\ task[t].pc = "insert" /\ Issue(t, n, task[t].mark)
  /\ UNCHANGED <<reset, user, requests, now>>

\* oauth_callback inserts without a look at the other sessions.
StartOAuth(t) ==
  /\ Starts(t, "insert", None, user.epoch, {"issue"})
  /\ UNCHANGED <<token, reset, user, slack, now>>

(* refresh_token: a revoked token is taken for theft, an expired one is refused. *)

StartRefresh(t, x) ==
  /\ Row(token, x)
  /\ \/ token[x].revoked /\ Starts(t, "reuse", x, 0, {})
     \/ Live(x) /\ Starts(t, "refresh", x, token[x].epoch,
                          IF token[x].over THEN {"epoch"} ELSE {})
  /\ UNCHANGED <<token, reset, user, slack, now>>

RevokeReused(t) ==
  /\ task[t].pc = "reuse" /\ EndAll /\ Goes(t, Idle, {"epoch"})
  /\ UNCHANGED <<reset, slack, requests, now>>

Rotate(t, n) ==
  /\ task[t].pc = "refresh" /\ Issue(t, n, {task[t].on} \cap All)
  /\ UNCHANGED <<reset, user, requests, now>>

(* logout and revoke_session read the row, then revoke it.                      *)

StartLogout(t, x) ==
  /\ Row(token, x) /\ ~token[x].revoked /\ Starts(t, "revoke", x, 0, {})
  /\ UNCHANGED <<token, reset, user, slack, now>>

StartRevokeSession(t, x) ==
  /\ Live(x) /\ Starts(t, "revoke", x, 0, {}) /\ UNCHANGED <<token, reset, user, slack, now>>

RevokeOne(t) ==
  /\ task[t].pc = "revoke" /\ token' = RevokedBy({task[t].on} \cap All) /\ Goes(t, Idle, {})
  /\ UNCHANGED <<reset, user, slack, requests, now>>
-----------------------------------------------------------------------------
(* Passwords: forgot_password, reset_password, change_password                  *)

Usable(r) == Row(reset, r) /\ ~reset[r].used /\ now <= reset[r].born + ResetTTL

\* The UPDATE sees what is committed.
StartForgot(t) ==
  /\ task[t].pc = "idle" /\ requests < RequestBound /\ requests' = requests + 1
  /\ task' = [task EXCEPT ![t] = [Idle EXCEPT !.pc = "forgot",
                                  !.mark = {r \in Resets : Row(reset, r) /\ ~reset[r].used}]]
  /\ UNCHANGED <<token, reset, user, slack, now>>

Forgot(t, n) ==
  /\ task[t].pc = "forgot" /\ reset[n] = None /\ Goes(t, Idle, {"reset"})
  /\ reset' = [r \in Resets |->
       IF r = n THEN [born |-> now, used |-> FALSE, kept |-> TRUE, uses |-> 0]
       ELSE IF r \in task[t].mark THEN [reset[r] EXCEPT !.used = TRUE] ELSE reset[r]]
  /\ UNCHANGED <<token, user, slack, requests, now>>

StartReset(t, r) ==
  /\ Usable(r) /\ Starts(t, "reset", r, 0, {}) /\ UNCHANGED <<token, reset, user, slack, now>>

\* Mutant: the token is not marked.
ResetPassword_KeepsToken(t) ==
  LET r == task[t].on
  IN /\ task[t].pc = "reset" /\ EndAll
     /\ reset' = [reset EXCEPT ![r].uses = IF "reset" \in task[t].over THEN @ ELSE @ + 1]
     /\ Goes(t, [task[t] EXCEPT !.pc = "clear"], {"epoch", "reset"})
     /\ UNCHANGED <<slack, requests, now>>

ResetPassword(t) ==
  LET r == task[t].on
  IN /\ task[t].pc = "reset" /\ EndAll
     /\ reset' = [reset EXCEPT ![r].used = TRUE,
                               ![r].uses = IF "reset" \in task[t].over THEN @ ELSE @ + 1]
     /\ Goes(t, [task[t] EXCEPT !.pc = "clear"], {"epoch", "reset"})
     /\ UNCHANGED <<slack, requests, now>>

\* A statement of its own after the commit
ClearMustReset(t) ==
  /\ task[t].pc = "clear" /\ user' = [user EXCEPT !.mustReset = FALSE] /\ Goes(t, Idle, {})
  /\ UNCHANGED <<token, reset, slack, requests, now>>

StartChange(t) ==
  /\ Starts(t, "change", None, user.epoch, {}) /\ UNCHANGED <<token, reset, user, slack, now>>

\* Mutant: the new password leaves the sessions alone.
ChangePassword_KeepsSessions(t) ==
  /\ task[t].pc = "change" /\ user' = [user EXCEPT !.epoch = @ + 1]
  /\ Goes(t, Idle, {"epoch"}) /\ UNCHANGED <<token, reset, slack, requests, now>>

ChangePassword(t) ==
  /\ task[t].pc = "change" /\ EndAll /\ Goes(t, Idle, {"epoch"})
  /\ UNCHANGED <<reset, slack, requests, now>>
-----------------------------------------------------------------------------
(* suspend_user sets the status and revokes in two statements; unsuspend_user and *)
(* force_password_reset have one.                                                 *)

StartSuspend(t) ==
  /\ Starts(t, "suspended", None, 0, {}) /\ user' = [user EXCEPT !.status = "suspended"]
  /\ UNCHANGED <<token, reset, slack, now>>

RevokeSuspended(t) ==
  /\ task[t].pc = "suspended" /\ EndAll /\ Goes(t, Idle, {"epoch"})
  /\ UNCHANGED <<reset, slack, requests, now>>

Unsuspend ==
  /\ user.status = "suspended" /\ user' = [user EXCEPT !.status = "active"]
  /\ UNCHANGED <<token, reset, task, slack, requests, now>>

ForceReset ==
  /\ ~user.mustReset /\ user' = [user EXCEPT !.mustReset = TRUE]
  /\ UNCHANGED <<token, reset, task, slack, requests, now>>

\* An error, a lost connection or a killed process
Fail(t) ==
  /\ task[t].pc # "idle" /\ Goes(t, Idle, {})
  /\ UNCHANGED <<token, reset, user, slack, requests, now>>

(* expired_token_cleanup: two DELETEs, each with the ages of its table.         *)

Old(f, x, ttl, done) ==
  Row(f, x) /\ (f[x].born + ttl < now \/ (done /\ f[x].born + Keep < now))

CleanTokens ==
  /\ token' = [x \in Tokens |-> IF token[x] # None /\ Old(token, x, TokenTTL, token[x].revoked)
                                  THEN [token[x] EXCEPT !.kept = FALSE] ELSE token[x]]
  /\ token' # token /\ UNCHANGED <<reset, user, task, slack, requests, now>>

CleanResets ==
  /\ reset' = [r \in Resets |-> IF reset[r] # None /\ Old(reset, r, ResetTTL, reset[r].used)
                                  THEN [reset[r] EXCEPT !.kept = FALSE] ELSE reset[r]]
  /\ reset' # reset /\ UNCHANGED <<token, user, task, slack, requests, now>>

Tick == now < TimeBound /\ now' = now + 1 /\ UNCHANGED <<token, reset, user, task, slack, requests>>
-----------------------------------------------------------------------------
Come(t) ==
  \/ StartLogin(t) \/ StartOAuth(t) \/ StartForgot(t) \/ StartChange(t) \/ StartSuspend(t)
  \/ \E x \in Tokens : StartRefresh(t, x) \/ StartLogout(t, x) \/ StartRevokeSession(t, x)
  \/ \E r \in Resets : StartReset(t, r)

Proceed(t) ==
  \/ CountSessions(t) \/ RevokeOldest(t) \/ RevokeReused(t) \/ RevokeOne(t) \/ ResetPassword(t)
  \/ ClearMustReset(t) \/ ChangePassword(t) \/ RevokeSuspended(t)
  \/ \E n \in Tokens : InsertSession(t, n) \/ Rotate(t, n)
  \/ \E n \in Resets : Forgot(t, n)

Next ==
  \/ \E t \in Tasks : Come(t) \/ Proceed(t) \/ Fail(t)
  \/ Unsuspend \/ ForceReset \/ CleanTokens \/ CleanResets \/ Tick

Spec == Init /\ [][Next]_vars
-----------------------------------------------------------------------------
Session == [born: Nat, revoked: BOOLEAN, kept: BOOLEAN, epoch: Nat, over: BOOLEAN]
Phases == {"idle", "count", "evict", "insert", "reuse", "refresh", "revoke", "forgot", "reset",
           "clear", "change", "suspended"}

TypeOK ==
  /\ token \in [Tokens -> {None} \cup Session]
  /\ reset \in [Resets -> {None} \cup [born: Nat, used: BOOLEAN, kept: BOOLEAN, uses: Nat]]
  /\ user \in [epoch: Nat, status: {"active", "suspended"}, mustReset: BOOLEAN]
  /\ task \in [Tasks -> [pc: Phases, on: Tokens \cup Resets \cup {None}, full: BOOLEAN,
                         mark: SUBSET (Tokens \cup Resets), epoch: Nat,
                         over: SUBSET {"issue", "epoch", "reset"}]]
  /\ {slack, requests, now} \subseteq Nat

\* A user has at most MAX_SESSIONS sessions and as many more as were issued by OAuth
\* or by requests that ran beside another issue: logins and refreshes one after the
\* other, with expiry, logout and cleanup at any point, stay within the limit.
SessionsBounded == Cardinality(Active) <= MaxSessions + slack

\* When all sessions of the user are ended, by a new password, a suspension or a
\* token used twice, none of them goes on, not even through a rotation: a live session
\* of an earlier login comes from a request that was in flight at that moment.
EndedForGood ==
  \A x \in Active : token[x].epoch < user.epoch => token[x].over

\* A reset token changes the password once, however forgotten and reset passwords
\* interleave, except by requests that ran beside another change of the tokens.
ResetOnce == \A r \in Resets : reset[r] # None => reset[r].uses <= 1
=============================================================================
