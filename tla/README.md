# Ursnip backend: specifications, model checking and proofs

The backend is a Rust service (axum, sqlx on Postgres, tokio) that stores text
snippets for teams and keeps their devices in step. This directory holds TLA+
modules for its stateful parts, the TLC configurations that check them, and
TLAPS proofs. `PROJECT.json` maps every definition to the lines it models and
lists runs, mutants, findings, hazards and theorems.

## 1. Inventory

Paths are relative to the repository root; the Rust crate is `src/src/`.

| Component | State | Operations | What makes it correct |
|---|---|---|---|
| Sync service (`sync/service.rs`) | tables `snippets`, `folders`, `snippet_folders`, `sync_deltas`; the advisory lock of a workspace | create, update, delete of snippets and folders; batches; snapshot; delta pages | versions distinct and increasing, one delta per row write, all or nothing, unique triggers, replicas converge |
| Sync handlers (`sync/handlers.rs`) | none | HTTP in front of the service; broadcast after commit | what is committed reaches the connected devices |
| Session registry (`sync/session_registry.rs`) | two maps of sessions and a counter, each under its own locks | register, unregister, broadcast, close by user, workspace, all | counter equals sessions, the maps agree, limits hold, nothing is delivered after a close |
| WebSocket connection (`sync/websocket.rs`) | per connection: heartbeat, idle deadline, channel | register, catch-up, write task, read loop, unregister | no version lost between catch-up and broadcast. The route is not mounted (`ws_handler` answers 501) |
| Scheduler (`scheduler/service.rs`) | none of its own | six periodic tasks, retried on transient errors | retention, retry of partly done tasks, account deletion, an orderly stop |
| Authentication (`auth/service.rs`, `auth/oauth.rs`) | users, refresh tokens, reset tokens, change requests, admin invites, login failures | registration, login, OAuth, refresh, logout, reset, change of password and email, deletion | one account per address; what ends sessions ends all of them; a token is used once; lockout |
| Subscriptions (`subscription/`) | subscriptions, coupons, discounts, tax rates, webhook events, invoices | upgrade, checkout, coupon validation, webhooks | an event is applied at most once; a coupon within its uses and every use counted; invoices that add up |
| Workspaces (`workspace/service.rs`) | members, team invites | create, invite, join, remove | seats and uses within limits, every use counted |
| AI expansion (`ai/service.rs`) | usage timestamps, a semaphore | quota, permit, record | quota within its limit, permits neither lost nor made, every request ends |
| Rate limiter (`middleware/rate_limit.rs`) | a window of timestamps per key | check and record | no more than the limit in any window, an honest `Retry-After` |
| Admin (`admin/service.rs`) | all of the above | suspend, delete, demote, extend, override, coupons, discounts, taxes | an admin stays; requests in flight do not undo a suspension |
| Start-up and shutdown (`main.rs`) | the stop signal, the pool | shutdown on a signal | the process ends; a scheduled run is not cut off unless it is late |

Most state is in Postgres, and the components talk to each other through it: the
service methods run at READ COMMITTED, so what one method reads may be stale when
it writes. The session registry, the rate limiter's windows, the failed logins, the AI
quota and the semaphore are shared memory between tokio tasks.

The behaviours that are hard here are checks made before a lock or without one,
statements of two transactions in an unexpected order, work left half done by a
crash or a dropped connection, maintenance that removes what a counter or a
cursor relies on, waits without a timeout, and arithmetic at its edges. The list, with lines, is in
`PROJECT.json` under `hazards`.

## 2. Modules

| Module | Models | Proofs |
|---|---|---|
| `SyncStore` | the tables of one workspace and the transactions on them | `SyncProofs` |
| `SyncReader` | a device that reads snapshots and delta pages beside `SyncStore` | `SyncProofs` |
| `SessionRegistry` | the registry's two maps and counter, and the connections and closes that use it | `RegistryProofs` |
| `Billing` | one workspace's subscription: webhook deliveries, upgrade, checkout, admins, deadlines | `BillingProofs` |
| `Accounts` | users from registration to the scheduler's hard delete | `AccountsProofs` |
| `Sessions` | refresh and reset tokens of one user | `SessionsProofs` |
| `CheckThenAct` | the abstract specification of a limit that is checked first and used up later | `CheckThenActProofs` |
| `TeamSeats` | members and invites of one team | `LimitsProofs` |
| `Coupons` | checkouts with a coupon or a discount, and the invoice | `LimitsProofs` |
| `Admins` | the last admin, admin invites | `LimitsProofs` |
| `Lockout` | failed logins of one address | `LimitsProofs` |
| `Window` | a deque of timestamps whose stale front is dropped | `ProcessProofs` |
| `RateLimit` | the sliding window of one key | `ProcessProofs` |
| `AiExpansion` | quota, permits and usage of one user | `ProcessProofs` |
| `Shutdown` | the scheduler's loops and retries, requests, and the end of the process | `ProcessProofs` |

`SyncReader` composes with `SyncStore`. `TeamSeats`, `Coupons`, `Admins`, `Lockout` and
`AiExpansion` each implement `CheckThenAct` under a refinement mapping. The tables meet
in several modules: a suspension is in `Sessions`, a plan that changes in `SyncStore`,
`Billing` and `AiExpansion`, a hard delete in `Accounts`. `MC*` modules hold the constants
for TLC. `Window` is what `RateLimit` and the quota of `AiExpansion` have in common: both
keep timestamps in a deque and drop the stale ones from its front. `MCLimits` and `MCProcess` put components that share no state into one
run: the variable `side` says at the start which of them the behaviour is of, so
that their states add instead of multiplying.

### SyncStore

One workspace. A request is a record `tx[c]` with a program counter; every SQL
statement between `begin` and `commit` of the methods of `SyncService` is an
action, so that requests interleave between any two statements.

* `Begin`/`BeginBatch` receive a request. `FetchExisting`, `VerifyMembership`,
  `LoadSubscription`, `EnforceLimits`, `CheckTrigger` are the reads and checks in
  the order the code runs them; `NextInBatch` starts the next operation of a batch.
* `TakeLock` is `pg_advisory_xact_lock`, re-entrant and held until the
  transaction ends; `AssignVersion` reads `COALESCE(MAX(version), 0) + 1`.
* `WriteRow` is the row write, the delta and the folder link. They follow each
  other under the lock inside one transaction, and no other transaction can see
  any of them before the commit, so they are one action.
* `Commit` publishes; `Reject` is every early return with an error; `Drop` is a lost
  connection or a crash at any statement: Postgres rolls back.
* `Visible(c)` is what a statement of `c` reads: the committed rows under the
  transaction's own writes.
* `DeltaPurge`, `CleanupSnippets`, `CleanupFolders` are the scheduler's tasks on
  these tables. They take no lock; `Clean` waits for rows an open transaction has
  written or holds a foreign-key lock on.
* `ChangePlan` and `RemoveMember` are what billing and workspaces do to the rows
  the requests read. Both are left free: they may happen at any time.

Abstracted: payloads are a trigger and a body; "deleted for longer than the
retention" is measured in ticks of `now`, and no transaction spans two ticks,
as the retention is 30 days.

### SyncReader

Extends `SyncStore` with one device. `ReadVersion`, `ReadSnippets` and
`ReadFolders` are the three queries of `get_snapshot`, which run on the pool and
not in a transaction; `Poll` and `ReadPage` are the two of `get_deltas`. The client
is external: it replays a page in version order and asks again from
`next_since_version`. `Beside(A)` is a step of the store next to the device.
A snapshot is not a point in time, as its queries see different moments;
`ReplicaConverges` shows that the deltas that follow repair it, since the version is
read first.

### SessionRegistry

Shared memory between tokio tasks. `byWorkspace` and `byUser` are the two
`DashMap`s, as functions whose domain is the entries that exist; `total` is the
atomic counter, modulo its width; `conn[s]` is the task of a connection and
`closer[k]` a task that closes sessions. A connection's number stands for its
`connected_at`. Every critical section is one action:

* `register` is `ClaimSlot` or `Refuse` (the `fetch_update` of the counter),
  `EnterUser` or `EvictOldest` (the user's entry), `EvictFromWorkspace` and
  `EvictEntry` (`remove_from_workspace`), `EnterAfterEviction` and `JoinWorkspace`.
  The code keeps the user's entry from `EvictOldest` to `EnterAfterEviction`:
  `Locked(u)` makes everyone else wait.
* `unregister` is `LeaveWorkspace`, `LeaveEntry`, `LeaveUser`, `LeaveUserEntry`, `Release`.
  `LeaveEntry` exists because the emptiness of an entry is looked at under its
  lock and the entry is removed by key after the lock was released.
* `close_user_sessions` and `close_workspace_sessions` remove the whole entry, then go
  through its sessions one lock at a time, then `Subtract`. `close_all_sessions` is
  called at shutdown only, once, and ends by storing 0 in the counter.

Sending the close frame to a session's channel never blocks, so it is part of the
step that removes the session (`told`). `late` is a history: the session joined its
workspace after it had been told to go, which `JoinWorkspace` does not look at. The counter's decrement in an eviction is
part of `EnterAfterEviction`: the user's entry is locked and only the sum is read.
Entries of one shard of a `DashMap` share a lock; no lock of the user map is ever
awaited while one of the workspace map is held, so sharing adds no waiting that
`Locked` does not show. `broadcast` changes nothing and is not an action. The
route that opens connections is not mounted (`ws_handler` answers 501), so the
finding below waits for the day it is.

### Billing

The row of `subscriptions` of one workspace and the events the billing provider
sends about it. No method writes the row twice, so every statement is a step that
commits by itself.

* `sub` is the row: tier, status, `period_end`, `grace_period_end`,
  `payment_deadline`; `None` is NULL. `recorded` is `billing_events`: a row inserted
  before the transition, with `processed_at` set after it. `applied` is a history.
* `process_webhook` is `Deliver` (the query for the event; a known one is answered
  200 at once), `InsertEvent`, `ApplyEvent`, `MarkProcessed`, `Reply`. `Lose` ends it
  between any two: a killed process, a hang-up, a failing statement. `Transition` is
  `apply_subscription_transition`, arm by arm.
* The provider is external: every event has a type and a timestamp, and is delivered
  in any order until it is acknowledged, twice at a time if it pleases.
* `StartUpgrade`/`FinishUpgrade` and `StartExtend`/`FinishExtend` read the row in one
  statement and write in another. `Checkout`, `Administer` (`cancel_subscription`,
  `deactivate_workspace`, `override_tier`), `GracePeriodCheck` and
  `PaymentDeadlineCheck` are single statements.

Abstracted: the period's start, `cancelled_at`, prices, external identifiers and the
coupon of a checkout, which no transition reads. `record_referral`,
`apply_referral_reward` and the soft-lock check have no callers and are left out.

### Accounts

Rows of `users`, the owner's membership, workspaces, billing events, referrals,
OAuth links, requests for a change of address, and rows that name a user as their
creator, with the foreign keys between them. A row is `None` before it exists and `Gone`
after. Of the foreign keys to `users` without `CASCADE` all are there: `authored` stands
for those a user leaves outside his own workspaces (a snippet, folder or invite in another
owner's team, and, with no workspace, an admin invite or a coupon or referral code),
`referrals` for referrals and their credits. `Referenced` is what refuses `DELETE FROM users`.

* Methods that check and write in separate statements are `Start...` and `Finish...`:
  `register`, `login` (which clears `deleted_at`), `oauth_callback`, the two deletions
  and `verify_email_change`. `Fail` ends any of them. What the finishing statement does
  about a changed row is the database's: `Free` is the unique index over *all* addresses.
* `CreateTeam`, `DeleteTeam`, `RecordEvent` (a webhook's row, which forbids the
  deletion of its workspace), `RequestChange`, `Author` (a request that creates such a row;
  who is a member of whose team is left out, so any account may) and `CleanUp` (the
  scheduler removes a row somebody has deleted) are single statements or transactions.
* `account_hard_delete_check` is `StartSweep` (the selection), then for each user
  `SweepMembers`, `SweepSpaces` and `SweepUser`, each committed by itself. A statement that a
  foreign key refuses ends the run. `SweepDies` is a killed process or a lost
  connection between two statements.

`picked` is a history: the users that were expired when a sweep selected them.

### Sessions

`token` and `reset` are the rows of one user; a row that the cleanup deleted stays in
the map with `kept = FALSE`, so that no id comes back. `user.epoch` counts what ended all
sessions: a new password, a suspension, a token used twice.

* `login` is `StartLogin`, `CountSessions`, `RevokeOldest`, `InsertSession`: three statements. An
  OAuth callback inserts without counting (`StartOAuth`). `refresh` is `StartRefresh` and
  `Rotate`, or `RevokeReused` when the token had been revoked.
* `Forgot`, `ResetPassword`, `ClearMustReset`, `ChangePassword`, `RevokeSuspended` and
  `RevokeOne` follow the reads of their `Start...`. `CleanTokens` and `CleanResets` are the
  scheduler's. `Fail` ends a request between any two statements.

`over` (per request and per token), `slack` and `uses` are histories that the
properties need: which commits of others a request ran beside, how many sessions were
issued beside another issue or by OAuth, and how often a reset token was used by a
request that ran beside no other. In `ResetPassword` and `ChangePassword` the snapshot of
the revoking UPDATE and the COMMIT are one step (`auth/service.rs:1013-1019`, `1840-1847`): a
token inserted between the two is one of a request in flight, which `EndedForGood` and
`SessionsBounded` except anyway.

### CheckThenAct

The promise most limits of this service make. `Check` finds room, `Act` uses a unit up
later, `Release` is everything that gives units back or ends an actor. Nothing locks in
between. `OverrunBounded`: a limit is exceeded by fewer units than there are actors; with
one request at a time it is exact. What implements it:

| Module | Resource | used | checked |
|---|---|---|---|
| `TeamSeats` | seats; each invite | members; `times_used` | joins past the look |
| `Coupons` | the coupon | `times_used` | checkouts with the code |
| `Admins` | demotions; pending invites | people that are no admins; rows | requests past the count |
| `Lockout` | wrong passwords until the lock | `guesses` | logins past the look |
| `AiExpansion` | the quota | usage in the window | requests past the look |

The mapping of `Admins` turns "one must remain" around: the people who are not
admins are the units in use, and one less than all people is the capacity.

### TeamSeats, Coupons, Admins, Lockout

`join_via_invite` reads the invite before its transaction's other statements, writes
`times_used` as `times_used + 1` and holds the row from `IncrementUses` to `CommitJoin`, which
is why every use is counted although the check is stale. `checkout` does the same with
the coupon. `CreateTransaction` calls the payment provider after the commit: its failure
leaves the use, the pending payment and the tier behind. Amounts are integers of
1/10000: `Round2` is `round_dp(2)` of `rust_decimal`, halves to even. A `max_uses` that is
NULL is no limit and is not modelled as one.

`Admins` has accounts only as roles. A deleted admin keeps the role and still counts, and
the role in an access token is not read again. That an account
gives its address up, by a change or a hard delete, while an invite to it is pending is not
modelled. `Lockout` keeps the count after a lock has
run out, as the code does: one more wrong password locks again.

### RateLimit

`check_limit` holds the map's entry of its key from the look to the answer, so requests
of one key come one by one and a request is one action. `passed` is the history of moments
at which requests passed, and the reference against which the window is checked.

### AiExpansion

`expand` is `StartExpand`, `CheckQuota`, `LookForPermit`, `Acquire` or `AcquireTimesOut`,
`ProviderAnswers`, `RecordUsage`, `DropPermit`. Tokio's semaphore serves its queue in order
and hands a released permit to the first waiter. A request that saw a free permit
calls `acquire` without a timeout and may find it gone: it is `patient`. `ClientGone` drops
the future at any await.

### Shutdown

Each scheduler loop is a `select!` of its ticker and the stop signal; `run_with_retry` sleeps
between attempts and does not look at the signal. `shutdown_signal` closes the sessions,
signals, joins the scheduler for a limited time, and closes the pool; only after that
does the server stop accepting and drain its requests. So requests arrive while the
pool closes: `Pool::close` waits for the connections in use, and queries after it fail
(`PoolRefuses`).

A request waits for its client twice: for the body (`BodySent`) and until the answer is taken
(`AnswerTaken`); the client may also hang up (`HangUp`). Nothing in the server limits either
wait: the router has no timeout layer, and the drain of `axum::serve` (`main.rs:98`) has no
limit, since `SHUTDOWN_TIMEOUT_SECS` is used for the scheduler's join alone (`main.rs:175`).

## 3. Runs

| Run | Instance | Question |
|---|---|---|
| `SyncWrites` | 2 clients, a free workspace with limit 1, 3 snippets, 3 triggers, a folder, bodies of legal and of excessive length, batches of 2 | types; unique triggers; numbering, deltas and rows agree; how far the limit can be overrun; commits are atomic |
| `SyncMaintenance` | 2 clients, a paid workspace, a snippet, a folder, purge and cleanup, 3 time points | new versions lie above all retained ones; links never dangle |
| `ReaderConverges` | a device, 2 clients, a snippet and a folder, pages of 1 | replicas converge, nothing is skipped |
| `ReaderLiveness` | a device, 2 clients, batches of 2, pages of 1, a plan that changes, fairness | every request ends and the device catches up |
| `Registry` | 3 connections of a user with limit 1 on a server with limit 2, a closer, a counter of 2 bits, fairness | the maps, the limits and the counter agree; every operation ends |
| `Billing` | 2 events of any type, 2 deliveries at a time of which one may be lost, a request, a workspace of one or of a team | an event is applied at most once; a past-due subscription has an end |
| `Accounts` | 2 users, 2 addresses, an identity, a change of address, 2 tasks, 5 requests, a crash, fairness of the clock and the sweep | addresses are unique, deleted accounts included; the hard delete takes nothing from an account that was not expired; what is expired and named by no row that outlives it goes or comes back |
| `Sessions` | 4 refresh tokens, 2 reset tokens, 2 tasks, 4 requests, limit 1, 3 days | how many sessions there are; what ends them ends all; a reset token works once |
| `Limits` | five components side by side, 2 requests at a time in each (below) | each limit implements `CheckThenAct`; uses are counted; an invite makes one account; invoices add up; windows hold |
| `Process` | 3 expansions, 1 permit, quotas of 1 and 2, 4 requests; 2 loops, 2 requests with 2 queries, 2 attempts; clients that stall or hang up; fairness | permits are conserved, the quota implements `CheckThenAct`; expansions end; the scheduler and the pool stop, and the process ends if its clients go on; a run is not cut off unless late |
| `RegistryLost`, `LostEvent` | small | one documented promise each, which TLC refutes |

Each property of a passing run has a mutant in `PROJECT.json`: a definition with a
plausible mistake, under which TLC finds the property violated in the same instance.

### Bounds

* Two clients or requests are enough for every race over one lock, one row or one
  count: a third could only repeat what one of the two does. The proofs cover any
  number.
* *SyncStore.* Three snippets with triggers of their own are one more than two
  writers that overrun a limit of 1 can create, and let them exchange or steal a
  trigger. `VersionBound = 2` admits a create and then an update or a delete of the
  row, with a batch of two under way beside either; it stops new requests, not those
  in flight. `TimeBound` stops the clock after the retention (1 tick) has passed.
* *SessionRegistry.* Three connections let one evict another while a third waits for
  the entry, and a counter of 2 bits wraps.
* *Billing.* Two events let any transition follow any other and two deliveries let an
  event race itself; both are there from time 0 (`EmitBound`), and the clock passes
  every deadline they set. `PeriodBound` ends the extensions, `FailureBound` the losses.
* *Accounts.* Two users compete for an address or refer to each other. `Retention = 1`
  and `TimeBound = 2` give a moment before, at and after the end of the retention.
  Five requests let an account be created, deleted and come back while another takes
  or leaves its address, or write in the team of another who then goes. One crash cuts a
  sweep at any statement.
* *Sessions.* `MaxSessions = 1` is overrun by two logins; four tokens follow a login,
  two rotations and a second login; tokens and resets expire, and with `Keep = 0` are
  cleaned up, before the clock ends.
* *Limits.* Two seats, two invites with 2 and 1 uses, three candidates, five joins. One
  coupon with a cap of 1 or 2 that an admin may change once, three checkouts, the price
  99.00; discounts of 0.5 % (halves of a cent), of 200.00 (more than the price) and of -1
  (below zero); a tax of 19.5 % (halves again). Two founders and two invites to one
  address, one pending at a time, six requests. A lock after 2 wrong passwords that
  lasts 2 of 6 hours. A window of 4 moments, two to the second, 3 requests, 10 moments.
* *Process.* The third expansion queues behind one that waits; a plan that changes
  between quotas 1 and 2 overruns the smaller. Each loop can go through all retries (`MaxRetries = 2`
  attempts, one short of the code's, which has one more retry of the same kind).

Where identities are symmetric the configuration says so; runs with liveness or
with a designated reader use no symmetry. The runs switch off the deadlock check: a
bounded instance stops when the bounds are reached.

### Fairness

Tokio polls every task that is ready, timers fire and statements end, so weak fairness
of what a task does next is what the code has, and no more is assumed:

* `ReaderLiveness`: weak fairness of `Proceed`. Postgres queues the waiters of an advisory
  lock in order of arrival, so a waiter is not passed over for ever: strong fairness of
  `TakeLock`. Nothing of `Begin`, `Drop` or the scheduler. `CatchesUp` needs only that the
  device goes on asking.
* `Registry`: the tasks inside `register`, `unregister` or a close. Connections need not
  open, nor end, nor be closed.
* `Accounts`: the scheduler's next statement (`Sweep`; the task runs every day) and the clock.
  Requests need not arrive or finish.
* `Process`: each expansion (`Expand`; the provider's call has a timeout), loop, the shutdown,
  and of a request what the server does for it (`RequestStep`): the queries and the answer. Of
  clients nothing: they need not send a body, take an answer or leave. Requests need not
  arrive, no signal need come. The second half of `ShutdownEnds` names what it assumes
  of clients itself (`ClientsGoOn`).

### What the runs refute

* **Live sessions are registered** (`RegistryLost`). The last session of an entry
  leaves; between the look at the emptiness of the entry and its removal another
  registers in it and is removed with it: no broadcast or close that goes by this map reaches
  it (one that goes by the other map, such as a close by user, still may).
* **Events are not lost** (`LostEvent`). A delivery that dies after it inserted the
  event leaves a row that the retry takes for a processed one: it is answered 200 and
  the transition never happens. `AppliedOnce` says at most once, for this reason.

### What the properties that hold have to admit

Some properties hold only in a form weaker than one might hope for; the weakening is
what the code does.

* `ReplicaConverges` excepts rows that were `Overtaken`: `UPDATE ... WHERE id = $n` does
  not look at `deleted_at` (`sync/service.rs:697`), so an update that fetched the row
  before a concurrent delete is accepted with a newer version, and devices that replay
  deltas show what snapshots omit.
* `NewVersionsOnTop` says above every *retained* delta: after a quiet retention period all
  are purged and numbering starts again at 1.
* `FreeLimitOverrun` and all that implement `CheckThenAct`: limits are counted before they
  are used up, and overrun by less than the number of requests in flight. With two
  demotions at a time the last admin can go.
* `CounterExact` holds until the first eviction or close: the close subtracts the session
  and the connection's own `unregister` subtracts it again (`sync/session_registry.rs:161`).
* `SessionsBounded` adds `slack`: OAuth logins do not count the sessions
  (`auth/oauth.rs:346`), and issues that overlap do not see each other.
* `EndedForGood` and `ResetOnce` except requests in flight beside the change: a login that
  looked before a suspension inserts its token after it.
* `HardDeleted` assumes that no expired account is `Kept`: named by a snippet, folder or
  invite in the team of another, by an admin invite, a coupon or referral code, a referral or
  a credit, nor a workspace of its own by a billing event. Requirement 39
  (`.kiro/specs/ursnip-backend/requirements.md:167`) makes no such exception, and the comment
  at `scheduler/service.rs:402` relies on cascades those foreign keys do not have
  (`migrations/0001_initial.sql:84,132,150,205,225,251`). Such an account loses its memberships, and
  its workspaces unless they are billed, but its row never goes: the statement fails on
  every daily run and ends the run (`scheduler/service.rs:440`, `:452`), so the accounts
  selected after it are not reached either. Without the assumption TLC refutes `HardDeleted`.
* `ShutdownEnds` promises unconditionally that the scheduler stops and the pool is closed. That
  the process ends needs clients that go on: requests are not terminated after
  `SHUTDOWN_TIMEOUT_SECS`, which requirements 69 and 71
  (`.kiro/specs/ursnip-backend/requirements.md:1019-1023`), the design
  (`design.md:1398-1400`) and the comment at `main.rs:124` all say they are. One client that
  stalls its body keeps the process alive. Without the assumption TLC refutes it.
* `GoneForGood` excepts a session that is evicted or closed between its entry in the user's
  map and its entry in the workspace's: it joins the second all the same (`late`,
  `session_registry.rs:133`) and receives broadcasts until its connection has ended.
* `OrphansWereExpired` admits an account that a sweep found expired, that a login
  which looked before the retention ended brings back before the sweep's last statement,
  and that has lost its memberships and workspaces by then: the statements commit one by
  one (`scheduler/service.rs:404`).
* `InvoiceAddsUp` needs even prices, which both are: with an odd price in cents a
  discount and its rest may both end in half a cent and round the same way.
* `RunsComplete` excepts a join that timed out, and says nothing of requests: the pool is
  closed before those in flight have finished (`main.rs:193`), and their next query fails.

Read in the code and modelled, but stated by no property: the payment deadline of a
team that has paid stays set until its next checkout (`scheduler/service.rs:384`); an
extension by an admin writes back a period end it read earlier (`admin/service.rs:2256`);
the purge removes the deltas whose age `SNAPSHOT_REQUIRED` looks for
(`sync/service.rs:1570`); a failing call of the payment provider leaves the checkout it
was for (`subscription/service.rs:518`).

## 4. Proofs

The theorems hold for every value of the constants that satisfies the named
assumption of the module. The assumptions say that sets of identities are finite and not
mixed up with `None`, that limits are numbers, that `SyncStore` has a client at all, and
that the registry's counter is wide enough for its limit.

Every type invariant, safety invariant, action property and refinement that a passing run
checks is also a theorem; what is left to TLC is liveness.

| Module | Theorem | States |
|---|---|---|
| `SyncProofs` | `SpecTypeOK` | `TypeOK` |
| | `SpecLockGuardsVersions` | whoever has a version in the making holds the lock |
| | `SpecVersionsDistinct` | retained deltas have distinct versions, those handed out lie above |
| | `SpecNewVersionsOnTop` | commits add above every retained delta, purges or not |
| | `SpecTriggersUnique` | active snippets have distinct triggers |
| | `SpecLinksHaveRows` | links join rows that still exist, cleanups or not |
| | `SpecFreeLimitOverrun` | free limits are overrun by fewer rows than there are clients |
| | `WriteVersionsGapFree` | without purges, versions are exactly `1..published` |
| | `WriteRowsMatchDeltas` | without purges, the newest delta on an entity tells its row |
| | `WriteCommitsAtomically` | a commit publishes every operation of its batch, rows and deltas alike, or nothing |
| | `ReaderReplicaConverges` | a device that has read every version holds the active content, but for entities whose deletion an update has overtaken |
| | `ReaderNothingSkipped` | a page moves the cursor over exactly the versions it holds |
| `BillingProofs` | `SpecTypeOK` | `TypeOK` |
| | `SpecAppliedOnce` | an event is applied at most once, and was applied when it is marked |
| | `SpecPastDueEnds` | a past-due subscription has the end of a grace period |
| `AccountsProofs` | `AccountsTypes` | `TypeOK`, the foreign keys included |
| | `EmailsAreUnique` | no two accounts have one address, deleted ones included |
| | `OnlyExpiredLoseWorkspaces` | the hard delete takes a workspace only from accounts it found expired |
| `RegistryProofs` | `SpecTypeOK` | `TypeOK` |
| | `SpecPerUserLimit` | no user's entry exceeds the limit |
| | `SpecGoneForGood` | who has left is in neither map; who was evicted or closed is taken off both and not put back, unless it had still to join its workspace |
| | `SpecCounterExact` | until an eviction or a close, the counter is the number of slots held |
| `SessionsProofs` | `SpecTypeOK` | `TypeOK` |
| | `SpecEndedForGood` | what ends all sessions ends them but for requests in flight |
| | `SpecResetOnce` | a reset token is used once but for requests in flight |
| | `SpecSessionsBounded` | live sessions exceed the limit by no more than the issues that overlapped or did not count |
| `CheckThenActProofs` | `SpecOverrunBounded` | a limit is overrun by fewer units than there are actors |
| `LimitsProofs` | `SpecSeatTypeOK`, `SpecUsesCounted` | types; every use of an invite is counted |
| | `SpecSeatsImplement`, `SpecSeatsBounded` | seats and uses implement `CheckThenAct`; hence the bound |
| | `SpecGuessesImplement`, `SpecGuessesBounded` | so do wrong passwords; hence the bound |
| | `SpecAdminsImplement`, `SpecAdminsRemain` | so do admins and pending invites; admins and requests in flight are at least two together |
| | `SpecInviteMakesOne` | an admin invite makes at most one account |
| | `SpecCouponImplements`, `SpecCouponUsesCounted` | so does the coupon; its counter counts every use |
| | `SpecInvoiceAddsUp` | with even prices every invoice adds up and no amount is negative |
| | `LimitsTypes`, `LimitsCountUses` | types and counted uses, for the composition of the five components |
| `ProcessProofs` | `SpecRateTypeOK`, `SpecWindowHolds` | types; no window lets more than the maximum pass, and only a full one refuses |
| | `SpecRetryIsClose` | the wait a refused client is told is within a second of the real one |
| | `SpecPermitsConserved` | permits are neither lost nor made, through timeouts and clients that leave |
| | `SpecQuotaImplements` | the quota implements `CheckThenAct` |
| | `SpecProcessTypeOK`, `SpecRunsComplete` | types; a run is cut off only when the join timed out |

### The inductive invariants

**SyncStore.** `TypeInv` adds to `TypeOK` that a transaction past its beginning holds an
operation (`OpChosen`): without it a write may be of no row. `VersionInv` adds to
`LockGuardsVersions` and distinctness that the uncommitted deltas of a transaction lie
above the committed ones and below its own next version: this is what makes
`MAX(version) + 1`, computed over both, free. `TriggerInv` states uniqueness of triggers
for every transaction's view and not only for the committed rows, since a commit makes
the view the table; it uses the lock to know that at most one view differs from the
table. `GapInv` says that committed and uncommitted versions together follow each other
without a hole; it is proved for `WriteSpec`, as a purge does leave holes below. Each is
proved for one kind of step at a time (quiet, numbering, writing, ending, maintenance),
and the step lemma dispatches every action of `Next` to one of them.

`LinkInv` adds to `LinksHaveRows` that a link which is not committed yet is one of a snippet its
own transaction has created, and that its folder is there: the row lock of the foreign key keeps
the cleanup off it. `MatchInv` says of the table, and of every transaction's view beside the
deltas it would commit, that the newest delta on an entity has the row's version and tells
its content; it needs the lock for the same reason as `TriggerInv`. `WholeInv` counts: a
transaction holds as many deltas as operations it has finished, and has touched no row
without one. From the two a commit changes exactly the rows it has deltas on
(`CommittedRows`). `SizeInv` is the argument of `CheckThenAct` carried through transactions:
rows, and clients that may still add one (`Adders`), together stay below the limit plus the number
of clients; a transaction that has written rows has added one, or has counted its own
before the next (`OwnInv`), since a batch counts inside the transaction.

**SyncReader.** `ReplicaConverges` speaks of the moment the device has caught up, and is not
inductive. `ReaderInv` speaks of every entity at every moment: what the device holds of an
entity is current, unless some delta on the entity lies above its cursor (`Follows`). A
commit that changes a row adds such a delta, so a commit cannot break it (`ReaderStoreStep`); a
query of the snapshot reads the rows after the version was read, so what it reads is current
or has a delta above; a page replays the newest delta on each of its entities, and if no
delta on the entity is above the page that one is the newest of all (`NewestShown`).
`PageIs` says what a page is: every delta above the cursor up to the new one. It needs that a set of
numbers with a bound has a greatest element (`GreatestNumber`), which is the well-foundedness of
`<` on the numbers turned around.

**Billing.** `AppliedOnce` is not inductive: a delivery about to apply an event must know
that nobody applied it. `PipelineInv` says that whoever is past the insertion has
inserted the event, that it has been applied exactly when the delivery is past the
transition, and that no two deliveries are past the insertion of one event, which is
what the unique index gives. `PastDueEnds` needs only that the row has its type and
that the one transition to `past_due` sets the date.

**Accounts.** `AccountsInv` says of a request that has read (`TaskOK`) which of the things it
read cannot change: an id once given out is not `None` again, and a change of address still
belongs to its user. `SweepInv` says that the hard delete works on users it found
expired. Each statement is first shown to keep the foreign keys (`KeysKept`).

**SessionRegistry.** `TaskInv` says that a task holding a user's entry found fewer sessions
than the limit in it and that no two hold the same entry. `EntryInv` says that a session
in an entry belongs to a connection of that user that is registered or about to be or
to leave. `GoneInv` says of a session that was told to go that it had entered the user's map, and
of one a close has still to tell that the map the close began with no longer holds it:
without the second part a session could be told by a close and still be found where the
close does not look. Lemmas first say what each operation on an entry does to all others. `CountInv`
says of the time before the first eviction or close that the counter is the number of
connections that hold a slot, and that a close has not yet told anyone: what it will
subtract is what it has still to tell.

**Sessions.** `TokenInv` and `ResetInv` say what a row knows of its login and uses;
`TaskInv` says of a request that read a token or a reset what still holds of it, unless a
commit of the kind that would change it is in its `over`. That is the argument: a stale
read is harmless exactly when nothing relevant committed in between. `BoundInv` says that a
request which has counted the sessions, or holds a token to rotate, leaves room for the
session it will insert (`Room`), unless another was issued in between; `slack` pays for those.

**CheckThenAct.** `Claimed` counts an actor that found room as if it had acted. Finding
room means `used` is below the capacity, and the other claims number fewer than the
actors.

**Implementations.** `JoinInv`, `JobInv` and `SaleInv` say what the holder of a row lock knows
of the row (`value = used + 1`) and that there is one holder; `GuessInv` says that the count
is at least the guesses and that an address with as many guesses as allowed is locked.
Each action of the detailed module is then a `Check`, an `Act`, a `Release` or a stutter.
The bounds (`SpecSeatsBounded`, `SpecGuessesBounded`, `SpecAdminsRemain`) are instances of
`SpecOverrunBounded`. `SpecInvoiceAddsUp` rests on one lemma about rounding halves to even,
`RoundSplit`: two amounts that add up to an even number of cents still do when both are
rounded.

The composition `LimitsSpec` of five components is proved by projecting it on each of them
(`ComponentsRun`).

**Window, RateLimit.** What pruning keeps is a `SubSeq` from the first fresh timestamp on
(`FirstFreshIs`, `PruneIs`), which exists by the least-number principle (`LeastNumber`).
`RateInv` says that the window is the end of what passed, that all before it is stale, and
that a request passed only when the one `MaxRequests` before it was stale. A window with
more passes than allowed would hold two requests that far apart and not stale to each other.

**AiExpansion.** `AiInv` says that free permits and holders make up the maximum, that nobody
queues while a permit is free, and that the queue lists each waiter once (`Lined`): so
that a client which leaves takes itself out and no other.

**Shutdown.** `PhaseInv` ties the pool's state to the phase of the shutdown, and says that
loops have stopped when the join ended without a timeout.

### Only model-checked

Liveness (`EveryRequestEnds`, `CatchesUp`, `OperationsEnd`, `HardDeleted`, `ExpansionEnds`,
`ShutdownEnds`): fairness and ENABLED are outside the prover's reach.

## 5. Not modelled, and the plan

Not modelled for good: e-mail, the HTTP exchange with payment and identity
providers, JWT and argon2 (libraries), routing and stateless middleware, parsing
of configuration, logging, listings and dashboards: pure I/O or no state.
`record_referral`, `apply_referral_reward` and the soft-lock check have no callers. The
WebSocket catch-up and `broadcast` have no receiver while the route is not mounted.
`SyncReader` is not composed with the purges: such runs do not finish in reasonable time.

What would add most from here:

1. An abstract log of a workspace that `SyncStore` implements: requests that append whole
   batches to a sequence of versions, and a table that is a function of it.
2. What stays true of a log that is purged: which cursors still reach the present.
3. Lemmas towards the liveness properties: who can hold what a waiter waits for.
4. The catch-up of a connection beside `broadcast`, when the route is mounted.
5. A smaller `SyncReader` that can be composed with `DeltaPurge`.
