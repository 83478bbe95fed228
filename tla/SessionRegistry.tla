--------------------------- MODULE SessionRegistry ---------------------------
(***************************************************************************)
(* The registry of WebSocket sessions (src/src/sync/session_registry.rs)   *)
(* and the life cycle of the connections that use it (handle_ws_connection *)
(* of src/src/sync/websocket.rs).  Two maps, each locked entry by entry,   *)
(* and an atomic counter: every critical section is one step, so an        *)
(* operation on both maps is several.                                      *)
(***************************************************************************)
EXTENDS Naturals, FiniteSets, Functions

CONSTANTS
  Sessions,        \* connections, numbered in the order of their connected_at
  Users, Workspaces,
  Closers,         \* tasks that close the sessions of a user, a workspace, or all
  MaxConnections,  \* WS_MAX_CONNECTIONS
  PerUser,         \* MAX_CONNECTIONS_PER_USER
  Modulus,         \* 2^w for a counter of w bits (usize)
  None

ASSUME RegistryAssumption ==
  /\ Sessions \subseteq Nat /\ IsFiniteSet(Sessions)
  /\ MaxConnections \in Nat /\ PerUser \in Nat \ {0}
  /\ Modulus \in Nat /\ Modulus > MaxConnections /\ Modulus > Cardinality(Sessions)
  /\ None \notin Sessions \cup Users \cup Workspaces

VARIABLES
  byWorkspace,  \* workspace_sessions: the sessions of each workspace with an entry
  byUser,       \* user_connections: the same by user
  total,        \* total_connections
  conn,         \* the task of each connection
  closer        \* the tasks that close sessions

vars == <<byWorkspace, byUser, total, conn, closer>>

ConnPhases == {"new", "claim", "user", "evict", "evictEmpty", "enter", "join", "live",
               "leaveEmpty", "leaveUser", "leaveUserEmpty", "release", "done", "refused"}

Conn == [pc: ConnPhases, user: Users \cup {None}, workspace: Workspaces \cup {None},
         victim: Sessions \cup {None},
         told: BOOLEAN,   \* it was sent a Close
         late: BOOLEAN]   \* history: it is live, and had been when it joined its workspace

Closer == [pc: {"idle", "user", "userEmpty", "workspace", "workspaceEmpty",
                "all", "clear", "down"},
           todo: SUBSET (Sessions \cup Users \cup Workspaces),
           at: Sessions \cup {None}, count: Nat]

Idle == [pc |-> "idle", todo |-> {}, at |-> None, count |-> 0]
-----------------------------------------------------------------------------
(* Maps whose entries come and go. *)

Entry(m, k)   == IF k \in DOMAIN m THEN m[k] ELSE {}
Retain(m, k, s) == IF k \in DOMAIN m THEN [m EXCEPT ![k] = @ \ {s}] ELSE m
Without(m, k) == Restrict(m, DOMAIN m \ {k})
Push(m, k, s) == [x \in DOMAIN m \cup {k} |-> IF x = k THEN Entry(m, k) \cup {s} ELSE m[x]]

\* After retain: the entry is there and empty, so the caller goes on to remove it.
Empties(m, k, s) == k \in DOMAIN m /\ m[k] \subseteq {s}

\* register holds the user's entry while it evicts the oldest session.
Locked(u) == \E s \in Sessions : conn[s].user = u /\ conn[s].pc \in {"evict", "evictEmpty", "enter"}

Minus(n) == (total + Modulus - n) % Modulus

Go(s, pc) == conn' = [conn EXCEPT ![s].pc = pc, ![s].late = FALSE]
-----------------------------------------------------------------------------
Init ==
  /\ byWorkspace = [w \in {} |-> {}] /\ byUser = [u \in {} |-> {}]
  /\ total = 0
  /\ conn = [s \in Sessions |-> [pc |-> "new", user |-> None, workspace |-> None,
                                 victim |-> None, told |-> FALSE, late |-> FALSE]]
  /\ closer = [k \in Closers |-> Idle]

Open(s) ==
  /\ conn[s].pc = "new" /\ \A r \in Sessions : r < s => conn[r].pc # "new"
  /\ \E u \in Users, w \in Workspaces :
       conn' = [conn EXCEPT ![s].pc = "claim", ![s].user = u, ![s].workspace = w]
  /\ UNCHANGED <<byWorkspace, byUser, total, closer>>

(* register: claim a slot, enter the user's map, then the workspace's. *)

ClaimSlot(s) ==
  /\ conn[s].pc = "claim" /\ total < MaxConnections
  /\ total' = total + 1 /\ Go(s, "user")
  /\ UNCHANGED <<byWorkspace, byUser, closer>>

Refuse(s) ==
  /\ conn[s].pc = "claim" /\ total >= MaxConnections
  /\ Go(s, "refused")
  /\ UNCHANGED <<byWorkspace, byUser, total, closer>>

EnterUser(s) ==
  LET u == conn[s].user
  IN /\ conn[s].pc = "user" /\ ~Locked(u) /\ Cardinality(Entry(byUser, u)) < PerUser
     /\ byUser' = Push(byUser, u, s) /\ Go(s, "join")
     /\ UNCHANGED <<byWorkspace, total, closer>>

EvictOldest(s) ==
  LET u == conn[s].user
  IN /\ conn[s].pc = "user" /\ ~Locked(u) /\ Cardinality(Entry(byUser, u)) >= PerUser
     /\ \E v \in byUser[u] :
          /\ \A x \in byUser[u] : v <= x
          /\ byUser' = Retain(byUser, u, v)
          /\ conn' = [conn EXCEPT ![s].pc = "evict", ![s].victim = v, ![v].told = TRUE]
     /\ UNCHANGED <<byWorkspace, total, closer>>

\* Mutant: the victim is taken out of the user's map only.
EvictFromWorkspace_Skips(s) ==
  /\ conn[s].pc = "evict" /\ Go(s, "enter")
  /\ UNCHANGED <<byWorkspace, byUser, total, closer>>

EvictFromWorkspace(s) ==
  LET v == conn[s].victim  w == conn[v].workspace
  IN /\ conn[s].pc = "evict"
     /\ byWorkspace' = Retain(byWorkspace, w, v)
     /\ Go(s, IF Empties(byWorkspace, w, v) THEN "evictEmpty" ELSE "enter")
     /\ UNCHANGED <<byUser, total, closer>>

EvictEntry(s) ==
  /\ conn[s].pc = "evictEmpty"
  /\ byWorkspace' = Without(byWorkspace, conn[conn[s].victim].workspace)
  /\ Go(s, "enter")
  /\ UNCHANGED <<byUser, total, closer>>

\* Mutant: the eviction looks the user's entry up again while it holds it.
EnterAfterEviction_Relocks(s) ==
  /\ conn[s].pc = "enter" /\ ~Locked(conn[s].user)
  /\ total' = Minus(1)
  /\ byUser' = Push(byUser, conn[s].user, s)
  /\ conn' = [conn EXCEPT ![s].pc = "join", ![s].victim = None]
  /\ UNCHANGED <<byWorkspace, closer>>

EnterAfterEviction(s) ==
  /\ conn[s].pc = "enter"
  /\ total' = Minus(1)
  /\ byUser' = Push(byUser, conn[s].user, s)
  /\ conn' = [conn EXCEPT ![s].pc = "join", ![s].victim = None]
  /\ UNCHANGED <<byWorkspace, closer>>

JoinWorkspace(s) ==
  /\ conn[s].pc = "join"
  /\ byWorkspace' = Push(byWorkspace, conn[s].workspace, s)
  /\ conn' = [conn EXCEPT ![s].pc = "live", ![s].late = conn[s].told]
  /\ UNCHANGED <<byUser, total, closer>>

(* unregister, once the connection has ended for whatever reason. *)

LeaveWorkspace(s) ==
  LET w == conn[s].workspace
  IN /\ conn[s].pc = "live"
     /\ byWorkspace' = Retain(byWorkspace, w, s)
     /\ Go(s, IF Empties(byWorkspace, w, s) THEN "leaveEmpty" ELSE "leaveUser")
     /\ UNCHANGED <<byUser, total, closer>>

LeaveEntry(s) ==
  /\ conn[s].pc = "leaveEmpty"
  /\ byWorkspace' = Without(byWorkspace, conn[s].workspace) /\ Go(s, "leaveUser")
  /\ UNCHANGED <<byUser, total, closer>>

LeaveUser(s) ==
  LET u == conn[s].user
  IN /\ conn[s].pc = "leaveUser" /\ ~Locked(u)
     /\ byUser' = Retain(byUser, u, s)
     /\ Go(s, IF Empties(byUser, u, s) THEN "leaveUserEmpty" ELSE "release")
     /\ UNCHANGED <<byWorkspace, total, closer>>

LeaveUserEntry(s) ==
  /\ conn[s].pc = "leaveUserEmpty" /\ ~Locked(conn[s].user)
  /\ byUser' = Without(byUser, conn[s].user) /\ Go(s, "release")
  /\ UNCHANGED <<byWorkspace, total, closer>>

\* Mutant: the slot is not given back.
Release_Keeps(s) ==
  /\ conn[s].pc = "release" /\ Go(s, "done")
  /\ UNCHANGED <<byWorkspace, byUser, total, closer>>

Release(s) ==
  /\ conn[s].pc = "release"
  /\ total' = Minus(1) /\ Go(s, "done")
  /\ UNCHANGED <<byWorkspace, byUser, closer>>
-----------------------------------------------------------------------------
(* close_user_sessions *)

CloseUser(k, u) ==
  /\ closer[k].pc = "idle" /\ u \in DOMAIN byUser /\ ~Locked(u)
  /\ closer' = [closer EXCEPT ![k] = [pc |-> "user", todo |-> byUser[u], at |-> None,
                                      count |-> Cardinality(byUser[u])]]
  /\ byUser' = Without(byUser, u)
  /\ UNCHANGED <<byWorkspace, total, conn>>

CloseUserNext(k) ==
  /\ closer[k].pc = "user"
  /\ \E s \in closer[k].todo :
       LET w == conn[s].workspace
       IN /\ conn' = [conn EXCEPT ![s].told = TRUE]
          /\ byWorkspace' = Retain(byWorkspace, w, s)
          /\ closer' = [closer EXCEPT ![k].todo = @ \ {s}, ![k].at = s,
                          ![k].pc = IF Empties(byWorkspace, w, s) THEN "userEmpty" ELSE "user"]
  /\ UNCHANGED <<byUser, total>>

CloseUserEntry(k) ==
  /\ closer[k].pc = "userEmpty"
  /\ byWorkspace' = Without(byWorkspace, conn[closer[k].at].workspace)
  /\ closer' = [closer EXCEPT ![k].pc = "user"]
  /\ UNCHANGED <<byUser, total, conn>>

(* close_workspace_sessions *)

CloseWorkspace(k, w) ==
  /\ closer[k].pc = "idle" /\ w \in DOMAIN byWorkspace
  /\ closer' = [closer EXCEPT ![k] = [pc |-> "workspace", todo |-> byWorkspace[w], at |-> None,
                                      count |-> Cardinality(byWorkspace[w])]]
  /\ byWorkspace' = Without(byWorkspace, w)
  /\ UNCHANGED <<byUser, total, conn>>

CloseWorkspaceNext(k) ==
  /\ closer[k].pc = "workspace"
  /\ \E s \in closer[k].todo :
       LET u == conn[s].user
       IN /\ ~Locked(u)
          /\ conn' = [conn EXCEPT ![s].told = TRUE]
          /\ byUser' = Retain(byUser, u, s)
          /\ closer' = [closer EXCEPT ![k].todo = @ \ {s}, ![k].at = s,
                ![k].pc = IF Empties(byUser, u, s) THEN "workspaceEmpty" ELSE "workspace"]
  /\ UNCHANGED <<byWorkspace, total>>

CloseWorkspaceEntry(k) ==
  LET u == conn[closer[k].at].user
  IN /\ closer[k].pc = "workspaceEmpty" /\ ~Locked(u)
     /\ byUser' = Without(byUser, u)
     /\ closer' = [closer EXCEPT ![k].pc = "workspace"]
     /\ UNCHANGED <<byWorkspace, total, conn>>

\* Both end by subtracting the number of sessions they took off.
Subtract(k) ==
  /\ closer[k].pc \in {"user", "workspace"} /\ closer[k].todo = {}
  /\ total' = Minus(closer[k].count)
  /\ closer' = [closer EXCEPT ![k] = Idle]
  /\ UNCHANGED <<byWorkspace, byUser, conn>>

(* close_all_sessions, which only shutdown_signal (src/src/main.rs) calls *)

ShutDown == \E k \in Closers : closer[k].pc \in {"all", "clear", "down"}

CloseAll(k) ==
  /\ closer[k].pc = "idle" /\ ~ShutDown
  /\ closer' = [closer EXCEPT ![k] = [Idle EXCEPT !.pc = "all", !.todo = DOMAIN byWorkspace]]
  /\ UNCHANGED <<byWorkspace, byUser, total, conn>>

CloseAllNext(k) ==
  /\ closer[k].pc = "all"
  /\ \E w \in closer[k].todo :
       /\ conn' = [s \in Sessions |-> IF s \in Entry(byWorkspace, w)
                                      THEN [conn[s] EXCEPT !.told = TRUE] ELSE conn[s]]
       /\ byWorkspace' = Without(byWorkspace, w)
       /\ closer' = [closer EXCEPT ![k].todo = @ \ {w}]
  /\ UNCHANGED <<byUser, total>>

\* clear() goes through the entries, one lock at a time.
ClearUsers(k) ==
  /\ closer[k].pc = "all" /\ closer[k].todo = {}
  /\ closer' = [closer EXCEPT ![k].pc = "clear", ![k].todo = Users]
  /\ UNCHANGED <<byWorkspace, byUser, total, conn>>

ClearUser(k) ==
  /\ closer[k].pc = "clear"
  /\ \E u \in closer[k].todo :
       /\ ~Locked(u) /\ byUser' = Without(byUser, u)
       /\ closer' = [closer EXCEPT ![k].todo = @ \ {u}]
  /\ UNCHANGED <<byWorkspace, total, conn>>

ResetTotal(k) ==
  /\ closer[k].pc = "clear" /\ closer[k].todo = {}
  /\ total' = 0
  /\ closer' = [closer EXCEPT ![k].pc = "down"]
  /\ UNCHANGED <<byWorkspace, byUser, conn>>
-----------------------------------------------------------------------------
Register(s) ==
  \/ ClaimSlot(s) \/ Refuse(s) \/ EnterUser(s) \/ EvictOldest(s) \/ EvictFromWorkspace(s)
  \/ EvictEntry(s) \/ EnterAfterEviction(s) \/ JoinWorkspace(s)

\* What is left of unregister once it has begun.
Unregister(s) == LeaveEntry(s) \/ LeaveUser(s) \/ LeaveUserEntry(s) \/ Release(s)

CloseStep(k) ==
  \/ CloseUserNext(k) \/ CloseUserEntry(k) \/ CloseWorkspaceNext(k) \/ CloseWorkspaceEntry(k)
  \/ Subtract(k) \/ CloseAllNext(k) \/ ClearUsers(k) \/ ClearUser(k) \/ ResetTotal(k)

Connection(s) == Open(s) \/ Register(s) \/ LeaveWorkspace(s) \/ Unregister(s)

Close(k) == \/ \E u \in Users : CloseUser(k, u)
            \/ \E w \in Workspaces : CloseWorkspace(k, w)
            \/ CloseAll(k) \/ CloseStep(k)

Next == (\E s \in Sessions : Connection(s)) \/ (\E k \in Closers : Close(k))

Spec == Init /\ [][Next]_vars

\* Critical sections are short and tokio goes on polling the tasks inside an
\* operation.  Nothing makes a connection open or end, or an admin close it.
FairSpec ==
  /\ Spec
  /\ \A s \in Sessions : WF_vars(Register(s)) /\ WF_vars(Unregister(s))
  /\ \A k \in Closers : WF_vars(CloseStep(k))
-----------------------------------------------------------------------------
Map(K) == UNION {[D -> SUBSET Sessions] : D \in SUBSET K}

\* The maps hold sessions under users and workspaces, and the counter is a word.
TypeOK ==
  /\ byWorkspace \in Map(Workspaces) /\ byUser \in Map(Users)
  /\ total \in 0..(Modulus - 1)
  /\ conn \in [Sessions -> Conn] /\ closer \in [Closers -> Closer]

(* Safety. *)

\* A user's entry never holds more than PerUser sessions, however registrations,
\* evictions and closes of one user overlap (the entry is locked throughout).
PerUserLimit == \A u \in DOMAIN byUser : Cardinality(byUser[u]) <= PerUser

\* close_all_sessions has still to clear the entry of u.
Clears(k, u) == closer[k].pc = "all" \/ (closer[k].pc = "clear" /\ u \in closer[k].todo)

\* A session is in no map before its registration entered it and in none after its
\* unregister.  One that was evicted or closed is in neither map as soon as whoever evicts
\* or closes it has been through both, and nothing puts it back: except that one which had
\* not joined its workspace by then (late) joins it all the same and stays to its unregister.
GoneForGood ==
  /\ \A u \in DOMAIN byUser : \A s \in byUser[u] :
       conn[s].user = u /\ conn[s].pc \in {"join", "live", "leaveEmpty", "leaveUser"}
  /\ \A w \in DOMAIN byWorkspace : \A s \in byWorkspace[w] :
       conn[s].workspace = w /\ conn[s].pc = "live"
  /\ \A s \in Sessions : conn[s].told =>
       /\ \A u \in DOMAIN byUser : s \in byUser[u] => \E k \in Closers : Clears(k, u)
       /\ \A w \in DOMAIN byWorkspace : s \in byWorkspace[w] =>
            conn[s].late \/ \E r \in Sessions : conn[r].pc = "evict" /\ conn[r].victim = s

HoldsSlot(s) == conn[s].pc \notin {"new", "claim", "refused", "done"}

\* Until a session is evicted or closed, the counter is the number of connections
\* that hold a slot, and that number is within the server-wide limit.
CounterExact ==
  (~ShutDown /\ \A s \in Sessions : ~conn[s].told) =>
    /\ total = Cardinality({s \in Sessions : HoldsSlot(s)})
    /\ total <= MaxConnections

(* Liveness. *)

\* Every register, unregister and close ends, whatever they wait for: no two of
\* them hold an entry the other needs.
OperationsEnd ==
  /\ \A s \in Sessions :
       conn[s].pc \notin {"new", "live", "refused", "done"}
         ~> conn[s].pc \in {"live", "refused", "done"}
  /\ \A k \in Closers : closer[k].pc \notin {"idle", "down"} ~> closer[k].pc \in {"idle", "down"}

(* What the comments promise and the code does not keep. *)

\* A connection that nobody told to close stays registered, so broadcasts reach it
\* and it can be closed, whatever other tasks do meanwhile.
LiveAreRegistered ==
  \A s \in Sessions : conn[s].pc = "live" /\ ~conn[s].told =>
    /\ s \in Entry(byUser, conn[s].user)
    /\ s \in Entry(byWorkspace, conn[s].workspace)
=============================================================================
