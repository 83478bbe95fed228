---------------------------- MODULE RegistryProofs -----------------------------
(***************************************************************************)
(* Theorems about SessionRegistry for any sessions, users, workspaces and  *)
(* closing tasks.                                                          *)
(***************************************************************************)
EXTENDS SessionRegistry, FiniteSetTheorems, TLAPS

Locking(s) == conn[s].pc \in {"evict", "evictEmpty", "enter"}

\* A connection that was opened has a user and a workspace; a user's entry is held by one
\* registration at a time, which has made room in it; a close has sessions to go through.
TaskInv ==
  /\ \A s \in Sessions : conn[s].pc # "new" => conn[s].user \in Users /\ conn[s].workspace \in Workspaces
  /\ \A s \in Sessions : Locking(s) => Cardinality(Entry(byUser, conn[s].user)) < PerUser
  /\ \A r, s \in Sessions : Locking(r) /\ Locking(s) /\ conn[r].user = conn[s].user => r = s
  /\ \A k \in Closers :
       closer[k].pc \in {"user", "userEmpty", "workspace", "workspaceEmpty"}
         => closer[k].todo \subseteq Sessions

\* PerUserLimit and the first two parts of GoneForGood, said of every user and workspace, with an entry or not
EntryInv ==
  /\ \A u \in Users : Cardinality(Entry(byUser, u)) <= PerUser
  /\ \A u \in Users : \A s \in Entry(byUser, u) :
       conn[s].user = u /\ conn[s].pc \in {"join", "live", "leaveEmpty", "leaveUser"}
  /\ \A w \in Workspaces : \A s \in Entry(byWorkspace, w) :
       conn[s].workspace = w /\ conn[s].pc = "live"

RegistryInv == TypeOK /\ TaskInv /\ EntryInv
-----------------------------------------------------------------------------
(* The maps: what each operation on an entry does to all of them.              *)

LEMMA MapType ==
  ASSUME NEW K, NEW m
  PROVE  m \in Map(K) <=> DOMAIN m \in SUBSET K /\ m \in [DOMAIN m -> SUBSET Sessions]
BY DEF Map

LEMMA EntryType ==
  ASSUME NEW K, NEW m \in Map(K), NEW x
  PROVE  Entry(m, x) \in SUBSET Sessions
BY MapType DEF Entry

LEMMA EntrySize ==
  ASSUME NEW S \in SUBSET Sessions
  PROVE  /\ IsFiniteSet(S) /\ Cardinality(S) \in Nat
         /\ \A T \in SUBSET S : IsFiniteSet(T) /\ Cardinality(T) \in Nat
                                /\ Cardinality(T) <= Cardinality(S)
<1>1. IsFiniteSet(S) /\ Cardinality(S) \in Nat
  BY RegistryAssumption, FS_Subset, FS_CardinalityType
<1>2. QED BY <1>1, FS_Subset, FS_CardinalityType

LEMMA RetainEntries ==
  ASSUME NEW K, NEW m \in Map(K), NEW k, NEW s
  PROVE  /\ Retain(m, k, s) \in Map(K)
         /\ \A x : Entry(Retain(m, k, s), x) = IF x = k THEN Entry(m, x) \ {s} ELSE Entry(m, x)
<1>1. DOMAIN Retain(m, k, s) = DOMAIN m BY DEF Retain
<1>2. Retain(m, k, s) \in [DOMAIN m -> SUBSET Sessions] BY MapType DEF Retain
<1>3. Retain(m, k, s) \in Map(K) BY <1>1, <1>2, MapType
<1>4. \A x \in DOMAIN m : Retain(m, k, s)[x] = IF x = k THEN m[x] \ {s} ELSE m[x]
  BY MapType DEF Retain
<1>5. QED BY <1>1, <1>3, <1>4 DEF Entry

LEMMA WithoutEntries ==
  ASSUME NEW K, NEW m \in Map(K), NEW k
  PROVE  /\ Without(m, k) \in Map(K)
         /\ \A x : Entry(Without(m, k), x) = IF x = k THEN {} ELSE Entry(m, x)
<1>1. DOMAIN Without(m, k) = DOMAIN m \ {k} BY DEF Without, Restrict
<1>2. \A x \in DOMAIN m \ {k} : Without(m, k)[x] = m[x] BY DEF Without, Restrict
<1>3. Without(m, k) \in [DOMAIN m \ {k} -> SUBSET Sessions] BY MapType DEF Without, Restrict
<1>4. Without(m, k) \in Map(K) BY <1>1, <1>3, MapType
<1>5. QED BY <1>1, <1>2, <1>4 DEF Entry

LEMMA PushEntries ==
  ASSUME NEW K, NEW m \in Map(K), NEW k \in K, NEW s \in Sessions
  PROVE  /\ Push(m, k, s) \in Map(K)
         /\ \A x : Entry(Push(m, k, s), x) = IF x = k THEN Entry(m, x) \cup {s} ELSE Entry(m, x)
<1>1. DOMAIN Push(m, k, s) = DOMAIN m \cup {k} BY DEF Push
<1>2. \A x \in DOMAIN m \cup {k} :
        Push(m, k, s)[x] = IF x = k THEN Entry(m, k) \cup {s} ELSE m[x]
  BY DEF Push
<1>3. Push(m, k, s) \in [DOMAIN m \cup {k} -> SUBSET Sessions] BY EntryType, MapType DEF Push
<1>4. Push(m, k, s) \in Map(K) BY <1>1, <1>3, MapType
<1>5. QED BY <1>1, <1>2, <1>4 DEF Entry

\* The counter is a word whatever is subtracted.
LEMMA MinusWord == ASSUME TypeOK, NEW n \in Nat PROVE Minus(n) \in 0..(Modulus - 1)
BY RegistryAssumption DEF Minus, TypeOK
-----------------------------------------------------------------------------
LEMMA InitRegistryInv == Init => RegistryInv
<1> SUFFICES ASSUME Init PROVE RegistryInv
  OBVIOUS
<1>1. \A x : Entry(byUser, x) = {} /\ Entry(byWorkspace, x) = {} BY DEF Init, Entry
<1>2. byUser \in Map(Users) /\ byWorkspace \in Map(Workspaces) BY MapType DEF Init
<1>3. conn \in [Sessions -> Conn] /\ closer \in [Closers -> Closer]
  BY DEF Init, Conn, ConnPhases, Closer, Idle
<1>4. total \in 0..(Modulus - 1) BY RegistryAssumption DEF Init
<1>5. TypeOK BY <1>2, <1>3, <1>4 DEF TypeOK
<1>6. TaskInv BY DEF Init, TaskInv, Locking, Idle
<1>7. EntryInv BY <1>1, FS_EmptySet, RegistryAssumption DEF EntryInv
<1>8. QED BY <1>5, <1>6, <1>7 DEF RegistryInv

\* Most steps: entries shrink, nobody takes hold of one, and whoever moves on in its task
\* is no longer in an entry it must have left.
LEMMA ShrinkStep ==
  ASSUME RegistryInv, TypeOK',
         \A u \in Users : Entry(byUser', u) \subseteq Entry(byUser, u),
         \A w \in Workspaces : Entry(byWorkspace', w) \subseteq Entry(byWorkspace, w),
         \A s \in Sessions : /\ conn'[s].user = conn[s].user /\ conn'[s].workspace = conn[s].workspace
                             /\ conn'[s].pc # "new" => conn[s].pc # "new"
                             /\ Locking(s)' => Locking(s),
         \A u \in Users : \A s \in Entry(byUser', u) :
           conn'[s].pc \in {"join", "live", "leaveEmpty", "leaveUser"},
         \A w \in Workspaces : \A s \in Entry(byWorkspace', w) : conn'[s].pc = "live",
         \A k \in Closers :
           closer'[k].pc \in {"user", "userEmpty", "workspace", "workspaceEmpty"}
             => closer'[k].todo \subseteq Sessions
  PROVE  RegistryInv'
<1> USE DEF RegistryInv
<1>1. \A u \in Users : /\ Cardinality(Entry(byUser', u)) \in Nat /\ Cardinality(Entry(byUser, u)) \in Nat
                       /\ Cardinality(Entry(byUser', u)) <= Cardinality(Entry(byUser, u))
  BY EntryType, EntrySize DEF TypeOK
<1>2. \A u \in Users : Entry(byUser', u) \subseteq Sessions BY EntryType DEF TypeOK
<1>3. \A w \in Workspaces : Entry(byWorkspace', w) \subseteq Sessions BY EntryType DEF TypeOK
<1>4. PerUser \in Nat BY RegistryAssumption
<1>5. EntryInv' BY <1>1, <1>2, <1>3, <1>4 DEF EntryInv
<1>6. \A s \in Sessions : Locking(s)' => Cardinality(Entry(byUser', conn'[s].user)) < PerUser
  <2> SUFFICES ASSUME NEW s \in Sessions, Locking(s)'
               PROVE  Cardinality(Entry(byUser', conn'[s].user)) < PerUser
    OBVIOUS
  <2>1. Locking(s) /\ conn[s].user \in Users /\ conn'[s].user = conn[s].user
    BY DEF TaskInv, Locking
  <2>2. Cardinality(Entry(byUser, conn[s].user)) < PerUser BY <2>1 DEF TaskInv
  <2>3. QED BY <1>1, <1>4, <2>1, <2>2
<1>7. TaskInv'
  <2>1. \A s \in Sessions : conn'[s].pc # "new" => conn'[s].user \in Users /\ conn'[s].workspace \in Workspaces
    BY DEF TaskInv
  <2>2. \A r, s \in Sessions : Locking(r)' /\ Locking(s)' /\ conn'[r].user = conn'[s].user => r = s
    BY DEF TaskInv
  <2>3. QED BY <1>6, <2>1, <2>2 DEF TaskInv
<1>8. QED BY <1>5, <1>7
-----------------------------------------------------------------------------
(* The steps of a connection.                                                  *)

\* What Go and the other updates of one task leave alone
LEMMA GoOne ==
  ASSUME RegistryInv, NEW s \in Sessions, NEW pc \in ConnPhases, Go(s, pc)
  PROVE  /\ conn' \in [Sessions -> Conn]
         /\ conn'[s].pc = pc /\ conn'[s].told = conn[s].told /\ ~conn'[s].late
         /\ conn'[s].user = conn[s].user /\ conn'[s].workspace = conn[s].workspace
         /\ \A r \in Sessions \ {s} : conn'[r] = conn[r]
BY DEF RegistryInv, TypeOK, Go, Conn

\* A connection opens; nothing holds it yet.
LEMMA OpenInv ==
  ASSUME RegistryInv, NEW s \in Sessions, Open(s)
  PROVE  RegistryInv'
<1> USE DEF RegistryInv
<1>1. PICK u \in Users, w \in Workspaces :
        conn' = [conn EXCEPT ![s].pc = "claim", ![s].user = u, ![s].workspace = w]
  BY DEF Open
<1>2. /\ conn[s].pc = "new" /\ byUser' = byUser /\ byWorkspace' = byWorkspace
      /\ total' = total /\ closer' = closer
  BY DEF Open
<1>3. /\ conn'[s].pc = "claim" /\ conn'[s].user = u /\ conn'[s].workspace = w
      /\ \A r \in Sessions \ {s} : conn'[r] = conn[r]
  BY <1>1 DEF TypeOK, Conn
<1>4. conn' \in [Sessions -> Conn]
  <2>1. conn[s] \in Conn BY DEF TypeOK
  <2>2. [conn[s] EXCEPT !.pc = "claim", !.user = u, !.workspace = w] \in Conn
    BY <2>1 DEF Conn, ConnPhases
  <2>3. QED BY <1>1, <2>2 DEF TypeOK
<1>5. TypeOK' BY <1>2, <1>4 DEF TypeOK
<1>6. TaskInv' BY <1>2, <1>3 DEF TaskInv, Locking
<1>7. \A x : Entry(byUser, x) \in SUBSET Sessions /\ Entry(byWorkspace, x) \in SUBSET Sessions
  BY EntryType DEF TypeOK
<1>8. EntryInv' BY <1>2, <1>3, <1>7 DEF EntryInv
<1>9. QED BY <1>5, <1>6, <1>8

\* The steps that only move on: claiming a slot, refusing, and giving the slot back.
LEMMA CounterInv ==
  ASSUME RegistryInv, NEW s \in Sessions, ClaimSlot(s) \/ Refuse(s) \/ Release(s)
  PROVE  RegistryInv'
<1> USE DEF RegistryInv
<1>1. PICK pc \in {"user", "refused", "done"} : Go(s, pc) BY DEF ClaimSlot, Refuse, Release
<1>2. conn[s].pc \in {"claim", "release"} BY DEF ClaimSlot, Refuse, Release
<1>3. byUser' = byUser /\ byWorkspace' = byWorkspace /\ closer' = closer
  BY DEF ClaimSlot, Refuse, Release
<1>4. total' \in 0..(Modulus - 1)
  <2>1. CASE ClaimSlot(s) BY <2>1, RegistryAssumption DEF ClaimSlot, TypeOK
  <2>2. CASE Refuse(s) BY <2>2 DEF Refuse, TypeOK
  <2>3. CASE Release(s) BY <2>3, MinusWord DEF Release
  <2>4. QED BY <2>1, <2>2, <2>3
<1>5. /\ conn' \in [Sessions -> Conn] /\ conn'[s].pc = pc
      /\ conn'[s].user = conn[s].user /\ conn'[s].workspace = conn[s].workspace
      /\ \A r \in Sessions \ {s} : conn'[r] = conn[r]
  BY <1>1, GoOne DEF ConnPhases
<1>6. TypeOK' BY <1>3, <1>4, <1>5 DEF TypeOK
<1>7. \A x : Entry(byUser, x) \in SUBSET Sessions /\ Entry(byWorkspace, x) \in SUBSET Sessions
  BY EntryType DEF TypeOK
<1>8. \A u \in Users : s \notin Entry(byUser, u) BY <1>2 DEF EntryInv
<1>9. \A w \in Workspaces : s \notin Entry(byWorkspace, w) BY <1>2 DEF EntryInv
<1>10. TaskInv' BY <1>2, <1>3, <1>5 DEF TaskInv, Locking
<1>11. EntryInv' BY <1>3, <1>5, <1>7, <1>8, <1>9 DEF EntryInv
<1>12. QED BY <1>6, <1>10, <1>11

\* A session is pushed into its user's entry, of which the registration is the holder.
LEMMA EnterInv ==
  ASSUME RegistryInv, NEW s \in Sessions, EnterUser(s) \/ EnterAfterEviction(s)
  PROVE  RegistryInv'
<1> USE DEF RegistryInv
<1>1. conn[s].pc \in {"user", "enter"} BY DEF EnterUser, EnterAfterEviction
<1>0. PICK u \in Users : u = conn[s].user BY <1>1 DEF TaskInv
<1>2. byUser' = Push(byUser, u, s) /\ byWorkspace' = byWorkspace /\ closer' = closer
  BY <1>0 DEF EnterUser, EnterAfterEviction
<1>3. /\ conn' \in [Sessions -> Conn] /\ conn'[s].pc = "join"
      /\ conn'[s].user = u /\ conn'[s].workspace = conn[s].workspace
      /\ \A r \in Sessions \ {s} : conn'[r] = conn[r]
  <2>1. CASE EnterUser(s) BY <1>0, <2>1, GoOne DEF EnterUser, ConnPhases
  <2>2. CASE EnterAfterEviction(s)
    BY <1>0, <2>2 DEF EnterAfterEviction, TypeOK, Conn, ConnPhases
  <2>3. QED BY <2>1, <2>2
<1>4. total' \in 0..(Modulus - 1)
  BY MinusWord DEF EnterUser, EnterAfterEviction, TypeOK
<1>5. /\ byUser' \in Map(Users)
      /\ \A x : Entry(byUser', x) = IF x = u THEN Entry(byUser, x) \cup {s} ELSE Entry(byUser, x)
  <2>1. byUser \in Map(Users) BY DEF TypeOK
  <2>2. /\ Push(byUser, u, s) \in Map(Users)
        /\ \A x : Entry(Push(byUser, u, s), x)
                   = IF x = u THEN Entry(byUser, x) \cup {s} ELSE Entry(byUser, x)
    BY <2>1, PushEntries
  <2>3. QED BY <1>2, <2>2
<1>6. TypeOK' BY <1>2, <1>3, <1>4, <1>5 DEF TypeOK
<1>7. Cardinality(Entry(byUser, u)) < PerUser
  BY <1>0 DEF EnterUser, EnterAfterEviction, TaskInv, Locking
<1>8. \A r \in Sessions \ {s} : Locking(r) => conn[r].user # u
  <2>1. CASE EnterUser(s) BY <1>0, <2>1 DEF EnterUser, Locked, Locking
  <2>2. CASE EnterAfterEviction(s) BY <1>0, <2>2 DEF EnterAfterEviction, TaskInv, Locking
  <2>3. QED BY <2>1, <2>2
<1>9. TaskInv'
  <2>1. \A r \in Sessions : conn'[r].pc # "new" => conn'[r].user \in Users /\ conn'[r].workspace \in Workspaces
    BY <1>0, <1>1, <1>3 DEF TaskInv
  <2>2. \A r \in Sessions : Locking(r)' => r # s /\ Locking(r) /\ conn'[r] = conn[r] /\ conn[r].user # u
    BY <1>3, <1>8 DEF Locking
  <2>3. \A r \in Sessions : Locking(r)' => Cardinality(Entry(byUser', conn'[r].user)) < PerUser
    BY <1>5, <2>2 DEF TaskInv
  <2>4. \A q, r \in Sessions : Locking(q)' /\ Locking(r)' /\ conn'[q].user = conn'[r].user => q = r
    BY <2>2 DEF TaskInv
  <2>5. QED BY <1>2, <2>1, <2>3, <2>4 DEF TaskInv
<1>10. \A x : Entry(byUser, x) \in SUBSET Sessions /\ Entry(byWorkspace, x) \in SUBSET Sessions
  BY EntryType DEF TypeOK
<1>11. Cardinality(Entry(byUser', u)) <= PerUser
  <2>1. IsFiniteSet(Entry(byUser, u)) /\ Cardinality(Entry(byUser, u)) \in Nat
    BY <1>10, EntrySize
  <2>2. Cardinality(Entry(byUser, u) \cup {s})
          \in {Cardinality(Entry(byUser, u)), Cardinality(Entry(byUser, u)) + 1}
    BY <2>1, FS_AddElement
  <2>3. Cardinality(Entry(byUser, u) \cup {s}) \in Nat
    BY <2>1, FS_AddElement, FS_CardinalityType
  <2>4. Entry(byUser', u) = Entry(byUser, u) \cup {s} BY <1>5
  <2>5. PerUser \in Nat BY RegistryAssumption
  <2>6. QED BY <1>7, <2>1, <2>2, <2>3, <2>4, <2>5
<1>12. \A w \in Workspaces : s \notin Entry(byWorkspace, w) BY <1>1 DEF EntryInv
<1>13. EntryInv'
  <2>1. \A x \in Users : Cardinality(Entry(byUser', x)) <= PerUser BY <1>5, <1>11 DEF EntryInv
  <2>2. \A x \in Users : \A r \in Entry(byUser', x) :
          conn'[r].user = x /\ conn'[r].pc \in {"join", "live", "leaveEmpty", "leaveUser"}
    BY <1>0, <1>3, <1>5, <1>10 DEF EntryInv
  <2>3. \A w \in Workspaces : \A r \in Entry(byWorkspace', w) :
          conn'[r].workspace = w /\ conn'[r].pc = "live"
    BY <1>2, <1>3, <1>10, <1>12 DEF EntryInv
  <2>4. QED BY <2>1, <2>2, <2>3 DEF EntryInv
<1>14. QED BY <1>6, <1>9, <1>13

\* The oldest session is taken off and the entry kept: one place in it is free.
LEMMA EvictInv ==
  ASSUME RegistryInv, NEW s \in Sessions, EvictOldest(s)
  PROVE  RegistryInv'
<1> USE DEF RegistryInv
<1>0. PICK u \in Users : u = conn[s].user BY DEF EvictOldest, TaskInv
<1>1. PICK v \in byUser[u] :
        /\ byUser' = Retain(byUser, u, v)
        /\ conn' = [conn EXCEPT ![s].pc = "evict", ![s].victim = v, ![v].told = TRUE]
  BY <1>0 DEF EvictOldest
<1>2. conn[s].pc = "user" /\ ~Locked(u) /\ Cardinality(Entry(byUser, u)) >= PerUser
  BY <1>0 DEF EvictOldest
<1>3. byWorkspace' = byWorkspace /\ total' = total /\ closer' = closer BY DEF EvictOldest
<1>4. u \in DOMAIN byUser /\ Entry(byUser, u) = byUser[u] /\ v \in Entry(byUser, u)
  BY <1>1, <1>2, FS_EmptySet, RegistryAssumption DEF Entry
<1>5. \A x : Entry(byUser, x) \in SUBSET Sessions /\ Entry(byWorkspace, x) \in SUBSET Sessions
  BY EntryType DEF TypeOK
<1>6. v \in Sessions /\ v # s BY <1>2, <1>4, <1>5 DEF EntryInv
<1>7. /\ byUser' \in Map(Users)
      /\ \A x : Entry(byUser', x) = IF x = u THEN Entry(byUser, x) \ {v} ELSE Entry(byUser, x)
  <2>1. byUser \in Map(Users) BY DEF TypeOK
  <2>2. /\ Retain(byUser, u, v) \in Map(Users)
        /\ \A x : Entry(Retain(byUser, u, v), x)
                   = IF x = u THEN Entry(byUser, x) \ {v} ELSE Entry(byUser, x)
    BY <2>1, RetainEntries
  <2>3. QED BY <1>1, <2>2
<1>8. conn' \in [Sessions -> Conn]
  <2>1. conn[s] \in Conn /\ conn[v] \in Conn BY <1>6 DEF TypeOK
  <2>2. [conn[s] EXCEPT !.pc = "evict", !.victim = v] \in Conn
        /\ [conn[v] EXCEPT !.told = TRUE] \in Conn
    BY <1>6, <2>1 DEF Conn, ConnPhases
  <2>3. conn' = [[conn EXCEPT ![s] = [conn[s] EXCEPT !.pc = "evict", !.victim = v]]
                   EXCEPT ![v] = [conn[v] EXCEPT !.told = TRUE]]
    BY <1>1, <1>6 DEF TypeOK
  <2>4. QED BY <1>6, <2>2, <2>3 DEF TypeOK
<1>9. /\ conn'[s].pc = "evict"
      /\ \A r \in Sessions : conn'[r].user = conn[r].user /\ conn'[r].workspace = conn[r].workspace
      /\ \A r \in Sessions \ {s} : conn'[r].pc = conn[r].pc
  BY <1>1, <1>6 DEF TypeOK, Conn
<1>10. TypeOK' BY <1>3, <1>7, <1>8 DEF TypeOK
<1>11. /\ Cardinality(Entry(byUser', u)) < PerUser
       /\ \A x \in Users : Cardinality(Entry(byUser', x)) <= PerUser
  <2>1. IsFiniteSet(Entry(byUser, u)) /\ Cardinality(Entry(byUser, u)) \in Nat
    BY <1>5, EntrySize
  <2>2. Cardinality(Entry(byUser, u) \ {v}) = Cardinality(Entry(byUser, u)) - 1
    BY <1>4, <2>1, FS_RemoveElement
  <2>3. Cardinality(Entry(byUser, u)) <= PerUser BY <1>2 DEF EntryInv
  <2>0. Entry(byUser', u) = Entry(byUser, u) \ {v} /\ PerUser \in Nat BY <1>7, RegistryAssumption
  <2>4. Cardinality(Entry(byUser', u)) < PerUser BY <2>0, <2>1, <2>2, <2>3
  <2>5. \A x \in Users \ {u} : Cardinality(Entry(byUser', x)) <= PerUser BY <1>7 DEF EntryInv
  <2>6. Cardinality(Entry(byUser', u)) <= PerUser BY <2>0, <2>1, <2>2, <2>3
  <2>7. QED BY <2>4, <2>5, <2>6
<1>12. TaskInv'
  <2>1. \A r \in Sessions \ {s} : Locking(r) => conn[r].user # u BY <1>0, <1>2 DEF Locked, Locking
  <2>2. \A r \in Sessions : conn'[r].pc # "new" => conn'[r].user \in Users /\ conn'[r].workspace \in Workspaces
    BY <1>0, <1>2, <1>9 DEF TaskInv
  <2>3. \A r \in Sessions : Locking(r)' => Cardinality(Entry(byUser', conn'[r].user)) < PerUser
    BY <1>0, <1>7, <1>9, <1>11, <2>1 DEF TaskInv, Locking
  <2>4. \A q, r \in Sessions : Locking(q)' /\ Locking(r)' /\ conn'[q].user = conn'[r].user => q = r
    BY <1>0, <1>9, <2>1 DEF TaskInv, Locking
  <2>5. QED BY <1>3, <2>2, <2>3, <2>4 DEF TaskInv
<1>13. \A w \in Workspaces : s \notin Entry(byWorkspace, w) BY <1>2 DEF EntryInv
<1>14. \A x \in Users : s \notin Entry(byUser, x) BY <1>2 DEF EntryInv
<1>15. EntryInv'
  <2>1. \A x \in Users : \A r \in Entry(byUser', x) :
          conn'[r].user = x /\ conn'[r].pc \in {"join", "live", "leaveEmpty", "leaveUser"}
    BY <1>5, <1>7, <1>9, <1>14 DEF EntryInv
  <2>2. \A w \in Workspaces : \A r \in Entry(byWorkspace', w) :
          conn'[r].workspace = w /\ conn'[r].pc = "live"
    BY <1>3, <1>5, <1>9, <1>13 DEF EntryInv
  <2>3. QED BY <1>11, <2>1, <2>2 DEF EntryInv
<1>16. QED BY <1>10, <1>12, <1>15

\* The steps that take a session off a workspace's entry, or remove that entry, and move
\* on: the user's entries stay.
LEMMA WorkspaceStepInv ==
  ASSUME RegistryInv, NEW s \in Sessions, NEW pc \in ConnPhases, Go(s, pc),
         byWorkspace' \in Map(Workspaces),
         \A w \in Workspaces : Entry(byWorkspace', w) \subseteq Entry(byWorkspace, w) \ {s},
         byUser' = byUser, total' = total, closer' = closer,
         pc # "new", conn[s].pc # "new",
         pc \in {"evict", "evictEmpty", "enter"} => Locking(s),
         pc \in {"leaveEmpty", "leaveUser"} \/ \A u \in Users : s \notin Entry(byUser, u)
  PROVE  RegistryInv'
<1> USE DEF RegistryInv
<1>1. /\ conn' \in [Sessions -> Conn] /\ conn'[s].pc = pc
      /\ conn'[s].user = conn[s].user /\ conn'[s].workspace = conn[s].workspace
      /\ \A r \in Sessions \ {s} : conn'[r] = conn[r]
  BY GoOne
<1>2. TypeOK' BY <1>1 DEF TypeOK
<1>3. \A x : Entry(byUser, x) \in SUBSET Sessions /\ Entry(byWorkspace, x) \in SUBSET Sessions
  BY EntryType DEF TypeOK
<1>4. \A r \in Sessions : /\ conn'[r].user = conn[r].user /\ conn'[r].workspace = conn[r].workspace
                          /\ conn'[r].pc # "new" => conn[r].pc # "new"
                          /\ Locking(r)' => Locking(r)
  BY <1>1 DEF Locking
<1>5. \A u \in Users : \A r \in Entry(byUser', u) :
        conn'[r].pc \in {"join", "live", "leaveEmpty", "leaveUser"}
  BY <1>1, <1>3 DEF EntryInv
<1>6. \A w \in Workspaces : \A r \in Entry(byWorkspace', w) : conn'[r].pc = "live"
  BY <1>1, <1>3 DEF EntryInv
<1>7. \A k \in Closers :
        closer'[k].pc \in {"user", "userEmpty", "workspace", "workspaceEmpty"}
          => closer'[k].todo \subseteq Sessions
  BY DEF TaskInv
<1>8. QED BY <1>2, <1>4, <1>5, <1>6, <1>7, ShrinkStep

LEMMA EvictFromWorkspaceInv ==
  ASSUME RegistryInv, NEW s \in Sessions, EvictFromWorkspace(s) \/ EvictEntry(s)
  PROVE  RegistryInv'
<1> USE DEF RegistryInv
<1>1. PICK pc \in {"evictEmpty", "enter"} : Go(s, pc) BY DEF EvictFromWorkspace, EvictEntry
<1>2. /\ conn[s].pc \in {"evict", "evictEmpty"}
      /\ byUser' = byUser /\ total' = total /\ closer' = closer
  BY DEF EvictFromWorkspace, EvictEntry
<1>3. byWorkspace \in Map(Workspaces) BY DEF TypeOK
<1>4. /\ byWorkspace' \in Map(Workspaces)
      /\ \A w \in Workspaces : Entry(byWorkspace', w) \subseteq Entry(byWorkspace, w)
  <2>1. CASE EvictFromWorkspace(s)
    <3>1. PICK v, w : byWorkspace' = Retain(byWorkspace, w, v) BY <2>1 DEF EvictFromWorkspace
    <3>2. QED BY <1>3, <3>1, RetainEntries
  <2>2. CASE EvictEntry(s)
    <3>1. PICK w : byWorkspace' = Without(byWorkspace, w) BY <2>2 DEF EvictEntry
    <3>2. QED BY <1>3, <3>1, WithoutEntries
  <2>3. QED BY <2>1, <2>2
<1>5. /\ \A w \in Workspaces : s \notin Entry(byWorkspace, w)
      /\ \A u \in Users : s \notin Entry(byUser, u)
  BY <1>2 DEF EntryInv
<1>6. pc \in ConnPhases /\ pc # "new" /\ conn[s].pc # "new" /\ Locking(s)
  BY <1>2 DEF ConnPhases, Locking
<1>7. QED BY <1>1, <1>2, <1>4, <1>5, <1>6, WorkspaceStepInv

LEMMA LeaveWorkspaceInv ==
  ASSUME RegistryInv, NEW s \in Sessions, LeaveWorkspace(s) \/ LeaveEntry(s)
  PROVE  RegistryInv'
<1> USE DEF RegistryInv
<1>1. PICK pc \in {"leaveEmpty", "leaveUser"} : Go(s, pc) BY DEF LeaveWorkspace, LeaveEntry
<1>2. /\ conn[s].pc \in {"live", "leaveEmpty"}
      /\ byUser' = byUser /\ total' = total /\ closer' = closer
  BY DEF LeaveWorkspace, LeaveEntry
<1>3. byWorkspace \in Map(Workspaces) BY DEF TypeOK
<1>4. PICK w \in Workspaces : w = conn[s].workspace BY <1>2 DEF TaskInv
<1>5. \A x \in Workspaces : s \in Entry(byWorkspace, x) => x = w BY <1>4 DEF EntryInv
<1>6. /\ byWorkspace' \in Map(Workspaces)
      /\ \A x \in Workspaces : Entry(byWorkspace', x) \subseteq Entry(byWorkspace, x) \ {s}
  <2>1. CASE LeaveWorkspace(s)
    <3>1. byWorkspace' = Retain(byWorkspace, w, s) BY <1>4, <2>1 DEF LeaveWorkspace
    <3>2. QED BY <1>3, <1>5, <3>1, RetainEntries
  <2>2. CASE LeaveEntry(s)
    <3>1. byWorkspace' = Without(byWorkspace, w) BY <1>4, <2>2 DEF LeaveEntry
    <3>2. QED BY <1>3, <1>5, <3>1, WithoutEntries
  <2>3. QED BY <2>1, <2>2
<1>7. pc \in ConnPhases /\ pc # "new" /\ conn[s].pc # "new" BY <1>2 DEF ConnPhases
<1>8. QED BY <1>1, <1>2, <1>6, <1>7, WorkspaceStepInv

\* A session is taken off its user's entry, or the entry removed, and moves on.
LEMMA LeaveUserInv ==
  ASSUME RegistryInv, NEW s \in Sessions, LeaveUser(s) \/ LeaveUserEntry(s)
  PROVE  RegistryInv'
<1> USE DEF RegistryInv
<1>1. PICK pc \in {"leaveUserEmpty", "release"} : Go(s, pc) BY DEF LeaveUser, LeaveUserEntry
<1>2. /\ conn[s].pc \in {"leaveUser", "leaveUserEmpty"}
      /\ byWorkspace' = byWorkspace /\ total' = total /\ closer' = closer
  BY DEF LeaveUser, LeaveUserEntry
<1>3. byUser \in Map(Users) BY DEF TypeOK
<1>4. PICK u \in Users : u = conn[s].user BY <1>2 DEF TaskInv
<1>5. \A x \in Users : s \in Entry(byUser, x) => x = u BY <1>4 DEF EntryInv
<1>6. /\ byUser' \in Map(Users)
      /\ \A x \in Users : Entry(byUser', x) \subseteq Entry(byUser, x) \ {s}
  <2>1. CASE LeaveUser(s)
    <3>1. byUser' = Retain(byUser, u, s) BY <1>4, <2>1 DEF LeaveUser
    <3>2. QED BY <1>3, <1>5, <3>1, RetainEntries
  <2>2. CASE LeaveUserEntry(s)
    <3>1. byUser' = Without(byUser, u) BY <1>4, <2>2 DEF LeaveUserEntry
    <3>2. QED BY <1>3, <1>5, <3>1, WithoutEntries
  <2>3. QED BY <2>1, <2>2
<1>7. /\ conn' \in [Sessions -> Conn] /\ conn'[s].pc = pc
      /\ conn'[s].user = conn[s].user /\ conn'[s].workspace = conn[s].workspace
      /\ \A r \in Sessions \ {s} : conn'[r] = conn[r]
  BY <1>1, GoOne DEF ConnPhases
<1>8. TypeOK' BY <1>2, <1>6, <1>7 DEF TypeOK
<1>9. \A x : Entry(byUser, x) \in SUBSET Sessions /\ Entry(byWorkspace, x) \in SUBSET Sessions
  BY EntryType DEF TypeOK
<1>10. \A r \in Sessions : /\ conn'[r].user = conn[r].user /\ conn'[r].workspace = conn[r].workspace
                           /\ conn'[r].pc # "new" => conn[r].pc # "new"
                           /\ Locking(r)' => Locking(r)
  BY <1>2, <1>7 DEF Locking
<1>11. \A x \in Users : \A r \in Entry(byUser', x) :
         conn'[r].pc \in {"join", "live", "leaveEmpty", "leaveUser"}
  BY <1>6, <1>7, <1>9 DEF EntryInv
<1>12. \A w \in Workspaces : \A r \in Entry(byWorkspace', w) : conn'[r].pc = "live"
  BY <1>2, <1>7, <1>9 DEF EntryInv
<1>13. \A k \in Closers :
         closer'[k].pc \in {"user", "userEmpty", "workspace", "workspaceEmpty"}
           => closer'[k].todo \subseteq Sessions
  BY <1>2 DEF TaskInv
<1>14. \A x \in Users : Entry(byUser', x) \subseteq Entry(byUser, x) BY <1>6
<1>15. \A w \in Workspaces : Entry(byWorkspace', w) \subseteq Entry(byWorkspace, w) BY <1>2
<1>16. QED BY <1>8, <1>10, <1>11, <1>12, <1>13, <1>14, <1>15, ShrinkStep

\* The session that has entered its user's entry enters its workspace's.
LEMMA JoinInv ==
  ASSUME RegistryInv, NEW s \in Sessions, JoinWorkspace(s)
  PROVE  RegistryInv'
<1> USE DEF RegistryInv
<1>1. /\ conn[s].pc = "join" /\ conn' = [conn EXCEPT ![s].pc = "live", ![s].late = conn[s].told]
      /\ byUser' = byUser /\ total' = total /\ closer' = closer
  BY DEF JoinWorkspace
<1>2. PICK w \in Workspaces : w = conn[s].workspace BY <1>1 DEF TaskInv
<1>3. byWorkspace \in Map(Workspaces) BY DEF TypeOK
<1>4. byWorkspace' = Push(byWorkspace, w, s) BY <1>2 DEF JoinWorkspace
<1>5. /\ byWorkspace' \in Map(Workspaces)
      /\ \A x : Entry(byWorkspace', x)
                = IF x = w THEN Entry(byWorkspace, x) \cup {s} ELSE Entry(byWorkspace, x)
  BY <1>3, <1>4, PushEntries
<1>6. /\ conn' \in [Sessions -> Conn] /\ conn'[s].pc = "live"
      /\ conn'[s].user = conn[s].user /\ conn'[s].workspace = conn[s].workspace
      /\ \A r \in Sessions \ {s} : conn'[r] = conn[r]
  BY <1>1 DEF TypeOK, Conn, ConnPhases
<1>7. TypeOK' BY <1>1, <1>5, <1>6 DEF TypeOK
<1>8. \A x : Entry(byUser, x) \in SUBSET Sessions /\ Entry(byWorkspace, x) \in SUBSET Sessions
  BY EntryType DEF TypeOK
<1>9. TaskInv' BY <1>1, <1>6 DEF TaskInv, Locking
<1>10. EntryInv' BY <1>1, <1>2, <1>5, <1>6, <1>8 DEF EntryInv
<1>11. QED BY <1>7, <1>9, <1>10
-----------------------------------------------------------------------------
(* The steps of a close: entries shrink, connections are told and stay where    *)
(* they are.                                                                    *)

LEMMA CloserStep ==
  ASSUME RegistryInv, NEW k \in Closers, NEW c \in Closer,
         byUser' \in Map(Users), byWorkspace' \in Map(Workspaces), total' \in 0..(Modulus - 1),
         \A u \in Users : Entry(byUser', u) \subseteq Entry(byUser, u),
         \A w \in Workspaces : Entry(byWorkspace', w) \subseteq Entry(byWorkspace, w),
         conn' \in [Sessions -> Conn],
         \A s \in Sessions : /\ conn'[s].user = conn[s].user /\ conn'[s].workspace = conn[s].workspace
                             /\ conn'[s].pc = conn[s].pc,
         closer' = [closer EXCEPT ![k] = c],
         c.pc \in {"user", "userEmpty", "workspace", "workspaceEmpty"} => c.todo \subseteq Sessions
  PROVE  RegistryInv'
<1> USE DEF RegistryInv
<1>1. TypeOK' BY DEF TypeOK
<1>2. \A u \in Users : \A s \in Entry(byUser', u) :
        conn'[s].pc \in {"join", "live", "leaveEmpty", "leaveUser"}
  <2>1. \A u \in Users : Entry(byUser, u) \subseteq Sessions BY EntryType DEF TypeOK
  <2>2. QED BY <2>1 DEF EntryInv
<1>3. \A w \in Workspaces : \A s \in Entry(byWorkspace', w) : conn'[s].pc = "live"
  <2>1. \A w \in Workspaces : Entry(byWorkspace, w) \subseteq Sessions BY EntryType DEF TypeOK
  <2>2. QED BY <2>1 DEF EntryInv
<1>4. \A j \in Closers :
        closer'[j].pc \in {"user", "userEmpty", "workspace", "workspaceEmpty"}
          => closer'[j].todo \subseteq Sessions
  BY DEF TaskInv, TypeOK
<1>5. \A s \in Sessions : Locking(s)' => Locking(s) BY DEF Locking
<1>6. QED BY <1>1, <1>2, <1>3, <1>4, <1>5, ShrinkStep

\* Telling a session changes nothing else about it.
LEMMA TellOne ==
  ASSUME RegistryInv, NEW s, conn' = [conn EXCEPT ![s].told = TRUE]
  PROVE  /\ conn' \in [Sessions -> Conn]
         /\ \A r \in Sessions : /\ conn'[r].user = conn[r].user /\ conn'[r].workspace = conn[r].workspace
                                /\ conn'[r].pc = conn[r].pc
<1>1. \A r \in Sessions : [conn[r] EXCEPT !.told = TRUE] \in Conn
  BY DEF RegistryInv, TypeOK, Conn
<1>2. QED BY <1>1 DEF RegistryInv, TypeOK, Conn

LEMMA CloseStartInv ==
  ASSUME RegistryInv, NEW k \in Closers, NEW x,
         CloseUser(k, x) \/ CloseWorkspace(k, x) \/ CloseAll(k)
  PROVE  RegistryInv'
<1> USE DEF RegistryInv
<1>1. /\ byUser \in Map(Users) /\ byWorkspace \in Map(Workspaces) /\ total \in 0..(Modulus - 1)
      /\ conn \in [Sessions -> Conn]
  BY DEF TypeOK
<1>2. CASE CloseUser(k, x)
  <2> DEFINE c == [pc |-> "user", todo |-> byUser[x], at |-> None, count |-> Cardinality(byUser[x])]
  <2>1. /\ x \in DOMAIN byUser /\ closer' = [closer EXCEPT ![k] = c]
        /\ byUser' = Without(byUser, x) /\ UNCHANGED <<byWorkspace, total, conn>>
    BY <1>2 DEF CloseUser
  <2>2. byUser[x] \in SUBSET Sessions BY <1>1, <2>1, MapType
  <2>3. c \in Closer BY <2>2, EntrySize DEF Closer
  <2>4. byUser' \in Map(Users) /\ \A u \in Users : Entry(byUser', u) \subseteq Entry(byUser, u)
    BY <1>1, <2>1, WithoutEntries
  <2>5. QED BY <1>1, <2>1, <2>2, <2>3, <2>4, CloserStep
<1>3. CASE CloseWorkspace(k, x)
  <2> DEFINE c == [pc |-> "workspace", todo |-> byWorkspace[x], at |-> None,
                   count |-> Cardinality(byWorkspace[x])]
  <2>1. /\ x \in DOMAIN byWorkspace /\ closer' = [closer EXCEPT ![k] = c]
        /\ byWorkspace' = Without(byWorkspace, x) /\ UNCHANGED <<byUser, total, conn>>
    BY <1>3 DEF CloseWorkspace
  <2>2. byWorkspace[x] \in SUBSET Sessions BY <1>1, <2>1, MapType
  <2>3. c \in Closer BY <2>2, EntrySize DEF Closer
  <2>4. /\ byWorkspace' \in Map(Workspaces)
        /\ \A w \in Workspaces : Entry(byWorkspace', w) \subseteq Entry(byWorkspace, w)
    BY <1>1, <2>1, WithoutEntries
  <2>5. QED BY <1>1, <2>1, <2>2, <2>3, <2>4, CloserStep
<1>4. CASE CloseAll(k)
  <2> DEFINE c == [Idle EXCEPT !.pc = "all", !.todo = DOMAIN byWorkspace]
  <2>1. closer' = [closer EXCEPT ![k] = c] /\ UNCHANGED <<byUser, byWorkspace, total, conn>>
    BY <1>4 DEF CloseAll
  <2>2. DOMAIN byWorkspace \in SUBSET Workspaces BY <1>1, MapType
  <2>3. c \in Closer BY <2>2 DEF Closer, Idle
  <2>4. c.pc = "all" BY DEF Idle
  <2>5. QED BY <1>1, <2>1, <2>3, <2>4, CloserStep
<1>5. QED BY <1>2, <1>3, <1>4

\* A session is told and taken off the other map.
LEMMA CloseNextInv ==
  ASSUME RegistryInv, NEW k \in Closers, CloseUserNext(k) \/ CloseWorkspaceNext(k)
  PROVE  RegistryInv'
<1> USE DEF RegistryInv
<1>1. /\ byUser \in Map(Users) /\ byWorkspace \in Map(Workspaces) /\ total \in 0..(Modulus - 1)
      /\ closer[k] \in Closer
  BY DEF TypeOK
<1>2. closer[k].pc \in {"user", "workspace"} /\ closer[k].todo \subseteq Sessions
  BY DEF CloseUserNext, CloseWorkspaceNext, TaskInv
<1>3. PICK s \in closer[k].todo, pc \in {"user", "userEmpty", "workspace", "workspaceEmpty"} :
        /\ conn' = [conn EXCEPT ![s].told = TRUE]
        /\ closer' = [closer EXCEPT ![k].todo = @ \ {s}, ![k].at = s, ![k].pc = pc]
  BY DEF CloseUserNext, CloseWorkspaceNext
<1> DEFINE c == [closer[k] EXCEPT !.todo = @ \ {s}, !.at = s, !.pc = pc]
<1>4. c \in Closer /\ c.pc = pc /\ c.todo \subseteq Sessions BY <1>1, <1>2 DEF Closer
<1>5. closer' = [closer EXCEPT ![k] = c] BY <1>3 DEF TypeOK
<1>6. /\ byUser' \in Map(Users) /\ byWorkspace' \in Map(Workspaces) /\ total' = total
      /\ \A u \in Users : Entry(byUser', u) \subseteq Entry(byUser, u)
      /\ \A w \in Workspaces : Entry(byWorkspace', w) \subseteq Entry(byWorkspace, w)
  <2>1. CASE CloseUserNext(k)
    <3>1. PICK w, r : byWorkspace' = Retain(byWorkspace, w, r) BY <2>1 DEF CloseUserNext
    <3>2. byUser' = byUser /\ total' = total BY <2>1 DEF CloseUserNext
    <3>3. QED BY <1>1, <3>1, <3>2, RetainEntries
  <2>2. CASE CloseWorkspaceNext(k)
    <3>1. PICK u, r : byUser' = Retain(byUser, u, r) BY <2>2 DEF CloseWorkspaceNext
    <3>2. byWorkspace' = byWorkspace /\ total' = total BY <2>2 DEF CloseWorkspaceNext
    <3>3. QED BY <1>1, <3>1, <3>2, RetainEntries
  <2>3. QED BY <2>1, <2>2
<1>7. QED BY <1>1, <1>3, <1>4, <1>5, <1>6, TellOne, CloserStep

\* An entry that was seen empty is removed.
LEMMA CloseEntryInv ==
  ASSUME RegistryInv, NEW k \in Closers, CloseUserEntry(k) \/ CloseWorkspaceEntry(k)
  PROVE  RegistryInv'
<1> USE DEF RegistryInv
<1>1. /\ byUser \in Map(Users) /\ byWorkspace \in Map(Workspaces) /\ total \in 0..(Modulus - 1)
      /\ closer[k] \in Closer /\ conn \in [Sessions -> Conn]
  BY DEF TypeOK
<1>2. closer[k].todo \subseteq Sessions BY DEF CloseUserEntry, CloseWorkspaceEntry, TaskInv
<1>3. PICK pc \in {"user", "workspace"} : closer' = [closer EXCEPT ![k].pc = pc]
  BY DEF CloseUserEntry, CloseWorkspaceEntry
<1> DEFINE c == [closer[k] EXCEPT !.pc = pc]
<1>4. c \in Closer /\ c.todo \subseteq Sessions BY <1>1, <1>2 DEF Closer
<1>5. closer' = [closer EXCEPT ![k] = c] BY <1>3 DEF TypeOK
<1>6. /\ byUser' \in Map(Users) /\ byWorkspace' \in Map(Workspaces)
      /\ total' = total /\ conn' = conn
      /\ \A u \in Users : Entry(byUser', u) \subseteq Entry(byUser, u)
      /\ \A w \in Workspaces : Entry(byWorkspace', w) \subseteq Entry(byWorkspace, w)
  <2>1. CASE CloseUserEntry(k)
    <3>1. PICK w : byWorkspace' = Without(byWorkspace, w) BY <2>1 DEF CloseUserEntry
    <3>2. UNCHANGED <<byUser, total, conn>> BY <2>1 DEF CloseUserEntry
    <3>3. QED BY <1>1, <3>1, <3>2, WithoutEntries
  <2>2. CASE CloseWorkspaceEntry(k)
    <3>1. PICK u : byUser' = Without(byUser, u) BY <2>2 DEF CloseWorkspaceEntry
    <3>2. UNCHANGED <<byWorkspace, total, conn>> BY <2>2 DEF CloseWorkspaceEntry
    <3>3. QED BY <1>1, <3>1, <3>2, WithoutEntries
  <2>3. QED BY <2>1, <2>2
<1>7. QED BY <1>1, <1>4, <1>5, <1>6, CloserStep

\* The counter is corrected or reset.
LEMMA CloseEndInv ==
  ASSUME RegistryInv, NEW k \in Closers, Subtract(k) \/ ResetTotal(k) \/ ClearUsers(k)
  PROVE  RegistryInv'
<1> USE DEF RegistryInv
<1>1. /\ byUser \in Map(Users) /\ byWorkspace \in Map(Workspaces) /\ total \in 0..(Modulus - 1)
      /\ closer[k] \in Closer /\ conn \in [Sessions -> Conn]
  BY DEF TypeOK
<1>2. UNCHANGED <<byUser, byWorkspace, conn>> BY DEF Subtract, ResetTotal, ClearUsers
<1>3. total' \in 0..(Modulus - 1)
  <2>1. CASE Subtract(k)
    <3>1. closer[k].count \in Nat BY <1>1 DEF Closer
    <3>2. QED BY <2>1, <3>1, MinusWord DEF Subtract
  <2>2. CASE ResetTotal(k) BY <2>2, RegistryAssumption DEF ResetTotal
  <2>3. CASE ClearUsers(k) BY <1>1, <2>3 DEF ClearUsers
  <2>4. QED BY <2>1, <2>2, <2>3
<1>4. PICK c \in Closer : closer' = [closer EXCEPT ![k] = c] /\ c.pc \in {"idle", "down", "clear"}
  <2>1. CASE Subtract(k)
    <3>1. closer' = [closer EXCEPT ![k] = Idle] BY <2>1 DEF Subtract
    <3>2. Idle \in Closer /\ Idle.pc = "idle" BY DEF Idle, Closer
    <3>3. QED BY <3>1, <3>2
  <2>2. CASE ResetTotal(k)
    <3>1. closer' = [closer EXCEPT ![k] = [closer[k] EXCEPT !.pc = "down"]]
      BY <2>2 DEF ResetTotal, TypeOK
    <3>2. [closer[k] EXCEPT !.pc = "down"] \in Closer BY <1>1 DEF Closer
    <3>3. QED BY <1>1, <3>1, <3>2 DEF Closer
  <2>3. CASE ClearUsers(k)
    <3>1. closer' = [closer EXCEPT ![k] = [closer[k] EXCEPT !.pc = "clear", !.todo = Users]]
      BY <2>3 DEF ClearUsers, TypeOK
    <3>2. [closer[k] EXCEPT !.pc = "clear", !.todo = Users] \in Closer BY <1>1 DEF Closer
    <3>3. QED BY <1>1, <3>1, <3>2 DEF Closer
  <2>4. QED BY <2>1, <2>2, <2>3
<1>5. QED BY <1>1, <1>2, <1>3, <1>4, CloserStep

\* close_all_sessions removes one entry at a time.
LEMMA CloseAllInv ==
  ASSUME RegistryInv, NEW k \in Closers, CloseAllNext(k) \/ ClearUser(k)
  PROVE  RegistryInv'
<1> USE DEF RegistryInv
<1>1. /\ byUser \in Map(Users) /\ byWorkspace \in Map(Workspaces) /\ total \in 0..(Modulus - 1)
      /\ closer[k] \in Closer /\ conn \in [Sessions -> Conn]
  BY DEF TypeOK
<1>2. closer[k].pc \in {"all", "clear"} BY DEF CloseAllNext, ClearUser
<1>3. PICK x : closer' = [closer EXCEPT ![k].todo = @ \ {x}] BY DEF CloseAllNext, ClearUser
<1> DEFINE c == [closer[k] EXCEPT !.todo = @ \ {x}]
<1>4. c \in Closer /\ c.pc = closer[k].pc BY <1>1 DEF Closer
<1>5. closer' = [closer EXCEPT ![k] = c] BY <1>3 DEF TypeOK
<1>6. /\ byUser' \in Map(Users) /\ byWorkspace' \in Map(Workspaces) /\ total' = total
      /\ \A u \in Users : Entry(byUser', u) \subseteq Entry(byUser, u)
      /\ \A w \in Workspaces : Entry(byWorkspace', w) \subseteq Entry(byWorkspace, w)
  <2>1. CASE CloseAllNext(k)
    <3>1. PICK w : byWorkspace' = Without(byWorkspace, w) BY <2>1 DEF CloseAllNext
    <3>2. UNCHANGED <<byUser, total>> BY <2>1 DEF CloseAllNext
    <3>3. QED BY <1>1, <3>1, <3>2, WithoutEntries
  <2>2. CASE ClearUser(k)
    <3>1. PICK u : byUser' = Without(byUser, u) BY <2>2 DEF ClearUser
    <3>2. UNCHANGED <<byWorkspace, total>> BY <2>2 DEF ClearUser
    <3>3. QED BY <1>1, <3>1, <3>2, WithoutEntries
  <2>3. QED BY <2>1, <2>2
<1>7. /\ conn' \in [Sessions -> Conn]
      /\ \A s \in Sessions : /\ conn'[s].user = conn[s].user /\ conn'[s].workspace = conn[s].workspace
                             /\ conn'[s].pc = conn[s].pc
  <2>1. CASE CloseAllNext(k)
    <3>1. \A s \in Sessions : [conn[s] EXCEPT !.told = TRUE] \in Conn BY <1>1 DEF Conn
    <3>2. QED BY <1>1, <2>1, <3>1 DEF CloseAllNext, Conn
  <2>2. CASE ClearUser(k) BY <1>1, <2>2 DEF ClearUser
  <2>3. QED BY <2>1, <2>2
<1>8. QED BY <1>1, <1>2, <1>4, <1>5, <1>6, <1>7, CloserStep
-----------------------------------------------------------------------------
LEMMA StepRegistryInv == RegistryInv /\ [Next]_vars => RegistryInv'
<1> SUFFICES ASSUME RegistryInv, [Next]_vars PROVE RegistryInv'
  OBVIOUS
<1>1. ASSUME NEW s \in Sessions, Connection(s) PROVE RegistryInv'
  BY <1>1, OpenInv, CounterInv, EnterInv, EvictInv, EvictFromWorkspaceInv, JoinInv,
     LeaveWorkspaceInv, LeaveUserInv
  DEF Connection, Register, Unregister
<1>2. ASSUME NEW k \in Closers, Close(k) PROVE RegistryInv'
  BY <1>2, CloseStartInv, CloseNextInv, CloseEntryInv, CloseEndInv, CloseAllInv
  DEF Close, CloseStep
<1>3. CASE UNCHANGED vars
  BY <1>3 DEF vars, RegistryInv, TypeOK, TaskInv, EntryInv, Locking
<1>4. QED BY <1>1, <1>2, <1>3 DEF Next

\* Type correctness of the maps, the counter and every task.
THEOREM SpecTypeOK == Spec => []TypeOK
<1>1. RegistryInv => TypeOK BY DEF RegistryInv
<1>2. QED BY <1>1, InitRegistryInv, StepRegistryInv, PTL DEF Spec

\* For any number of registrations, ends and closes at a time, a user's entry holds at
\* most PerUser sessions.
THEOREM SpecPerUserLimit == Spec => []PerUserLimit
<1>1. RegistryInv => PerUserLimit
  <2> SUFFICES ASSUME RegistryInv, NEW u \in DOMAIN byUser PROVE Cardinality(byUser[u]) <= PerUser
    BY DEF PerUserLimit
  <2>1. u \in Users /\ Entry(byUser, u) = byUser[u] BY MapType DEF RegistryInv, TypeOK, Entry
  <2>2. QED BY <2>1 DEF RegistryInv, EntryInv
<1>2. QED BY <1>1, InitRegistryInv, StepRegistryInv, PTL DEF Spec

-----------------------------------------------------------------------------
(* Evicted and closed sessions.                                                 *)

\* The registration has been through the user's entry, and through the workspace's as well.
Entered(s) == conn[s].pc \in {"join", "live", "leaveEmpty", "leaveUser", "leaveUserEmpty",
                              "release", "done"}
Joined(s) == Entered(s) /\ conn[s].pc # "join"

\* A session that was told to go had entered; what is left of it in a map will be taken off,
\* or came later.  What a close has taken off one map has been in it and is not there again.
ToldGone ==
  \A s \in Sessions : conn[s].told =>
    /\ Entered(s)
    /\ \A u \in Users : s \in Entry(byUser, u) => \E k \in Closers : Clears(k, u)
    /\ \A w \in Workspaces : s \in Entry(byWorkspace, w) =>
         conn[s].late \/ \E r \in Sessions : conn[r].pc = "evict" /\ conn[r].victim = s

TodoGone ==
  \A k \in Closers : \A s \in Sessions : s \in closer[k].todo =>
    /\ closer[k].pc \in {"user", "userEmpty"} =>
         Entered(s) /\ \A u \in Users : s \notin Entry(byUser, u)
    /\ closer[k].pc \in {"workspace", "workspaceEmpty"} =>
         Joined(s) /\ \A w \in Workspaces : s \notin Entry(byWorkspace, w)

GoneInv == ToldGone /\ TodoGone

\* A step of one connection that tells nobody
LEMMA GoneMove ==
  ASSUME RegistryInv, GoneInv, NEW s \in Sessions, closer' = closer,
         \A r \in Sessions \ {s} : conn'[r] = conn[r],
         conn'[s].told = conn[s].told,
         Entered(s) => Entered(s)',
         Joined(s) => Joined(s)',
         \A u \in Users : \A r \in Sessions :
           r \in Entry(byUser', u) => r \in Entry(byUser, u) \/ (r = s /\ ~Entered(s)),
         \A w \in Workspaces : \A r \in Sessions : r \in Entry(byWorkspace', w) =>
           \/ r \in Entry(byWorkspace, w) /\ r # s
           \/ r = s /\ ~Joined(s) /\ (conn[s].told => conn'[s].late),
         conn[s].pc = "evict" => \A w \in Workspaces : conn[s].victim \notin Entry(byWorkspace', w)
  PROVE  GoneInv'
<1>1. \A r \in Sessions : /\ Entered(r) => Entered(r)'
                          /\ Joined(r) => Joined(r)'
                          /\ conn'[r].told = conn[r].told
  BY DEF Entered, Joined
<1>2. \A k \in Closers, u \in Users : Clears(k, u)' = Clears(k, u)
  BY DEF Clears
<1>3. ASSUME NEW r \in Sessions, conn'[r].told
      PROVE  /\ Entered(r)'
             /\ \A u \in Users : r \in Entry(byUser', u) => \E k \in Closers : Clears(k, u)'
             /\ \A w \in Workspaces : r \in Entry(byWorkspace', w) =>
                  conn'[r].late \/ \E q \in Sessions : conn'[q].pc = "evict" /\ conn'[q].victim = r
  <2>1. conn[r].told /\ Entered(r)
    BY <1>1, <1>3 DEF GoneInv, ToldGone
  <2>2. Entered(r)'
    BY <1>1, <2>1
  <2>3. \A u \in Users : r \in Entry(byUser', u) => \E k \in Closers : Clears(k, u)'
    BY <1>2, <2>1 DEF GoneInv, ToldGone
  <2>4. ASSUME NEW w \in Workspaces, r \in Entry(byWorkspace', w), ~conn'[r].late
        PROVE  \E q \in Sessions : conn'[q].pc = "evict" /\ conn'[q].victim = r
    <3>1. r # s /\ r \in Entry(byWorkspace, w) /\ ~conn[r].late
      BY <2>1, <2>4
    <3>2. PICK q \in Sessions : conn[q].pc = "evict" /\ conn[q].victim = r
      BY <2>1, <3>1 DEF GoneInv, ToldGone
    <3>3. q # s
      BY <2>4, <3>2
    <3> QED
      BY <3>2, <3>3
  <2> QED
    BY <2>2, <2>3, <2>4
<1>4. ToldGone'
  BY <1>3 DEF ToldGone
<1>5. TodoGone'
  BY <1>1 DEF GoneInv, TodoGone
<1> QED
  BY <1>4, <1>5 DEF GoneInv

\* A step of a close: c is what becomes of its task.
LEMMA GoneClose ==
  ASSUME RegistryInv, GoneInv, NEW k \in Closers, NEW c,
         closer'[k] = c, \A j \in Closers \ {k} : closer'[j] = closer[j],
         \A s \in Sessions :
           /\ conn'[s].pc = conn[s].pc /\ conn'[s].late = conn[s].late
           /\ conn'[s].victim = conn[s].victim,
         \A u \in Users : Entry(byUser', u) \subseteq Entry(byUser, u),
         \A w \in Workspaces : Entry(byWorkspace', w) \subseteq Entry(byWorkspace, w),
         \A s \in Sessions : conn'[s].told /\ ~conn[s].told =>
           /\ Entered(s)
           /\ c.pc = "all" \/ \A u \in Users : s \notin Entry(byUser', u)
           /\ \A w \in Workspaces : s \notin Entry(byWorkspace', w),
         \A u \in Users : Clears(k, u) => Clears(k, u)' \/ Entry(byUser', u) = {},
         c.pc \in {"user", "userEmpty"} => \A s \in Sessions : s \in c.todo =>
           Entered(s) /\ \A u \in Users : s \notin Entry(byUser', u),
         c.pc \in {"workspace", "workspaceEmpty"} => \A s \in Sessions : s \in c.todo =>
           Joined(s) /\ \A w \in Workspaces : s \notin Entry(byWorkspace', w)
  PROVE  GoneInv'
<1>1. \A s \in Sessions : Entered(s)' = Entered(s) /\ Joined(s)' = Joined(s)
  BY DEF Entered, Joined
<1>2. \A j \in Closers \ {k}, u \in Users : Clears(j, u)' = Clears(j, u)
  BY DEF Clears
<1>3. ASSUME NEW s \in Sessions, conn'[s].told
      PROVE  /\ Entered(s)'
             /\ \A u \in Users : s \in Entry(byUser', u) => \E j \in Closers : Clears(j, u)'
             /\ \A w \in Workspaces : s \in Entry(byWorkspace', w) =>
                  conn'[s].late \/ \E r \in Sessions : conn'[r].pc = "evict" /\ conn'[r].victim = s
  <2>1. CASE conn[s].told
    <3>1. Entered(s)'
      BY <1>1, <2>1 DEF GoneInv, ToldGone
    <3>2. ASSUME NEW u \in Users, s \in Entry(byUser', u) PROVE \E j \in Closers : Clears(j, u)'
      <4>1. PICK j \in Closers : Clears(j, u)
        BY <2>1, <3>2 DEF GoneInv, ToldGone
      <4> QED
        BY <1>2, <3>2, <4>1
    <3>3. ASSUME NEW w \in Workspaces, s \in Entry(byWorkspace', w)
          PROVE  conn'[s].late \/ \E r \in Sessions : conn'[r].pc = "evict" /\ conn'[r].victim = s
      BY <2>1, <3>3 DEF GoneInv, ToldGone
    <3> QED
      BY <3>1, <3>2, <3>3
  <2>2. CASE ~conn[s].told
    <3>1. c.pc = "all" => \A u \in Users : Clears(k, u)'
      BY DEF Clears
    <3> QED
      BY <1>1, <1>3, <2>2, <3>1
  <2> QED
    BY <2>1, <2>2
<1>4. ToldGone'
  BY <1>3 DEF ToldGone
<1>5. TodoGone'
  BY <1>1 DEF GoneInv, TodoGone
<1> QED
  BY <1>4, <1>5 DEF GoneInv

LEMMA GoneConnection ==
  ASSUME RegistryInv, RegistryInv', GoneInv, NEW s \in Sessions, Connection(s), ~EvictOldest(s)
  PROVE  GoneInv'
<1> USE DEF Entered, Joined
<1>1. /\ conn \in [Sessions -> Conn]
      /\ byUser \in Map(Users) /\ byWorkspace \in Map(Workspaces)
      /\ \A x : Entry(byUser, x) \in SUBSET Sessions /\ Entry(byWorkspace, x) \in SUBSET Sessions
  BY EntryType DEF RegistryInv, TypeOK
<1>2. \A w \in Workspaces : \A r \in Sessions :
        /\ r \in Entry(byWorkspace, w) => conn[r].pc = "live" /\ conn[r].workspace = w
        /\ r \in Entry(byWorkspace', w) => conn'[r].pc = "live"
  BY DEF RegistryInv, EntryInv
<1>3. CASE Open(s)
  <2>1. PICK u \in Users, w \in Workspaces :
          conn' = [conn EXCEPT ![s].pc = "claim", ![s].user = u, ![s].workspace = w]
    BY <1>3 DEF Open
  <2>2. conn[s].pc = "new" /\ UNCHANGED <<byUser, byWorkspace, closer>>
    BY <1>3 DEF Open
  <2>3. /\ conn'[s].pc = "claim" /\ conn'[s].told = conn[s].told
        /\ \A r \in Sessions \ {s} : conn'[r] = conn[r]
    BY <1>1, <2>1 DEF Conn
  <2> QED
    BY <1>2, <2>2, <2>3, GoneMove
<1>4. CASE EnterAfterEviction(s) \/ EnterUser(s)
  <2>1. conn[s].pc \in {"user", "enter"} /\ UNCHANGED <<byWorkspace, closer>>
    BY <1>4 DEF EnterAfterEviction, EnterUser
  <2>2. PICK u \in Users : u = conn[s].user
    BY <2>1 DEF RegistryInv, TaskInv
  <2>3. byUser' = Push(byUser, u, s)
    BY <1>4, <2>2 DEF EnterAfterEviction, EnterUser
  <2>4. \A x : Entry(byUser', x) \subseteq Entry(byUser, x) \cup {s}
    BY <1>1, <2>3, PushEntries
  <2>5. /\ conn'[s].pc = "join" /\ conn'[s].told = conn[s].told
        /\ \A r \in Sessions \ {s} : conn'[r] = conn[r]
    BY <1>1, <1>4 DEF EnterAfterEviction, EnterUser, Go, Conn
  <2> QED
    BY <1>2, <2>1, <2>4, <2>5, GoneMove
<1>5. CASE JoinWorkspace(s)
  <2>1. conn[s].pc = "join" /\ UNCHANGED <<byUser, closer>>
    BY <1>5 DEF JoinWorkspace
  <2>2. PICK w \in Workspaces : w = conn[s].workspace
    BY <2>1 DEF RegistryInv, TaskInv
  <2>3. byWorkspace' = Push(byWorkspace, w, s)
    BY <1>5, <2>2 DEF JoinWorkspace
  <2>4. \A x : Entry(byWorkspace', x) \subseteq Entry(byWorkspace, x) \cup {s}
    BY <1>1, <2>3, PushEntries
  <2>5. /\ conn'[s].pc = "live" /\ conn'[s].told = conn[s].told /\ conn'[s].late = conn[s].told
        /\ \A r \in Sessions \ {s} : conn'[r] = conn[r]
    BY <1>1, <1>5 DEF JoinWorkspace, Conn
  <2> QED
    BY <1>2, <2>1, <2>4, <2>5, GoneMove
<1>6. CASE \/ ClaimSlot(s) \/ Refuse(s) \/ EvictFromWorkspace(s) \/ EvictEntry(s)
           \/ LeaveWorkspace(s) \/ Unregister(s)
  <2>1. /\ closer' = closer /\ Go(s, conn'[s].pc)
        /\ \/ /\ conn[s].pc = "claim" /\ conn'[s].pc \in {"user", "refused"}
           \/ /\ conn[s].pc \in {"evict", "evictEmpty"} /\ conn'[s].pc \in {"evictEmpty", "enter"}
           \/ /\ conn[s].pc \in {"live", "leaveEmpty", "leaveUser", "leaveUserEmpty", "release"}
              /\ conn'[s].pc \in {"leaveEmpty", "leaveUser", "leaveUserEmpty", "release", "done"}
    BY <1>1, <1>6 DEF ClaimSlot, Refuse, EvictFromWorkspace, EvictEntry, LeaveWorkspace,
       Unregister, LeaveEntry, LeaveUser, LeaveUserEntry, Release, Go, Conn
  <2>2. conn'[s].told = conn[s].told /\ \A r \in Sessions \ {s} : conn'[r] = conn[r]
    BY <1>1, <2>1 DEF Go, Conn
  <2>3. \A x : Entry(byUser', x) \subseteq Entry(byUser, x)
    <3>1. \/ byUser' = byUser
          \/ byUser' = Retain(byUser, conn[s].user, s)
          \/ byUser' = Without(byUser, conn[s].user)
      BY <1>6 DEF ClaimSlot, Refuse, EvictFromWorkspace, EvictEntry, LeaveWorkspace,
         Unregister, LeaveEntry, LeaveUser, LeaveUserEntry, Release
    <3>2. \A x : Entry(Retain(byUser, conn[s].user, s), x) \subseteq Entry(byUser, x)
      BY <1>1, RetainEntries
    <3>3. \A x : Entry(Without(byUser, conn[s].user), x) \subseteq Entry(byUser, x)
      BY <1>1, WithoutEntries
    <3> QED
      BY <3>1, <3>2, <3>3
  <2>4. \A x : Entry(byWorkspace', x) \subseteq Entry(byWorkspace, x)
    <3>1. \/ byWorkspace' = byWorkspace
          \/ \E w, r : byWorkspace' = Retain(byWorkspace, w, r)
          \/ \E w : byWorkspace' = Without(byWorkspace, w)
      BY <1>6 DEF ClaimSlot, Refuse, EvictFromWorkspace, EvictEntry, LeaveWorkspace,
         Unregister, LeaveEntry, LeaveUser, LeaveUserEntry, Release
    <3>2. \A x, w, r : Entry(Retain(byWorkspace, w, r), x) \subseteq Entry(byWorkspace, x)
      BY <1>1, RetainEntries
    <3>3. \A x, w : Entry(Without(byWorkspace, w), x) \subseteq Entry(byWorkspace, x)
      BY <1>1, WithoutEntries
    <3> QED
      BY <3>1, <3>2, <3>3
  <2>5. ASSUME conn[s].pc = "evict", NEW w \in Workspaces
        PROVE  conn[s].victim \notin Entry(byWorkspace', w)
    <3> DEFINE v == conn[s].victim
    <3>1. byWorkspace' = Retain(byWorkspace, conn[v].workspace, v)
      BY <1>6, <2>5 DEF ClaimSlot, Refuse, EvictFromWorkspace, EvictEntry, LeaveWorkspace,
         Unregister, LeaveEntry, LeaveUser, LeaveUserEntry, Release
    <3>2. v \in Entry(byWorkspace, w) => conn[v].workspace = w
      BY <1>1, <1>2
    <3> QED
      BY <1>1, <3>1, <3>2, RetainEntries
  <2> QED
    BY <1>2, <2>1, <2>2, <2>3, <2>4, <2>5, GoneMove
<1> QED
  BY <1>3, <1>4, <1>5, <1>6 DEF Connection, Register

\* The eviction takes its victim out of the user's entry, and will out of the workspace's.
LEMMA GoneEvict ==
  ASSUME RegistryInv, GoneInv, NEW s \in Sessions, EvictOldest(s)
  PROVE  GoneInv'
<1> USE DEF Entered, Joined
<1>1. /\ conn \in [Sessions -> Conn] /\ byUser \in Map(Users)
      /\ \A x : Entry(byUser, x) \in SUBSET Sessions
  BY EntryType DEF RegistryInv, TypeOK
<1>2. conn[s].pc = "user" /\ conn[s].user \in Users /\ UNCHANGED <<byWorkspace, closer>>
  BY DEF EvictOldest, RegistryInv, TaskInv
<1>3. PICK v \in byUser[conn[s].user] :
        /\ byUser' = Retain(byUser, conn[s].user, v)
        /\ conn' = [conn EXCEPT ![s].pc = "evict", ![s].victim = v, ![v].told = TRUE]
  BY DEF EvictOldest
<1>4. v \in Entry(byUser, conn[s].user) /\ v \in Sessions
  <2>1. Cardinality(Entry(byUser, conn[s].user)) # 0
    BY <1>1, RegistryAssumption, EntrySize DEF EvictOldest
  <2>2. Entry(byUser, conn[s].user) = byUser[conn[s].user]
    BY <2>1, FS_EmptySet DEF Entry
  <2> QED
    BY <1>1, <1>3, <2>2
<1>5. \A x : Entry(byUser', x) = IF x = conn[s].user THEN Entry(byUser, x) \ {v} ELSE Entry(byUser, x)
  <2>1. \A u : \A x : Entry(Retain(byUser, u, v), x)
                       = IF x = u THEN Entry(byUser, x) \ {v} ELSE Entry(byUser, x)
    BY <1>1, RetainEntries
  <2> QED
    BY <1>3, <2>1
<1>6. /\ \A u \in Users : v \in Entry(byUser, u) => conn[v].user = u
      /\ conn[v].user = conn[s].user /\ Entered(v) /\ v # s
  BY <1>2, <1>4 DEF RegistryInv, EntryInv
<1>7. /\ conn'[s].pc = "evict" /\ conn'[s].victim = v /\ conn'[s].told = conn[s].told
      /\ conn'[v].pc = conn[v].pc
      /\ \A r \in Sessions \ {s, v} : conn'[r] = conn[r]
      /\ \A r \in Sessions \ {s} : /\ conn'[r].pc = conn[r].pc /\ conn'[r].late = conn[r].late
                                   /\ conn'[r].victim = conn[r].victim
  BY <1>1, <1>3, <1>4, <1>6 DEF Conn
<1>8. \A k \in Closers, u \in Users : Clears(k, u)' = Clears(k, u)
  BY <1>2 DEF Clears
<1>9. ASSUME NEW r \in Sessions, conn'[r].told
      PROVE  /\ Entered(r)'
             /\ \A u \in Users : r \in Entry(byUser', u) => \E k \in Closers : Clears(k, u)'
             /\ \A w \in Workspaces : r \in Entry(byWorkspace', w) =>
                  conn'[r].late \/ \E q \in Sessions : conn'[q].pc = "evict" /\ conn'[q].victim = r
  <2>1. CASE r = v
    <3>1. \A u \in Users : v \notin Entry(byUser', u)
      BY <1>5, <1>6
    <3> QED
      BY <1>6, <1>7, <2>1, <3>1
  <2>2. CASE r # v
    <3>1. conn[r].told /\ Entered(r)
      BY <1>7, <1>9, <2>2 DEF GoneInv, ToldGone
    <3>2. r # s
      BY <1>2, <3>1
    <3>3. \A u \in Users : r \in Entry(byUser', u) => \E k \in Closers : Clears(k, u)'
      BY <1>5, <1>8, <3>1 DEF GoneInv, ToldGone
    <3>4. ASSUME NEW w \in Workspaces, r \in Entry(byWorkspace', w), ~conn'[r].late
          PROVE  \E q \in Sessions : conn'[q].pc = "evict" /\ conn'[q].victim = r
      <4>1. PICK q \in Sessions : conn[q].pc = "evict" /\ conn[q].victim = r
        BY <1>2, <1>7, <3>1, <3>2, <3>4 DEF GoneInv, ToldGone
      <4> QED
        BY <1>2, <1>7, <4>1
    <3> QED
      BY <1>7, <3>1, <3>2, <3>3, <3>4
  <2> QED
    BY <2>1, <2>2
<1>10. ToldGone'
  BY <1>9 DEF ToldGone
<1>11. TodoGone'
  BY <1>2, <1>5, <1>7 DEF GoneInv, TodoGone
<1> QED
  BY <1>10, <1>11 DEF GoneInv

LEMMA GoneCloseStart ==
  ASSUME RegistryInv, GoneInv, NEW k \in Closers,
         \/ \E u \in Users : CloseUser(k, u)
         \/ \E w \in Workspaces : CloseWorkspace(k, w)
         \/ CloseAll(k)
  PROVE  GoneInv'
<1> USE DEF Entered, Joined
<1>1. /\ byUser \in Map(Users) /\ byWorkspace \in Map(Workspaces)
      /\ closer \in [Closers -> Closer]
  BY DEF RegistryInv, TypeOK
<1>2. closer[k].pc = "idle" /\ UNCHANGED conn
  BY DEF CloseUser, CloseWorkspace, CloseAll
<1>3. /\ \A j \in Closers \ {k} : closer'[j] = closer[j]
      /\ \A u \in Users : ~Clears(k, u)
  BY <1>1, <1>2 DEF CloseUser, CloseWorkspace, CloseAll, Clears
<1>4. ASSUME NEW u \in Users, CloseUser(k, u) PROVE GoneInv'
  <2>1. /\ u \in DOMAIN byUser /\ byUser' = Without(byUser, u) /\ UNCHANGED byWorkspace
        /\ closer'[k].pc = "user" /\ closer'[k].todo = byUser[u]
    BY <1>1, <1>4 DEF CloseUser
  <2>2. \A x : Entry(byUser', x) = IF x = u THEN {} ELSE Entry(byUser, x)
    BY <1>1, <2>1, WithoutEntries
  <2>3. Entry(byUser, u) = byUser[u]
    BY <2>1 DEF Entry
  <2>4. \A s \in Sessions : s \in byUser[u] =>
          Entered(s) /\ \A x \in Users : s \notin Entry(byUser', x)
    BY <2>2, <2>3 DEF RegistryInv, EntryInv
  <2> QED
    BY <1>2, <1>3, <2>1, <2>2, <2>4, GoneClose
<1>5. ASSUME NEW w \in Workspaces, CloseWorkspace(k, w) PROVE GoneInv'
  <2>1. /\ w \in DOMAIN byWorkspace /\ byWorkspace' = Without(byWorkspace, w) /\ UNCHANGED byUser
        /\ closer'[k].pc = "workspace" /\ closer'[k].todo = byWorkspace[w]
    BY <1>1, <1>5 DEF CloseWorkspace
  <2>2. \A x : Entry(byWorkspace', x) = IF x = w THEN {} ELSE Entry(byWorkspace, x)
    BY <1>1, <2>1, WithoutEntries
  <2>3. Entry(byWorkspace, w) = byWorkspace[w]
    BY <2>1 DEF Entry
  <2>4. \A s \in Sessions : s \in byWorkspace[w] =>
          Joined(s) /\ \A x \in Workspaces : s \notin Entry(byWorkspace', x)
    BY <2>2, <2>3 DEF RegistryInv, EntryInv
  <2> QED
    BY <1>2, <1>3, <2>1, <2>2, <2>4, GoneClose
<1>6. CASE CloseAll(k)
  <2>1. closer'[k].pc = "all" /\ UNCHANGED <<byUser, byWorkspace>>
    BY <1>1, <1>6 DEF CloseAll, Idle
  <2> QED
    BY <1>2, <1>3, <2>1, GoneClose
<1> QED
  BY <1>4, <1>5, <1>6

\* Whoever is told now is in neither map after it.
LEMMA GoneCloseNext ==
  ASSUME RegistryInv, GoneInv, NEW k \in Closers, CloseUserNext(k) \/ CloseWorkspaceNext(k)
  PROVE  GoneInv'
<1>1. /\ byUser \in Map(Users) /\ byWorkspace \in Map(Workspaces)
      /\ closer \in [Closers -> Closer] /\ conn \in [Sessions -> Conn]
  BY DEF RegistryInv, TypeOK
<1>2. closer[k].pc \in {"user", "workspace"} /\ closer[k].todo \subseteq Sessions
  BY DEF CloseUserNext, CloseWorkspaceNext, RegistryInv, TaskInv
<1>3. CASE CloseUserNext(k)
  <2>1. PICK s \in closer[k].todo :
          /\ conn' = [conn EXCEPT ![s].told = TRUE]
          /\ byWorkspace' = Retain(byWorkspace, conn[s].workspace, s) /\ byUser' = byUser
          /\ closer' = [closer EXCEPT ![k].todo = @ \ {s}, ![k].at = s,
               ![k].pc = IF Empties(byWorkspace, conn[s].workspace, s) THEN "userEmpty" ELSE "user"]
    BY <1>3 DEF CloseUserNext
  <2>2. s \in Sessions /\ closer[k].pc = "user"
    BY <1>2, <1>3, <2>1 DEF CloseUserNext
  <2>3. /\ closer'[k].todo = closer[k].todo \ {s} /\ closer'[k].pc \in {"user", "userEmpty"}
        /\ \A j \in Closers \ {k} : closer'[j] = closer[j]
    BY <1>1, <2>1 DEF Closer
  <2>4. /\ \A r \in Sessions : /\ conn'[r].pc = conn[r].pc /\ conn'[r].late = conn[r].late
                               /\ conn'[r].victim = conn[r].victim
        /\ \A r \in Sessions \ {s} : conn'[r] = conn[r]
    BY <1>1, <2>1, <2>2 DEF Conn
  <2>5. \A x : Entry(byWorkspace', x)
                = IF x = conn[s].workspace THEN Entry(byWorkspace, x) \ {s} ELSE Entry(byWorkspace, x)
    <3>1. \A w : \A x : Entry(Retain(byWorkspace, w, s), x)
                         = IF x = w THEN Entry(byWorkspace, x) \ {s} ELSE Entry(byWorkspace, x)
      BY <1>1, RetainEntries
    <3> QED
      BY <2>1, <3>1
  <2>6. \A w \in Workspaces : s \notin Entry(byWorkspace', w)
    BY <2>2, <2>5 DEF RegistryInv, EntryInv
  <2>7. \A r \in Sessions : r \in closer[k].todo =>
          Entered(r) /\ \A u \in Users : r \notin Entry(byUser', u)
    BY <2>1, <2>2 DEF GoneInv, TodoGone
  <2>8. \A u \in Users : ~Clears(k, u)
    BY <2>2 DEF Clears
  <2>9. \A r \in Sessions : conn'[r].told /\ ~conn[r].told =>
          /\ Entered(r)
          /\ \A u \in Users : r \notin Entry(byUser', u)
          /\ \A w \in Workspaces : r \notin Entry(byWorkspace', w)
    BY <2>1, <2>4, <2>6, <2>7
  <2>10. \A w \in Workspaces : Entry(byWorkspace', w) \subseteq Entry(byWorkspace, w)
    BY <2>5
  <2>11. \A r \in Sessions : r \in closer'[k].todo => r \in closer[k].todo
    BY <2>3
  <2> QED
    BY <2>1, <2>3, <2>4, <2>7, <2>8, <2>9, <2>10, <2>11, GoneClose
<1>4. CASE CloseWorkspaceNext(k)
  <2>1. PICK s \in closer[k].todo :
          /\ conn' = [conn EXCEPT ![s].told = TRUE]
          /\ byUser' = Retain(byUser, conn[s].user, s) /\ byWorkspace' = byWorkspace
          /\ closer' = [closer EXCEPT ![k].todo = @ \ {s}, ![k].at = s,
               ![k].pc = IF Empties(byUser, conn[s].user, s) THEN "workspaceEmpty" ELSE "workspace"]
    BY <1>4 DEF CloseWorkspaceNext
  <2>2. s \in Sessions /\ closer[k].pc = "workspace"
    BY <1>2, <1>4, <2>1 DEF CloseWorkspaceNext
  <2>3. /\ closer'[k].todo = closer[k].todo \ {s} /\ closer'[k].pc \in {"workspace", "workspaceEmpty"}
        /\ \A j \in Closers \ {k} : closer'[j] = closer[j]
    BY <1>1, <2>1 DEF Closer
  <2>4. /\ \A r \in Sessions : /\ conn'[r].pc = conn[r].pc /\ conn'[r].late = conn[r].late
                               /\ conn'[r].victim = conn[r].victim
        /\ \A r \in Sessions \ {s} : conn'[r] = conn[r]
    BY <1>1, <2>1, <2>2 DEF Conn
  <2>5. \A x : Entry(byUser', x)
                = IF x = conn[s].user THEN Entry(byUser, x) \ {s} ELSE Entry(byUser, x)
    <3>1. \A u : \A x : Entry(Retain(byUser, u, s), x)
                         = IF x = u THEN Entry(byUser, x) \ {s} ELSE Entry(byUser, x)
      BY <1>1, RetainEntries
    <3> QED
      BY <2>1, <3>1
  <2>6. \A u \in Users : s \notin Entry(byUser', u)
    BY <2>2, <2>5 DEF RegistryInv, EntryInv
  <2>7. \A r \in Sessions : r \in closer[k].todo =>
          Joined(r) /\ \A w \in Workspaces : r \notin Entry(byWorkspace', w)
    BY <2>1, <2>2 DEF GoneInv, TodoGone
  <2>8. \A u \in Users : ~Clears(k, u)
    BY <2>2 DEF Clears
  <2>9. \A r \in Sessions : conn'[r].told /\ ~conn[r].told =>
          /\ Entered(r)
          /\ \A u \in Users : r \notin Entry(byUser', u)
          /\ \A w \in Workspaces : r \notin Entry(byWorkspace', w)
    BY <2>1, <2>4, <2>6, <2>7 DEF Joined
  <2>10. \A u \in Users : Entry(byUser', u) \subseteq Entry(byUser, u)
    BY <2>5
  <2>11. \A r \in Sessions : r \in closer'[k].todo => r \in closer[k].todo
    BY <2>3
  <2> QED
    BY <2>1, <2>3, <2>4, <2>7, <2>8, <2>9, <2>10, <2>11, GoneClose
<1> QED
  BY <1>3, <1>4

LEMMA GoneCloseEntry ==
  ASSUME RegistryInv, GoneInv, NEW k \in Closers, CloseUserEntry(k) \/ CloseWorkspaceEntry(k)
  PROVE  GoneInv'
<1>1. /\ byUser \in Map(Users) /\ byWorkspace \in Map(Workspaces)
      /\ closer \in [Closers -> Closer]
  BY DEF RegistryInv, TypeOK
<1>2. /\ closer'[k].todo = closer[k].todo /\ UNCHANGED conn
      /\ \/ closer[k].pc = "userEmpty" /\ closer'[k].pc = "user"
         \/ closer[k].pc = "workspaceEmpty" /\ closer'[k].pc = "workspace"
      /\ \A j \in Closers \ {k} : closer'[j] = closer[j]
  BY <1>1 DEF CloseUserEntry, CloseWorkspaceEntry, Closer
<1>3. /\ \A x : Entry(byUser', x) \subseteq Entry(byUser, x)
      /\ \A x : Entry(byWorkspace', x) \subseteq Entry(byWorkspace, x)
  <2>1. \/ byUser' = byUser /\ \E w : byWorkspace' = Without(byWorkspace, w)
        \/ byWorkspace' = byWorkspace /\ \E u : byUser' = Without(byUser, u)
    BY DEF CloseUserEntry, CloseWorkspaceEntry
  <2>2. \A x, w : Entry(Without(byWorkspace, w), x) \subseteq Entry(byWorkspace, x)
    BY <1>1, WithoutEntries
  <2>3. \A x, u : Entry(Without(byUser, u), x) \subseteq Entry(byUser, x)
    BY <1>1, WithoutEntries
  <2> QED
    BY <2>1, <2>2, <2>3
<1>4. \A u \in Users : ~Clears(k, u)
  BY <1>2 DEF Clears
<1>5. \A s \in Sessions : s \in closer[k].todo =>
        /\ closer[k].pc = "userEmpty" =>
             Entered(s) /\ \A u \in Users : s \notin Entry(byUser', u)
        /\ closer[k].pc = "workspaceEmpty" =>
             Joined(s) /\ \A w \in Workspaces : s \notin Entry(byWorkspace', w)
  BY <1>3 DEF GoneInv, TodoGone
<1> QED
  BY <1>2, <1>3, <1>4, <1>5, GoneClose

\* Nothing is left to go through, or close_all_sessions goes through one more entry.
LEMMA GoneCloseEnd ==
  ASSUME RegistryInv, GoneInv, NEW k \in Closers,
         Subtract(k) \/ ResetTotal(k) \/ ClearUsers(k) \/ ClearUser(k) \/ CloseAllNext(k)
  PROVE  GoneInv'
<1>1. /\ byUser \in Map(Users) /\ byWorkspace \in Map(Workspaces)
      /\ closer \in [Closers -> Closer] /\ conn \in [Sessions -> Conn]
  BY DEF RegistryInv, TypeOK
<1>2. \A j \in Closers \ {k} : closer'[j] = closer[j]
  BY <1>1 DEF Subtract, ResetTotal, ClearUsers, ClearUser, CloseAllNext
<1>3. CASE Subtract(k) \/ ResetTotal(k) \/ ClearUsers(k)
  <2>1. closer'[k].pc \in {"idle", "down", "clear"} /\ UNCHANGED <<byUser, byWorkspace, conn>>
    BY <1>1, <1>3 DEF Subtract, ResetTotal, ClearUsers, Idle, Closer
  <2>2. \A u \in Users : Clears(k, u) => Clears(k, u)'
    BY <1>1, <1>3 DEF Subtract, ResetTotal, ClearUsers, Clears, Closer
  <2> QED
    BY <1>2, <2>1, <2>2, GoneClose
<1>4. CASE ClearUser(k)
  <2>1. PICK x \in closer[k].todo :
          byUser' = Without(byUser, x) /\ closer' = [closer EXCEPT ![k].todo = @ \ {x}]
    BY <1>4 DEF ClearUser
  <2>2. closer'[k].pc = "clear" /\ closer'[k].todo = closer[k].todo \ {x}
        /\ UNCHANGED <<byWorkspace, conn>>
    BY <1>1, <1>4, <2>1 DEF ClearUser, Closer
  <2>3. \A u : Entry(byUser', u) = IF u = x THEN {} ELSE Entry(byUser, u)
    BY <1>1, <2>1, WithoutEntries
  <2>4. \A u \in Users : Clears(k, u) => Clears(k, u)' \/ Entry(byUser', u) = {}
    BY <1>4, <2>2, <2>3 DEF Clears, ClearUser
  <2> QED
    BY <1>2, <2>2, <2>3, <2>4, GoneClose
<1>5. CASE CloseAllNext(k)
  <2>1. PICK w \in closer[k].todo :
          /\ conn' = [s \in Sessions |-> IF s \in Entry(byWorkspace, w)
                                         THEN [conn[s] EXCEPT !.told = TRUE] ELSE conn[s]]
          /\ byWorkspace' = Without(byWorkspace, w)
          /\ closer' = [closer EXCEPT ![k].todo = @ \ {w}]
    BY <1>5 DEF CloseAllNext
  <2>2. closer'[k].pc = "all" /\ UNCHANGED byUser
    BY <1>1, <1>5, <2>1 DEF CloseAllNext, Closer
  <2>3. \A x : Entry(byWorkspace', x) = IF x = w THEN {} ELSE Entry(byWorkspace, x)
    BY <1>1, <2>1, WithoutEntries
  <2>4. \A s \in Sessions : /\ conn'[s].pc = conn[s].pc /\ conn'[s].late = conn[s].late
                            /\ conn'[s].victim = conn[s].victim
                            /\ conn'[s].told /\ ~conn[s].told => s \in Entry(byWorkspace, w)
    BY <1>1, <2>1 DEF Conn
  <2>5. w \in Workspaces \/ Entry(byWorkspace, w) = {}
    BY <1>1, MapType DEF Entry
  <2>6. \A s \in Sessions : s \in Entry(byWorkspace, w) =>
          Entered(s) /\ \A x \in Workspaces : s \notin Entry(byWorkspace', x)
    BY <2>3, <2>5 DEF RegistryInv, EntryInv, Entered
  <2>7. \A u \in Users : Clears(k, u) => Clears(k, u)'
    BY <2>2 DEF Clears
  <2> QED
    BY <1>2, <2>2, <2>3, <2>4, <2>6, <2>7, GoneClose
<1> QED
  BY <1>3, <1>4, <1>5

LEMMA InitGoneInv == Init => GoneInv
BY DEF Init, GoneInv, ToldGone, TodoGone, Idle

LEMMA StepGoneInv == RegistryInv /\ RegistryInv' /\ GoneInv /\ [Next]_vars => GoneInv'
<1> SUFFICES ASSUME RegistryInv, RegistryInv', GoneInv, [Next]_vars PROVE GoneInv'
  OBVIOUS
<1>1. ASSUME NEW s \in Sessions, Connection(s) PROVE GoneInv'
  BY <1>1, GoneConnection, GoneEvict
<1>2. ASSUME NEW k \in Closers, Close(k) PROVE GoneInv'
  BY <1>2, GoneCloseStart, GoneCloseNext, GoneCloseEntry, GoneCloseEnd DEF Close, CloseStep
<1>3. CASE UNCHANGED vars
  BY <1>3 DEF vars, GoneInv, ToldGone, TodoGone, Entered, Joined, Clears
<1> QED
  BY <1>1, <1>2, <1>3 DEF Next

\* A session is in no map before its registration and after its unregister.  Evicted or
\* closed, it is in neither as soon as both have been gone through, but for one that joined
\* its workspace later than that.
THEOREM SpecGoneForGood == Spec => []GoneForGood
<1>1. RegistryInv /\ GoneInv => GoneForGood
  <2> SUFFICES ASSUME RegistryInv, GoneInv PROVE GoneForGood
    OBVIOUS
  <2>1. \A u \in DOMAIN byUser : u \in Users /\ Entry(byUser, u) = byUser[u]
    BY MapType DEF RegistryInv, TypeOK, Entry
  <2>2. \A w \in DOMAIN byWorkspace : w \in Workspaces /\ Entry(byWorkspace, w) = byWorkspace[w]
    BY MapType DEF RegistryInv, TypeOK, Entry
  <2>3. /\ \A u \in DOMAIN byUser : \A s \in byUser[u] :
             conn[s].user = u /\ conn[s].pc \in {"join", "live", "leaveEmpty", "leaveUser"}
        /\ \A w \in DOMAIN byWorkspace : \A s \in byWorkspace[w] :
             conn[s].workspace = w /\ conn[s].pc = "live"
    BY <2>1, <2>2 DEF RegistryInv, EntryInv
  <2>4. ASSUME NEW s \in Sessions, conn[s].told
        PROVE  /\ \A u \in DOMAIN byUser : s \in byUser[u] => \E k \in Closers : Clears(k, u)
               /\ \A w \in DOMAIN byWorkspace : s \in byWorkspace[w] =>
                    conn[s].late \/ \E r \in Sessions : conn[r].pc = "evict" /\ conn[r].victim = s
    BY <2>1, <2>2, <2>4 DEF GoneInv, ToldGone
  <2> QED
    BY <2>3, <2>4 DEF GoneForGood
<1>2. QED
  BY <1>1, InitRegistryInv, StepRegistryInv, InitGoneInv, StepGoneInv, PTL DEF Spec
-----------------------------------------------------------------------------
(* The counter.  Nothing but an eviction or a close takes back a slot that is    *)
(* still held, and both tell the session first.                                *)

Undisturbed == ~ShutDown /\ \A s \in Sessions : ~conn[s].told

Holders == {s \in Sessions : HoldsSlot(s)}

\* No eviction has begun, the counter is right, and a close has gone through nothing yet:
\* what it will subtract is what it has still to tell.
Counts ==
  /\ \A s \in Sessions : ~Locking(s)
  /\ total = Cardinality(Holders) /\ total <= MaxConnections
  /\ \A k \in Closers :
       closer[k].pc \in {"user", "userEmpty", "workspace", "workspaceEmpty"}
         => closer[k].count = Cardinality(closer[k].todo)

CountInv == Undisturbed => Counts

LEMMA WordSteps ==
  ASSUME NEW n \in 0..(Modulus - 1)
  PROVE  /\ (n + Modulus - 0) % Modulus = n
         /\ n > 0 => (n + Modulus - 1) % Modulus = n - 1
<1>1. Modulus \in Nat \ {0}
  BY RegistryAssumption
<1>2. (n + Modulus - 0) % Modulus = n
  BY <1>1
<1>3. n > 0 => (n + Modulus - 1) % Modulus = n - 1
  BY <1>1
<1> QED
  BY <1>2, <1>3

LEMMA HoldersType ==
  /\ IsFiniteSet(Holders) /\ Cardinality(Holders) \in Nat
  /\ \A s \in Sessions \ Holders : Cardinality(Holders \cup {s}) = Cardinality(Holders) + 1
  /\ \A s \in Holders : Cardinality(Holders \ {s}) = Cardinality(Holders) - 1 /\ Cardinality(Holders) > 0
<1>1. Holders \in SUBSET Sessions
  BY DEF Holders
<1>2. IsFiniteSet(Holders) /\ Cardinality(Holders) \in Nat
  BY <1>1, EntrySize
<1>3. \A s \in Sessions \ Holders : Cardinality(Holders \cup {s}) = Cardinality(Holders) + 1
  BY <1>2, FS_AddElement
<1>4. ASSUME NEW s \in Holders
      PROVE  Cardinality(Holders \ {s}) = Cardinality(Holders) - 1 /\ Cardinality(Holders) > 0
  <2>1. Cardinality(Holders \ {s}) = Cardinality(Holders) - 1
    BY <1>2, FS_RemoveElement
  <2>2. IsFiniteSet(Holders \ {s}) /\ Cardinality(Holders \ {s}) \in Nat
    BY <1>2, FS_Subset, FS_CardinalityType
  <2> QED
    BY <1>2, <2>1, <2>2
<1> QED
  BY <1>2, <1>3, <1>4

\* A step of one connection that tells nobody
LEMMA CountMove ==
  ASSUME RegistryInv, CountInv, NEW s \in Sessions, Undisturbed', closer' = closer,
         \A r \in Sessions \ {s} : conn'[r] = conn[r],
         conn'[s].told = conn[s].told,
         \/ total' = total /\ HoldsSlot(s)' = HoldsSlot(s) /\ ~Locking(s)'
         \/ total' = total + 1 /\ ~HoldsSlot(s) /\ HoldsSlot(s)' /\ ~Locking(s)' /\ total < MaxConnections
         \/ total' = Minus(1) /\ HoldsSlot(s) /\ ~HoldsSlot(s)' /\ ~Locking(s)'
         \/ Locking(s)
  PROVE  Counts'
<1>1. Counts
  BY DEF CountInv, Undisturbed, ShutDown
<1>2. /\ \A r \in Sessions : ~Locking(r)
      /\ total = Cardinality(Holders) /\ total \in Nat /\ total <= MaxConnections /\ MaxConnections \in Nat
  BY <1>1, HoldersType, RegistryAssumption DEF Counts
<1>3. \A r \in Sessions \ {s} : HoldsSlot(r)' = HoldsSlot(r) /\ Locking(r)' = Locking(r)
  BY DEF HoldsSlot, Locking
<1>4. ~Locking(s)' /\ total' = Cardinality(Holders') /\ total' <= MaxConnections
  <2>1. CASE total' = total /\ HoldsSlot(s)' = HoldsSlot(s) /\ ~Locking(s)'
    <3>1. Holders' = Holders
      BY <1>3, <2>1 DEF Holders
    <3> QED
      BY <1>2, <2>1, <3>1
  <2>2. CASE total' = total + 1 /\ ~HoldsSlot(s) /\ HoldsSlot(s)' /\ ~Locking(s)' /\ total < MaxConnections
    <3>1. Holders' = Holders \cup {s} /\ s \in Sessions \ Holders
      BY <1>3, <2>2 DEF Holders
    <3>2. Cardinality(Holders') = Cardinality(Holders) + 1
      BY <3>1, HoldersType
    <3> QED
      BY <1>2, <2>2, <3>2
  <2>3. CASE total' = Minus(1) /\ HoldsSlot(s) /\ ~HoldsSlot(s)' /\ ~Locking(s)'
    <3>1. Holders' = Holders \ {s} /\ s \in Holders
      BY <1>3, <2>3 DEF Holders
    <3>2. Cardinality(Holders') = Cardinality(Holders) - 1 /\ total > 0
      BY <1>2, <3>1, HoldersType
    <3>3. Minus(1) = total - 1
      BY <3>2, WordSteps DEF Minus, RegistryInv, TypeOK
    <3> QED
      BY <1>2, <2>3, <3>2, <3>3
  <2> QED
    BY <1>2, <2>1, <2>2, <2>3
<1> QED
  BY <1>1, <1>2, <1>3, <1>4 DEF Counts

LEMMA CountConnection ==
  ASSUME RegistryInv, CountInv, NEW s \in Sessions, Connection(s), Undisturbed'
  PROVE  Counts'
<1> USE DEF HoldsSlot, Locking
<1>0. conn \in [Sessions -> Conn]
  BY DEF RegistryInv, TypeOK
<1>1. CASE Open(s)
  <2>1. PICK u \in Users, w \in Workspaces :
          conn' = [conn EXCEPT ![s].pc = "claim", ![s].user = u, ![s].workspace = w]
    BY <1>1 DEF Open
  <2>2. conn[s].pc = "new" /\ total' = total /\ closer' = closer
    BY <1>1 DEF Open
  <2>3. /\ conn'[s].pc = "claim" /\ conn'[s].told = conn[s].told
        /\ \A r \in Sessions \ {s} : conn'[r] = conn[r]
    BY <1>0, <2>1 DEF Conn
  <2> QED
    BY <2>2, <2>3, CountMove
<1>2. CASE EvictOldest(s)
  <2>1. PICK v \in byUser[conn[s].user] :
          conn' = [conn EXCEPT ![s].pc = "evict", ![s].victim = v, ![v].told = TRUE]
    BY <1>2 DEF EvictOldest
  <2>2. v \in Sessions
    <3>1. Cardinality(Entry(byUser, conn[s].user)) # 0
      BY <1>2, RegistryAssumption, EntrySize, EntryType DEF EvictOldest, RegistryInv, TypeOK
    <3>2. Entry(byUser, conn[s].user) = byUser[conn[s].user]
      BY <3>1, FS_EmptySet DEF Entry
    <3> QED
      BY <3>2, EntryType DEF RegistryInv, TypeOK
  <2>3. conn'[v].told
    BY <1>0, <2>1, <2>2 DEF Conn
  <2> QED
    BY <2>2, <2>3 DEF Undisturbed
<1>3. CASE EnterAfterEviction(s)
  <2>1. /\ conn[s].pc = "enter" /\ closer' = closer
        /\ conn' = [conn EXCEPT ![s].pc = "join", ![s].victim = None]
    BY <1>3 DEF EnterAfterEviction
  <2>2. conn'[s].told = conn[s].told /\ \A r \in Sessions \ {s} : conn'[r] = conn[r]
    BY <1>0, <2>1 DEF Conn
  <2> QED
    BY <2>1, <2>2, CountMove
<1>4. CASE ClaimSlot(s) \/ Refuse(s) \/ EnterUser(s) \/ EvictFromWorkspace(s) \/ EvictEntry(s)
             \/ JoinWorkspace(s) \/ LeaveWorkspace(s) \/ Unregister(s)
  <2>1. /\ closer' = closer
        /\ conn' = [conn EXCEPT ![s].pc = conn'[s].pc, ![s].late = conn'[s].late]
        /\ \/ total' = total + 1 /\ total < MaxConnections
              /\ conn[s].pc = "claim" /\ conn'[s].pc = "user"
           \/ total' = Minus(1) /\ conn[s].pc = "release" /\ conn'[s].pc = "done"
           \/ total' = total /\ conn[s].pc = "claim" /\ conn'[s].pc = "refused"
           \/ total' = total /\ conn[s].pc \in {"evict", "evictEmpty"}
           \/ /\ total' = total
              /\ conn[s].pc \in {"user", "join", "live", "leaveEmpty", "leaveUser", "leaveUserEmpty"}
              /\ conn'[s].pc \in {"join", "live", "leaveEmpty", "leaveUser", "leaveUserEmpty", "release"}
    BY <1>0, <1>4 DEF ClaimSlot, Refuse, EnterUser, EvictFromWorkspace, EvictEntry, JoinWorkspace,
       LeaveWorkspace, Unregister, LeaveEntry, LeaveUser, LeaveUserEntry, Release, Go, Conn
  <2>2. conn'[s].told = conn[s].told /\ \A r \in Sessions \ {s} : conn'[r] = conn[r]
    BY <1>0, <2>1 DEF Conn
  <2> QED
    BY <2>1, <2>2, CountMove
<1> QED
  BY <1>1, <1>2, <1>3, <1>4 DEF Connection, Register

LEMMA CountClose ==
  ASSUME RegistryInv, CountInv, NEW k \in Closers, Close(k), Undisturbed'
  PROVE  Counts'
<1>0. conn \in [Sessions -> Conn] /\ closer \in [Closers -> Closer]
  BY DEF RegistryInv, TypeOK
\* What has not been told was not told before, and what is not shut down was not.
<1>1. ASSUME UNCHANGED <<conn, total>>, NEW c \in Closer, closer' = [closer EXCEPT ![k] = c],
             closer[k].pc \notin {"all", "clear", "down"},
             c.pc \in {"user", "userEmpty", "workspace", "workspaceEmpty"} =>
               \/ c.count = Cardinality(c.todo)
               \/ closer[k].pc \in {"user", "userEmpty", "workspace", "workspaceEmpty"}
                  /\ c.count = closer[k].count /\ c.todo = closer[k].todo
      PROVE  Counts'
  <2>1. \A j \in Closers : closer'[j] = IF j = k THEN c ELSE closer[j]
    BY <1>0, <1>1
  <2>2. ~ShutDown
    BY <1>1, <2>1 DEF Undisturbed, ShutDown
  <2>3. Counts
    BY <1>1, <2>2 DEF CountInv, Undisturbed
  <2>4. (\A s \in Sessions : ~Locking(s)') /\ Holders' = Holders
    BY <1>1, <2>3 DEF Counts, Locking, Holders, HoldsSlot
  <2> QED
    BY <1>1, <2>1, <2>3, <2>4 DEF Counts
<1>2. CASE \E u \in Users : CloseUser(k, u)
  <2>1. PICK u \in DOMAIN byUser :
          /\ closer[k].pc = "idle" /\ UNCHANGED <<conn, total>>
          /\ closer' = [closer EXCEPT ![k] = [pc |-> "user", todo |-> byUser[u], at |-> None,
                                              count |-> Cardinality(byUser[u])]]
    BY <1>2 DEF CloseUser
  <2>2. byUser[u] \in SUBSET Sessions
    BY MapType DEF RegistryInv, TypeOK
  <2>3. [pc |-> "user", todo |-> byUser[u], at |-> None, count |-> Cardinality(byUser[u])] \in Closer
    BY <2>2, EntrySize DEF Closer
  <2> QED
    BY <1>1, <2>1, <2>3
<1>3. CASE \E w \in Workspaces : CloseWorkspace(k, w)
  <2>1. PICK w \in DOMAIN byWorkspace :
          /\ closer[k].pc = "idle" /\ UNCHANGED <<conn, total>>
          /\ closer' = [closer EXCEPT ![k] = [pc |-> "workspace", todo |-> byWorkspace[w],
                                              at |-> None, count |-> Cardinality(byWorkspace[w])]]
    BY <1>3 DEF CloseWorkspace
  <2>2. byWorkspace[w] \in SUBSET Sessions
    BY MapType DEF RegistryInv, TypeOK
  <2>3. [pc |-> "workspace", todo |-> byWorkspace[w], at |-> None,
         count |-> Cardinality(byWorkspace[w])] \in Closer
    BY <2>2, EntrySize DEF Closer
  <2> QED
    BY <1>1, <2>1, <2>3
<1>4. CASE CloseUserNext(k) \/ CloseWorkspaceNext(k)
  <2>1. closer[k].todo \subseteq Sessions
    BY <1>4 DEF CloseUserNext, CloseWorkspaceNext, RegistryInv, TaskInv
  <2>2. PICK s \in closer[k].todo : conn' = [conn EXCEPT ![s].told = TRUE]
    BY <1>4 DEF CloseUserNext, CloseWorkspaceNext
  <2>3. conn'[s].told
    BY <1>0, <2>1, <2>2 DEF Conn
  <2> QED
    BY <2>1, <2>3 DEF Undisturbed
<1>5. CASE CloseUserEntry(k) \/ CloseWorkspaceEntry(k)
  <2>1. PICK pc \in {"user", "workspace"} :
          /\ closer' = [closer EXCEPT ![k].pc = pc] /\ UNCHANGED <<conn, total>>
          /\ closer[k].pc \in {"userEmpty", "workspaceEmpty"}
    BY <1>5 DEF CloseUserEntry, CloseWorkspaceEntry
  <2> DEFINE c == [closer[k] EXCEPT !.pc = pc]
  <2>2. closer[k] \in Closer
    BY <1>0
  <2>3. c \in Closer /\ c.count = closer[k].count /\ c.todo = closer[k].todo
    BY <2>2 DEF Closer
  <2>4. closer' = [closer EXCEPT ![k] = c]
    BY <1>0, <2>1
  <2> HIDE DEF c
  <2> QED
    BY <1>1, <2>1, <2>3, <2>4
<1>6. CASE Subtract(k)
  <2>1. /\ closer[k].pc \in {"user", "workspace"} /\ closer[k].todo = {} /\ UNCHANGED conn
        /\ closer' = [closer EXCEPT ![k] = Idle] /\ total' = Minus(closer[k].count)
    BY <1>6 DEF Subtract
  <2>2. ~ShutDown
    BY <1>0, <2>1 DEF Undisturbed, ShutDown
  <2>3. Counts
    BY <2>1, <2>2 DEF CountInv, Undisturbed
  <2>4. closer[k].count = 0
    BY <2>1, <2>3, FS_EmptySet DEF Counts
  <2>5. total' = total
    BY <2>1, <2>4, WordSteps DEF Minus, RegistryInv, TypeOK
  <2>6. Idle \in Closer /\ Idle.pc = "idle"
    BY DEF Idle, Closer
  <2> QED
    BY <1>1, <2>1, <2>5, <2>6
<1>7. CASE CloseAll(k) \/ CloseAllNext(k) \/ ClearUsers(k) \/ ClearUser(k) \/ ResetTotal(k)
  <2>1. closer'[k].pc \in {"all", "clear", "down"}
    BY <1>0, <1>7 DEF CloseAll, CloseAllNext, ClearUsers, ClearUser, ResetTotal, Closer, Idle
  <2> QED
    BY <2>1 DEF Undisturbed, ShutDown
<1> QED
  BY <1>2, <1>3, <1>4, <1>5, <1>6, <1>7 DEF Close, CloseStep

LEMMA InitCountInv == Init => CountInv
<1> SUFFICES ASSUME Init PROVE Counts
  BY DEF CountInv
<1>1. Holders = {}
  BY DEF Init, Holders, HoldsSlot
<1>2. total = Cardinality(Holders) /\ total <= MaxConnections
  BY <1>1, FS_EmptySet, RegistryAssumption DEF Init
<1> QED
  BY <1>2 DEF Init, Counts, Locking, Idle

LEMMA StepCountInv == RegistryInv /\ CountInv /\ [Next]_vars => CountInv'
<1> SUFFICES ASSUME RegistryInv, CountInv, [Next]_vars, Undisturbed' PROVE Counts'
  BY DEF CountInv
<1>1. CASE UNCHANGED vars
  BY <1>1 DEF vars, CountInv, Undisturbed, ShutDown, Counts, Locking, Holders, HoldsSlot
<1> QED
  BY <1>1, CountConnection, CountClose DEF Next

\* Until a session is evicted or closed, however many connections register and end at a
\* time, the counter is the number of slots held and within the limit of the server.
THEOREM SpecCounterExact == Spec => []CounterExact
<1>1. CountInv => CounterExact
  BY DEF CountInv, Undisturbed, Counts, CounterExact, Holders
<1>2. QED
  BY <1>1, InitRegistryInv, StepRegistryInv, InitCountInv, StepCountInv, PTL DEF Spec
=============================================================================
