----------------------------- MODULE LimitsProofs ------------------------------
(***************************************************************************)
(* Theorems about Lockout, Admins, Coupons and TeamSeats for any number of *)
(* requests at a time and any limits, and about the composition of the     *)
(* components of MCLimits.                                                 *)
(***************************************************************************)
EXTENDS MCLimits, ProcessProofs

(* Lockout: when the guesses are used up the address is locked.                *)

\* No failure is forgotten that the history remembers, and with the last guess comes
\* a lock.
GuessInv ==
  /\ LockoutTypeOK /\ guesses <= failed.count
  /\ guesses >= MaxFailed => hour < failed.until

LEMMA InitGuessInv == LockoutInit => GuessInv
BY LockoutAssumption DEF LockoutInit, GuessInv, LockoutTypeOK

LEMMA StepGuessInv == GuessInv /\ [LockoutNext]_lockVars => GuessInv'
<1> SUFFICES ASSUME GuessInv, [LockoutNext]_lockVars PROVE GuessInv'
  OBVIOUS
<1> USE LockoutAssumption DEF GuessInv, LockoutTypeOK
<1>1. ASSUME NEW a \in Attempts, CheckBruteForce(a) PROVE GuessInv' BY <1>1 DEF CheckBruteForce
<1>2. ASSUME NEW a \in Attempts, RecordFailed(a) PROVE GuessInv' BY <1>2 DEF RecordFailed
<1>3. ASSUME NEW a \in Attempts, ResetFailed(a) PROVE GuessInv' BY <1>3 DEF ResetFailed
<1>4. ASSUME NEW a \in Attempts, LoginFails(a) PROVE GuessInv' BY <1>4 DEF LoginFails
<1>5. CASE HourPasses BY <1>5 DEF HourPasses
<1>6. CASE UNCHANGED lockVars BY <1>6 DEF lockVars
<1>7. QED BY <1>1, <1>2, <1>3, <1>4, <1>5, <1>6 DEF LockoutNext

\* A login that may try its password finds guesses left.
LEMMA GuessStep ==
  ASSUME GuessInv, GuessInv', [LockoutNext]_lockVars
  PROVE  [Guesses!Next]_(Guesses!ctaVars)
<1> USE LockoutAssumption DEF GuessInv, LockoutTypeOK
<1>0. Guessing \in SUBSET Attempts /\ Guessing' \in SUBSET Attempts BY DEF Guessing
<1>1. ASSUME NEW a \in Attempts, CheckBruteForce(a) PROVE [Guesses!Next]_(Guesses!ctaVars)
  <2>1. guesses < MaxFailed /\ guesses' = guesses BY <1>1 DEF CheckBruteForce
  <2>2. Guessing' = Guessing \cup {a} BY <1>1 DEF CheckBruteForce, Guessing
  <2>3. Guesses!Check(a, Address) BY <2>1, <2>2 DEF Guesses!Check
  <2>4. QED BY <2>3 DEF Guesses!Next
<1>2. ASSUME NEW a \in Attempts, RecordFailed(a) PROVE [Guesses!Next]_(Guesses!ctaVars)
  <2>1. guesses' = guesses + 1 BY <1>2 DEF RecordFailed
  <2>2. a \in Guessing /\ Guessing' = Guessing \ {a} BY <1>2 DEF RecordFailed, Guessing
  <2>3. Guesses!Act(a, Address) BY <2>1, <2>2 DEF Guesses!Act
  <2>4. QED BY <2>3 DEF Guesses!Next
<1>3. ASSUME guesses' <= guesses, Guessing' \subseteq Guessing PROVE [Guesses!Next]_(Guesses!ctaVars)
  <2>1. Guesses!Release BY <1>0, <1>3 DEF Guesses!Release
  <2>2. QED BY <2>1 DEF Guesses!Next
<1>4. ASSUME NEW a \in Attempts, ResetFailed(a) \/ LoginFails(a)
      PROVE  [Guesses!Next]_(Guesses!ctaVars)
  <2>1. guesses' <= guesses /\ Guessing' \subseteq Guessing
    BY <1>4 DEF ResetFailed, LoginFails, Guessing
  <2>2. QED BY <1>3, <2>1
<1>5. CASE HourPasses
  <2>1. guesses' <= guesses /\ Guessing' \subseteq Guessing BY <1>5 DEF HourPasses, Guessing
  <2>2. QED BY <1>3, <2>1
<1>6. CASE UNCHANGED lockVars
  <2>1. guesses' <= guesses /\ Guessing' \subseteq Guessing BY <1>6 DEF lockVars, Guessing
  <2>2. QED BY <1>3, <2>1
<1>7. QED BY <1>1, <1>2, <1>4, <1>5, <1>6 DEF LockoutNext

\* Wrong passwords are a limit that is checked first and used up later, for any number
\* of logins at a time, any limit and any length of the lock.
THEOREM SpecGuessesImplement == LockoutSpec => GuessesImplement
<1>1. LockoutInit => Guesses!Init
  BY LockoutAssumption DEF LockoutInit, Guesses!Init, Guessing
<1>2. GuessInv /\ GuessInv' /\ [LockoutNext]_lockVars => [Guesses!Next]_(Guesses!ctaVars)
  BY GuessStep
<1>3. QED
  BY <1>1, <1>2, InitGuessInv, StepGuessInv, PTL DEF LockoutSpec, GuessesImplement, Guesses!Spec

GuessLimit == INSTANCE CheckThenActProofs WITH
  Resources <- {Address}, Actors <- Attempts, Capacity <- [x \in {Address} |-> MaxFailed],
  used <- [x \in {Address} |-> guesses], checked <- [x \in {Address} |-> Guessing]

\* Between two locks fewer wrong passwords are tried than MaxFailed and the logins that
\* can be in flight together.
GuessesBounded == guesses + 1 <= MaxFailed + Cardinality(Attempts)

\* The bound of the guesses, from the general theorem about limits.
THEOREM SpecGuessesBounded == LockoutSpec => []GuessesBounded
<1>0. /\ GuessLimit!IsFiniteSet(Attempts) <=> IsFiniteSet(Attempts)
      /\ GuessLimit!Cardinality(Attempts) = Cardinality(Attempts)
  BY DEF GuessLimit!IsFiniteSet, IsFiniteSet, GuessLimit!Cardinality, Cardinality
<1>1. GuessLimit!CheckThenActAssumption
  BY <1>0, LockoutAssumption DEF GuessLimit!CheckThenActAssumption
<1>2. GuessLimit!Spec => []GuessLimit!OverrunBounded BY <1>1, GuessLimit!SpecOverrunBounded
<1>3. LockoutSpec => GuessLimit!Spec
  BY SpecGuessesImplement
  DEF GuessesImplement, Guesses!Spec, GuessLimit!Spec, Guesses!Init, GuessLimit!Init,
      Guesses!Next, GuessLimit!Next, Guesses!ctaVars, GuessLimit!ctaVars, Guesses!Check,
      GuessLimit!Check, Guesses!Act, GuessLimit!Act, Guesses!Release, GuessLimit!Release
<1>4. GuessLimit!OverrunBounded => GuessesBounded
  BY <1>0 DEF GuessLimit!OverrunBounded, GuessesBounded
<1>5. QED BY <1>2, <1>3, <1>4, PTL
-----------------------------------------------------------------------------
(* Admins: an account of an invite's address shuts out all others.             *)

\* A demotion is of somebody with an account; a registration about to commit is the only
\* one for its address, which has no account; who was made an admin has an account.
JobInv ==
  /\ \A t \in AdminTasks : job[t].pc \in {"count", "demote"} => role[job[t].on] # Nil
  /\ \A t \in AdminTasks : job[t].pc = "commit" => role[Invitee[job[t].on]] = Nil
  /\ \A t, o \in AdminTasks :
       job[t].pc = "commit" /\ job[o].pc = "commit" /\ Invitee[job[t].on] = Invitee[job[o].on] => t = o
  /\ \A i \in AdminInvites : made[i] = 1 => role[Invitee[i]] # Nil

AdminsInv == AdminTypeOK /\ InviteMakesOne /\ JobInv

LEMMA InitAdminsInv == AdminInit => AdminsInv
BY AdminsAssumption DEF AdminInit, AdminsInv, AdminTypeOK, InviteMakesOne, JobInv, NoJob, Job

\* What a task is about, by where it is
LEMMA JobType ==
  ASSUME AdminTypeOK, NEW t \in AdminTasks
  PROVE  /\ job[t] \in Job
         /\ job[t].pc \in {"idle", "invite", "count", "demote", "insert", "commit"}
         /\ job[t].pc \in {"count", "demote"} => job[t].on \in People
         /\ job[t].pc \in {"insert", "commit"} => job[t].on \in AdminInvites
BY DEF AdminTypeOK, Job

\* A task that asks, steps or finishes leaves the others as they were.
LEMMA JobMoves ==
  ASSUME AdminTypeOK, NEW t \in AdminTasks, NEW k \in Job, job' = [job EXCEPT ![t] = k]
  PROVE  /\ job' \in [AdminTasks -> Job] /\ job'[t] = k
         /\ \A o \in AdminTasks \ {t} : job'[o] = job[o]
BY DEF AdminTypeOK

\* Steps that change no row
LEMMA QuietAdmins ==
  ASSUME AdminsInv, NEW t \in AdminTasks, NEW k \in Job, job' = [job EXCEPT ![t] = k],
         UNCHANGED <<role, adminInv, made>>, bid' \in Nat,
         k.pc \in {"count", "demote"} => role[k.on] # Nil,
         k.pc = "commit" =>
           /\ role[Invitee[k.on]] = Nil
           /\ \A o \in AdminTasks : job[o].pc = "commit" => Invitee[job[o].on] # Invitee[k.on]
  PROVE  AdminsInv'
<1>1. /\ job' \in [AdminTasks -> Job] /\ job'[t] = k
      /\ \A o \in AdminTasks \ {t} : job'[o] = job[o]
  BY JobMoves DEF AdminsInv
<1>2. AdminTypeOK' /\ InviteMakesOne' BY <1>1 DEF AdminsInv, AdminTypeOK, InviteMakesOne
<1>3. JobInv' BY <1>1 DEF AdminsInv, JobInv
<1>4. QED BY <1>2, <1>3 DEF AdminsInv

LEMMA StepAdminsInv == AdminsInv /\ [AdminNext]_adminVars => AdminsInv'
<1> SUFFICES ASSUME AdminsInv, [AdminNext]_adminVars PROVE AdminsInv'
  OBVIOUS
<1>0. AdminTypeOK /\ bid \in Nat /\ bid + 1 \in Nat /\ NoJob \in Job /\ NoJob.pc = "idle" BY DEF AdminsInv, AdminTypeOK, NoJob, Job
<1>1. ASSUME NEW t \in AdminTasks, NEW a \in People, NEW p \in People, StartDemote(t, a, p)
      PROVE  AdminsInv'
  <2> DEFINE k == [pc |-> "count", on |-> p]
  <2>1. k \in Job /\ k.pc = "count" /\ k.on = p BY DEF Job
  <2>2. role[p] # Nil /\ job' = [job EXCEPT ![t] = k] BY <1>1, AdminsAssumption DEF StartDemote, Asks
  <2> HIDE DEF k
  <2>3. UNCHANGED <<role, adminInv, made>> /\ bid' \in Nat BY <1>0, <1>1 DEF StartDemote, Asks
  <2>4. QED BY <2>1, <2>2, <2>3, QuietAdmins
<1>2. ASSUME NEW t \in AdminTasks, CountAdmins(t) PROVE AdminsInv'
  <2> DEFINE k == [job[t] EXCEPT !.pc = "demote"]
  <2>1. job[t].pc = "count" /\ job[t].on \in People BY <1>0, <1>2, JobType DEF CountAdmins, Steps
  <2>2. k \in Job /\ k.pc = "demote" /\ k.on = job[t].on BY <1>0, <2>1, JobType DEF Job
  <2>3. job' = [job EXCEPT ![t] = k] BY <1>2 DEF CountAdmins, Steps
  <2>4. role[k.on] # Nil BY <2>1, <2>2 DEF AdminsInv, JobInv
  <2>5. QED BY <1>0, <1>2, <2>2, <2>3, <2>4, QuietAdmins DEF CountAdmins, Steps, AdminTypeOK
<1>3. ASSUME NEW t \in AdminTasks, StartInvite(t) PROVE AdminsInv'
  <2> DEFINE k == [pc |-> "invite", on |-> Nil]
  <2>1. k \in Job /\ k.pc = "invite" BY DEF Job
  <2>2. job' = [job EXCEPT ![t] = k] BY <1>3 DEF StartInvite, Asks
  <2> HIDE DEF k
  <2>3. UNCHANGED <<role, adminInv, made>> /\ bid' \in Nat BY <1>0, <1>3 DEF StartInvite, Asks
  <2>4. QED BY <2>1, <2>2, <2>3, QuietAdmins
<1>4. ASSUME NEW t \in AdminTasks, NEW i \in AdminInvites, StartRegistration(t, i) PROVE AdminsInv'
  <2> DEFINE k == [pc |-> "insert", on |-> i]
  <2>1. k \in Job /\ k.pc = "insert" BY DEF Job
  <2>2. job' = [job EXCEPT ![t] = k] BY <1>4 DEF StartRegistration, Asks
  <2> HIDE DEF k
  <2>3. UNCHANGED <<role, adminInv, made>> /\ bid' \in Nat BY <1>0, <1>4 DEF StartRegistration, Asks
  <2>4. QED BY <2>1, <2>2, <2>3, QuietAdmins
<1>5. ASSUME NEW t \in AdminTasks, InsertAdmin(t) PROVE AdminsInv'
  <2> DEFINE k == [job[t] EXCEPT !.pc = "commit"]
  <2>1. job[t].pc = "insert" /\ job[t].on \in AdminInvites BY <1>0, <1>5, JobType DEF InsertAdmin
  <2>2. k \in Job /\ k.pc = "commit" /\ k.on = job[t].on BY <1>0, <2>1, JobType DEF Job
  <2>3. job' = [job EXCEPT ![t] = k] BY <1>5 DEF InsertAdmin, Steps
  <2>4. /\ UNCHANGED <<role, adminInv, made>> /\ bid' \in Nat /\ role[Invitee[k.on]] = Nil
        /\ \A o \in AdminTasks : job[o].pc = "commit" => Invitee[job[o].on] # Invitee[k.on]
    BY <1>0, <1>5, <2>2 DEF InsertAdmin, Steps
  <2> HIDE DEF k
  <2>5. QED BY <2>2, <2>3, <2>4, QuietAdmins
<1>6. ASSUME NEW t \in AdminTasks, AdminFails(t) PROVE AdminsInv'
  BY <1>0, <1>6, QuietAdmins DEF AdminFails, Finishes, AdminTypeOK
<1>7. ASSUME NEW t \in AdminTasks, DemoteAdmin(t) PROVE AdminsInv'
  <2>1. /\ job[t].pc = "demote" /\ job[t].on \in People /\ role[job[t].on] # Nil
        /\ job' = [job EXCEPT ![t] = NoJob] /\ role' = [role EXCEPT ![job[t].on] = "user"]
        /\ UNCHANGED <<adminInv, made, bid>>
    BY <1>0, <1>7, JobType DEF DemoteAdmin, Finishes, AdminsInv, JobInv
  <2>2. /\ job' \in [AdminTasks -> Job] /\ job'[t].pc = "idle"
        /\ \A o \in AdminTasks \ {t} : job'[o] = job[o]
    BY <1>0, <2>1, JobMoves
  <2>3. role' \in [People -> {"admin", "user", Nil}] /\ \A p \in People : role'[p] = Nil <=> role[p] = Nil
    BY <1>0, <2>1, AdminsAssumption DEF AdminTypeOK
  <2>4. AdminTypeOK' /\ InviteMakesOne' BY <2>1, <2>2, <2>3 DEF AdminsInv, AdminTypeOK, InviteMakesOne
  <2>5. \A i \in AdminInvites : Invitee[i] \in People BY AdminsAssumption
  <2>6. \A o \in AdminTasks :
          /\ job[o].pc \in {"count", "demote"} => job[o].on \in People
          /\ job[o].pc = "commit" => job[o].on \in AdminInvites
    BY <1>0, JobType
  <2>7. JobInv' BY <2>1, <2>2, <2>3, <2>5, <2>6 DEF AdminsInv, JobInv
  <2>8. QED BY <2>4, <2>7 DEF AdminsInv
<1>8. ASSUME NEW t \in AdminTasks, NEW i \in AdminInvites, InsertInvite(t, i) PROVE AdminsInv'
  <2>1. /\ adminInv[i] = Nil /\ job' = [job EXCEPT ![t] = NoJob]
        /\ adminInv' = [adminInv EXCEPT ![i] = "pending"] /\ UNCHANGED <<role, made, bid>>
    BY <1>8 DEF InsertInvite, Finishes
  <2>2. /\ job' \in [AdminTasks -> Job] /\ job'[t].pc = "idle"
        /\ \A o \in AdminTasks \ {t} : job'[o] = job[o]
    BY <1>0, <2>1, JobMoves
  <2>3. AdminTypeOK' BY <2>1, <2>2 DEF AdminsInv, AdminTypeOK
  <2>4. InviteMakesOne' BY <1>0, <2>1, AdminsAssumption DEF AdminsInv, AdminTypeOK, InviteMakesOne
  <2>5. JobInv' BY <2>1, <2>2 DEF AdminsInv, JobInv
  <2>6. QED BY <2>3, <2>4, <2>5 DEF AdminsInv
<1>9. ASSUME NEW t \in AdminTasks, CommitAdmin(t) PROVE AdminsInv'
  <2> DEFINE i == job[t].on
  <2>1. /\ job[t].pc = "commit" /\ i \in AdminInvites /\ Invitee[i] \in People /\ role[Invitee[i]] = Nil
        /\ job' = [job EXCEPT ![t] = NoJob] /\ role' = [role EXCEPT ![Invitee[i]] = "admin"]
        /\ adminInv' = [adminInv EXCEPT ![i] = "used"] /\ made' = [made EXCEPT ![i] = @ + 1]
        /\ UNCHANGED bid
    BY <1>0, <1>9, JobType, AdminsAssumption DEF CommitAdmin, Finishes, AdminsInv, JobInv
  <2>2. /\ job' \in [AdminTasks -> Job] /\ job'[t].pc = "idle"
        /\ \A o \in AdminTasks \ {t} : job'[o] = job[o]
    BY <1>0, <2>1, JobMoves
  <2> HIDE DEF i
  <2>3. made[i] = 0 BY <1>0, <2>1 DEF AdminsInv, AdminTypeOK, InviteMakesOne, JobInv
  <2>4. /\ role' \in [People -> {"admin", "user", Nil}] /\ role'[Invitee[i]] # Nil
        /\ \A p \in People \ {Invitee[i]} : role'[p] = role[p]
    BY <1>0, <2>1, AdminsAssumption DEF AdminTypeOK
  <2>5. /\ made'[i] = 1 /\ adminInv'[i] = "used"
        /\ \A x \in AdminInvites \ {i} : made'[x] = made[x] /\ adminInv'[x] = adminInv[x]
    BY <1>0, <2>1, <2>3 DEF AdminTypeOK
  <2>6. AdminTypeOK' BY <1>0, <2>1, <2>2, <2>4 DEF AdminTypeOK
  <2>7. InviteMakesOne' BY <2>5 DEF AdminsInv, InviteMakesOne
  <2>8. \A o \in AdminTasks \ {t} :
          /\ job[o].pc \in {"count", "demote"} => job[o].on \in People
          /\ job[o].pc = "commit" =>
               /\ job[o].on \in AdminInvites /\ Invitee[job[o].on] \in People
               /\ Invitee[job[o].on] # Invitee[i]
    BY <1>0, <2>1, JobType, AdminsAssumption DEF AdminsInv, JobInv, i
  <2>9. \A x \in AdminInvites : Invitee[x] \in People BY AdminsAssumption
  <2>10. \A o \in AdminTasks : job'[o].pc \in {"count", "demote"} => role'[job'[o].on] # Nil
    BY <2>2, <2>4, <2>8 DEF AdminsInv, JobInv
  <2>11. \A o \in AdminTasks : job'[o].pc = "commit" => role'[Invitee[job'[o].on]] = Nil
    BY <2>2, <2>4, <2>8 DEF AdminsInv, JobInv
  <2>12. \A o, q \in AdminTasks :
           job'[o].pc = "commit" /\ job'[q].pc = "commit" /\ Invitee[job'[o].on] = Invitee[job'[q].on] => o = q
    BY <2>2 DEF AdminsInv, JobInv
  <2>13. \A x \in AdminInvites : made'[x] = 1 => role'[Invitee[x]] # Nil
    BY <2>4, <2>5, <2>9 DEF AdminsInv, JobInv
  <2>14. QED BY <2>6, <2>7, <2>10, <2>11, <2>12, <2>13 DEF AdminsInv, JobInv
<1>10. ASSUME NEW i \in AdminInvites, AdminInviteExpires(i) PROVE AdminsInv'
  BY <1>10, AdminsAssumption
  DEF AdminInviteExpires, Pending, AdminsInv, AdminTypeOK, InviteMakesOne, JobInv
<1>11. CASE UNCHANGED adminVars
  BY <1>11 DEF adminVars, AdminsInv, AdminTypeOK, InviteMakesOne, JobInv
<1>12. QED
  BY <1>1, <1>2, <1>3, <1>4, <1>5, <1>6, <1>7, <1>8, <1>9, <1>10, <1>11 DEF AdminNext

\* An invite makes at most one account, for any number of registrations at a time and
\* of invites to one address.
THEOREM SpecInviteMakesOne == AdminSpec => []InviteMakesOne
<1>1. AdminsInv => InviteMakesOne BY DEF AdminsInv
<1>2. QED BY <1>1, InitAdminsInv, StepAdminsInv, PTL DEF AdminSpec

Demoting == {t \in AdminTasks : job[t].pc = "demote"}
Inviting == {t \in AdminTasks : job[t].pc = "invite"}
Others == People \ AdminSet

\* The numbers that the limits compare
LEMMA AdminCounts ==
  /\ IsFiniteSet(Others) /\ IsFiniteSet(AdminSet) /\ IsFiniteSet(Pending)
  /\ Cardinality(People) \in Nat \ {0} /\ Cardinality(Others) \in Nat
  /\ Cardinality(AdminSet) \in Nat /\ Cardinality(Pending) \in Nat
  /\ Cardinality(Others) = Cardinality(People) - Cardinality(AdminSet)
<1>1. Others \in SUBSET People /\ AdminSet \in SUBSET People /\ Pending \in SUBSET AdminInvites
  BY DEF Others, AdminSet, Pending
<1>2. IsFiniteSet(Others) /\ IsFiniteSet(AdminSet) /\ IsFiniteSet(Pending)
  BY <1>1, FS_Subset, AdminsAssumption
<1>3. Cardinality(People) # 0 BY FS_EmptySet, AdminsAssumption
<1>4. People \cap AdminSet = AdminSet BY <1>1
<1>5. Cardinality(Others) = Cardinality(People) - Cardinality(AdminSet)
  BY <1>4, FS_Difference, AdminsAssumption DEF Others
<1>6. QED BY <1>2, <1>3, <1>5, FS_CardinalityType, AdminsAssumption

\* Fewer who are no admins, fewer pending invites, fewer claims to either
LEMMA AdminsRelease ==
  ASSUME Cardinality(Others') <= Cardinality(Others), Cardinality(Pending') <= Cardinality(Pending),
         Cardinality(Others') \in Nat, Cardinality(Pending') \in Nat,
         Demoting' \subseteq Demoting, Inviting' \subseteq Inviting
  PROVE  [AdminLimits!Next]_(AdminLimits!ctaVars)
<1>1. Demoting' \in SUBSET AdminTasks /\ Inviting' \in SUBSET AdminTasks BY DEF Demoting, Inviting
<1>2. AdminLimits!Release BY <1>1 DEF AdminLimits!Release, Others, Demoting, Inviting
<1>3. QED BY <1>2 DEF AdminLimits!Next

LEMMA AdminStep ==
  ASSUME AdminsInv, AdminsInv', [AdminNext]_adminVars
  PROVE  [AdminLimits!Next]_(AdminLimits!ctaVars)
<1>0. /\ Cardinality(Others) \in Nat /\ Cardinality(Pending) \in Nat
      /\ Cardinality(Others') \in Nat /\ Cardinality(Pending') \in Nat
      /\ IsFiniteSet(Others) /\ IsFiniteSet(Pending) /\ AdminTypeOK
  <2>1. (IsFiniteSet(Others) /\ Cardinality(Others) \in Nat)' /\ (Cardinality(Pending) \in Nat)'
    BY AdminCounts, PTL
  <2>2. QED BY <2>1, AdminCounts DEF AdminsInv
<1>1. ASSUME role' = role, adminInv' = adminInv
      PROVE  Others' = Others /\ Pending' = Pending /\ AdminSet' = AdminSet
  BY <1>1 DEF Others, Pending, AdminSet
<1>2. ASSUME NEW t \in AdminTasks, NEW a \in People, NEW p \in People, StartDemote(t, a, p)
      PROVE  [AdminLimits!Next]_(AdminLimits!ctaVars)
  <2>1. Demoting' = Demoting /\ Inviting' = Inviting
    BY <1>0, <1>2 DEF StartDemote, Asks, Demoting, Inviting, AdminTypeOK
  <2>2. role' = role /\ adminInv' = adminInv BY <1>2 DEF StartDemote, Asks
  <2>3. QED BY <1>0, <1>1, <2>1, <2>2, AdminsRelease
<1>3. ASSUME NEW t \in AdminTasks, CountAdmins(t) PROVE [AdminLimits!Next]_(AdminLimits!ctaVars)
  <2>1. Demoting' = Demoting \cup {t} /\ Inviting' = Inviting
    BY <1>0, <1>3 DEF CountAdmins, Steps, Demoting, Inviting, AdminTypeOK, Job
  <2>2. /\ Others' = Others /\ Pending' = Pending /\ Cardinality(AdminSet) > 1
    BY <1>1, <1>3 DEF CountAdmins
  <2>3. Cardinality(Others) < Cardinality(People) - 1 BY <2>2, AdminCounts
  <2>4. PICK r \in {"demotions", "invites"} : r = "demotions" OBVIOUS
  <2>5. AdminLimits!Check(t, r)
    BY <2>1, <2>2, <2>3, <2>4 DEF AdminLimits!Check, Others, Demoting, Inviting
  <2>6. QED BY <2>5 DEF AdminLimits!Next
<1>4. ASSUME NEW t \in AdminTasks, DemoteAdmin(t) PROVE [AdminLimits!Next]_(AdminLimits!ctaVars)
  <2>1. t \in Demoting /\ Demoting' = Demoting \ {t} /\ Inviting' = Inviting
    BY <1>0, <1>4 DEF DemoteAdmin, Finishes, Demoting, Inviting, AdminTypeOK, NoJob
  <2>2. Pending' = Pending BY <1>4 DEF DemoteAdmin, Pending
  <2>3. job[t].on \in People BY <1>0, <1>4, JobType DEF DemoteAdmin, Finishes
  <2>4. Others' = Others \cup {job[t].on}
    BY <1>0, <1>4, <2>3 DEF DemoteAdmin, Others, AdminSet, AdminTypeOK
  <2>5. Cardinality(Others') = IF job[t].on \in Others THEN Cardinality(Others) ELSE Cardinality(Others) + 1
    BY <1>0, <2>4, FS_AddElement
  <2>6. CASE job[t].on \in Others BY <1>0, <2>1, <2>2, <2>5, <2>6, AdminsRelease
  <2>7. CASE job[t].on \notin Others
    <3>1. PICK r \in {"demotions", "invites"} : r = "demotions" OBVIOUS
    <3>2. Cardinality(Others') = Cardinality(Others) + 1 BY <2>5, <2>7
    <3>3. AdminLimits!Act(t, r)
      BY <2>1, <2>2, <3>1, <3>2 DEF AdminLimits!Act, Others, Demoting, Inviting
    <3>4. QED BY <3>3 DEF AdminLimits!Next
  <2>8. QED BY <2>6, <2>7
<1>5. ASSUME NEW t \in AdminTasks, StartInvite(t) PROVE [AdminLimits!Next]_(AdminLimits!ctaVars)
  <2>1. Inviting' = Inviting \cup {t} /\ Demoting' = Demoting
    BY <1>0, <1>5 DEF StartInvite, Asks, Demoting, Inviting, AdminTypeOK
  <2>2. /\ Others' = Others /\ Pending' = Pending /\ Cardinality(Pending) < MaxPending
    BY <1>1, <1>5 DEF StartInvite, Asks
  <2>3. PICK r \in {"demotions", "invites"} : r = "invites" OBVIOUS
  <2>4. AdminLimits!Check(t, r)
    BY <2>1, <2>2, <2>3 DEF AdminLimits!Check, Others, Demoting, Inviting
  <2>5. QED BY <2>4 DEF AdminLimits!Next
<1>6. ASSUME NEW t \in AdminTasks, NEW i \in AdminInvites, InsertInvite(t, i)
      PROVE  [AdminLimits!Next]_(AdminLimits!ctaVars)
  <2>1. t \in Inviting /\ Inviting' = Inviting \ {t} /\ Demoting' = Demoting
    BY <1>0, <1>6 DEF InsertInvite, Finishes, Demoting, Inviting, AdminTypeOK, NoJob
  <2>2. Others' = Others BY <1>6 DEF InsertInvite, Others, AdminSet
  <2>3. Pending' = Pending \cup {i} /\ i \notin Pending
    BY <1>0, <1>6, AdminsAssumption DEF InsertInvite, Pending, AdminTypeOK
  <2>4. Cardinality(Pending') = Cardinality(Pending) + 1 BY <1>0, <2>3, FS_AddElement
  <2>5. PICK r \in {"demotions", "invites"} : r = "invites" OBVIOUS
  <2>6. AdminLimits!Act(t, r)
    BY <2>1, <2>2, <2>4, <2>5 DEF AdminLimits!Act, Others, Demoting, Inviting
  <2>7. QED BY <2>6 DEF AdminLimits!Next
<1>7. ASSUME NEW t \in AdminTasks, NEW i \in AdminInvites, StartRegistration(t, i)
      PROVE  [AdminLimits!Next]_(AdminLimits!ctaVars)
  <2>1. Demoting' = Demoting /\ Inviting' = Inviting
    BY <1>0, <1>7 DEF StartRegistration, Asks, Demoting, Inviting, AdminTypeOK
  <2>2. role' = role /\ adminInv' = adminInv BY <1>7 DEF StartRegistration, Asks
  <2>3. QED BY <1>0, <1>1, <2>1, <2>2, AdminsRelease
<1>8. ASSUME NEW t \in AdminTasks, InsertAdmin(t) PROVE [AdminLimits!Next]_(AdminLimits!ctaVars)
  <2>1. Demoting' = Demoting /\ Inviting' = Inviting
    BY <1>0, <1>8 DEF InsertAdmin, Steps, Demoting, Inviting, AdminTypeOK, Job
  <2>2. role' = role /\ adminInv' = adminInv BY <1>8 DEF InsertAdmin
  <2>3. QED BY <1>0, <1>1, <2>1, <2>2, AdminsRelease
<1>9. ASSUME NEW t \in AdminTasks, CommitAdmin(t) PROVE [AdminLimits!Next]_(AdminLimits!ctaVars)
  <2>1. Demoting' = Demoting /\ Inviting' = Inviting
    BY <1>0, <1>9 DEF CommitAdmin, Finishes, Demoting, Inviting, AdminTypeOK, NoJob
  <2>2. Others' \subseteq Others
    BY <1>0, <1>9 DEF CommitAdmin, Others, AdminSet, AdminTypeOK
  <2>3. Pending' \subseteq Pending
    BY <1>0, <1>9 DEF CommitAdmin, Pending, AdminTypeOK
  <2>4. Cardinality(Others') <= Cardinality(Others) /\ Cardinality(Pending') <= Cardinality(Pending)
    BY <1>0, <2>2, <2>3, FS_Subset
  <2>5. QED BY <1>0, <2>1, <2>4, AdminsRelease
<1>10. ASSUME NEW t \in AdminTasks, AdminFails(t) PROVE [AdminLimits!Next]_(AdminLimits!ctaVars)
  <2>1. Demoting' \subseteq Demoting /\ Inviting' \subseteq Inviting
    BY <1>0, <1>10 DEF AdminFails, Finishes, Demoting, Inviting, AdminTypeOK, NoJob
  <2>2. role' = role /\ adminInv' = adminInv BY <1>10 DEF AdminFails
  <2>3. QED BY <1>0, <1>1, <2>1, <2>2, AdminsRelease
<1>11. ASSUME NEW i \in AdminInvites, AdminInviteExpires(i) PROVE [AdminLimits!Next]_(AdminLimits!ctaVars)
  <2>1. Demoting' = Demoting /\ Inviting' = Inviting /\ Others' = Others
    BY <1>11 DEF AdminInviteExpires, Demoting, Inviting, Others, AdminSet
  <2>2. Pending' \subseteq Pending BY <1>0, <1>11 DEF AdminInviteExpires, Pending, AdminTypeOK
  <2>3. Cardinality(Pending') <= Cardinality(Pending) BY <1>0, <2>2, FS_Subset
  <2>4. QED BY <1>0, <2>1, <2>3, AdminsRelease
<1>12. CASE UNCHANGED adminVars
  <2>1. Demoting' = Demoting /\ Inviting' = Inviting BY <1>12 DEF adminVars, Demoting, Inviting
  <2>2. role' = role /\ adminInv' = adminInv BY <1>12 DEF adminVars
  <2>3. QED BY <1>0, <1>1, <2>1, <2>2, AdminsRelease
<1>13. QED
  BY <1>2, <1>3, <1>4, <1>5, <1>6, <1>7, <1>8, <1>9, <1>10, <1>11, <1>12 DEF AdminNext

\* Admins that must remain and invites that may be pending are limits that are checked
\* first and used up later, for any number of people and requests.
THEOREM SpecAdminsImplement == AdminSpec => AdminsImplement
<1>1. AdminInit => AdminLimits!Init
  <2> SUFFICES ASSUME AdminInit PROVE AdminLimits!Init
    OBVIOUS
  <2>1. Demoting = {} /\ Inviting = {} BY DEF AdminInit, Demoting, Inviting, NoJob
  <2>2. Pending = {} BY AdminsAssumption DEF AdminInit, Pending
  <2>3. AdminSet # {} BY AdminsAssumption DEF AdminInit, AdminSet
  <2>4. Cardinality(AdminSet) # 0 BY <2>3, AdminCounts, FS_EmptySet
  <2>5. Cardinality(Others) <= Cardinality(People) - 1 BY <2>4, AdminCounts
  <2>6. Cardinality(Pending) = 0 BY <2>2, FS_EmptySet
  <2>7. QED
    BY <2>1, <2>5, <2>6, AdminCounts, AdminsAssumption
    DEF AdminLimits!Init, Others, Demoting, Inviting
<1>2. QED
  BY <1>1, InitAdminsInv, StepAdminsInv, AdminStep, PTL
  DEF AdminSpec, AdminsImplement, AdminLimits!Spec

AdminLimit == INSTANCE CheckThenActProofs WITH
  Resources <- {"demotions", "invites"}, Actors <- AdminTasks,
  Capacity <- [r \in {"demotions", "invites"} |->
            IF r = "demotions" THEN Cardinality(People) - 1 ELSE MaxPending],
  used <- [r \in {"demotions", "invites"} |->
            IF r = "demotions" THEN Cardinality(People \ AdminSet) ELSE Cardinality(Pending)],
  checked <- [r \in {"demotions", "invites"} |->
            {t \in AdminTasks : job[t].pc = IF r = "demotions" THEN "demote" ELSE "invite"}]

\* At most the demotions that run beside the last one that counted can take the admin
\* that had to remain.
AdminsRemain == 2 <= Cardinality(AdminSet) + Cardinality(AdminTasks)

\* The bound of the demotions, from the general theorem about limits: where one request
\* runs at a time, an admin always remains.
THEOREM SpecAdminsRemain == AdminSpec => []AdminsRemain
<1>0. /\ AdminLimit!IsFiniteSet(AdminTasks) <=> IsFiniteSet(AdminTasks)
      /\ AdminLimit!Cardinality(AdminTasks) = Cardinality(AdminTasks)
  BY DEF AdminLimit!IsFiniteSet, IsFiniteSet, AdminLimit!Cardinality, Cardinality
<1>1. AdminLimit!CheckThenActAssumption
  BY <1>0, AdminsAssumption, AdminCounts DEF AdminLimit!CheckThenActAssumption
<1>2. AdminLimit!Spec => []AdminLimit!OverrunBounded BY <1>1, AdminLimit!SpecOverrunBounded
<1>3. AdminSpec => AdminLimit!Spec
  <2>1. AdminLimits!Init <=> AdminLimit!Init BY Zenon DEF AdminLimits!Init, AdminLimit!Init
  <2>2. AdminLimits!Next <=> AdminLimit!Next
    BY Zenon DEF AdminLimits!Next, AdminLimit!Next, AdminLimits!Check, AdminLimit!Check,
           AdminLimits!Act, AdminLimit!Act, AdminLimits!Release, AdminLimit!Release
  <2>3. (UNCHANGED AdminLimits!ctaVars) <=> (UNCHANGED AdminLimit!ctaVars)
    BY Zenon DEF AdminLimits!ctaVars, AdminLimit!ctaVars
  <2>4. [AdminLimits!Next]_(AdminLimits!ctaVars) => [AdminLimit!Next]_(AdminLimit!ctaVars)
    BY <2>2, <2>3
  <2>5. QED
    BY <2>1, <2>4, SpecAdminsImplement, PTL DEF AdminsImplement, AdminLimits!Spec, AdminLimit!Spec
<1>4. AdminLimit!OverrunBounded => AdminsRemain
  <2>1. Cardinality(AdminTasks) \in Nat BY AdminsAssumption, FS_CardinalityType
  <2>2. SUFFICES ASSUME AdminLimit!OverrunBounded PROVE AdminsRemain
    OBVIOUS
  <2>3. Cardinality(Others) + 1 <= Cardinality(People) - 1 + Cardinality(AdminTasks)
    BY <1>0, <2>2 DEF AdminLimit!OverrunBounded, Others
  <2>4. QED BY <2>1, <2>3, AdminCounts DEF AdminsRemain
<1>5. QED BY <1>2, <1>3, <1>4, PTL
-----------------------------------------------------------------------------
(* Coupons: the invoice                                                        *)

LEMMA OneType == One = 10000 BY DEF One

\* The integer part and the rest of an amount
LEMMA Division ==
  ASSUME NEW x \in Int, NEW q \in Int, NEW r \in Int, 0 <= r, r < 10000, x = q * 10000 + r
  PROVE  x \div 10000 = q /\ x % 10000 = r
OBVIOUS

LEMMA Parts ==
  ASSUME NEW x \in Int
  PROVE  /\ x \div 10000 \in Int /\ x % 10000 \in Int /\ 0 <= x % 10000 /\ x % 10000 < 10000
         /\ x = (x \div 10000) * 10000 + (x % 10000)
         /\ x >= 0 => x \div 10000 >= 0
OBVIOUS

\* Rounding to even, by the integer part and the rest
RoundOf(q, r) == IF r < 5000 \/ (r = 5000 /\ q % 2 = 0) THEN q ELSE q + 1

LEMMA RoundParts == ASSUME NEW x \in Int PROVE Round2(x) = RoundOf(x \div 10000, x % 10000)
<1> DEFINE q == x \div 10000
           r == x % 10000
<1>1. Round2(x) = IF 2 * r < 10000 \/ (2 * r = 10000 /\ q % 2 = 0) THEN q ELSE q + 1
  BY OneType DEF Round2
<1>2. q \in Int /\ r \in Int BY Parts
<1> HIDE DEF q, r
<1>3. (2 * r < 10000 <=> r < 5000) /\ (2 * r = 10000 <=> r = 5000) BY <1>2
<1>4. Round2(x) = RoundOf(q, r) BY <1>1, <1>3 DEF RoundOf
<1>5. QED BY <1>4 DEF q, r

LEMMA RoundType == ASSUME NEW x \in Nat PROVE Round2(x) \in Nat BY OneType DEF Round2

\* What is cut from an even price and what is left of it are rounded to the whole price:
\* at a half both are next to the same even number, or neither is.
LEMMA RoundSplit ==
  ASSUME NEW price \in Nat, price % 2 = 0, NEW cut \in Nat, cut <= price * One
  PROVE  Round2(cut) + Round2(price * One - cut) = price
<1> DEFINE q == cut \div 10000
           r == cut % 10000
           left == price * 10000 - cut
<1>0. cut \in Int OBVIOUS
<1>1. q \in Int /\ r \in Int /\ 0 <= r /\ r < 10000 /\ cut = q * 10000 + r BY Parts
<1>2. Round2(cut) = RoundOf(q, r) BY <1>0, RoundParts
<1>3. left \in Int /\ price * One - cut = left BY OneType
<1> HIDE DEF q, r
<1>4. CASE r = 0
  <2>1. left = (price - q) * 10000 + 0 /\ price - q \in Int BY <1>1, <1>4
  <2> HIDE DEF left
  <2>2. left \div 10000 = price - q /\ left % 10000 = 0 BY <1>3, <2>1, Division
  <2>3. Round2(left) = RoundOf(price - q, 0) /\ Round2(cut) = RoundOf(q, 0)
    BY <1>2, <1>3, <1>4, <2>2, RoundParts
  <2>4. RoundOf(price - q, 0) = price - q /\ RoundOf(q, 0) = q BY <1>1 DEF RoundOf
  <2>5. QED BY <1>1, <1>3, <2>3, <2>4
<1>5. CASE r # 0
  <2> DEFINE p == price - q - 1
             s == 10000 - r
  <2>1. p \in Int /\ s \in Int /\ 0 <= s /\ s < 10000 /\ left = p * 10000 + s BY <1>1, <1>5
  <2>2. (p % 2 = 0 <=> q % 2 # 0) /\ p = price - q - 1 /\ s = 10000 - r BY <1>1
  <2> HIDE DEF left, p, s
  <2>3. left \div 10000 = p /\ left % 10000 = s BY <1>3, <2>1, Division
  <2>4. Round2(left) = RoundOf(p, s) BY <1>3, <2>3, RoundParts
  <2>5. RoundOf(q, r) + RoundOf(p, s) = price BY <1>1, <2>1, <2>2 DEF RoundOf
  <2>6. Round2(price * One - cut) = RoundOf(p, s) BY <1>3, <2>4
  <2>7. QED BY <1>2, <2>5, <2>6
<1>6. QED BY <1>4, <1>5

EvenPrices == \A p \in Prices : p % 2 = 0

\* Bills, which add up where prices are even
Bills ==
  {i \in [price: Nat, discount: Nat, subtotal: Nat, tax: Nat, total: Nat] :
     /\ EvenPrices => i.discount + i.subtotal = i.price
     /\ i.subtotal + i.tax = i.total}

LEMMA DiscountWithinPrice ==
  ASSUME CouponsAssumption, NEW price \in Nat, NEW terms \in Terms \cup {<<>>}
  PROVE  ApplyDiscount(price, terms) \in Nat /\ ApplyDiscount(price, terms) <= price * One
<1>1. price * One \in Nat BY OneType
<1>2. ASSUME NEW d \in Int
      PROVE  ClampDiscount(d, price * One) \in Nat /\ ClampDiscount(d, price * One) <= price * One
  BY <1>1 DEF ClampDiscount
<1>3. CASE terms = <<>> BY <1>1, <1>3 DEF ApplyDiscount
<1>4. CASE terms # <<>>
  <2>1. terms \in {"percentage", "flat"} \X Int BY <1>4 DEF CouponsAssumption
  <2>2. terms[2] \in Int BY <2>1
  <2>3. price * terms[2] \in Int /\ terms[2] * 100 \in Int BY <2>2
  <2>4. QED BY <1>2, <1>4, <2>3 DEF ApplyDiscount
<1>5. QED BY <1>3, <1>4

LEMMA InvoiceIsBill ==
  ASSUME CouponsAssumption, NEW price \in Nat, EvenPrices => price % 2 = 0,
         NEW terms \in Terms \cup {<<>>}, NEW rate \in Nat
  PROVE  Invoice(price, terms, rate) \in Bills
<1> DEFINE cut == ApplyDiscount(price, terms)
           subtotal == Round2(price * One - cut)
           due == Round2(subtotal * rate)
<1>1. cut \in Nat /\ cut <= price * One BY DiscountWithinPrice
<1>2. Round2(cut) \in Nat BY <1>1, RoundType
<1>3. price * One - cut \in Nat BY <1>1, OneType
<1>4. subtotal \in Nat /\ (EvenPrices => Round2(cut) + subtotal = price)
  BY <1>1, <1>3, RoundType, RoundSplit
<1>5. Invoice(price, terms, rate) =
        [price |-> price, discount |-> Round2(cut), subtotal |-> subtotal, tax |-> due,
         total |-> subtotal + due]
  BY DEF Invoice
<1> HIDE DEF subtotal
<1>6. subtotal * rate \in Nat BY <1>4
<1>7. due \in Nat BY <1>6, RoundType
<1> HIDE DEF cut, due
<1>8. QED BY <1>2, <1>4, <1>5, <1>7 DEF Bills
-----------------------------------------------------------------------------
(* Coupons: the uses                                                           *)

Sale == [pc: {"idle", "discount", "tax", "update", "commit", "pay"}, code: BOOLEAN,
         price: Prices \cup {0}, terms: Terms \cup {<<>>}, invoice: {<<>>} \cup Bills, value: Nat]

\* A checkout about to commit with the coupon is alone with its row, and has written the
\* next value.
SaleInv ==
  /\ CouponTypeOK /\ sale \in [Buyers -> Sale]
  /\ \A b \in Buyers : sale[b].pc = "commit" /\ sale[b].code => sale[b].value = coupon.used + 1
  /\ \A b, o \in Buyers :
       sale[b].pc = "commit" /\ sale[b].code /\ sale[o].pc = "commit" /\ sale[o].code => b = o
  /\ CouponUsesCounted

LEMMA NoSaleType ==
  ASSUME CouponsAssumption
  PROVE  /\ NoSale \in Sale /\ NoSale.pc = "idle" /\ ~NoSale.code
         /\ \A pc \in {"discount", "tax"}, price \in Prices :
              LET k == [NoSale EXCEPT !.pc = pc, !.price = price]
                  c == [NoSale EXCEPT !.pc = pc, !.code = TRUE, !.price = price]
              IN k \in Sale /\ k.pc = pc /\ ~k.code /\ c \in Sale /\ c.pc = pc /\ c.code
BY DEF NoSale, Sale

LEMMA InitSaleInv == CouponInit => SaleInv
<1> SUFFICES ASSUME CouponInit PROVE SaleInv
  OBVIOUS
<1>1. CouponsAssumption BY CouponsAssumption
<1>2. sale \in [Buyers -> Sale] /\ \A b \in Buyers : sale[b] = NoSale
  BY <1>1, NoSaleType DEF CouponInit
<1>3. /\ coupon \in [active: BOOLEAN, max: Caps, used: Nat, from: 0..SellTime, until: 0..SellTime]
      /\ coupon.used = 0
  BY DEF CouponInit
<1>4. discount \in [terms: Terms, active: BOOLEAN] /\ tax \in [rate: Rates, active: BOOLEAN]
  BY DEF CouponInit
<1>5. sold = 0 /\ edits = 0 /\ checkouts = 0 /\ today = 0 BY DEF CouponInit
<1>6. CouponTypeOK BY <1>2, <1>3, <1>4, <1>5 DEF CouponTypeOK, Sale
<1>7. QED BY <1>2, <1>3, <1>5, <1>6, <1>1, NoSaleType DEF SaleInv, CouponUsesCounted

\* A checkout moves on without a look at the coupon's row, or before the lock on it.
LEMMA QuietSale ==
  ASSUME SaleInv, NEW b \in Buyers, NEW k \in Sale, sale' = [sale EXCEPT ![b] = k],
         UNCHANGED <<coupon, discount, tax, sold, edits, today>>, checkouts' \in Nat,
         k.pc = "commit" /\ k.code =>
           /\ k.value = coupon.used + 1
           /\ \A o \in Buyers : sale[o].pc = "commit" => ~sale[o].code
  PROVE  SaleInv'
<1>1. /\ sale' \in [Buyers -> Sale] /\ sale'[b] = k
      /\ \A o \in Buyers \ {b} : sale'[o] = sale[o]
  BY DEF SaleInv
<1>2. CouponTypeOK'
  <2>1. \A o \in Buyers : sale'[o] \in Sale BY <1>1
  <2>2. QED BY <2>1 DEF SaleInv, CouponTypeOK, Sale
<1>3. QED BY <1>1, <1>2 DEF SaleInv, CouponUsesCounted

\* Steps of admins and of time, which find no checkout at the coupon's row where they
\* change it
LEMMA BesideSale ==
  ASSUME SaleInv, UNCHANGED <<sale, sold, checkouts>>,
         coupon' \in [active: BOOLEAN, max: Caps, used: Nat, from: 0..SellTime, until: 0..SellTime],
         coupon'.used = coupon.used,
         discount' \in [terms: Terms, active: BOOLEAN], tax' \in [rate: Rates, active: BOOLEAN],
         edits' \in Nat, today' \in Nat
  PROVE  SaleInv'
BY DEF SaleInv, CouponTypeOK, CouponUsesCounted

LEMMA StepSaleInv == SaleInv /\ [CouponNext]_sellVars => SaleInv'
<1> SUFFICES ASSUME SaleInv, [CouponNext]_sellVars PROVE SaleInv'
  OBVIOUS
<1>0. /\ CouponsAssumption /\ CouponTypeOK /\ checkouts \in Nat /\ checkouts + 1 \in Nat
      /\ \A b \in Buyers : sale[b] \in Sale
  BY CouponsAssumption DEF SaleInv, CouponTypeOK
<1>1. ASSUME NEW b \in Buyers, NEW price \in Prices, ValidateCoupon(b, price) PROVE SaleInv'
  <2> DEFINE k == [NoSale EXCEPT !.pc = "discount", !.code = TRUE, !.price = price]
  <2>1. k \in Sale /\ k.pc = "discount" BY <1>0, NoSaleType
  <2>2. /\ sale' = [sale EXCEPT ![b] = k] /\ checkouts' = checkouts + 1
        /\ UNCHANGED <<coupon, discount, tax, sold, edits, today>>
    BY <1>1 DEF ValidateCoupon, Begins, Moves
  <2> HIDE DEF k
  <2>3. QED BY <1>0, <2>1, <2>2, QuietSale
<1>2. ASSUME NEW b \in Buyers, NEW price \in Prices, StartCheckout(b, price) PROVE SaleInv'
  <2>0. PICK pc \in {"discount", "tax"} : Begins(b, [NoSale EXCEPT !.pc = pc, !.price = price])
    BY <1>2 DEF StartCheckout
  <2> DEFINE k == [NoSale EXCEPT !.pc = pc, !.price = price]
  <2>1. k \in Sale /\ k.pc = pc BY <1>0, NoSaleType
  <2>2. /\ sale' = [sale EXCEPT ![b] = k] /\ checkouts' = checkouts + 1
        /\ UNCHANGED <<coupon, discount, tax, sold, edits, today>>
    BY <2>0 DEF Begins, Moves
  <2> HIDE DEF k
  <2>3. QED BY <1>0, <2>1, <2>2, QuietSale
<1>3. ASSUME NEW b \in Buyers, FetchDiscount(b) PROVE SaleInv'
  <2> DEFINE k == [sale[b] EXCEPT !.pc = "tax", !.terms = discount.terms]
  <2>0. discount.terms \in Terms BY <1>0 DEF CouponTypeOK
  <2>1. k \in Sale /\ k.pc = "tax" BY <1>0, <2>0 DEF Sale
  <2>2. /\ sale' = [sale EXCEPT ![b] = k] /\ checkouts' = checkouts
        /\ UNCHANGED <<coupon, discount, tax, sold, edits, today>>
    BY <1>3 DEF FetchDiscount, Moves
  <2> HIDE DEF k
  <2>3. QED BY <1>0, <2>1, <2>2, QuietSale
<1>4. ASSUME NEW b \in Buyers, ComputeInvoice(b) PROVE SaleInv'
  <2>0. PICK rate \in {0} \cup (IF tax.active THEN {tax.rate} ELSE {}) :
          Moves(b, [sale[b] EXCEPT !.pc = "update", !.terms = <<>>, !.price = 0,
                                   !.invoice = Invoice(sale[b].price, sale[b].terms, rate)])
    BY <1>4 DEF ComputeInvoice
  <2> DEFINE i == Invoice(sale[b].price, sale[b].terms, rate)
             k == [sale[b] EXCEPT !.pc = "update", !.terms = <<>>, !.price = 0, !.invoice = i]
  <2>1. rate \in Nat BY <1>0 DEF CouponTypeOK, CouponsAssumption
  <2>2. /\ sale[b].price \in Nat /\ (EvenPrices => sale[b].price % 2 = 0)
        /\ sale[b].terms \in Terms \cup {<<>>}
    BY <1>0 DEF Sale, CouponsAssumption, EvenPrices
  <2>3. i \in Bills BY <1>0, <2>1, <2>2, InvoiceIsBill
  <2>4. /\ sale' = [sale EXCEPT ![b] = k] /\ checkouts' = checkouts
        /\ UNCHANGED <<coupon, discount, tax, sold, edits, today>>
    BY <1>4, <2>0 DEF ComputeInvoice, Moves
  <2> HIDE DEF i
  <2>5. k \in Sale /\ k.pc = "update" BY <1>0, <2>3 DEF Sale
  <2> HIDE DEF k
  <2>6. QED BY <1>0, <2>4, <2>5, QuietSale
<1>5. ASSUME NEW b \in Buyers, UseCoupon(b) PROVE SaleInv'
  <2> DEFINE v == IF sale[b].code THEN coupon.used + 1 ELSE 0
             k == [sale[b] EXCEPT !.pc = "commit", !.value = v]
  <2>1. v \in Nat /\ (sale[b].code => v = coupon.used + 1) BY <1>0 DEF CouponTypeOK
  <2>2. /\ sale' = [sale EXCEPT ![b] = k] /\ checkouts' = checkouts
        /\ UNCHANGED <<coupon, discount, tax, sold, edits, today>>
        /\ sale[b].code => \A o \in Buyers : sale[o].pc = "commit" => ~sale[o].code
    BY <1>5 DEF UseCoupon, Moves
  <2> HIDE DEF v
  <2>3. k \in Sale /\ k.value = v /\ k.code = sale[b].code BY <1>0, <2>1 DEF Sale
  <2> HIDE DEF k
  <2>4. QED BY <1>0, <2>1, <2>2, <2>3, QuietSale
<1>6. ASSUME NEW b \in Buyers, CreateTransaction(b) \/ CheckoutFails(b) PROVE SaleInv'
  <2>1. /\ sale' = [sale EXCEPT ![b] = NoSale] /\ checkouts' = checkouts
        /\ UNCHANGED <<coupon, discount, tax, sold, edits, today>>
    BY <1>6 DEF CreateTransaction, CheckoutFails, Moves
  <2>2. QED BY <1>0, <2>1, NoSaleType, QuietSale
<1>7. ASSUME NEW b \in Buyers, CommitCheckout(b) PROVE SaleInv'
  <2> DEFINE k == [sale[b] EXCEPT !.pc = "pay"]
  <2>1. k \in Sale /\ k.pc = "pay" /\ k.code = sale[b].code BY <1>0 DEF Sale
  <2>2. /\ sale' = [sale EXCEPT ![b] = k] /\ checkouts' = checkouts /\ sale[b].pc = "commit"
        /\ UNCHANGED <<discount, tax, edits, today>>
    BY <1>7 DEF CommitCheckout, Moves
  <2> HIDE DEF k
  <2>3. CASE ~sale[b].code
    <3>1. UNCHANGED <<coupon, sold>> BY <1>7, <2>3 DEF CommitCheckout
    <3>2. QED BY <1>0, <2>1, <2>2, <3>1, QuietSale
  <2>4. CASE sale[b].code
    <3>1. coupon' = [coupon EXCEPT !.used = sale[b].value] /\ sold' = sold + 1
      BY <1>7, <2>4 DEF CommitCheckout
    <3>2. sale[b].value = coupon.used + 1 /\ coupon.used = sold /\ coupon.used \in Nat
      BY <2>2, <2>4 DEF SaleInv, CouponUsesCounted, CouponTypeOK
    <3>3. coupon' \in [active: BOOLEAN, max: Caps, used: Nat, from: 0..SellTime, until: 0..SellTime]
          /\ coupon'.used = sold'
      BY <1>0, <3>1, <3>2 DEF CouponTypeOK
    <3>4. /\ sale' \in [Buyers -> Sale] /\ sale'[b] = k
          /\ \A o \in Buyers \ {b} : sale'[o] = sale[o]
      BY <2>1, <2>2 DEF SaleInv
    <3>5. \A o \in Buyers : sale'[o].pc = "commit" => ~sale'[o].code
      BY <2>1, <2>2, <2>4, <3>4 DEF SaleInv
    <3>6. CouponTypeOK'
      <4>1. \A o \in Buyers : sale'[o] \in Sale BY <3>4
      <4>2. sold' \in Nat /\ checkouts' \in Nat BY <1>0, <2>2, <3>1, <3>2
      <4>3. /\ discount' \in [terms: Terms, active: BOOLEAN] /\ tax' \in [rate: Rates, active: BOOLEAN]
            /\ edits' \in Nat /\ today' \in Nat
        BY <1>0, <2>2 DEF CouponTypeOK
      <4>4. \A o \in Buyers :
              /\ sale'[o].pc \in {"idle", "discount", "tax", "update", "commit", "pay"}
              /\ sale'[o].terms \in Terms \cup {<<>>} /\ sale'[o].price \in Prices \cup {0}
              /\ sale'[o].code \in BOOLEAN /\ sale'[o].value \in Nat
        BY <4>1 DEF Sale
      <4>5. QED BY <3>3, <4>2, <4>3, <4>4 DEF CouponTypeOK
    <3>7. QED BY <3>3, <3>4, <3>5, <3>6 DEF SaleInv, CouponUsesCounted
  <2>5. QED BY <2>3, <2>4
<1>8. ASSUME NEW a \in BOOLEAN, NEW m \in Caps, NEW until \in 0..SellTime, UpdateCoupon(a, m, until)
      PROVE  SaleInv'
  <2>1. coupon' = [coupon EXCEPT !.active = a, !.max = m, !.until = until]
    BY <1>8 DEF UpdateCoupon
  <2>2. /\ coupon' \in [active: BOOLEAN, max: Caps, used: Nat, from: 0..SellTime, until: 0..SellTime]
        /\ coupon'.used = coupon.used
    BY <1>0, <2>1 DEF CouponTypeOK
  <2>3. /\ UNCHANGED <<sale, sold, checkouts>> /\ edits' \in Nat /\ today' \in Nat
        /\ discount' \in [terms: Terms, active: BOOLEAN] /\ tax' \in [rate: Rates, active: BOOLEAN]
    BY <1>0, <1>8 DEF UpdateCoupon, CouponTypeOK
  <2>4. QED BY <2>2, <2>3, BesideSale
<1>9. ASSUME NEW a \in BOOLEAN, NEW d \in Terms, UpdateDiscount(d, a) PROVE SaleInv'
  BY <1>0, <1>9, BesideSale DEF UpdateDiscount, CouponTypeOK
<1>10. ASSUME NEW a \in BOOLEAN, NEW r \in Rates, UpdateTaxRate(r, a) PROVE SaleInv'
  BY <1>0, <1>10, BesideSale DEF UpdateTaxRate, CouponTypeOK
<1>11. CASE DayPasses BY <1>0, <1>11, BesideSale DEF DayPasses, CouponTypeOK
<1>12. CASE UNCHANGED sellVars BY <1>0, <1>12, BesideSale DEF sellVars, CouponTypeOK
<1>13. QED
  BY <1>1, <1>2, <1>3, <1>4, <1>5, <1>6, <1>7, <1>8, <1>9, <1>10, <1>11, <1>12 DEF CouponNext

\* With even prices, and the two that the code has are even, every invoice adds up and
\* no amount of it is negative, for any discount and any tax rate.
THEOREM SpecInvoiceAddsUp ==
  ASSUME EvenPrices
  PROVE  CouponSpec => []InvoiceAddsUp
<1>1. SaleInv => InvoiceAddsUp
  <2> SUFFICES ASSUME SaleInv, NEW b \in Buyers, sale[b].invoice # <<>>
               PROVE  LET i == sale[b].invoice
                      IN /\ i.discount + i.subtotal = i.price /\ i.subtotal + i.tax = i.total
                         /\ {i.discount, i.subtotal, i.tax, i.total} \subseteq Nat
    BY DEF InvoiceAddsUp
  <2>1. sale[b].invoice \in Bills BY DEF SaleInv, Sale
  <2>2. QED BY <2>1 DEF Bills
<1>2. QED BY <1>1, InitSaleInv, StepSaleInv, PTL DEF CouponSpec

\* Every committed use of a coupon is counted, for any number of checkouts at a time.
THEOREM SpecCouponUsesCounted == CouponSpec => []CouponUsesCounted
<1>1. SaleInv => CouponUsesCounted BY DEF SaleInv
<1>2. QED BY <1>1, InitSaleInv, StepSaleInv, PTL DEF CouponSpec

\* The highest value that max_uses takes
LEMMA CapMaxType == CapMax \in Caps /\ CapMax \in Nat /\ \A m \in Caps : m <= CapMax
<1>1. \E m \in Caps : \A n \in Caps : n <= m BY CouponsAssumption DEF CouponsAssumption
<1>2. CapMax \in Caps /\ \A m \in Caps : m <= CapMax BY <1>1 DEF CapMax
<1>3. QED BY <1>2, CouponsAssumption DEF CouponsAssumption

LEMMA CouponStep ==
  ASSUME SaleInv, SaleInv', [CouponNext]_sellVars
  PROVE  [Redemptions!Next]_(Redemptions!ctaVars)
<1>0. /\ CouponTypeOK /\ sale \in [Buyers -> Sale] /\ coupon.used \in Nat /\ coupon'.used \in Nat
      /\ Redeeming' \in SUBSET Buyers
  BY DEF SaleInv, CouponTypeOK, Redeeming
<1>1. ASSUME coupon'.used <= coupon.used, Redeeming' \subseteq Redeeming
      PROVE  [Redemptions!Next]_(Redemptions!ctaVars)
  <2>1. Redemptions!Release BY <1>0, <1>1 DEF Redemptions!Release
  <2>2. QED BY <2>1 DEF Redemptions!Next
<1>2. ASSUME NEW b \in Buyers, NEW price \in Prices, ValidateCoupon(b, price)
      PROVE  [Redemptions!Next]_(Redemptions!ctaVars)
  <2> DEFINE k == [NoSale EXCEPT !.pc = "discount", !.code = TRUE, !.price = price]
  <2>1. k.pc = "discount" /\ k.code BY CouponsAssumption, NoSaleType
  <2>2. sale' = [sale EXCEPT ![b] = k] BY <1>2 DEF ValidateCoupon, Begins, Moves
  <2> HIDE DEF k
  <2>3. Redeeming' = Redeeming \cup {b} BY <1>0, <2>1, <2>2 DEF Redeeming
  <2>4. coupon' = coupon /\ coupon.used < CapMax
    BY <1>0, <1>2, CapMaxType, CouponsAssumption
    DEF ValidateCoupon, Begins, CouponTypeOK, CouponsAssumption
  <2>5. Redemptions!Check(b, Coupon) BY <2>3, <2>4 DEF Redemptions!Check
  <2>6. QED BY <2>5 DEF Redemptions!Next
<1>3. ASSUME NEW b \in Buyers, NEW k, sale' = [sale EXCEPT ![b] = k],
             k.code => sale[b].code /\ k.pc # "pay" /\ sale[b].pc # "pay", coupon' = coupon
      PROVE  [Redemptions!Next]_(Redemptions!ctaVars)
  <2>1. Redeeming' \subseteq Redeeming BY <1>0, <1>3 DEF Redeeming
  <2>2. QED BY <1>0, <1>1, <1>3, <2>1
<1>4. ASSUME NEW b \in Buyers, NEW price \in Prices, StartCheckout(b, price)
      PROVE  [Redemptions!Next]_(Redemptions!ctaVars)
  <2>0. PICK pc \in {"discount", "tax"} : Begins(b, [NoSale EXCEPT !.pc = pc, !.price = price])
    BY <1>4 DEF StartCheckout
  <2>1. ~[NoSale EXCEPT !.pc = pc, !.price = price].code BY CouponsAssumption, NoSaleType
  <2>2. QED BY <1>3, <2>0, <2>1 DEF Begins, Moves
<1>5. ASSUME NEW b \in Buyers, FetchDiscount(b) \/ ComputeInvoice(b) \/ UseCoupon(b)
      PROVE  [Redemptions!Next]_(Redemptions!ctaVars)
  <2>1. /\ coupon' = coupon /\ sale[b].pc \in {"discount", "tax", "update"}
        /\ \E k : /\ sale' = [sale EXCEPT ![b] = k] /\ k.pc \in {"tax", "update", "commit"}
                 /\ k.code = sale[b].code
    <3>1. CASE FetchDiscount(b)
      <4> DEFINE k == [sale[b] EXCEPT !.pc = "tax", !.terms = discount.terms]
      <4>1. k.pc = "tax" /\ k.code = sale[b].code BY <1>0 DEF Sale
      <4>2. QED BY <3>1, <4>1 DEF FetchDiscount, Moves
    <3>2. CASE ComputeInvoice(b)
      <4>1. PICK i : Moves(b, [sale[b] EXCEPT !.pc = "update", !.terms = <<>>, !.price = 0, !.invoice = i])
        BY <3>2 DEF ComputeInvoice
      <4> DEFINE k == [sale[b] EXCEPT !.pc = "update", !.terms = <<>>, !.price = 0, !.invoice = i]
      <4>2. k.pc = "update" /\ k.code = sale[b].code BY <1>0 DEF Sale
      <4>3. QED BY <3>2, <4>1, <4>2 DEF ComputeInvoice, Moves
    <3>3. CASE UseCoupon(b)
      <4> DEFINE v == IF sale[b].code THEN coupon.used + 1 ELSE 0
                 k == [sale[b] EXCEPT !.pc = "commit", !.value = v]
      <4>1. k.pc = "commit" /\ k.code = sale[b].code BY <1>0 DEF Sale
      <4>2. QED BY <3>3, <4>1 DEF UseCoupon, Moves
    <3>4. QED BY <1>5, <3>1, <3>2, <3>3
  <2>2. PICK k : /\ sale' = [sale EXCEPT ![b] = k] /\ k.pc \in {"tax", "update", "commit"}
                 /\ k.code = sale[b].code
    BY <2>1
  <2>3. QED BY <1>3, <2>1, <2>2
<1>6. ASSUME NEW b \in Buyers, CreateTransaction(b) \/ CheckoutFails(b)
      PROVE  [Redemptions!Next]_(Redemptions!ctaVars)
  <2>1. sale' = [sale EXCEPT ![b] = NoSale] /\ coupon' = coupon
    BY <1>6 DEF CreateTransaction, CheckoutFails, Moves
  <2>2. QED BY <1>3, <2>1, CouponsAssumption, NoSaleType
<1>7. ASSUME NEW b \in Buyers, CommitCheckout(b) PROVE [Redemptions!Next]_(Redemptions!ctaVars)
  <2> DEFINE k == [sale[b] EXCEPT !.pc = "pay"]
  <2>1. k.pc = "pay" /\ k.code = sale[b].code BY <1>0 DEF Sale
  <2>2. sale' = [sale EXCEPT ![b] = k] /\ sale[b].pc = "commit" BY <1>7 DEF CommitCheckout, Moves
  <2> HIDE DEF k
  <2>3. Redeeming' = Redeeming \ {b} BY <1>0, <2>1, <2>2 DEF Redeeming
  <2>4. CASE ~sale[b].code
    <3>1. coupon' = coupon BY <1>7, <2>4 DEF CommitCheckout
    <3>2. QED BY <1>0, <1>1, <2>3, <3>1
  <2>5. CASE sale[b].code
    <3>1. coupon' = [coupon EXCEPT !.used = sale[b].value] BY <1>7, <2>5 DEF CommitCheckout
    <3>2. sale[b].value = coupon.used + 1 BY <2>2, <2>5 DEF SaleInv
    <3>3. coupon'.used = coupon.used + 1 BY <1>0, <3>1, <3>2 DEF CouponTypeOK
    <3>4. b \in Redeeming BY <2>2, <2>5 DEF Redeeming
    <3>5. Redemptions!Act(b, Coupon) BY <2>3, <3>3, <3>4 DEF Redemptions!Act
    <3>6. QED BY <3>5 DEF Redemptions!Next
  <2>6. QED BY <2>4, <2>5
<1>8. ASSUME NEW a \in BOOLEAN, NEW m \in Caps, NEW until \in 0..SellTime, UpdateCoupon(a, m, until)
      PROVE  [Redemptions!Next]_(Redemptions!ctaVars)
  <2>1. coupon'.used = coupon.used BY <1>0, <1>8 DEF UpdateCoupon, CouponTypeOK
  <2>2. Redeeming' = Redeeming BY <1>8 DEF UpdateCoupon, Redeeming
  <2>3. QED BY <1>0, <1>1, <2>1, <2>2
<1>9. ASSUME sale' = sale, coupon' = coupon PROVE [Redemptions!Next]_(Redemptions!ctaVars)
  <2>1. Redeeming' = Redeeming BY <1>9 DEF Redeeming
  <2>2. QED BY <1>0, <1>1, <1>9, <2>1
<1>10. ASSUME NEW a \in BOOLEAN, NEW d \in Terms, UpdateDiscount(d, a)
       PROVE  [Redemptions!Next]_(Redemptions!ctaVars)
  BY <1>9, <1>10 DEF UpdateDiscount
<1>11. ASSUME NEW a \in BOOLEAN, NEW r \in Rates, UpdateTaxRate(r, a)
       PROVE  [Redemptions!Next]_(Redemptions!ctaVars)
  BY <1>9, <1>11 DEF UpdateTaxRate
<1>12. CASE DayPasses BY <1>9, <1>12 DEF DayPasses
<1>13. CASE UNCHANGED sellVars BY <1>9, <1>13 DEF sellVars
<1>14. QED
  BY <1>2, <1>4, <1>5, <1>6, <1>7, <1>8, <1>10, <1>11, <1>12, <1>13 DEF CouponNext

\* The uses of a coupon are a limit that is checked first and used up later, for any
\* number of checkouts at a time, also while admins change the limit.
THEOREM SpecCouponImplements == CouponSpec => CouponImplements
<1>1. CouponInit => Redemptions!Init
  <2> SUFFICES ASSUME CouponInit PROVE Redemptions!Init
    OBVIOUS
  <2>1. coupon.used = 0 BY DEF CouponInit
  <2>2. Redeeming = {} BY CouponsAssumption, NoSaleType DEF CouponInit, Redeeming
  <2>3. QED BY <2>1, <2>2, CapMaxType DEF Redemptions!Init
<1>2. QED
  BY <1>1, InitSaleInv, StepSaleInv, CouponStep, PTL
  DEF CouponSpec, CouponImplements, Redemptions!Spec
-----------------------------------------------------------------------------
(* TeamSeats                                                                   *)

\* A request under way is about a person and an invite; one about to commit is alone with
\* the row of its invite and has written the next value.
JoinInv ==
  /\ \A j \in Joiners : join[j].pc # "idle" => join[j].person \in Persons /\ join[j].on \in TeamInvites
  /\ \A j \in Joiners : join[j].pc = "commit" => join[j].value = invite[join[j].on].used + 1
  /\ \A j, k \in Joiners :
       join[j].pc = "commit" /\ join[k].pc = "commit" /\ join[j].on = join[k].on => j = k

SeatInv == SeatTypeOK /\ JoinInv /\ UsesCounted
-----------------------------------------------------------------------------
LEMMA InitSeatInv == SeatInit => SeatInv
BY TeamSeatsAssumption
   DEF SeatInit, SeatInv, SeatTypeOK, JoinInv, UsesCounted, NoJoin, InviteRow, Join

\* Every step keeps the strengthened invariant, one action at a time.
LEMMA StepSeatInv == SeatInv /\ [SeatNext]_seatVars => SeatInv'
<1> SUFFICES ASSUME SeatInv, [SeatNext]_seatVars PROVE SeatInv'
  OBVIOUS
<1> USE TeamSeatsAssumption
    DEF SeatInv, SeatTypeOK, JoinInv, UsesCounted, InviteRow, Join, NoJoin, Goes, Beside
<1>1. ASSUME NEW i \in TeamInvites, CreateInvite(i) PROVE SeatInv'
  BY <1>1 DEF CreateInvite
<1>2. ASSUME NEW i \in TeamInvites, InviteExpires(i) PROVE SeatInv'
  BY <1>2 DEF InviteExpires
<1>3. ASSUME NEW p \in Persons, RemoveMember(p) PROVE SeatInv'
  BY <1>3 DEF RemoveMember
<1>4. ASSUME NEW j \in Joiners, NEW p \in Persons, NEW i \in TeamInvites, FetchInvite(j, p, i)
      PROVE SeatInv'
  BY <1>4 DEF FetchInvite
<1>5. ASSUME NEW j \in Joiners, CountSeats(j) PROVE SeatInv'
  BY <1>5 DEF CountSeats
<1>6. ASSUME NEW j \in Joiners, CheckMember(j) PROVE SeatInv'
  BY <1>6 DEF CheckMember
<1>7. ASSUME NEW j \in Joiners, InsertMember(j) PROVE SeatInv'
  BY <1>7 DEF InsertMember
<1>8. ASSUME NEW j \in Joiners, IncrementUses(j) PROVE SeatInv'
  <2> USE <1>8 DEF IncrementUses
  <2>1. join[j].on \in TeamInvites /\ invite[join[j].on].used + 1 \in Nat OBVIOUS
  <2>2. SeatTypeOK' BY <2>1
  <2>3. \A k \in Joiners \ {j} : join'[k] = join[k] OBVIOUS
  <2>4. join'[j].pc = "commit" /\ join'[j].on = join[j].on /\ join'[j].person = join[j].person
        /\ join'[j].value = invite[join[j].on].used + 1
    OBVIOUS
  <2>5. JoinInv' BY <2>3, <2>4
  <2>6. QED BY <2>2, <2>5
<1>9. ASSUME NEW j \in Joiners, CommitJoin(j) PROVE SeatInv'
  <2> USE <1>9 DEF CommitJoin
  <2>0. join[j].on \in TeamInvites /\ join[j].person \in Persons /\ join[j].value \in Nat
        /\ join[j].value = invite[join[j].on].used + 1
    OBVIOUS
  <2>1. SeatTypeOK'
    <3>1. members' \in SUBSET Persons BY <2>0
    <3>2. join' \in [Joiners -> Join] OBVIOUS
    <3>3. invite' \in [TeamInvites -> InviteRow] BY <2>0
    <3>4. joined' \in [TeamInvites -> Nat] OBVIOUS
    <3>5. QED BY <3>1, <3>2, <3>3, <3>4
  <2>2. \A k \in Joiners : join'[k].pc = "commit" => k # j /\ join'[k] = join[k] /\ join[k].on # join[j].on
    OBVIOUS
  <2>3. JoinInv' BY <2>2
  <2>4. UsesCounted' OBVIOUS
  <2>5. QED BY <2>1, <2>3, <2>4
<1>10. ASSUME NEW j \in Joiners, JoinFails(j) PROVE SeatInv'
  BY <1>10 DEF JoinFails
<1>11. CASE UNCHANGED seatVars BY <1>11 DEF seatVars
<1>12. QED
  BY <1>1, <1>2, <1>3, <1>4, <1>5, <1>6, <1>7, <1>8, <1>9, <1>10, <1>11 DEF SeatNext

\* Type correctness of the team, its invites and the requests.
THEOREM SpecSeatTypeOK == SeatSpec => []SeatTypeOK
<1>1. SeatInv => SeatTypeOK BY DEF SeatInv
<1>2. QED BY <1>1, InitSeatInv, StepSeatInv, PTL DEF SeatSpec

\* The counter of an invite is the number of joins it was used for, for any number of
\* requests at a time.
THEOREM SpecUsesCounted == SeatSpec => []UsesCounted
<1>1. SeatInv => UsesCounted BY DEF SeatInv
<1>2. QED BY <1>1, InitSeatInv, StepSeatInv, PTL DEF SeatSpec
-----------------------------------------------------------------------------
(* The refinement: a seat, and a use of an invite, are limits that are checked  *)
(* first and used up later.                                                     *)

\* A team and the holders of seats and uses are what the abstract state expects.
LEMMA SeatCounts ==
  ASSUME SeatTypeOK
  PROVE  /\ IsFiniteSet(members) /\ Cardinality(members) \in Nat
         /\ SeatHolders \in SUBSET Joiners
         /\ \A i \in TeamInvites : InviteHolders(i) \in SUBSET Joiners /\ invite[i].used \in Nat
BY FS_Subset, FS_CardinalityType, TeamSeatsAssumption
   DEF SeatTypeOK, SeatHolders, InviteHolders, InviteRow

LEMMA InitImplements == SeatInit => Seats!Init /\ Uses!Init
<1> SUFFICES ASSUME SeatInit PROVE Seats!Init /\ Uses!Init
  OBVIOUS
<1>1. Cardinality(members) = 1 BY FS_Singleton DEF SeatInit
<1>2. SeatHolders = {} /\ \A i \in TeamInvites : InviteHolders(i) = {}
  BY DEF SeatInit, NoJoin, SeatHolders, InviteHolders
<1>3. Seats!Init BY <1>1, <1>2, TeamSeatsAssumption DEF Seats!Init
<1>4. \A i \in TeamInvites : invite[i].used = 0 BY DEF SeatInit
<1>5. Uses!Init BY <1>2, <1>4, TeamSeatsAssumption DEF Uses!Init
<1>6. QED BY <1>3, <1>5

\* What a step does to a limit, in terms of the two abstract variables: nothing, or
\* less use and fewer claims.
LEMMA SeatsSame ==
  ASSUME Cardinality(members)' = Cardinality(members), SeatHolders' = SeatHolders
  PROVE  [Seats!Next]_(Seats!ctaVars)
BY DEF Seats!ctaVars

LEMMA SeatsRelease ==
  ASSUME SeatTypeOK, SeatTypeOK', Cardinality(members') <= Cardinality(members),
         SeatHolders' \subseteq SeatHolders
  PROVE  [Seats!Next]_(Seats!ctaVars)
<1>1. Cardinality(members') \in Nat /\ SeatHolders' \in SUBSET Joiners
  BY FS_Subset, FS_CardinalityType, TeamSeatsAssumption DEF SeatTypeOK, SeatHolders
<1>2. Seats!Release BY <1>1 DEF Seats!Release
<1>3. QED BY <1>2 DEF Seats!Next

LEMMA UsesSame ==
  ASSUME \A i \in TeamInvites : invite'[i].used = invite[i].used /\ InviteHolders(i)' = InviteHolders(i)
  PROVE  [Uses!Next]_(Uses!ctaVars)
BY DEF Uses!ctaVars

LEMMA UsesRelease ==
  ASSUME SeatTypeOK, SeatTypeOK',
         \A i \in TeamInvites : /\ invite'[i].used = invite[i].used
                                /\ InviteHolders(i)' \subseteq InviteHolders(i)
  PROVE  [Uses!Next]_(Uses!ctaVars)
<1>1. \A i \in TeamInvites : invite[i].used \in Nat /\ InviteHolders(i)' \in SUBSET Joiners
  BY DEF SeatTypeOK, InviteRow, InviteHolders
<1>2. Uses!Release BY <1>1 DEF Uses!Release
<1>3. QED BY <1>2 DEF Uses!Next

\* Requests that only go on: who holds a seat and who holds a use stays the same.
LEMMA QuietStep ==
  ASSUME SeatInv, NEW j \in Joiners,
         CheckMember(j) \/ InsertMember(j) \/ IncrementUses(j)
  PROVE  [Seats!Next]_(Seats!ctaVars) /\ [Uses!Next]_(Uses!ctaVars)
<1> USE DEF SeatInv, SeatTypeOK, Join
<1>1. members' = members /\ invite' = invite
  BY DEF CheckMember, InsertMember, IncrementUses, Beside
<1>2. \A k \in Joiners \ {j} : join'[k] = join[k]
  BY DEF CheckMember, InsertMember, IncrementUses, Goes
<1>3. join'[j].on = join[j].on /\ join[j].pc \in {"member", "insert", "increment"}
      /\ join'[j].pc \in {"insert", "increment", "commit"}
  BY DEF CheckMember, InsertMember, IncrementUses, Goes
<1>4. SeatHolders' = SeatHolders BY <1>2, <1>3 DEF SeatHolders
<1>5. \A i \in TeamInvites : InviteHolders(i)' = InviteHolders(i) BY <1>2, <1>3 DEF InviteHolders
<1>6. [Seats!Next]_(Seats!ctaVars) BY <1>1, <1>4, SeatsSame
<1>7. [Uses!Next]_(Uses!ctaVars) BY <1>1, <1>5, UsesSame
<1>8. QED BY <1>6, <1>7

\* Counting the seats is the check of the seats; the use stays claimed.
LEMMA CountStep ==
  ASSUME SeatInv, NEW j \in Joiners, CountSeats(j)
  PROVE  [Seats!Next]_(Seats!ctaVars) /\ [Uses!Next]_(Uses!ctaVars)
<1> USE DEF SeatInv, SeatTypeOK, Join
<1>1. members' = members /\ invite' = invite /\ Cardinality(members) < MaxSeats
  BY DEF CountSeats, Beside
<1>2. \A k \in Joiners \ {j} : join'[k] = join[k] BY DEF CountSeats, Goes
<1>3. join'[j].on = join[j].on /\ join[j].pc = "seats" /\ join'[j].pc = "member"
  BY DEF CountSeats, Goes
<1>4. SeatHolders' = SeatHolders \cup {j} BY <1>2, <1>3 DEF SeatHolders
<1>5. \A i \in TeamInvites : InviteHolders(i)' = InviteHolders(i) BY <1>2, <1>3 DEF InviteHolders
<1>6. Seats!Check(j, Owner) BY <1>1, <1>4 DEF Seats!Check
<1>7. [Seats!Next]_(Seats!ctaVars) BY <1>6 DEF Seats!Next
<1>8. [Uses!Next]_(Uses!ctaVars) BY <1>1, <1>5, UsesSame
<1>9. QED BY <1>7, <1>8

\* Fetching the invite is the check of its uses.
LEMMA FetchStep ==
  ASSUME SeatInv, NEW j \in Joiners, NEW p \in Persons, NEW i \in TeamInvites, FetchInvite(j, p, i)
  PROVE  [Seats!Next]_(Seats!ctaVars) /\ [Uses!Next]_(Uses!ctaVars)
<1> USE DEF SeatInv, SeatTypeOK, Join
<1>1. members' = members /\ invite' = invite /\ invite[i].used < MaxUses[i] BY DEF FetchInvite
<1>2. \A k \in Joiners \ {j} : join'[k] = join[k] BY DEF FetchInvite
<1>3. join'[j].on = i /\ join[j].pc = "idle" /\ join'[j].pc = "seats" BY DEF FetchInvite
<1>4. SeatHolders' = SeatHolders BY <1>2, <1>3 DEF SeatHolders
<1>5. \A k \in TeamInvites :
        InviteHolders(k)' = IF k = i THEN InviteHolders(k) \cup {j} ELSE InviteHolders(k)
  BY <1>2, <1>3 DEF InviteHolders
<1>6. Uses!Check(j, i)
  <2>1. [k \in TeamInvites |-> InviteHolders(k)]'
          = [[k \in TeamInvites |-> InviteHolders(k)] EXCEPT ![i] = @ \cup {j}]
    BY <1>5
  <2>2. QED BY <1>1, <2>1 DEF Uses!Check
<1>7. [Uses!Next]_(Uses!ctaVars) BY <1>6 DEF Uses!Next
<1>8. [Seats!Next]_(Seats!ctaVars) BY <1>1, <1>4, SeatsSame
<1>9. QED BY <1>7, <1>8

\* A commit uses a claim up; one of a person who has become a member in between gives
\* the seat back.
LEMMA CommitStep ==
  ASSUME SeatInv, SeatInv', NEW j \in Joiners, CommitJoin(j)
  PROVE  [Seats!Next]_(Seats!ctaVars) /\ [Uses!Next]_(Uses!ctaVars)
<1> DEFINE p == join[j].person
           i == join[j].on
<1>1. join[j].pc = "commit" /\ p \in Persons /\ i \in TeamInvites /\ join[j].value = invite[i].used + 1
  BY DEF CommitJoin, SeatInv, JoinInv
<1> USE DEF SeatInv, SeatTypeOK, Join
<1>2. \A k \in Joiners \ {j} : join'[k] = join[k] BY DEF CommitJoin
<1>3. join'[j].pc = "idle" /\ join'[j] = NoJoin BY DEF CommitJoin, NoJoin
<1>4. SeatHolders' = SeatHolders \ {j} /\ j \in SeatHolders BY <1>1, <1>2, <1>3 DEF SeatHolders
<1>5. \A k \in TeamInvites :
        InviteHolders(k)' = IF k = i THEN InviteHolders(k) \ {j} ELSE InviteHolders(k)
  BY <1>1, <1>2, <1>3 DEF InviteHolders
<1>6. j \in InviteHolders(i) BY <1>1 DEF InviteHolders
<1>7. IsFiniteSet(members) BY SeatCounts
<1>8. Cardinality(members') = IF p \in members THEN Cardinality(members) ELSE Cardinality(members) + 1
  BY <1>7, FS_AddElement DEF CommitJoin
<1>9. [Seats!Next]_(Seats!ctaVars)
  <2>1. CASE p \in members
    <3>1. Cardinality(members') <= Cardinality(members) BY <1>8, <2>1, SeatCounts
    <3>2. QED BY <3>1, <1>4, SeatsRelease
  <2>2. CASE p \notin members
    <3>1. Seats!Act(j, Owner) BY <1>4, <1>8, <2>2 DEF Seats!Act
    <3>2. QED BY <3>1 DEF Seats!Next
  <2>3. QED BY <2>1, <2>2
<1>10. [Uses!Next]_(Uses!ctaVars)
  <2>1. \A k \in TeamInvites :
          invite'[k].used = IF k = i THEN invite[k].used + 1 ELSE invite[k].used
    BY <1>1 DEF CommitJoin, InviteRow
  <2>2. [k \in TeamInvites |-> invite[k].used]'
          = [[k \in TeamInvites |-> invite[k].used] EXCEPT ![i] = @ + 1]
    BY <2>1, <1>1
  <2>3. [k \in TeamInvites |-> InviteHolders(k)]'
          = [[k \in TeamInvites |-> InviteHolders(k)] EXCEPT ![i] = @ \ {j}]
    BY <1>5, <1>1
  <2>4. PICK r \in TeamInvites : r = i BY <1>1
  <2>5. Uses!Act(j, r) BY <1>6, <2>2, <2>3, <2>4 DEF Uses!Act
  <2>6. QED BY <2>5 DEF Uses!Next
<1>11. QED BY <1>9, <1>10

\* A request that fails gives back what it claimed.
LEMMA FailStep ==
  ASSUME SeatInv, SeatInv', NEW j \in Joiners, JoinFails(j)
  PROVE  [Seats!Next]_(Seats!ctaVars) /\ [Uses!Next]_(Uses!ctaVars)
<1> USE DEF SeatInv, SeatTypeOK, Join
<1>1. members' = members /\ invite' = invite BY DEF JoinFails, Beside
<1>2. \A k \in Joiners \ {j} : join'[k] = join[k] BY DEF JoinFails
<1>3. join'[j].pc = "idle" BY DEF JoinFails, NoJoin
<1>4. SeatHolders' \subseteq SeatHolders BY <1>2, <1>3 DEF SeatHolders
<1>5. \A i \in TeamInvites : InviteHolders(i)' \subseteq InviteHolders(i)
  BY <1>2, <1>3 DEF InviteHolders
<1>6. [Seats!Next]_(Seats!ctaVars) BY <1>1, <1>4, SeatCounts, SeatsRelease
<1>7. [Uses!Next]_(Uses!ctaVars) BY <1>1, <1>5, UsesRelease
<1>8. QED BY <1>6, <1>7

\* A member who leaves frees a seat and no use.
LEMMA RemoveStep ==
  ASSUME SeatInv, SeatInv', NEW p \in Persons, RemoveMember(p)
  PROVE  [Seats!Next]_(Seats!ctaVars) /\ [Uses!Next]_(Uses!ctaVars)
<1> USE DEF SeatInv, RemoveMember
<1>1. IsFiniteSet(members) BY SeatCounts
<1>2. Cardinality(members') <= Cardinality(members) BY <1>1, FS_Subset
<1>3. SeatHolders' = SeatHolders BY DEF SeatHolders
<1>4. \A i \in TeamInvites : InviteHolders(i)' = InviteHolders(i) BY DEF InviteHolders
<1>5. [Seats!Next]_(Seats!ctaVars) BY <1>2, <1>3, SeatsRelease
<1>6. [Uses!Next]_(Uses!ctaVars) BY <1>4, UsesSame
<1>7. QED BY <1>5, <1>6

\* A new or an expired invite keeps its uses.
LEMMA InviteStep ==
  ASSUME SeatInv, NEW i \in TeamInvites, CreateInvite(i) \/ InviteExpires(i)
  PROVE  [Seats!Next]_(Seats!ctaVars) /\ [Uses!Next]_(Uses!ctaVars)
<1>1. members' = members /\ join' = join BY DEF CreateInvite, InviteExpires
<1>2. \A k \in TeamInvites : invite'[k].used = invite[k].used
  BY DEF CreateInvite, InviteExpires, SeatInv, SeatTypeOK, InviteRow
<1>3. SeatHolders' = SeatHolders BY <1>1 DEF SeatHolders
<1>4. \A k \in TeamInvites : InviteHolders(k)' = InviteHolders(k) BY <1>1 DEF InviteHolders
<1>5. QED BY <1>1, <1>2, <1>3, <1>4, SeatsSame, UsesSame

\* Joining a team does to its seats and to the uses of its invites what CheckThenAct
\* does to a limit, for any number of requests at a time.
THEOREM SpecSeatsImplement == SeatSpec => SeatsImplement
<1>1. SeatInv /\ SeatInv' /\ [SeatNext]_seatVars
        => [Seats!Next]_(Seats!ctaVars) /\ [Uses!Next]_(Uses!ctaVars)
  <2> SUFFICES ASSUME SeatInv, SeatInv', [SeatNext]_seatVars
               PROVE  [Seats!Next]_(Seats!ctaVars) /\ [Uses!Next]_(Uses!ctaVars)
    OBVIOUS
  <2>1. CASE UNCHANGED seatVars
    <3>1. members' = members /\ invite' = invite /\ join' = join BY <2>1 DEF seatVars
    <3>2. SeatHolders' = SeatHolders BY <3>1 DEF SeatHolders
    <3>3. \A k \in TeamInvites : InviteHolders(k)' = InviteHolders(k) BY <3>1 DEF InviteHolders
    <3>4. QED BY <3>1, <3>2, <3>3, SeatsSame, UsesSame
  <2>2. CASE SeatNext
    BY <2>2, QuietStep, CountStep, FetchStep, CommitStep, FailStep, RemoveStep, InviteStep
    DEF SeatNext
  <2>3. QED BY <2>1, <2>2
<1>2. QED
  BY <1>1, InitImplements, InitSeatInv, StepSeatInv, PTL
  DEF SeatSpec, SeatsImplement, Seats!Spec, Uses!Spec

SeatLimit == INSTANCE CheckThenActProofs WITH
  Resources <- {Owner}, Actors <- Joiners, Capacity <- [o \in {Owner} |-> MaxSeats],
  used <- [o \in {Owner} |-> Cardinality(members)], checked <- [o \in {Owner} |-> SeatHolders]

\* However the joins overlap, a team has at most as many members above its seats as
\* requests ran beside the last one that counted.
THEOREM SpecSeatsBounded == SeatSpec => []SeatsBounded
<1>0. /\ SeatLimit!IsFiniteSet(Joiners) <=> IsFiniteSet(Joiners)
      /\ SeatLimit!Cardinality(Joiners) = Cardinality(Joiners)
  BY DEF SeatLimit!IsFiniteSet, IsFiniteSet, SeatLimit!Cardinality, Cardinality
<1>1. SeatLimit!CheckThenActAssumption BY <1>0, TeamSeatsAssumption DEF SeatLimit!CheckThenActAssumption
<1>2. SeatLimit!Spec => []SeatLimit!OverrunBounded BY <1>1, SeatLimit!SpecOverrunBounded
<1>3. SeatSpec => SeatLimit!Spec
  BY SpecSeatsImplement
  DEF SeatsImplement, Seats!Spec, SeatLimit!Spec, Seats!Init, SeatLimit!Init, Seats!Next, SeatLimit!Next,
      Seats!ctaVars, SeatLimit!ctaVars, Seats!Check, SeatLimit!Check, Seats!Act, SeatLimit!Act,
      Seats!Release, SeatLimit!Release
<1>4. SeatLimit!OverrunBounded => SeatsBounded BY <1>0 DEF SeatLimit!OverrunBounded, SeatsBounded
<1>5. QED BY <1>2, <1>3, <1>4, PTL
-----------------------------------------------------------------------------
(* All of them, as MCLimits puts them together                                  *)

\* The component that moves in a step leaves the others as they are, so that every
\* behaviour is one of each component.
LEMMA ComponentsRun ==
  LimitsSpec => SeatSpec /\ CouponSpec /\ AdminSpec /\ LockoutSpec /\ RateSpec
<1>1. LimitsInit => SeatInit /\ CouponInit /\ AdminInit /\ LockoutInit /\ RateInit
  BY DEF LimitsInit
<1>2. [LimitsNext]_LimitsVars
        => /\ [SeatNext]_seatVars /\ [CouponNext]_sellVars /\ [AdminNext]_adminVars
           /\ [LockoutNext]_lockVars /\ [RateNext]_rateVars
  BY Zenon DEF LimitsNext, LimitsVars, OfSeats, OfCoupons, OfAdmins, OfLockout, OfRate
<1>3. QED
  BY <1>1, <1>2, PTL DEF LimitsSpec, SeatSpec, CouponSpec, AdminSpec, LockoutSpec, RateSpec

\* The types of the five components' states, in every behaviour of any of them.
THEOREM LimitsTypes == LimitsSpec => []LimitsTypeOK
<1>1. LockoutSpec => []LockoutTypeOK
  <2>1. GuessInv => LockoutTypeOK BY DEF GuessInv
  <2>2. QED BY <2>1, InitGuessInv, StepGuessInv, PTL DEF LockoutSpec
<1>2. AdminSpec => []AdminTypeOK
  <2>1. AdminsInv => AdminTypeOK BY DEF AdminsInv
  <2>2. QED BY <2>1, InitAdminsInv, StepAdminsInv, PTL DEF AdminSpec
<1>3. CouponSpec => []CouponTypeOK
  <2>1. SaleInv => CouponTypeOK BY DEF SaleInv
  <2>2. QED BY <2>1, InitSaleInv, StepSaleInv, PTL DEF CouponSpec
<1>4. QED
  BY <1>1, <1>2, <1>3, ComponentsRun, SpecSeatTypeOK, SpecRateTypeOK, PTL DEF LimitsTypeOK

\* However joins and checkouts overlap, the counters of invites and coupons are the
\* numbers of uses that were committed.
THEOREM LimitsCountUses == LimitsSpec => []EveryUseCounted
BY ComponentsRun, SpecUsesCounted, SpecCouponUsesCounted, PTL DEF EveryUseCounted
=============================================================================
