------------------------------ MODULE AiExpansion ------------------------------
(***************************************************************************)
(* AiService::expand (src/src/ai/service.rs): the quota of a user, the     *)
(* semaphore in front of the provider and the record of the usage.  The    *)
(* requests are those of one user; the semaphore is tokio's, which serves  *)
(* waiters in order.                                                       *)
(***************************************************************************)
EXTENDS Naturals, Sequences, FiniteSets, SequencesExt, Window

CONSTANTS
  AiUser,      \* the user
  AiTasks,     \* requests in flight
  MaxConcurrent, \* ai_max_concurrent_requests
  FreeQuota,   \* FREE_TIER_QUOTA: 50
  PaidQuota,   \* PAID_TIER_QUOTA: 1000
  QuotaWindow, \* 24 hours
  AiTime,      \* bound of the clock
  AiBound      \* bound: requests

ASSUME AiAssumption ==
  /\ IsFiniteSet(AiTasks) /\ AiTasks # {} /\ MaxConcurrent \in Nat \ {0}
  /\ FreeQuota \in Nat /\ PaidQuota \in Nat /\ FreeQuota <= PaidQuota
  /\ QuotaWindow \in Nat /\ AiTime \in Nat /\ AiBound \in Nat

VARIABLES
  paid,     \* whether the subscription gives the quota of a paid tier
  usage,    \* quota_tracker: the timestamps of the user's requests
  permits,  \* permits of the semaphore that are free
  waiting,  \* the semaphore's queue
  ask,      \* where each request is
  asks, aiNow

aiVars == <<paid, usage, permits, waiting, ask, asks, aiNow>>

AiInit ==
  /\ paid \in BOOLEAN /\ usage = <<>> /\ permits = MaxConcurrent /\ waiting = <<>>
  /\ ask = [t \in AiTasks |-> "idle"] /\ asks = 0 /\ aiNow = 0

Limit == IF paid THEN PaidQuota ELSE FreeQuota
UsageInWindow == Cardinality(Fresh(usage, QuotaWindow, aiNow))

To(t, pc) == ask' = [ask EXCEPT ![t] = pc]

\* validate_inputs refuses before anything else; then the quota is looked at.
StartExpand(t) ==
  /\ ask[t] = "idle" /\ asks < AiBound /\ asks' = asks + 1 /\ To(t, "quota")
  /\ UNCHANGED <<paid, usage, permits, waiting, aiNow>>

\* Mutant: one request more than the limit
CheckQuota_OneMore(t) ==
  /\ ask[t] = "quota" /\ To(t, IF UsageInWindow <= PaidQuota THEN "permit" ELSE "idle")
  /\ UNCHANGED <<paid, usage, permits, waiting, asks, aiNow>>

CheckQuota(t) ==
  /\ ask[t] = "quota" /\ To(t, IF UsageInWindow < Limit THEN "permit" ELSE "idle")
  /\ UNCHANGED <<paid, usage, permits, waiting, asks, aiNow>>

\* available_permits(): only a request that sees none limits its wait.
LookForPermit(t) ==
  /\ ask[t] = "permit" /\ To(t, IF permits = 0 THEN "timed" ELSE "untimed")
  /\ UNCHANGED <<paid, usage, permits, waiting, asks, aiNow>>

\* Semaphore::acquire: a free permit, or a place at the end of the queue
Acquire(t) ==
  /\ ask[t] \in {"timed", "untimed"}
  /\ IF permits > 0 THEN permits' = permits - 1 /\ To(t, "call") /\ UNCHANGED waiting
     ELSE waiting' = Append(waiting, t) /\ UNCHANGED permits
          /\ To(t, IF ask[t] = "timed" THEN "queued" ELSE "patient")
  /\ UNCHANGED <<paid, usage, asks, aiNow>>

\* The future that waits is dropped, and its place in the queue with it.
LeavesQueue(t) == \E i \in DOMAIN waiting : waiting[i] = t /\ waiting' = RemoveAt(waiting, i)

\* SEMAPHORE_ACQUIRE_TIMEOUT has passed.
AcquireTimesOut(t) ==
  /\ ask[t] = "queued" /\ To(t, "idle") /\ LeavesQueue(t)
  /\ UNCHANGED <<paid, usage, permits, asks, aiNow>>

\* The provider answers with a text ...
ProviderAnswers(t) ==
  /\ ask[t] = "call" /\ To(t, "record")
  /\ UNCHANGED <<paid, usage, permits, waiting, asks, aiNow>>

\* ... expired timestamps go, and the request is one more.
RecordUsage(t) ==
  /\ ask[t] = "record" /\ To(t, "release") /\ usage' = Append(Prune(usage, QuotaWindow, aiNow), aiNow)
  /\ UNCHANGED <<paid, permits, waiting, asks, aiNow>>

\* Mutant: a returned permit does not wake who waits for it.
GiveBack_Forgets(t) ==
  permits' = permits + 1 /\ UNCHANGED waiting /\ To(t, "idle")

\* A permit goes to the first in the queue.
GiveBack(t) ==
  IF waiting = <<>> THEN permits' = permits + 1 /\ UNCHANGED waiting /\ To(t, "idle")
  ELSE /\ UNCHANGED permits /\ waiting' = Tail(waiting)
       /\ ask' = [ask EXCEPT ![t] = "idle", ![Head(waiting)] = "call"]

\* _permit is dropped: at the end, or when the provider fails or takes more than
\* AI_PROVIDER_TIMEOUT, or the client is gone.
DropPermit(t) ==
  ask[t] \in {"call", "release"} /\ GiveBack(t) /\ UNCHANGED <<paid, usage, asks, aiNow>>

\* Mutant: the place in the queue stays.
ClientGone_StaysQueued(t) ==
  /\ ask[t] \in {"quota", "queued", "patient"} /\ To(t, "idle")
  /\ UNCHANGED <<paid, usage, permits, waiting, asks, aiNow>>

\* The future of a request whose client is gone is dropped where it waits.
ClientGone(t) ==
  /\ \/ ask[t] = "quota" /\ UNCHANGED waiting
     \/ ask[t] \in {"queued", "patient"} /\ LeavesQueue(t)
  /\ To(t, "idle") /\ UNCHANGED <<paid, usage, permits, asks, aiNow>>

PlanChanges == paid' = ~paid /\ UNCHANGED <<usage, permits, waiting, ask, asks, aiNow>>

AiTick == aiNow < AiTime /\ aiNow' = aiNow + 1 /\ UNCHANGED <<paid, usage, permits, waiting, ask, asks>>

Expand(t) ==
  \/ CheckQuota(t) \/ LookForPermit(t) \/ Acquire(t) \/ RecordUsage(t) \/ ProviderAnswers(t)
  \/ DropPermit(t)

AiNext ==
  \/ \E t \in AiTasks : StartExpand(t) \/ Expand(t) \/ AcquireTimesOut(t) \/ ClientGone(t)
  \/ PlanChanges \/ AiTick

AiSpec == AiInit /\ [][AiNext]_aiVars
-----------------------------------------------------------------------------
AiTypeOK ==
  /\ paid \in BOOLEAN /\ usage \in Seq(0..AiTime) /\ permits \in 0..MaxConcurrent
  /\ waiting \in Seq(AiTasks) /\ asks \in Nat /\ aiNow \in Nat
  /\ ask \in [AiTasks -> {"idle", "quota", "permit", "timed", "untimed", "queued", "patient",
                          "call", "record", "release"}]

Holding == {t \in AiTasks : ask[t] \in {"call", "record", "release"}}
Promised == {t \in AiTasks : ask[t] \in {"permit", "timed", "untimed", "queued", "patient",
                                         "call", "record"}}

\* No permit is lost or made, whatever ends a request, and none is free while someone
\* waits: at most ai_max_concurrent_requests calls run, and exactly the requests that
\* wait are queued, once each.
PermitsConserved ==
  /\ AiTypeOK /\ permits + Cardinality(Holding) = MaxConcurrent
  /\ waiting # <<>> => permits = 0
  /\ IsInjective(waiting) /\ ToSet(waiting) = {t \in AiTasks : ask[t] \in {"queued", "patient"}}

Quota == INSTANCE CheckThenAct WITH
  Resources <- {AiUser}, Actors <- AiTasks, Capacity <- [u \in {AiUser} |-> PaidQuota],
  used <- [u \in {AiUser} |-> UsageInWindow], checked <- [u \in {AiUser} |-> Promised]

\* The quota is a limit that is checked first and used up later: it is overrun by at most
\* the requests that run beside the last one that found room, across changes of the plan.
QuotaImplements == Quota!Spec

\* Every request ends though some wait without a limit of their own: the provider's
\* timeout frees a permit, and permits go to the queue in order.
ExpansionEnds == \A t \in AiTasks : ask[t] # "idle" ~> ask[t] = "idle"
=============================================================================
