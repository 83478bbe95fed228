---------------------------- MODULE BillingProofs ----------------------------
(***************************************************************************)
(* Theorems about Billing for any events, deliveries and requests.         *)
(***************************************************************************)
EXTENDS Billing, TLAPS

\* Whoever goes on to apply or mark an event has inserted it and is alone with it.
PipelineInv ==
  /\ \A d \in Deliveries : hook[d].pc # "idle" => hook[d].event \in Events
  /\ \A d \in Deliveries :
       /\ hook[d].pc = "apply" => /\ recorded[hook[d].event] = "inserted"
                                  /\ applied[hook[d].event] = 0
       /\ hook[d].pc = "mark"  => /\ recorded[hook[d].event] = "inserted"
                                  /\ applied[hook[d].event] = 1
  /\ \A c, d \in Deliveries :
       /\ hook[c].pc \in {"apply", "mark"} /\ hook[d].pc \in {"apply", "mark"}
       /\ hook[c].event = hook[d].event
       => c = d
  /\ \A e \in Events : recorded[e] = "absent" => applied[e] = 0

Inv == TypeOK /\ PipelineInv /\ AppliedOnce /\ PastDueEnds
-----------------------------------------------------------------------------
\* Times with NULL stay times: the arithmetic of the columns.
LEMMA PlusTime == ASSUME NEW t \in Time, NEW n \in Nat PROVE Plus(t, n) \in Time
BY DEF Plus, Time

\* Every event type leads from a row of the table to a row of the table.
LEMMA TransitionType ==
  ASSUME TypeOK, NEW e \in [type: Types, at: Nat]
  PROVE  Transition(e) \in [tier: Tiers, status: Statuses, end: Time, grace: Time, deadline: Time]
<1>1. sub.end \in Time BY DEF TypeOK
<1>2. Plus(sub.end, Period) \in Time BY BillingAssumption, <1>1, PlusTime
<1>3. now + Period \in Time /\ e.at + Grace \in Time /\ None \in Time
  BY BillingAssumption DEF TypeOK, Time, TimeBound
<1>4. QED BY <1>2, <1>3 DEF Transition, TypeOK, Statuses

\* No event type leaves the row past due without the end of a grace period.
LEMMA TransitionGrace ==
  ASSUME TypeOK, PastDueEnds, NEW e \in [type: Types, at: Nat]
  PROVE  Transition(e).status = "past_due" => Transition(e).grace # None
BY BillingAssumption DEF Transition, TypeOK, PastDueEnds

LEMMA InitInv == Init => Inv
<1> SUFFICES ASSUME Init PROVE Inv OBVIOUS
<1>1. TypeOK BY BillingAssumption DEF Init, TypeOK, Tiers, Statuses, Time, TimeBound
<1>2. PipelineInv /\ AppliedOnce /\ PastDueEnds BY DEF Init, PipelineInv, AppliedOnce, PastDueEnds
<1>3. QED BY <1>1, <1>2 DEF Inv

\* The invariant survives the steps of the webhook handlers.
LEMMA HookStep ==
  ASSUME Inv, NEW d \in Deliveries,
         Handle(d) \/ Lose(d) \/ \E e \in Events : Deliver(d, e)
  PROVE  Inv'
<1> USE DEF Goes, Ends, provider, events, clock
<1>0. hook[d].pc # "idle" => hook[d].event \in Events BY DEF Inv, PipelineInv
<1>1. CASE \E e \in Events : Deliver(d, e)
  <2>1. PICK e \in Events : Deliver(d, e) BY <1>1
  <2>2. TypeOK' BY <2>1 DEF Deliver, Inv, TypeOK
  <2>3. PipelineInv'
    <3>1. CASE UNCHANGED hook BY <2>1, <3>1 DEF Deliver, Inv, PipelineInv
    <3>2. CASE hook' = [hook EXCEPT ![d] = [pc |-> "insert", event |-> e]]
      <4>1. \A c \in Deliveries : hook'[c] = IF c = d THEN [pc |-> "insert", event |-> e] ELSE hook[c]
        BY <3>2 DEF Inv, TypeOK
      <4>2. recorded' = recorded /\ applied' = applied BY <2>1 DEF Deliver
      <4>3. QED BY <4>1, <4>2 DEF Inv, PipelineInv
    <3>3. QED BY <2>1, <3>1, <3>2 DEF Deliver
  <2>4. AppliedOnce' /\ PastDueEnds' BY <2>1 DEF Deliver, Inv, AppliedOnce, PastDueEnds
  <2>5. QED BY <2>2, <2>3, <2>4 DEF Inv
<1>2. CASE InsertEvent(d)
  <2>1. hook[d].event \in Events BY <1>0, <1>2 DEF InsertEvent
  <2>2. TypeOK'
    <3>1. CASE recorded[hook[d].event] = "absent"
      <4>1. recorded' \in [Events -> {"absent", "inserted", "processed"}]
        BY <1>2, <3>1 DEF InsertEvent, Inv, TypeOK
      <4>2. hook' \in [Deliveries -> [pc: {"idle", "insert", "apply", "mark", "reply"},
                                     event: Events \cup {None}]]
        BY <1>2, <3>1 DEF InsertEvent, Inv, TypeOK
      <4>3. QED BY <1>2, <4>1, <4>2 DEF InsertEvent, Inv, TypeOK
    <3>2. CASE recorded[hook[d].event] # "absent"
      BY <1>2, <3>2 DEF InsertEvent, Inv, TypeOK
    <3>3. QED BY <3>1, <3>2
  <2>3. PipelineInv'
    <3>1. CASE recorded[hook[d].event] = "absent"
      <4>1. \A c \in Deliveries :
              hook'[c] = IF c = d THEN [hook[d] EXCEPT !.pc = "apply"] ELSE hook[c]
        BY <1>2, <3>1 DEF InsertEvent, Inv, TypeOK
      <4>2. \A e \in Events :
              recorded'[e] = IF e = hook[d].event THEN "inserted" ELSE recorded[e]
        BY <1>2, <3>1 DEF InsertEvent, Inv, TypeOK
      <4>3. applied' = applied /\ applied[hook[d].event] = 0
        BY <1>2, <2>1, <3>1 DEF InsertEvent, Inv, PipelineInv
      <4>4. \A c \in Deliveries : hook[c] \in [pc: {"idle", "insert", "apply", "mark", "reply"},
                                              event: Events \cup {None}]
        BY DEF Inv, TypeOK
      <4>5. \A c \in Deliveries \ {d} :
              hook[c].pc \in {"apply", "mark"} => hook[c].event # hook[d].event
        BY <3>1 DEF Inv, PipelineInv
      <4>6. QED BY <2>1, <3>1, <4>1, <4>2, <4>3, <4>4, <4>5 DEF Inv, PipelineInv
    <3>2. CASE recorded[hook[d].event] # "absent"
      <4>1. \A c \in Deliveries : hook'[c] = IF c = d THEN [pc |-> "idle", event |-> None] ELSE hook[c]
        BY <1>2, <3>2 DEF InsertEvent, Inv, TypeOK
      <4>2. recorded' = recorded /\ applied' = applied BY <1>2, <3>2 DEF InsertEvent
      <4>3. QED BY <4>1, <4>2 DEF Inv, PipelineInv
    <3>3. QED BY <3>1, <3>2
  <2>4. AppliedOnce' /\ PastDueEnds'
    BY <1>0, <1>2 DEF InsertEvent, Inv, TypeOK, PipelineInv, AppliedOnce, PastDueEnds
  <2>5. QED BY <2>2, <2>3, <2>4 DEF Inv
<1>3. CASE ApplyEvent(d)
  <2>1. sent[hook[d].event] \in [type: Types, at: Nat] BY <1>0, <1>3 DEF ApplyEvent, Inv, TypeOK
  <2>2. TypeOK'
    <3>1. sub' \in [tier: Tiers, status: Statuses, end: Time, grace: Time, deadline: Time]
      BY <1>3, <2>1, TransitionType DEF ApplyEvent, Inv
    <3>2. QED BY <1>0, <1>3, <3>1 DEF ApplyEvent, Inv, TypeOK
  <2>3. PipelineInv' BY <1>0, <1>3 DEF ApplyEvent, Inv, TypeOK, PipelineInv
  <2>4. AppliedOnce' BY <1>0, <1>3 DEF ApplyEvent, Inv, TypeOK, PipelineInv, AppliedOnce
  <2>5. PastDueEnds' BY <1>3, <2>1, TransitionGrace DEF ApplyEvent, Inv, PastDueEnds
  <2>6. QED BY <2>2, <2>3, <2>4, <2>5 DEF Inv
<1>4. CASE MarkProcessed(d)
  <2>2. TypeOK' BY <1>0, <1>4 DEF MarkProcessed, Inv, TypeOK
  <2>3. PipelineInv' BY <1>0, <1>4 DEF MarkProcessed, Inv, TypeOK, PipelineInv
  <2>4. AppliedOnce' /\ PastDueEnds'
    BY <1>0, <1>4 DEF MarkProcessed, Inv, TypeOK, PipelineInv, AppliedOnce, PastDueEnds
  <2>5. QED BY <2>2, <2>3, <2>4 DEF Inv
<1>5. CASE Reply(d) \/ Lose(d)
  <2>2. TypeOK'
    <3>1. hook' \in [Deliveries -> [pc: {"idle", "insert", "apply", "mark", "reply"},
                                   event: Events \cup {None}]]
      BY <1>5 DEF Reply, Lose, Inv, TypeOK
    <3>2. failures' \in 0..FailureBound
      BY BillingAssumption, <1>5 DEF Reply, Lose, Inv, TypeOK
    <3>3. acked' \subseteq Events BY <1>0, <1>5 DEF Reply, Lose, Inv, TypeOK
    <3>4. UNCHANGED <<sub, recorded, applied, sent, req, now>> BY <1>5 DEF Reply, Lose
    <3>5. QED BY <3>1, <3>2, <3>3, <3>4 DEF Inv, TypeOK
  <2>3. PipelineInv'
    <3>1. \A c \in Deliveries : hook'[c] = IF c = d THEN [pc |-> "idle", event |-> None] ELSE hook[c]
      BY <1>5 DEF Reply, Lose, Inv, TypeOK
    <3>2. recorded' = recorded /\ applied' = applied BY <1>5 DEF Reply, Lose
    <3>3. QED BY <3>1, <3>2 DEF Inv, PipelineInv
  <2>4. AppliedOnce' /\ PastDueEnds' BY <1>5 DEF Reply, Lose, Inv, AppliedOnce, PastDueEnds
  <2>5. QED BY <2>2, <2>3, <2>4 DEF Inv
<1>6. QED BY <1>1, <1>2, <1>3, <1>4, <1>5 DEF Handle

\* The invariant survives what members, admins, the scheduler and the clock do.
LEMMA OtherStep ==
  ASSUME Inv,
         \/ \E r \in Requests : Request(r)
         \/ Checkout \/ Administer \/ GracePeriodCheck \/ PaymentDeadlineCheck \/ Tick
  PROVE  Inv'
<1> USE DEF provider, events, clock, At
<1>1. PipelineInv' /\ AppliedOnce'
  BY DEF Inv, PipelineInv, AppliedOnce, Request, StartUpgrade, FinishUpgrade, StartExtend,
         FinishExtend, Checkout, Administer, GracePeriodCheck, PaymentDeadlineCheck, Tick
<1>2. CASE \E r \in Requests : Request(r)
  <2>1. PICK r \in Requests : Request(r) BY <1>2
  <2>2. req[r].pc = "extend" => req[r].base + 1 \in Time BY DEF Inv, TypeOK, Time
  <2>3. TypeOK' /\ PastDueEnds'
    <3>1. CASE StartUpgrade(r)
      BY <3>1 DEF StartUpgrade, Inv, TypeOK, PastDueEnds, Time
    <3>2. CASE FinishUpgrade(r)
      BY <3>2 DEF FinishUpgrade, Inv, TypeOK, PastDueEnds, Time, Statuses
    <3>3. CASE StartExtend(r)
      BY BillingAssumption, <3>3 DEF StartExtend, Inv, TypeOK, PastDueEnds, Time, TimeBound
    <3>4. CASE FinishExtend(r)
      BY <2>2, <3>4 DEF FinishExtend, Inv, TypeOK, PastDueEnds, Time
    <3>5. QED BY <2>1, <3>1, <3>2, <3>3, <3>4 DEF Request
  <2>4. QED BY <1>1, <2>3 DEF Inv
<1>3. CASE Checkout \/ Administer
  <2>1. TypeOK' BY <1>3 DEF Checkout, Administer, CancelSubscription,
                       DeactivateWorkspace, OverrideTier, Inv, TypeOK, Tiers, Statuses, Time
  <2>2. PastDueEnds' BY <1>3 DEF Checkout, Administer, CancelSubscription,
                       DeactivateWorkspace, OverrideTier, Inv, TypeOK, PastDueEnds
  <2>3. QED BY <1>1, <2>1, <2>2 DEF Inv
<1>4. CASE GracePeriodCheck \/ PaymentDeadlineCheck
  <2>1. TypeOK' BY <1>4 DEF GracePeriodCheck, PaymentDeadlineCheck, Inv, TypeOK, Statuses
  <2>2. PastDueEnds' BY <1>4 DEF GracePeriodCheck, PaymentDeadlineCheck, Inv, TypeOK, PastDueEnds
  <2>3. QED BY <1>1, <2>1, <2>2 DEF Inv
<1>5. CASE Tick
  <2>1. TypeOK' BY BillingAssumption, <1>5 DEF Tick, Inv, TypeOK, TimeBound
  <2>2. PastDueEnds' BY <1>5 DEF Tick, Inv, PastDueEnds
  <2>3. QED BY <1>1, <2>1, <2>2 DEF Inv
<1>6. QED BY <1>2, <1>3, <1>4, <1>5

LEMMA SpecInv == Spec => []Inv
<1>1. Inv /\ [Next]_vars => Inv'
  <2> SUFFICES ASSUME Inv, [Next]_vars PROVE Inv' OBVIOUS
  <2>1. CASE Next BY <2>1, HookStep, OtherStep DEF Next
  <2>2. CASE UNCHANGED vars
    BY <2>2 DEF vars, Inv, TypeOK, PipelineInv, AppliedOnce, PastDueEnds
  <2>3. QED BY <2>1, <2>2
<1>2. QED BY InitInv, <1>1, PTL DEF Spec

\* The tables hold what their columns can hold, and tasks what their reads returned.
THEOREM SpecTypeOK == Spec => []TypeOK
<1>1. Inv => TypeOK BY DEF Inv
<1>2. QED BY SpecInv, <1>1, PTL

\* process_webhook applies an event at most once, whatever the provider repeats and
\* whatever deliveries die on the way, and marks only events it has applied.
THEOREM SpecAppliedOnce == Spec => []AppliedOnce
<1>1. Inv => AppliedOnce BY DEF Inv
<1>2. QED BY SpecInv, <1>1, PTL

\* No order of webhooks, upgrades, checkouts and admin actions leaves a subscription
\* past due without the deadline that grace_period_check looks for.
THEOREM SpecPastDueEnds == Spec => []PastDueEnds
<1>1. Inv => PastDueEnds BY DEF Inv
<1>2. QED BY SpecInv, <1>1, PTL
==============================================================================
