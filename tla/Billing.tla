------------------------------- MODULE Billing -------------------------------
(***************************************************************************)
(* The subscription of one workspace (table subscriptions), the billing    *)
(* provider's webhooks (src/src/subscription/webhook.rs), upgrade and      *)
(* checkout (src/src/subscription/service.rs), what admins do to it        *)
(* (src/src/admin/service.rs) and the scheduler's checks of deadlines      *)
(* (src/src/scheduler/service.rs).  No method writes the row twice, so     *)
(* every SQL statement is a step that commits by itself.                   *)
(***************************************************************************)
EXTENDS Naturals, FiniteSets

CONSTANTS
  Events,       \* identities of the provider's events (external_event_id)
  Deliveries,   \* webhook requests in flight
  Requests,     \* requests of members and admins in flight
  PaidTiers,    \* "pro" and "teams"
  Period,       \* 12 months
  Grace,        \* from past_due to cancellation: 7 days
  PayWindow,    \* from the creation of a team to its payment_deadline: 7 days
  EmitBound,    \* bound: the provider emits events up to this time
  PeriodBound,  \* bound: admins extend periods up to this time
  FailureBound, \* bound: deliveries lost to a crash or a disconnect
  None

ASSUME BillingAssumption ==
  /\ {Period, Grace, PayWindow, EmitBound, PeriodBound, FailureBound} \subseteq Nat
  /\ None \notin Nat \cup Events /\ "teams" \in PaidTiers

VARIABLES
  sub,       \* the row of subscriptions
  recorded,  \* billing_events: "absent", "inserted", or "processed" (processed_at is set)
  applied,   \* history: how often the transition of each event was executed
  sent,      \* the type and timestamp of each event
  acked,     \* events the provider received a 200 for
  hook,      \* the task of each delivery
  req,       \* the task of each request
  now, failures

vars == <<sub, recorded, applied, sent, acked, hook, req, now, failures>>
provider == <<sent, acked>>
events == <<recorded, applied>>
clock == <<now, failures>>

Time == Nat \cup {None}
Tiers == PaidTiers \cup {"free"}
Statuses == {"active", "past_due", "cancelled", "pending_payment", "deactivated"}
Types == {"activated", "renewed", "past_due", "cancelled", "reactivated", "other"}

\* The clock has to pass every deadline that an event emitted in time can set.
TimeBound == EmitBound + Grace + 1

Plus(t, n) == IF t = None THEN None ELSE t + n
Past(t) == t # None /\ t < now
-----------------------------------------------------------------------------
\* An individual's workspace starts free, a team's with a payment to make.
Init ==
  /\ sub \in {[tier |-> "free", status |-> "active", end |-> None, grace |-> None, deadline |-> None],
              [tier |-> "teams", status |-> "pending_payment", end |-> None, grace |-> None,
               deadline |-> PayWindow]}
  /\ recorded = [e \in Events |-> "absent"] /\ applied = [e \in Events |-> 0]
  /\ sent \in [Events -> [type: Types, at: 0..EmitBound]] /\ acked = {}
  /\ hook = [d \in Deliveries |-> [pc |-> "idle", event |-> None]]
  /\ req = [r \in Requests |-> [pc |-> "idle", base |-> None]]
  /\ now = 0 /\ failures = 0

Goes(d, pc) == hook' = [hook EXCEPT ![d].pc = pc]
Ends(d) == hook' = [hook EXCEPT ![d] = [pc |-> "idle", event |-> None]]

(* process_webhook.  The provider delivers an event until it is acknowledged, in *)
(* any order and also more than once at a time.  One that is there already is    *)
(* acknowledged at once; if that answer is lost, nothing has happened.           *)

Deliver(d, e) ==
  /\ hook[d].pc = "idle" /\ sent[e].at <= now /\ e \notin acked
  /\ \/ /\ recorded[e] = "absent"
        /\ hook' = [hook EXCEPT ![d] = [pc |-> "insert", event |-> e]] /\ UNCHANGED acked
     \/ recorded[e] # "absent" /\ acked' = acked \cup {e} /\ UNCHANGED hook
  /\ UNCHANGED <<sub, events, sent, req, clock>>

\* Mutant: no unique index on external_event_id.
InsertEvent_NoIndex(d) ==
  /\ hook[d].pc = "insert" /\ Goes(d, "apply")
  /\ recorded' = [recorded EXCEPT ![hook[d].event] = "inserted"]
  /\ UNCHANGED <<sub, applied, provider, req, clock>>

\* idx_billing_events_external turns a second insert into an error 500.
InsertEvent(d) ==
  LET e == hook[d].event
  IN /\ hook[d].pc = "insert"
     /\ \/ /\ recorded[e] = "absent"
           /\ recorded' = [recorded EXCEPT ![e] = "inserted"] /\ Goes(d, "apply")
        \/ recorded[e] # "absent" /\ Ends(d) /\ UNCHANGED recorded
     /\ UNCHANGED <<sub, applied, provider, req, clock>>

\* Mutant: reactivation clears the grace period and leaves the status.
Transition_KeepsStatus(e) ==
  CASE e.type = "activated"   -> [sub EXCEPT !.status = "active", !.end = now + Period]
    [] e.type = "renewed"     -> [sub EXCEPT !.status = "active", !.end = Plus(@, Period)]
    [] e.type = "past_due"    -> [sub EXCEPT !.status = "past_due", !.grace = e.at + Grace]
    [] e.type = "cancelled"   -> [sub EXCEPT !.status = "cancelled"]
    [] e.type = "reactivated" -> [sub EXCEPT !.grace = None]
    [] OTHER                  -> sub

\* apply_subscription_transition
Transition(e) ==
  CASE e.type = "activated"   -> [sub EXCEPT !.status = "active", !.end = now + Period]
    [] e.type = "renewed"     -> [sub EXCEPT !.status = "active", !.end = Plus(@, Period)]
    [] e.type = "past_due"    -> [sub EXCEPT !.status = "past_due", !.grace = e.at + Grace]
    [] e.type = "cancelled"   -> [sub EXCEPT !.status = "cancelled"]
    [] e.type = "reactivated" -> [sub EXCEPT !.status = "active", !.grace = None]
    [] OTHER                  -> sub

ApplyEvent(d) ==
  LET e == hook[d].event
  IN /\ hook[d].pc = "apply"
     /\ sub' = Transition(sent[e]) /\ applied' = [applied EXCEPT ![e] = @ + 1]
     /\ Goes(d, "mark")
     /\ UNCHANGED <<recorded, provider, req, clock>>

MarkProcessed(d) ==
  /\ hook[d].pc = "mark" /\ Goes(d, "reply")
  /\ recorded' = [recorded EXCEPT ![hook[d].event] = "processed"]
  /\ UNCHANGED <<sub, applied, provider, req, clock>>

Reply(d) ==
  /\ hook[d].pc = "reply" /\ Ends(d) /\ acked' = acked \cup {hook[d].event}
  /\ UNCHANGED <<sub, events, sent, req, clock>>

\* The process dies, the provider hangs up, or a statement fails.
Lose(d) ==
  /\ hook[d].pc # "idle" /\ failures < FailureBound
  /\ Ends(d) /\ failures' = failures + 1
  /\ UNCHANGED <<sub, events, provider, req, now>>
-----------------------------------------------------------------------------
(* Members: initiate_upgrade reads, then writes; checkout writes in one statement. *)

At(r, pc, base) == req' = [req EXCEPT ![r] = [pc |-> pc, base |-> base]]

StartUpgrade(r) ==
  /\ req[r].pc = "idle" /\ sub.tier = "free" /\ At(r, "upgrade", None)
  /\ UNCHANGED <<sub, events, provider, hook, clock>>

FinishUpgrade(r) ==
  /\ req[r].pc = "upgrade" /\ At(r, "idle", None)
  /\ sub' = [sub EXCEPT !.status = "pending_payment"]
  /\ UNCHANGED <<events, provider, hook, clock>>

\* The transaction of checkout; its coupon is another module's matter.
Checkout ==
  /\ \E t \in PaidTiers : sub' = [sub EXCEPT !.tier = t, !.status = "pending_payment"]
  /\ UNCHANGED <<events, provider, hook, req, clock>>

(* Admins *)

StartExtend(r) ==
  LET base == IF sub.end = None THEN now ELSE sub.end
  IN /\ req[r].pc = "idle" /\ base < PeriodBound /\ At(r, "extend", base)
     /\ UNCHANGED <<sub, events, provider, hook, clock>>

FinishExtend(r) ==
  /\ req[r].pc = "extend" /\ At(r, "idle", None)
  /\ sub' = [sub EXCEPT !.end = req[r].base + 1]
  /\ UNCHANGED <<events, provider, hook, clock>>

\* One statement each, whatever the subscription is.
CancelSubscription  == sub' = [sub EXCEPT !.status = "cancelled", !.grace = None]
DeactivateWorkspace == sub' = [sub EXCEPT !.status = "deactivated"]
OverrideTier        == \E t \in Tiers : sub' = [sub EXCEPT !.tier = t]

Administer ==
  /\ CancelSubscription \/ DeactivateWorkspace \/ OverrideTier
  /\ UNCHANGED <<events, provider, hook, req, clock>>
-----------------------------------------------------------------------------
(* The scheduler *)

\* Mutant: a status the table's CHECK constraint does not know.
GracePeriodCheck_Expires ==
  /\ sub.status = "past_due" /\ Past(sub.grace)
  /\ sub' = [sub EXCEPT !.status = "expired"]
  /\ UNCHANGED <<events, provider, hook, req, clock>>

GracePeriodCheck ==
  /\ sub.status = "past_due" /\ Past(sub.grace)
  /\ sub' = [sub EXCEPT !.status = "cancelled"]
  /\ UNCHANGED <<events, provider, hook, req, clock>>

PaymentDeadlineCheck ==
  /\ sub.status = "pending_payment" /\ Past(sub.deadline)
  /\ sub' = [sub EXCEPT !.status = "deactivated"]
  /\ UNCHANGED <<events, provider, hook, req, clock>>

Tick ==
  /\ now < TimeBound /\ now' = now + 1
  /\ UNCHANGED <<sub, events, provider, hook, req, failures>>
-----------------------------------------------------------------------------
Handle(d) == InsertEvent(d) \/ ApplyEvent(d) \/ MarkProcessed(d) \/ Reply(d)

Request(r) == StartUpgrade(r) \/ FinishUpgrade(r) \/ StartExtend(r) \/ FinishExtend(r)

Next ==
  \/ \E d \in Deliveries : Handle(d) \/ Lose(d) \/ \E e \in Events : Deliver(d, e)
  \/ \E r \in Requests : Request(r)
  \/ Checkout \/ Administer \/ GracePeriodCheck \/ PaymentDeadlineCheck \/ Tick

Spec == Init /\ [][Next]_vars
-----------------------------------------------------------------------------
TypeOK ==
  /\ sub \in [tier: Tiers, status: Statuses, end: Time, grace: Time, deadline: Time]
  /\ recorded \in [Events -> {"absent", "inserted", "processed"}]
  /\ applied \in [Events -> Nat]
  /\ sent \in [Events -> [type: Types, at: Nat]] /\ acked \subseteq Events
  /\ hook \in [Deliveries -> [pc: {"idle", "insert", "apply", "mark", "reply"},
                              event: Events \cup {None}]]
  /\ req \in [Requests -> [pc: {"idle", "upgrade", "extend"}, base: Time]]
  /\ \A r \in Requests : req[r].pc = "extend" => req[r].base # None
  /\ now \in 0..TimeBound /\ failures \in 0..FailureBound

(* Safety. *)

\* An event moves the subscription at most once, however often it is delivered and
\* however its deliveries overlap; and it has moved it once it is marked processed.
AppliedOnce ==
  \A e \in Events : /\ applied[e] <= 1
                    /\ recorded[e] = "processed" => applied[e] = 1

\* A subscription that is past due has an end of its grace period, by which the
\* hourly check cancels it, whatever events and admins did in whatever order.
PastDueEnds == sub.status = "past_due" => sub.grace # None

(* What the documents promise and the code does not keep. *)

\* An event the provider need not deliver again has been applied, unless a delivery
\* is still at it.
AcknowledgedIsApplied ==
  \A e \in acked : applied[e] > 0 \/ \E d \in Deliveries : hook[d].event = e
==============================================================================
