----------------------------- MODULE CheckThenAct ------------------------------
(***************************************************************************)
(* What the limits of this service promise.  A limit is checked by one     *)
(* statement and used up by a later one, without a lock in between.  Seats *)
(* of a team, uses of an invite or a coupon, pending admin invites, the    *)
(* last admin and the AI quota are all of this kind: their modules         *)
(* implement this one.                                                     *)
(***************************************************************************)
EXTENDS Naturals, FiniteSets

CONSTANTS
  Resources,  \* what is limited
  Actors,     \* the requests that can be in flight at a time
  Capacity    \* Capacity[r]: the limit of r

\* What the limits are when the theorems about them are used.
CheckThenActAssumption ==
  /\ Capacity \in [Resources -> Nat]
  /\ IsFiniteSet(Actors) /\ Actors # {}

VARIABLES
  used,     \* used[r]: how much of r is used, as the database or the map has it
  checked   \* checked[r]: the actors that found room in r and have not acted yet

ctaVars == <<used, checked>>

Init ==
  /\ used \in [Resources -> Nat] /\ \A r \in Resources : used[r] <= Capacity[r]
  /\ checked = [r \in Resources |-> {}]

Check(a, r) ==
  /\ used[r] < Capacity[r] /\ checked' = [checked EXCEPT ![r] = @ \cup {a}] /\ UNCHANGED used

Act(a, r) ==
  /\ a \in checked[r] /\ checked' = [checked EXCEPT ![r] = @ \ {a}]
  /\ used' = [used EXCEPT ![r] = @ + 1]

\* Actors fail or find that they need not act; members leave, windows move on, invites
\* expire.
Release ==
  /\ used' \in [Resources -> Nat] /\ \A r \in Resources : used'[r] <= used[r]
  /\ checked' \in [Resources -> SUBSET Actors]
  /\ \A r \in Resources : checked'[r] \subseteq checked[r]

Next ==
  \/ \E a \in Actors, r \in Resources : Check(a, r) \/ Act(a, r)
  \/ Release

Spec == Init /\ [][Next]_ctaVars
-----------------------------------------------------------------------------
\* A limit is overrun by at most the requests that run beside the one that checked
\* last: with one request at a time it is exact.
OverrunBounded == \A r \in Resources : used[r] + 1 <= Capacity[r] + Cardinality(Actors)

TypeOK == used \in [Resources -> Nat] /\ checked \in [Resources -> SUBSET Actors]

\* The strengthening: an actor that found room counts as if it had acted.
Claimed ==
  \A r \in Resources : checked[r] # {} =>
    used[r] + Cardinality(checked[r]) + 1 <= Capacity[r] + Cardinality(Actors)

CheckThenActInv == TypeOK /\ OverrunBounded /\ Claimed
=============================================================================
