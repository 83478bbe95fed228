-------------------------- MODULE CheckThenActProofs ---------------------------
(***************************************************************************)
(* How far a limit that is checked first and used up later is overrun, for *)
(* any resources, any capacities and any number of actors.                 *)
(***************************************************************************)
EXTENDS CheckThenAct, FiniteSetTheorems, TLAPS

\* The actors that found room are finitely many, at most all of them.
LEMMA ClaimsFinite ==
  ASSUME CheckThenActAssumption, NEW S \in SUBSET Actors
  PROVE  /\ IsFiniteSet(S) /\ Cardinality(S) \in Nat
         /\ Cardinality(Actors) \in Nat /\ Cardinality(S) <= Cardinality(Actors)
BY FS_Subset, FS_CardinalityType DEF CheckThenActAssumption

\* There is an actor, so a limit that was never overrun is within the bound.
LEMMA SomeActor ==
  ASSUME CheckThenActAssumption
  PROVE  Cardinality(Actors) \in Nat \ {0}
BY FS_EmptySet, FS_CardinalityType DEF CheckThenActAssumption

\* The limits start within their capacity and nobody has checked.
LEMMA InitInv == ASSUME CheckThenActAssumption, Init PROVE CheckThenActInv
<1>1. TypeOK BY DEF Init, TypeOK
<1>2. OverrunBounded
  BY SomeActor DEF Init, OverrunBounded, CheckThenActAssumption
<1>3. Claimed BY DEF Init, Claimed
<1>4. QED BY <1>1, <1>2, <1>3 DEF CheckThenActInv

\* Who finds room adds a claim to a limit that has one unit left.
LEMMA CheckInv ==
  ASSUME CheckThenActAssumption, CheckThenActInv, NEW a \in Actors, NEW r \in Resources,
         Check(a, r)
  PROVE  CheckThenActInv'
<1> USE DEF CheckThenActInv
<1>1. TypeOK' BY DEF TypeOK, Check
<1>2. OverrunBounded' BY DEF OverrunBounded, Check
<1>3. Claimed'
  <2> SUFFICES ASSUME NEW q \in Resources, checked'[q] # {}
               PROVE  used'[q] + Cardinality(checked'[q]) + 1 <= Capacity[q] + Cardinality(Actors)
    BY DEF Claimed
  <2>1. CASE q = r
    <3>1. checked'[r] \in SUBSET Actors BY <1>1 DEF TypeOK
    <3>2. Cardinality(checked'[r]) \in Nat /\ Cardinality(Actors) \in Nat
          /\ Cardinality(checked'[r]) <= Cardinality(Actors)
      BY <3>1, ClaimsFinite
    <3>3. used'[r] = used[r] /\ used[r] < Capacity[r] /\ used[r] \in Nat /\ Capacity[r] \in Nat
      BY DEF Check, TypeOK, CheckThenActAssumption
    <3>4. QED BY <2>1, <3>2, <3>3
  <2>2. CASE q # r
    <3>1. checked'[q] = checked[q] /\ used'[q] = used[q] BY <2>2 DEF Check, TypeOK
    <3>2. QED BY <3>1 DEF Claimed
  <2>3. QED BY <2>1, <2>2
<1>4. QED BY <1>1, <1>2, <1>3

\* Who acts turns a claim into use.
LEMMA ActInv ==
  ASSUME CheckThenActAssumption, CheckThenActInv, NEW a \in Actors, NEW r \in Resources,
         Act(a, r)
  PROVE  CheckThenActInv'
<1> USE DEF CheckThenActInv
<1> DEFINE n == Cardinality(checked[r])
           m == Cardinality(Actors)
<1>1. TypeOK' BY DEF TypeOK, Act
<1>2. a \in checked[r] /\ checked[r] \in SUBSET Actors BY DEF Act, TypeOK
<1>3. IsFiniteSet(checked[r]) /\ n \in Nat /\ m \in Nat BY <1>2, ClaimsFinite
<1>4. Cardinality(checked[r] \ {a}) = n - 1 BY <1>2, <1>3, FS_RemoveElement
<1>5. n # 0 BY <1>2, <1>3, FS_EmptySet
<1>6. used[r] + n + 1 <= Capacity[r] + m BY <1>2 DEF Claimed
<1>7. used'[r] = used[r] + 1 /\ checked'[r] = checked[r] \ {a} BY DEF Act, TypeOK
<1>8. used[r] \in Nat /\ Capacity[r] \in Nat BY DEF TypeOK, CheckThenActAssumption
<1>9. \A q \in Resources \ {r} : used'[q] = used[q] /\ checked'[q] = checked[q]
  BY DEF Act, TypeOK
<1>10. OverrunBounded'
  <2>1. used'[r] + 1 <= Capacity[r] + m BY <1>3, <1>5, <1>6, <1>7, <1>8
  <2>2. QED BY <2>1, <1>9 DEF OverrunBounded
<1>11. Claimed'
  <2>1. used'[r] + Cardinality(checked'[r]) + 1 <= Capacity[r] + m
    BY <1>3, <1>4, <1>6, <1>7, <1>8
  <2>2. QED BY <2>1, <1>9 DEF Claimed
<1>12. QED BY <1>1, <1>10, <1>11

\* Less use and fewer claims.
LEMMA ReleaseInv ==
  ASSUME CheckThenActAssumption, CheckThenActInv, Release
  PROVE  CheckThenActInv'
<1> USE DEF CheckThenActInv
<1>1. TypeOK' BY DEF TypeOK, Release
<1>2. \A r \in Resources : /\ used[r] \in Nat /\ used'[r] \in Nat /\ used'[r] <= used[r]
                           /\ Capacity[r] \in Nat
  BY DEF TypeOK, Release, CheckThenActAssumption
<1>3. Cardinality(Actors) \in Nat BY SomeActor
<1>4. OverrunBounded' BY <1>2, <1>3 DEF OverrunBounded
<1>5. Claimed'
  <2> SUFFICES ASSUME NEW r \in Resources, checked'[r] # {}
               PROVE  used'[r] + Cardinality(checked'[r]) + 1 <= Capacity[r] + Cardinality(Actors)
    BY DEF Claimed
  <2>1. checked'[r] \subseteq checked[r] /\ checked[r] \in SUBSET Actors BY DEF Release, TypeOK
  <2>2. IsFiniteSet(checked[r]) /\ Cardinality(checked[r]) \in Nat BY <2>1, ClaimsFinite
  <2>3. Cardinality(checked'[r]) <= Cardinality(checked[r]) BY <2>1, <2>2, FS_Subset
  <2>4. Cardinality(checked'[r]) \in Nat BY <2>1, ClaimsFinite
  <2>5. used[r] + Cardinality(checked[r]) + 1 <= Capacity[r] + Cardinality(Actors)
    BY <2>1 DEF Claimed
  <2>6. QED BY <1>2, <1>3, <2>2, <2>3, <2>4, <2>5
<1>6. QED BY <1>1, <1>4, <1>5

\* The number of requests in flight bounds the overrun of every limit of this kind:
\* what the modules that implement this one promise of seats, uses, admins, guesses
\* and the AI quota.
THEOREM SpecOverrunBounded ==
  ASSUME CheckThenActAssumption
  PROVE  Spec => []OverrunBounded
<1>1. Init => CheckThenActInv BY InitInv
<1>2. CheckThenActInv /\ [Next]_ctaVars => CheckThenActInv'
  <2> SUFFICES ASSUME CheckThenActInv, [Next]_ctaVars PROVE CheckThenActInv'
    OBVIOUS
  <2>1. ASSUME NEW a \in Actors, NEW r \in Resources, Check(a, r) PROVE CheckThenActInv'
    BY <2>1, CheckInv
  <2>2. ASSUME NEW a \in Actors, NEW r \in Resources, Act(a, r) PROVE CheckThenActInv'
    BY <2>2, ActInv
  <2>3. CASE Release BY <2>3, ReleaseInv
  <2>4. CASE UNCHANGED ctaVars
    BY <2>4 DEF ctaVars, CheckThenActInv, TypeOK, OverrunBounded, Claimed
  <2>5. QED BY <2>1, <2>2, <2>3, <2>4 DEF Next
<1>3. CheckThenActInv => OverrunBounded BY DEF CheckThenActInv
<1>4. QED BY <1>1, <1>2, <1>3, PTL DEF Spec
=============================================================================
