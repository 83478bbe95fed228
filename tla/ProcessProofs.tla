---------------------------- MODULE ProcessProofs ------------------------------
(***************************************************************************)
(* Theorems about what the server process keeps in memory: the windows of  *)
(* the rate limiter, the quota and the permits of AI expansions, and the   *)
(* loops and requests it waits for when it shuts down.                     *)
(***************************************************************************)
EXTENDS RateLimit, AiExpansion, Shutdown, FiniteSetTheorems, SequenceTheorems,
        WellFoundedInduction, TLAPS

(* Numbers                                                                     *)

Below == {p \in Nat \X Nat : p[1] < p[2]}

LEMMA BelowWellFounded == IsWellFoundedOn(Below, Nat)
  BY NatLessThanWellFounded DEF OpToRel, Below

\* Every set of numbers that is not empty has a least one.
LEMMA LeastNumber ==
  ASSUME NEW T \in SUBSET Nat, T # {}
  PROVE  \E n \in T : \A m \in T : n <= m
<1>1. PICK n \in T : \A m \in T : ~(<<m, n>> \in Below)
  BY BelowWellFounded, WFMin
<1>2. \A m \in T : ~(m < n)
  BY <1>1, Zenon DEF Below
<1> QED
  BY <1>2

(* Windows                                                                     *)

\* What Prune drops is stale, and the oldest timestamp it keeps is not.
LEMMA FirstFreshIs ==
  ASSUME NEW s \in Seq(Nat), NEW width \in Nat, NEW now \in Nat
  PROVE  LET k == FirstFresh(s, width, now)
         IN /\ k \in 1..(Len(s) + 1)
            /\ \A j \in 1..(k - 1) : Stale(s[j], width, now)
            /\ k <= Len(s) => ~Stale(s[k], width, now)
<1> DEFINE T == Fresh(s, width, now) \cup {Len(s) + 1}
<1>1. Len(s) \in Nat
  BY LenProperties
<1>2. T \in SUBSET Nat /\ T # {}
  BY <1>1 DEF Fresh
<1>3. PICK k \in T : \A m \in T : k <= m
  BY <1>2, LeastNumber
<1>4. k \in 1..(Len(s) + 1) /\ (k <= Len(s) => ~Stale(s[k], width, now))
  BY <1>1, <1>3 DEF Fresh
<1>5. \A j \in 1..(k - 1) : Stale(s[j], width, now)
  BY <1>1, <1>3, <1>4 DEF Fresh
<1> DEFINE Good(i) == /\ \A j \in 1..(i - 1) : Stale(s[j], width, now)
                      /\ i <= Len(s) => ~Stale(s[i], width, now)
<1>6. FirstFresh(s, width, now) = CHOOSE i \in 1..(Len(s) + 1) : Good(i)
  BY DEF FirstFresh
<1>7. k \in 1..(Len(s) + 1) /\ Good(k)
  BY <1>4, <1>5
<1> HIDE DEF Good
<1>8. LET i == FirstFresh(s, width, now) IN i \in 1..(Len(s) + 1) /\ Good(i)
  BY <1>6, <1>7, Zenon
<1> QED
  BY <1>8 DEF Good

\* Prune keeps the end of the sequence.
LEMMA PruneIs ==
  ASSUME NEW S \in SUBSET Nat, NEW s \in Seq(S), NEW width \in Nat, NEW now \in Nat
  PROVE  \E d \in 0..Len(s) :
           /\ Prune(s, width, now) \in Seq(S) /\ Len(Prune(s, width, now)) = Len(s) - d
           /\ \A i \in 1..(Len(s) - d) : Prune(s, width, now)[i] = s[i + d]
           /\ \A j \in 1..d : Stale(s[j], width, now)
           /\ d < Len(s) => ~Stale(s[d + 1], width, now)
<1> DEFINE k == FirstFresh(s, width, now)
<1>1. /\ k \in 1..(Len(s) + 1) /\ \A j \in 1..(k - 1) : Stale(s[j], width, now)
      /\ k <= Len(s) => ~Stale(s[k], width, now)
  BY FirstFreshIs, SeqMonotonic
<1> HIDE DEF k
<1>2. Len(s) \in Nat /\ s \in [1..Len(s) -> S]
  BY LenProperties
<1>3. Prune(s, width, now) = SubSeq(s, k, Len(s))
  BY DEF Prune, k
<1>4. \A i \in k..Len(s) : i \in 1..Len(s)
  BY <1>1, <1>2
<1>5. /\ SubSeq(s, k, Len(s)) \in Seq(S)
      /\ Len(SubSeq(s, k, Len(s))) = Len(s) - (k - 1)
      /\ \A i \in 1..(Len(s) - (k - 1)) : SubSeq(s, k, Len(s))[i] = s[i + (k - 1)]
  BY <1>1, <1>2, <1>4
<1> DEFINE d == k - 1
<1>6. /\ d \in 0..Len(s) /\ \A j \in 1..d : Stale(s[j], width, now)
      /\ d < Len(s) => ~Stale(s[d + 1], width, now)
  BY <1>1, <1>2
<1> QED
  BY <1>3, <1>5, <1>6
\* Pruning takes no timestamp of the window, and a new one adds one to it.
LEMMA PruneAppendCount ==
  ASSUME NEW S \in SUBSET Nat, NEW s \in Seq(S), NEW width \in Nat, NEW now \in S
  PROVE  LET n == Append(Prune(s, width, now), now)
         IN /\ n \in Seq(S)
            /\ IsFiniteSet(Fresh(s, width, now)) /\ Cardinality(Fresh(s, width, now)) \in Nat
            /\ Cardinality(Fresh(n, width, now)) = Cardinality(Fresh(s, width, now)) + 1
<1> DEFINE p == Prune(s, width, now)  n == Append(p, now)  F == Fresh(s, width, now)
<1>1. PICK d \in 0..Len(s) :
           /\ p \in Seq(S) /\ Len(p) = Len(s) - d
           /\ \A i \in 1..(Len(s) - d) : p[i] = s[i + d]
           /\ \A j \in 1..d : Stale(s[j], width, now)
  BY PruneIs
<1> HIDE DEF p
<1> DEFINE l == Len(s)
<1>2. l \in Nat /\ d \in Nat /\ d <= l /\ Len(p) = l - d
  BY <1>1, LenProperties
<1>3. /\ n \in Seq(S) /\ Len(n) = (l - d) + 1 /\ n[(l - d) + 1] = now
      /\ \A i \in 1..(l - d) : n[i] = p[i]
  BY <1>1, <1>2, AppendProperties
<1> HIDE DEF n
<1>4. F \subseteq (d + 1)..l
  BY <1>1, <1>2 DEF Fresh
<1>5. IsFiniteSet(F) /\ Cardinality(F) \in Nat
  <2>1. IsFiniteSet((d + 1)..l)
    BY <1>2, FS_Interval
  <2> QED
    BY <1>4, <2>1, FS_Subset, FS_CardinalityType
<1> DEFINE G == {k \in 1..(l - d) : ~Stale(n[k], width, now)}
           f == [k \in F |-> k - d]
<1>6. G = {k \in 1..(l - d) : ~Stale(s[k + d], width, now)}
  BY <1>1, <1>2, <1>3
<1>7. f \in Bijection(F, G)
  <2>1. ASSUME NEW k \in F PROVE f[k] \in G
    BY <1>2, <1>4, <1>6 DEF Fresh
  <2>2. \A k, j \in F : f[k] = f[j] => k = j
    BY <1>2, <1>4
  <2>3. ASSUME NEW g \in G PROVE \E k \in F : f[k] = g
    <3>1. g + d \in 1..l /\ ~Stale(s[g + d], width, now) /\ (g + d) - d = g
      BY <1>2, <1>6
    <3>2. g + d \in F
      BY <3>1 DEF Fresh
    <3>3. f[g + d] = g
      BY <3>1, <3>2
    <3> QED
      BY <3>2, <3>3
  <2> HIDE DEF G
  <2>4. f \in [F -> G]
    BY <2>1
  <2> HIDE DEF f, F
  <2>5. f \in Injection(F, G)
    BY <2>2, <2>4 DEF Injection, IsInjective
  <2>6. f \in Surjection(F, G)
    BY <2>3, <2>4 DEF Surjection
  <2> QED
    BY <2>5, <2>6 DEF Bijection
<1>8. IsFiniteSet(G) /\ Cardinality(G) = Cardinality(F)
  <2> HIDE DEF G, F, f
  <2>1. ExistsBijection(F, G)
    BY <1>7 DEF ExistsBijection
  <2> QED
    BY <1>5, <2>1, FS_Bijection
<1>9. Fresh(n, width, now) = G \cup {(l - d) + 1} /\ (l - d) + 1 \notin G
  BY <1>2, <1>3 DEF Fresh, Stale
<1>10. Cardinality(Fresh(n, width, now)) = Cardinality(F) + 1
  <2> HIDE DEF G, F
  <2> QED
    BY <1>8, <1>9, FS_AddElement
<1> QED
  BY <1>3, <1>5, <1>10 DEF n, p
-----------------------------------------------------------------------------
(* RateLimit                                                                   *)

\* The window is the end of what passed, all before it is stale, and a request passes
\* only when the one MaxRequests before it is stale.
KeptInv ==
  /\ Len(stamps) <= MaxRequests /\ Len(stamps) <= Len(passed)
  /\ \A i \in 1..Len(stamps) : stamps[i] = passed[Len(passed) - Len(stamps) + i]
  /\ \A j \in 1..(Len(passed) - Len(stamps)) : Stale(passed[j], RateWindow, moment)

PassedInv ==
  /\ \A j, k \in 1..Len(passed) : j <= k => passed[j] <= passed[k]
  /\ \A k \in 1..Len(passed) : passed[k] <= moment
  /\ \A j \in 1..Len(passed) : j + MaxRequests <= Len(passed) =>
                              Stale(passed[j], RateWindow, passed[j + MaxRequests])

RefusedInv ==
  answer.is = "refuse" =>
    /\ Len(stamps) = MaxRequests /\ ~Stale(stamps[1], RateWindow, moment)
    /\ answer.retry = RetryAfter(stamps)

RateTypes ==
  /\ moment \in Nat /\ stamps \in Seq(Nat) /\ passed \in Seq(Nat)
  /\ answer \in [is: {"none", "pass", "refuse"}, retry: Nat]

RateInv == RateTypes /\ KeptInv /\ PassedInv /\ RefusedInv

LEMMA RateInvInit == RateInit => RateInv
<1> SUFFICES ASSUME RateInit PROVE RateInv
  OBVIOUS
<1>1. Len(<<>>) = 0 /\ <<>> \in Seq(Nat)
  OBVIOUS
<1> QED
  BY <1>1, RateLimitAssumption DEF RateInit, RateInv, RateTypes, KeptInv, PassedInv, RefusedInv

\* What the window keeps when a request comes.
LEMMA KeptIs ==
  ASSUME RateInv
  PROVE  /\ Kept \in Seq(Nat) /\ Len(Kept) <= MaxRequests /\ Len(Kept) <= Len(passed)
         /\ \A i \in 1..Len(Kept) : Kept[i] = passed[Len(passed) - Len(Kept) + i]
         /\ \A j \in 1..(Len(passed) - Len(Kept)) : Stale(passed[j], RateWindow, moment)
         /\ Kept # <<>> => ~Stale(Kept[1], RateWindow, moment)
<1>1. /\ moment \in Nat /\ stamps \in Seq(Nat) /\ passed \in Seq(Nat)
      /\ RateWindow \in Nat /\ MaxRequests \in Nat
  BY RateLimitAssumption DEF RateInv, RateTypes
<1>2. PICK d \in 0..Len(stamps) :
           /\ Kept \in Seq(Nat) /\ Len(Kept) = Len(stamps) - d
           /\ \A i \in 1..(Len(stamps) - d) : Kept[i] = stamps[i + d]
           /\ \A j \in 1..d : Stale(stamps[j], RateWindow, moment)
           /\ d < Len(stamps) => ~Stale(stamps[d + 1], RateWindow, moment)
  BY <1>1, PruneIs DEF Kept
<1> DEFINE n == Len(passed)  l == Len(stamps)
<1>3. n \in Nat /\ l \in Nat
  BY <1>1, LenProperties
<1>4. l <= MaxRequests /\ l <= n
      /\ (\A i \in 1..l : stamps[i] = passed[n - l + i])
      /\ (\A j \in 1..(n - l) : Stale(passed[j], RateWindow, moment))
  BY DEF RateInv, KeptInv
<1>5. \A i \in 1..Len(Kept) : Kept[i] = passed[n - Len(Kept) + i]
  <2> SUFFICES ASSUME NEW i \in 1..Len(Kept) PROVE Kept[i] = passed[n - Len(Kept) + i]
    OBVIOUS
  <2>1. Kept[i] = stamps[i + d] /\ i + d \in 1..l
    BY <1>2, <1>3
  <2>2. stamps[i + d] = passed[n - l + (i + d)]
    BY <1>4, <2>1
  <2>3. n - l + (i + d) = n - Len(Kept) + i
    <3>1. Len(Kept) = l - d /\ d \in Nat /\ i \in Nat
      BY <1>2, <1>3
    <3> QED
      BY <1>3, <3>1
  <2> QED
    BY <2>1, <2>2, <2>3
<1>6. ASSUME NEW j \in 1..(n - Len(Kept)) PROVE Stale(passed[j], RateWindow, moment)
  <2>1. CASE j <= n - l
    BY <1>3, <1>4, <2>1
  <2>2. CASE j > n - l
    <3>1. j - (n - l) \in 1..d
      BY <1>2, <1>3, <2>2
    <3>2. stamps[j - (n - l)] = passed[j]
      BY <1>2, <1>3, <1>4, <3>1
    <3> QED
      BY <1>2, <3>1, <3>2
  <2> QED
    BY <1>2, <1>3, <2>1, <2>2
<1>7. Kept # <<>> => ~Stale(Kept[1], RateWindow, moment)
  <2> SUFFICES ASSUME Kept # <<>> PROVE ~Stale(Kept[1], RateWindow, moment)
    OBVIOUS
  <2>1. Len(Kept) # 0
    BY <1>2, EmptySeq
  <2> QED
    BY <1>2, <1>3, <2>1
<1>8. Len(Kept) <= MaxRequests /\ Len(Kept) <= n
  <2>1. Len(Kept) = l - d /\ l <= MaxRequests /\ l <= n
    BY <1>2, <1>4
  <2> QED
    BY <1>1, <1>3, <2>1
<1> HIDE DEF n, l
<1> QED
  BY <1>2, <1>5, <1>6, <1>7, <1>8 DEF n

LEMMA RateInvNext == RateInv /\ [RateNext]_rateVars => RateInv'
<1> SUFFICES ASSUME RateInv, [RateNext]_rateVars PROVE RateInv'
  OBVIOUS
<1> DEFINE n == Len(passed)
<1>1. /\ moment \in Nat /\ stamps \in Seq(Nat) /\ passed \in Seq(Nat) /\ n \in Nat
      /\ RateWindow \in Nat /\ MaxRequests \in Nat \ {0} /\ Second \in Nat \ {0}
      /\ Len(stamps) \in Nat
  BY RateLimitAssumption, LenProperties DEF RateInv, RateTypes
<1>2. \A k \in 1..n : passed[k] \in Nat
  BY <1>1
<1>3. CASE Pass
  <2> DEFINE m == Len(Kept)
  <2>1. /\ Kept \in Seq(Nat) /\ m \in Nat /\ m < MaxRequests /\ m <= n
        /\ \A i \in 1..m : Kept[i] = passed[n - m + i]
        /\ \A j \in 1..(n - m) : Stale(passed[j], RateWindow, moment)
    BY <1>3, KeptIs, LenProperties DEF Pass
  <2>2. /\ stamps' \in Seq(Nat) /\ Len(stamps') = m + 1 /\ stamps'[m + 1] = moment
        /\ \A i \in 1..m : stamps'[i] = Kept[i]
    BY <1>1, <1>3, <2>1, AppendProperties DEF Pass
  <2>3. /\ passed' \in Seq(Nat) /\ Len(passed') = n + 1 /\ passed'[n + 1] = moment
        /\ \A k \in 1..n : passed'[k] = passed[k]
    BY <1>1, <1>3, AppendProperties DEF Pass
  <2>4. moment' = moment /\ answer' = [is |-> "pass", retry |-> 0]
    BY <1>3 DEF Pass
  <2> HIDE DEF m, n
  <2>5. KeptInv'
    <3>1. Len(stamps') <= MaxRequests /\ Len(stamps') <= Len(passed')
      BY <1>1, <2>1, <2>2, <2>3
    <3>2. ASSUME NEW i \in 1..(m + 1) PROVE stamps'[i] = passed'[(n + 1) - (m + 1) + i]
      <4>1. CASE i = m + 1
        BY <1>1, <2>1, <2>2, <2>3, <4>1
      <4>2. CASE i \in 1..m
        BY <1>1, <2>1, <2>2, <2>3, <4>2
      <4> QED
        BY <2>1, <4>1, <4>2
    <3>3. ASSUME NEW j \in 1..((n + 1) - (m + 1)) PROVE Stale(passed'[j], RateWindow, moment')
      BY <1>1, <2>1, <2>3, <2>4
    <3> QED
      BY <2>2, <2>3, <3>1, <3>2, <3>3 DEF KeptInv
  <2>6. PassedInv'
    <3>1. /\ \A j, k \in 1..n : j <= k => passed[j] <= passed[k]
          /\ \A k \in 1..n : passed[k] <= moment
          /\ \A j \in 1..n : j + MaxRequests <= n => Stale(passed[j], RateWindow, passed[j + MaxRequests])
      BY DEF RateInv, PassedInv, n
    <3>2. \A j, k \in 1..(n + 1) : j <= k => passed'[j] <= passed'[k]
      <4> SUFFICES ASSUME NEW j \in 1..(n + 1), NEW k \in 1..(n + 1), j <= k
                   PROVE  passed'[j] <= passed'[k]
        OBVIOUS
      <4>1. CASE k \in 1..n
        BY <1>1, <2>3, <3>1, <4>1
      <4>2. CASE k = n + 1 /\ j \in 1..n
        BY <1>1, <2>3, <3>1, <4>2
      <4>3. CASE k = n + 1 /\ j = n + 1
        BY <1>1, <2>3, <4>3
      <4> QED
        BY <1>1, <4>1, <4>2, <4>3
    <3>3. \A k \in 1..(n + 1) : passed'[k] <= moment'
      BY <1>1, <2>3, <2>4, <3>1
    <3>4. ASSUME NEW j \in 1..(n + 1), j + MaxRequests <= n + 1
          PROVE  Stale(passed'[j], RateWindow, passed'[j + MaxRequests])
      <4>1. CASE j + MaxRequests <= n
        BY <1>1, <2>3, <3>1, <4>1
      <4>2. CASE j + MaxRequests = n + 1
        <5>1. j \in 1..(n - m)
          BY <1>1, <2>1, <4>2
        <5>2. Stale(passed[j], RateWindow, moment) /\ passed'[j] = passed[j]
          BY <1>1, <2>1, <2>3, <5>1
        <5> QED
          BY <2>3, <4>2, <5>2
      <4> QED
        BY <1>1, <3>4, <4>1, <4>2
    <3> QED
      BY <2>3, <3>2, <3>3, <3>4 DEF PassedInv
  <2> QED
    BY <1>1, <2>2, <2>3, <2>4, <2>5, <2>6 DEF RateInv, RateTypes, RefusedInv
<1>4. CASE Refuse
  <2>1. /\ Kept \in Seq(Nat) /\ Len(Kept) = MaxRequests /\ Kept # <<>>
        /\ ~Stale(Kept[1], RateWindow, moment)
    BY <1>1, <1>4, KeptIs, LenProperties DEF Refuse
  <2>2. stamps' = Kept /\ moment' = moment /\ passed' = passed
        /\ answer' = [is |-> "refuse", retry |-> RetryAfter(Kept)]
    BY <1>4 DEF Refuse
  <2>3. RetryAfter(Kept) \in Nat
    <3>1. Head(Kept) \in Nat /\ Head(Kept) = Kept[1]
      BY <2>1
    <3>2. (Head(Kept) + RateWindow) - moment \in Nat
      BY <1>1, <2>1, <3>1 DEF Stale
    <3> QED
      BY <1>1, <3>2 DEF RetryAfter
  <2>4. KeptInv'
    BY <2>2, KeptIs DEF KeptInv
  <2>5. PassedInv'
    BY <2>2 DEF RateInv, PassedInv
  <2>6. RefusedInv' /\ RateTypes'
    BY <1>1, <2>1, <2>2, <2>3 DEF RefusedInv, RateTypes, RetryAfter
  <2> QED
    BY <2>4, <2>5, <2>6 DEF RateInv
<1>5. CASE MomentPasses
  <2>1. moment' = moment + 1 /\ stamps' = stamps /\ passed' = passed
        /\ answer' = [is |-> "none", retry |-> 0]
    BY <1>5 DEF MomentPasses
  <2>2. KeptInv'
    BY <1>1, <1>2, <2>1 DEF RateInv, KeptInv, Stale
  <2>3. PassedInv'
    BY <1>1, <1>2, <2>1 DEF RateInv, PassedInv
  <2> QED
    BY <1>1, <2>1, <2>2, <2>3 DEF RateInv, RateTypes, RefusedInv
<1>6. CASE UNCHANGED rateVars
  BY <1>6 DEF rateVars, RateInv, RateTypes, KeptInv, PassedInv, RefusedInv, RetryAfter
<1> QED
  BY <1>3, <1>4, <1>5, <1>6 DEF RateNext

\* Type correctness: in particular, no timestamp is of a moment yet to come.
THEOREM SpecRateTypeOK == RateSpec => []RateTypeOK
<1>1. RateInv => RateTypeOK
  <2> SUFFICES ASSUME RateInv PROVE RateTypeOK
    OBVIOUS
  <2>1. /\ moment \in Nat /\ stamps \in Seq(Nat) /\ passed \in Seq(Nat)
        /\ Len(stamps) \in Nat /\ Len(passed) \in Nat /\ Len(stamps) <= Len(passed)
    BY LenProperties DEF RateInv, RateTypes, KeptInv
  <2>2. \A k \in 1..Len(passed) : passed[k] \in 0..moment
    BY <2>1 DEF RateInv, PassedInv
  <2>3. ASSUME NEW i \in 1..Len(stamps) PROVE stamps[i] \in 0..moment
    <3>1. Len(passed) - Len(stamps) + i \in 1..Len(passed)
      BY <2>1
    <3>2. stamps[i] = passed[Len(passed) - Len(stamps) + i]
      BY DEF RateInv, KeptInv
    <3> QED
      BY <2>2, <3>1, <3>2
  <2>4. stamps \in [1..Len(stamps) -> 0..moment] /\ passed \in [1..Len(passed) -> 0..moment]
    BY <2>1, <2>2, <2>3, LenProperties
  <2>5. stamps \in Seq(0..moment) /\ passed \in Seq(0..moment)
    <3> DEFINE M == 0..moment
    <3> HIDE DEF M
    <3>1. stamps \in [1..Len(stamps) -> M] /\ passed \in [1..Len(passed) -> M]
      BY <2>4 DEF M
    <3>2. Seq(M) = UNION {[1..n -> M] : n \in Nat}
      BY SeqDef
    <3>3. stamps \in Seq(M) /\ passed \in Seq(M)
      BY <2>1, <3>1, <3>2, Zenon
    <3> QED
      BY <3>3 DEF M
  <2> QED
    BY <2>1, <2>5 DEF RateTypeOK, RateInv, RateTypes
<1> QED
  BY <1>1, RateInvInit, RateInvNext, PTL DEF RateSpec

\* The requests that passed in a window are at most MaxRequests in a row.
LEMMA WindowBounded ==
  ASSUME RateInv, NEW m \in Nat
  PROVE  IsFiniteSet(PassedIn(m)) /\ Cardinality(PassedIn(m)) \in Nat /\ Cardinality(PassedIn(m)) <= MaxRequests
<1> DEFINE n == Len(passed)  S == PassedIn(m)
<1>1. /\ moment \in Nat /\ passed \in Seq(Nat) /\ n \in Nat
      /\ RateWindow \in Nat /\ MaxRequests \in Nat \ {0}
  BY RateLimitAssumption, LenProperties DEF RateInv, RateTypes
<1>2. CASE S = {}
  BY <1>1, <1>2, FS_EmptySet
<1>3. CASE S # {}
  <2>1. S \in SUBSET Nat /\ S \subseteq 1..n
    BY <1>1 DEF PassedIn
  <2>2. PICK a \in S : \A b \in S : a <= b
    BY <1>3, <2>1, LeastNumber
  <2>3. ASSUME NEW b \in S PROVE b <= a + MaxRequests - 1
    <3> SUFFICES ASSUME b > a + MaxRequests - 1 PROVE FALSE
      BY <1>1, <2>1
    <3>1. a \in 1..n /\ b \in 1..n /\ a + MaxRequests \in 1..n /\ a + MaxRequests <= b
      BY <1>1, <2>1
    <3>2. /\ passed[a] + RateWindow < passed[a + MaxRequests]
          /\ passed[a + MaxRequests] <= passed[b]
      BY <3>1 DEF RateInv, PassedInv, Stale
    <3>3. passed[b] <= m /\ m <= passed[a] + RateWindow
      BY DEF PassedIn
    <3>4. /\ passed[a] \in Nat /\ passed[b] \in Nat /\ passed[a + MaxRequests] \in Nat
      BY <1>1, <3>1
    <3>5. \A p, q, r, w \in Nat : p + w < r /\ r <= q => ~(q <= m /\ m <= p + w)
      OBVIOUS
    <3> QED
      BY <1>1, <3>2, <3>3, <3>4, <3>5
  <2>4. S \subseteq a..(a + MaxRequests - 1)
    BY <1>1, <2>1, <2>2, <2>3
  <2>5. IsFiniteSet(a..(a + MaxRequests - 1)) /\ Cardinality(a..(a + MaxRequests - 1)) = MaxRequests
    <3>1. a \in Int /\ a + MaxRequests - 1 \in Int /\ ~(a > a + MaxRequests - 1)
          /\ (a + MaxRequests - 1) - a + 1 = MaxRequests
      BY <1>1, <2>1, <2>2
    <3> QED
      BY <3>1, FS_Interval
  <2> HIDE DEF S
  <2>6. IsFiniteSet(S) /\ Cardinality(S) <= MaxRequests /\ Cardinality(S) \in Nat
    BY <2>4, <2>5, FS_Subset, FS_CardinalityType
  <2> QED
    BY <2>6 DEF S
<1> QED
  BY <1>2, <1>3

\* What passed in the window of a request that was refused: the last MaxRequests.
LEMMA RefusedIs ==
  ASSUME RateInv, answer.is = "refuse"
  PROVE  /\ Len(passed) - MaxRequests \in Nat
         /\ PassedIn(moment) = (Len(passed) - MaxRequests + 1)..Len(passed)
         /\ passed[Len(passed) - MaxRequests + 1] = stamps[1]
         /\ Cardinality(PassedIn(moment)) = MaxRequests
<1> DEFINE n == Len(passed)  a == n - MaxRequests + 1
<1>1. /\ moment \in Nat /\ passed \in Seq(Nat) /\ n \in Nat
      /\ RateWindow \in Nat /\ MaxRequests \in Nat \ {0}
  BY RateLimitAssumption, LenProperties DEF RateInv, RateTypes
<1>2. /\ Len(stamps) = MaxRequests /\ ~Stale(stamps[1], RateWindow, moment)
      /\ MaxRequests <= n /\ stamps[1] = passed[n - MaxRequests + 1]
      /\ \A j \in 1..(n - MaxRequests) : Stale(passed[j], RateWindow, moment)
  <2>1. Len(stamps) = MaxRequests /\ ~Stale(stamps[1], RateWindow, moment)
    BY DEF RateInv, RefusedInv
  <2>2. /\ Len(stamps) <= n /\ \A i \in 1..Len(stamps) : stamps[i] = passed[n - Len(stamps) + i]
        /\ \A j \in 1..(n - Len(stamps)) : Stale(passed[j], RateWindow, moment)
    BY DEF RateInv, KeptInv
  <2> QED
    BY <1>1, <2>1, <2>2
<1>3. a \in 1..n /\ passed[a] \in Nat /\ moment <= passed[a] + RateWindow
  BY <1>1, <1>2 DEF Stale
<1>4. ASSUME NEW k \in 1..n PROVE k \in PassedIn(moment) <=> k \in a..n
  <2>1. passed[k] \in Nat /\ passed[k] <= moment
    BY <1>1 DEF RateInv, PassedInv
  <2>2. CASE k < a
    <3>1. k \in 1..(n - MaxRequests)
      BY <1>1, <2>2
    <3>2. passed[k] + RateWindow < moment
      BY <1>2, <3>1 DEF Stale
    <3> QED
      BY <1>1, <2>1, <2>2, <3>2 DEF PassedIn
  <2>3. CASE k >= a
    <3>1. passed[a] <= passed[k]
      BY <1>3, <2>3 DEF RateInv, PassedInv
    <3>2. moment <= passed[k] + RateWindow
      BY <1>1, <1>3, <2>1, <3>1
    <3> QED
      BY <1>1, <2>1, <2>3, <3>2 DEF PassedIn
  <2> QED
    BY <1>1, <2>2, <2>3
<1>5. PassedIn(moment) \subseteq 1..n /\ a..n \subseteq 1..n
  BY <1>1, <1>3 DEF PassedIn
<1>6. PassedIn(moment) = a..n
  BY <1>4, <1>5
<1>7. Cardinality(a..n) = MaxRequests
  BY <1>1, <1>3, FS_Interval
<1> QED
  BY <1>1, <1>2, <1>6, <1>7

\* No window lets more than the maximum pass, and only a full one refuses: for any
\* length of the window, any maximum and any arrival of requests.
THEOREM SpecWindowHolds == RateSpec => []WindowHolds
<1>1. RateInv => WindowHolds
  <2> SUFFICES ASSUME RateInv PROVE WindowHolds
    OBVIOUS
  <2>1. \A m \in 0..moment : Cardinality(PassedIn(m)) <= MaxRequests
    BY WindowBounded
  <2> QED
    BY <2>1, RefusedIs DEF WindowHolds
<1> QED
  BY <1>1, RateInvInit, RateInvNext, PTL DEF RateSpec

\* A quotient is as close below the number as the divisor.
LEMMA Quotient ==
  ASSUME NEW x \in Nat, NEW y \in Nat \ {0}
  PROVE  x \div y \in Nat /\ (x \div y) * y <= x /\ x < (x \div y + 1) * y
  OBVIOUS

\* Those of a refused request's window that are still in it at m
Left(m) == {k \in PassedIn(moment) : m <= passed[k] + RateWindow}

\* A place is free the moment after the oldest timestamp leaves the window.
LEMMA FreeAfterOldest ==
  ASSUME RateInv, answer.is = "refuse"
  PROVE  LET e == stamps[1] + RateWindow + 1
         IN /\ e \in moment..(moment + RateWindow + 1) /\ e > moment
            /\ Cardinality(Left(e)) < MaxRequests
            /\ \A m \in moment..(e - 1) : Cardinality(Left(m)) = MaxRequests
<1> DEFINE n == Len(passed)  a == n - MaxRequests + 1  e == stamps[1] + RateWindow + 1
<1>1. /\ moment \in Nat /\ passed \in Seq(Nat) /\ n \in Nat
      /\ RateWindow \in Nat /\ MaxRequests \in Nat \ {0}
  BY RateLimitAssumption, LenProperties DEF RateInv, RateTypes
<1>2. /\ n - MaxRequests \in Nat /\ PassedIn(moment) = a..n /\ passed[a] = stamps[1]
      /\ Cardinality(PassedIn(moment)) = MaxRequests
  BY RefusedIs
<1>3. a \in PassedIn(moment) /\ a \in 1..n
  BY <1>1, <1>2
<1>4. stamps[1] \in Nat /\ stamps[1] <= moment /\ moment <= stamps[1] + RateWindow
  BY <1>1, <1>2, <1>3 DEF PassedIn
<1>5. e \in moment..(moment + RateWindow + 1) /\ e > moment
  BY <1>1, <1>4
<1>6. IsFiniteSet(PassedIn(moment))
  BY <1>1, WindowBounded
<1>7. Cardinality(Left(e)) < MaxRequests
  <2>1. a \notin Left(e)
    BY <1>1, <1>2, <1>4 DEF Left
  <2>2. Left(e) \subseteq PassedIn(moment) \ {a}
    BY <2>1 DEF Left
  <2>3. /\ IsFiniteSet(PassedIn(moment) \ {a})
        /\ Cardinality(PassedIn(moment) \ {a}) = MaxRequests - 1
    <3> HIDE DEF a, n
    <3> QED
      BY <1>2, <1>3, <1>6, FS_RemoveElement
  <2>4. Cardinality(Left(e)) <= MaxRequests - 1 /\ Cardinality(Left(e)) \in Nat
    BY <2>2, <2>3, FS_Subset, FS_CardinalityType
  <2> QED
    BY <1>1, <2>4
<1>8. ASSUME NEW m \in moment..(e - 1) PROVE Cardinality(Left(m)) = MaxRequests
  <2>1. ASSUME NEW k \in PassedIn(moment) PROVE m <= passed[k] + RateWindow
    <3>1. k \in 1..n /\ a <= k
      BY <1>1, <1>2
    <3>2. passed[a] <= passed[k] /\ passed[a] \in Nat /\ passed[k] \in Nat
      <4>1. \A i, j \in 1..n : i <= j => passed[i] <= passed[j]
        BY DEF RateInv, PassedInv
      <4> HIDE DEF a
      <4> QED
        BY <1>1, <1>3, <3>1, <4>1
    <3>3. stamps[1] \in Nat /\ stamps[1] <= passed[k] /\ passed[k] \in Nat
      BY <1>2, <3>2
    <3>4. m \in Nat /\ m <= stamps[1] + RateWindow
      BY <1>1, <1>4
    <3> QED
      BY <1>1, <3>3, <3>4
  <2>2. Left(m) = PassedIn(moment)
    BY <2>1 DEF Left
  <2> QED
    BY <1>2, <2>2
<1> QED
  BY <1>5, <1>7, <1>8

\* A refused client is told to wait for a free place, cut to whole seconds.
THEOREM SpecRetryIsClose == RateSpec => []RetryIsClose
<1>1. RateInv => RetryIsClose
  <2> SUFFICES ASSUME RateInv, answer.is = "refuse" PROVE RetryIsClose
    BY DEF RetryIsClose
  <2> DEFINE e == stamps[1] + RateWindow + 1
             P(m) == /\ Cardinality(Left(m)) < MaxRequests
                     /\ \A k \in moment..(m - 1) : Cardinality(Left(k)) = MaxRequests
             free == CHOOSE m \in moment..(moment + RateWindow + 1) : P(m)
             wait == free - moment
  <2>1. /\ moment \in Nat /\ RateWindow \in Nat /\ MaxRequests \in Nat /\ Second \in Nat \ {0}
        /\ stamps \in Seq(Nat) /\ Len(stamps) = MaxRequests /\ MaxRequests # 0
        /\ answer.retry = RetryAfter(stamps) /\ ~Stale(stamps[1], RateWindow, moment)
    BY RateLimitAssumption DEF RateInv, RateTypes, RefusedInv
  <2>2. e \in moment..(moment + RateWindow + 1) /\ P(e) /\ e > moment
    BY FreeAfterOldest
  <2>3. \A m \in moment..(moment + RateWindow + 1) : P(m) => m = e
    BY <2>1, <2>2
  <2>4. free = e
    <3> HIDE DEF P, e
    <3> QED
      BY <2>2, <2>3, Zenon
  <2>5. Head(stamps) = stamps[1] /\ stamps[1] \in Nat
    BY <2>1
  <2> DEFINE x == (stamps[1] + RateWindow) - moment
             q == x \div Second
  <2>6. x \in Nat
    BY <2>1, <2>5 DEF Stale
  <2>7. answer.retry = IF q > 1 THEN q ELSE 1
    BY <2>1, <2>5 DEF RetryAfter
  <2>8. q \in Nat /\ q * Second <= x /\ x < (q + 1) * Second
    BY <2>1, <2>6, Quotient
  <2>9. wait = x + 1
    <3> HIDE DEF free
    <3> QED
      BY <2>1, <2>4, <2>5
  <2> HIDE DEF x, q, wait
  <2>10. wait <= (answer.retry + 1) * Second /\ (answer.retry > 1 => answer.retry * Second < wait)
    <3>1. CASE q > 1
      BY <2>1, <2>6, <2>7, <2>8, <2>9, <3>1
    <3>2. CASE q = 1
      BY <2>1, <2>6, <2>7, <2>8, <2>9, <3>2
    <3>3. CASE q = 0
      BY <2>1, <2>6, <2>7, <2>8, <2>9, <3>3
    <3> QED
      BY <2>8, <3>1, <3>2, <3>3
  <2> QED
    BY <2>10 DEF RetryIsClose, wait, Left
<1> QED
  BY <1>1, RateInvInit, RateInvNext, PTL DEF RateSpec
-----------------------------------------------------------------------------
(* AiExpansion: the semaphore                                                  *)

\* w is a queue of those in S, once each.
Lined(w, S) == w \in Seq(AiTasks) /\ IsInjective(w) /\ ToSet(w) = S

LEMMA LinedIndex ==
  ASSUME NEW w \in Seq(AiTasks), NEW S
  PROVE  Lined(w, S) <=> /\ \A i, j \in 1..Len(w) : w[i] = w[j] => i = j
                         /\ \A i \in 1..Len(w) : w[i] \in S
                         /\ \A x \in S : \E i \in 1..Len(w) : w[i] = x
<1>1. DOMAIN w = 1..Len(w)
  OBVIOUS
<1>2. IsInjective(w) <=> \A i, j \in 1..Len(w) : w[i] = w[j] => i = j
  BY <1>1 DEF IsInjective
<1>3. ToSet(w) = S <=> /\ \A i \in 1..Len(w) : w[i] \in S
                       /\ \A x \in S : \E i \in 1..Len(w) : w[i] = x
  BY <1>1, Zenon DEF ToSet
<1> QED
  BY <1>2, <1>3 DEF Lined

LEMMA LinedAppend ==
  ASSUME NEW w, NEW S, Lined(w, S), NEW t \in AiTasks, t \notin S
  PROVE  Lined(Append(w, t), S \cup {t})
<1> DEFINE v == Append(w, t)
<1>1. w \in Seq(AiTasks) /\ Len(w) \in Nat
  BY LenProperties DEF Lined
<1>2. /\ \A i, j \in 1..Len(w) : w[i] = w[j] => i = j
      /\ \A i \in 1..Len(w) : w[i] \in S
      /\ \A x \in S : \E i \in 1..Len(w) : w[i] = x
  BY <1>1, LinedIndex
<1>3. /\ v \in Seq(AiTasks) /\ Len(v) = Len(w) + 1 /\ v[Len(w) + 1] = t
      /\ \A i \in 1..Len(w) : v[i] = w[i]
  BY <1>1, AppendProperties
<1> HIDE DEF v
<1>4. \A i, j \in 1..Len(v) : v[i] = v[j] => i = j
  BY <1>1, <1>2, <1>3
<1>5. \A i \in 1..Len(v) : v[i] \in S \cup {t}
  BY <1>1, <1>2, <1>3
<1>6. ASSUME NEW x \in S \cup {t} PROVE \E i \in 1..Len(v) : v[i] = x
  <2>1. CASE x = t
    BY <1>1, <1>3, <2>1
  <2>2. CASE x \in S
    <3>1. PICK i \in 1..Len(w) : w[i] = x
      BY <1>2, <2>2
    <3> QED
      BY <1>1, <1>3, <3>1
  <2> QED
    BY <2>1, <2>2
<1>7. Lined(v, S \cup {t})
  BY <1>3, <1>4, <1>5, <1>6, LinedIndex
<1> QED
  BY <1>7 DEF v

LEMMA LinedTail ==
  ASSUME NEW w, NEW S, Lined(w, S), w # <<>>
  PROVE  Head(w) \in S /\ Head(w) \in AiTasks /\ Lined(Tail(w), S \ {Head(w)})
<1> DEFINE v == Tail(w)
<1>1. w \in Seq(AiTasks) /\ Len(w) \in Nat \ {0}
  BY LenProperties, EmptySeq DEF Lined
<1>2. /\ \A i, j \in 1..Len(w) : w[i] = w[j] => i = j
      /\ \A i \in 1..Len(w) : w[i] \in S
      /\ \A x \in S : \E i \in 1..Len(w) : w[i] = x
  BY <1>1, LinedIndex
<1>3. /\ Head(w) \in AiTasks /\ Head(w) = w[1] /\ v \in Seq(AiTasks) /\ Len(v) = Len(w) - 1
      /\ \A i \in 1..Len(v) : v[i] = w[i + 1]
  BY <1>1, HeadTailProperties
<1> HIDE DEF v
<1>4. \A i, j \in 1..Len(v) : v[i] = v[j] => i = j
  BY <1>1, <1>2, <1>3
<1>5. ASSUME NEW i \in 1..Len(v) PROVE v[i] \in S \ {Head(w)}
  <2>1. i + 1 \in 1..Len(w) /\ 1 \in 1..Len(w) /\ i + 1 # 1
    BY <1>1, <1>3
  <2>2. w[i + 1] # w[1]
    BY <1>2, <2>1
  <2> QED
    BY <1>2, <1>3, <2>1, <2>2
<1>6. ASSUME NEW x \in S \ {Head(w)} PROVE \E i \in 1..Len(v) : v[i] = x
  <2>1. PICK i \in 1..Len(w) : w[i] = x
    BY <1>2
  <2>2. i # 1
    BY <1>3, <2>1
  <2>3. i - 1 \in 1..Len(v) /\ (i - 1) + 1 = i
    BY <1>1, <1>3, <2>2
  <2> QED
    BY <1>3, <2>1, <2>3
<1>7. Head(w) \in S
  BY <1>1, <1>2, <1>3
<1>8. Lined(v, S \ {Head(w)})
  BY <1>3, <1>4, <1>5, <1>6, LinedIndex
<1> QED
  BY <1>3, <1>7, <1>8 DEF v

LEMMA LinedRemove ==
  ASSUME NEW w, NEW S, Lined(w, S), NEW n \in DOMAIN w
  PROVE  Lined(RemoveAt(w, n), S \ {w[n]})
<1> DEFINE l == Len(w)  a == SubSeq(w, 1, n - 1)  b == SubSeq(w, n + 1, l)  v == a \o b
<1>1. w \in Seq(AiTasks) /\ l \in Nat /\ n \in 1..l
  BY LenProperties DEF Lined
<1>2. /\ \A i, j \in 1..l : w[i] = w[j] => i = j
      /\ \A i \in 1..l : w[i] \in S
      /\ \A x \in S : \E i \in 1..l : w[i] = x
  BY <1>1, LinedIndex
<1>3. a \in Seq(AiTasks) /\ Len(a) = n - 1 /\ \A i \in 1..(n - 1) : a[i] = w[i]
  <2>1. \A i \in 1..(n - 1) : w[i] \in AiTasks
    BY <1>1
  <2> QED
    BY <1>1, <2>1
<1>4. b \in Seq(AiTasks) /\ Len(b) = l - n /\ \A i \in 1..(l - n) : b[i] = w[n + i]
  <2>1. \A i \in (n + 1)..l : w[i] \in AiTasks
    BY <1>1
  <2> QED
    BY <1>1, <2>1
<1> HIDE DEF a, b
<1>5. /\ v \in Seq(AiTasks) /\ Len(v) = l - 1
      /\ \A i \in 1..(l - 1) : v[i] = IF i < n THEN w[i] ELSE w[i + 1]
  BY <1>1, <1>3, <1>4
<1> HIDE DEF v, l
<1> DEFINE from(i) == IF i < n THEN i ELSE i + 1
<1>6. /\ \A i \in 1..Len(v) : from(i) \in 1..l /\ from(i) # n /\ v[i] = w[from(i)]
      /\ \A i, j \in 1..Len(v) : from(i) = from(j) => i = j
  BY <1>1, <1>5
<1> HIDE DEF from
<1>7. /\ \A i, j \in 1..Len(v) : v[i] = v[j] => i = j
      /\ \A i \in 1..Len(v) : v[i] \in S \ {w[n]}
  <2>1. \A i, j \in 1..Len(v) : v[i] = v[j] => from(i) = from(j)
    BY <1>2, <1>6
  <2>2. \A i \in 1..Len(v) : w[from(i)] # w[n] /\ w[from(i)] \in S
    BY <1>1, <1>2, <1>6
  <2> QED
    BY <1>6, <2>1, <2>2
<1>8. ASSUME NEW x \in S \ {w[n]} PROVE \E i \in 1..Len(v) : v[i] = x
  <2>1. PICK i \in 1..l : w[i] = x
    BY <1>2
  <2>2. CASE i < n
    <3>1. i \in 1..(l - 1) /\ v[i] = x
      BY <1>1, <1>5, <2>1, <2>2
    <3> QED
      BY <1>5, <3>1
  <2>3. CASE i > n
    <3>1. i - 1 \in 1..(l - 1) /\ v[i - 1] = x
      BY <1>1, <1>5, <2>1, <2>3
    <3> QED
      BY <1>5, <3>1
  <2> QED
    BY <1>1, <2>1, <2>2, <2>3
<1>9. Lined(v, S \ {w[n]})
  BY <1>5, <1>7, <1>8, LinedIndex
<1> QED
  BY <1>9 DEF RemoveAt, v, a, b, l

Queued == {t \in AiTasks : ask[t] \in {"queued", "patient"}}

AiInv == PermitsConserved /\ aiNow <= AiTime

LEMMA AiInvParts ==
  /\ AiInv <=> /\ AiTypeOK /\ aiNow <= AiTime /\ permits + Cardinality(Holding) = MaxConcurrent
               /\ (waiting # <<>> => permits = 0) /\ Lined(waiting, Queued)
  /\ AiInv' <=> /\ AiTypeOK' /\ aiNow' <= AiTime /\ permits' + Cardinality(Holding') = MaxConcurrent
                /\ (waiting' # <<>> => permits' = 0) /\ Lined(waiting', Queued')
  BY DEF AiInv, PermitsConserved, AiTypeOK, Lined, Queued

LEMMA HoldingFinite == /\ IsFiniteSet(Holding) /\ Cardinality(Holding) \in Nat
                       /\ IsFiniteSet(Holding') /\ Cardinality(Holding') \in Nat
<1>1. Holding \subseteq AiTasks /\ Holding' \subseteq AiTasks
  BY DEF Holding
<1> QED
  BY <1>1, AiAssumption, FS_Subset, FS_CardinalityType

\* A request that goes on, as the function that says where each is.
LEMMA ToIs ==
  ASSUME AiTypeOK, NEW t \in AiTasks, NEW pc, To(t, pc)
  PROVE  /\ \A s \in AiTasks : ask'[s] = IF s = t THEN pc ELSE ask[s]
         /\ pc \in {"idle", "quota", "permit", "timed", "untimed", "queued", "patient", "call", "record",
                    "release"} =>
              ask' \in [AiTasks -> {"idle", "quota", "permit", "timed", "untimed", "queued", "patient",
                                   "call", "record", "release"}]
  BY DEF AiTypeOK, To

\* Steps that leave the semaphore alone.
LEMMA SemaphoreRests ==
  ASSUME AiInv, UNCHANGED <<permits, waiting>>, Holding' = Holding, Queued' = Queued, AiTypeOK',
         aiNow' <= AiTime
  PROVE  AiInv'
  BY AiInvParts

\* A request comes to hold a permit that was free, or returns one.
LEMMA PermitMoves ==
  ASSUME AiInv, NEW t \in AiTasks, UNCHANGED waiting, Queued' = Queued, AiTypeOK', aiNow' <= AiTime,
         \/ t \notin Holding /\ Holding' = Holding \cup {t} /\ permits > 0 /\ permits' = permits - 1
         \/ t \in Holding /\ Holding' = Holding \ {t} /\ waiting = <<>> /\ permits' = permits + 1
  PROVE  AiInv'
<1>1. /\ permits \in Nat /\ permits + Cardinality(Holding) = MaxConcurrent /\ Lined(waiting, Queued)
      /\ (waiting # <<>> => permits = 0)
  BY AiInvParts DEF AiTypeOK
<1>2. CASE t \notin Holding /\ Holding' = Holding \cup {t} /\ permits > 0 /\ permits' = permits - 1
  <2>1. Cardinality(Holding') = Cardinality(Holding) + 1
    BY <1>2, HoldingFinite, FS_AddElement
  <2> QED
    BY <1>1, <1>2, <2>1, HoldingFinite, AiInvParts
<1>3. CASE t \in Holding /\ Holding' = Holding \ {t} /\ waiting = <<>> /\ permits' = permits + 1
  <2>1. Cardinality(Holding') = Cardinality(Holding) - 1
    BY <1>3, HoldingFinite, FS_RemoveElement
  <2> QED
    BY <1>1, <1>3, <2>1, HoldingFinite, AiInvParts
<1> QED
  BY <1>2, <1>3

LEMMA LeavesQueueOK ==
  ASSUME AiInv, NEW t \in AiTasks, ask[t] \in {"queued", "patient"}, LeavesQueue(t), To(t, "idle"),
         UNCHANGED <<paid, usage, permits, asks, aiNow>>
  PROVE  AiInv'
<1>1. /\ AiTypeOK /\ aiNow <= AiTime /\ permits + Cardinality(Holding) = MaxConcurrent
      /\ (waiting # <<>> => permits = 0) /\ Lined(waiting, Queued)
  BY AiInvParts
<1>2. PICK i \in DOMAIN waiting : waiting[i] = t /\ waiting' = RemoveAt(waiting, i)
  BY DEF LeavesQueue
<1>3. Lined(waiting', Queued \ {t})
  BY <1>1, <1>2, LinedRemove
<1>4. \A s \in AiTasks : ask'[s] = IF s = t THEN "idle" ELSE ask[s]
  BY <1>1, ToIs
<1>5. Queued' = Queued \ {t} /\ Holding' = Holding
  BY <1>4 DEF Queued, Holding
<1>6. AiTypeOK'
  BY <1>1, <1>3, ToIs DEF AiTypeOK, Lined
<1>7. waiting # <<>>
  BY <1>2
<1> QED
  BY <1>1, <1>3, <1>5, <1>6, <1>7, AiInvParts

LEMMA AiInvInit == AiInit => AiInv
<1> SUFFICES ASSUME AiInit PROVE AiInv
  OBVIOUS
<1>1. Holding = {} /\ Queued = {}
  BY DEF AiInit, Holding, Queued
<1>2. Lined(<<>>, {})
  BY DEF Lined, IsInjective, ToSet
<1>3. AiTypeOK
  BY AiAssumption DEF AiInit, AiTypeOK
<1> QED
  BY <1>1, <1>2, <1>3, FS_EmptySet, AiInvParts, AiAssumption DEF AiInit

LEMMA AiInvNext == AiInv /\ [AiNext]_aiVars => AiInv'
<1> SUFFICES ASSUME AiInv, [AiNext]_aiVars PROVE AiInv'
  OBVIOUS
<1>1. /\ AiTypeOK /\ aiNow <= AiTime /\ permits + Cardinality(Holding) = MaxConcurrent
      /\ (waiting # <<>> => permits = 0) /\ Lined(waiting, Queued)
  BY AiInvParts
<1>2. /\ paid \in BOOLEAN /\ usage \in Seq(0..AiTime) /\ permits \in 0..MaxConcurrent
      /\ waiting \in Seq(AiTasks) /\ asks \in Nat /\ aiNow \in Nat /\ QuotaWindow \in Nat
      /\ MaxConcurrent \in Nat /\ AiTime \in Nat
  BY <1>1, AiAssumption DEF AiTypeOK
<1>3. ASSUME NEW t \in AiTasks, StartExpand(t) \/ CheckQuota(t) \/ LookForPermit(t) \/ ProviderAnswers(t)
      PROVE  AiInv'
  <2>1. PICK pc \in {"idle", "quota", "permit", "timed", "untimed", "record"} :
           To(t, pc) /\ (pc = "record" <=> ask[t] = "call") /\ ask[t] \in {"idle", "quota", "permit", "call"}
    BY <1>3, Zenon DEF StartExpand, CheckQuota, LookForPermit, ProviderAnswers
  <2>2. \A s \in AiTasks : ask'[s] = IF s = t THEN pc ELSE ask[s]
    BY <1>1, <2>1, ToIs
  <2>3. Holding' = Holding /\ Queued' = Queued
    BY <2>1, <2>2 DEF Holding, Queued
  <2>4. UNCHANGED <<paid, usage, permits, waiting, aiNow>> /\ asks' \in Nat
    BY <1>2, <1>3 DEF StartExpand, CheckQuota, LookForPermit, ProviderAnswers
  <2>5. AiTypeOK'
    BY <1>1, <2>1, <2>4, ToIs DEF AiTypeOK
  <2> QED
    BY <1>1, <2>3, <2>4, <2>5, SemaphoreRests
<1>4. ASSUME NEW t \in AiTasks, Acquire(t)
      PROVE  AiInv'
  <2>1. UNCHANGED <<paid, usage, asks, aiNow>> /\ ask[t] \in {"timed", "untimed"}
    BY <1>4 DEF Acquire
  <2>2. CASE permits > 0
    <3>1. permits' = permits - 1 /\ To(t, "call") /\ UNCHANGED waiting
      BY <1>4, <2>2 DEF Acquire
    <3>2. \A s \in AiTasks : ask'[s] = IF s = t THEN "call" ELSE ask[s]
      BY <1>1, <3>1, ToIs
    <3>3. t \notin Holding /\ Holding' = Holding \cup {t} /\ Queued' = Queued
      BY <2>1, <3>2 DEF Holding, Queued
    <3>4. AiTypeOK'
      BY <1>1, <1>2, <2>1, <2>2, <3>1, ToIs DEF AiTypeOK
    <3> QED
      BY <1>1, <2>1, <2>2, <3>1, <3>3, <3>4, PermitMoves
  <2>3. CASE permits = 0
    <3>1. PICK pc \in {"queued", "patient"} : To(t, pc)
      BY <1>4, <2>3 DEF Acquire
    <3>2. \A s \in AiTasks : ask'[s] = IF s = t THEN pc ELSE ask[s]
      BY <1>1, <3>1, ToIs
    <3>3. Holding' = Holding /\ Queued' = Queued \cup {t} /\ t \notin Queued
      BY <2>1, <3>1, <3>2 DEF Holding, Queued
    <3>4. waiting' = Append(waiting, t) /\ permits' = permits
      BY <1>4, <2>3 DEF Acquire
    <3>5. Lined(waiting', Queued')
      BY <1>1, <3>3, <3>4, LinedAppend
    <3>6. AiTypeOK'
      BY <1>1, <2>1, <3>1, <3>4, <3>5, ToIs DEF AiTypeOK, Lined
    <3> QED
      BY <1>1, <2>1, <2>3, <3>3, <3>4, <3>5, <3>6, AiInvParts
  <2> QED
    BY <1>2, <2>2, <2>3
<1>5. ASSUME NEW t \in AiTasks, RecordUsage(t)
      PROVE  AiInv'
  <2>1. UNCHANGED <<paid, permits, waiting, asks, aiNow>> /\ ask[t] = "record" /\ To(t, "release")
        /\ usage' = Append(Prune(usage, QuotaWindow, aiNow), aiNow)
    BY <1>5 DEF RecordUsage
  <2>2. \A s \in AiTasks : ask'[s] = IF s = t THEN "release" ELSE ask[s]
    BY <1>1, <2>1, ToIs
  <2>3. Holding' = Holding /\ Queued' = Queued
    BY <2>1, <2>2 DEF Holding, Queued
  <2>4. usage' \in Seq(0..AiTime)
    <3>1. aiNow \in 0..AiTime /\ 0..AiTime \in SUBSET Nat
      BY <1>1, <1>2
    <3> QED
      BY <1>2, <2>1, <3>1, PruneAppendCount
  <2>5. AiTypeOK'
    BY <1>1, <2>1, <2>4, ToIs DEF AiTypeOK
  <2> QED
    BY <1>1, <2>1, <2>3, <2>5, SemaphoreRests
<1>6. ASSUME NEW t \in AiTasks, DropPermit(t)
      PROVE  AiInv'
  <2>1. UNCHANGED <<paid, usage, asks, aiNow>> /\ ask[t] \in {"call", "release"} /\ GiveBack(t)
    BY <1>6 DEF DropPermit
  <2>2. CASE waiting = <<>>
    <3>1. permits' = permits + 1 /\ UNCHANGED waiting /\ To(t, "idle")
      BY <2>1, <2>2 DEF GiveBack
    <3>2. \A s \in AiTasks : ask'[s] = IF s = t THEN "idle" ELSE ask[s]
      BY <1>1, <3>1, ToIs
    <3>3. t \in Holding /\ Holding' = Holding \ {t} /\ Queued' = Queued
      BY <2>1, <3>2 DEF Holding, Queued
    <3>4. Cardinality(Holding) # 0
      BY <3>3, HoldingFinite, FS_EmptySet
    <3>5. permits + 1 <= MaxConcurrent
      BY <1>1, <1>2, <3>4, HoldingFinite
    <3>6. AiTypeOK'
      BY <1>1, <1>2, <2>1, <3>1, <3>5, ToIs DEF AiTypeOK
    <3> QED
      BY <1>1, <2>1, <2>2, <3>1, <3>3, <3>6, PermitMoves
  <2>3. CASE waiting # <<>>
    <3> DEFINE h == Head(waiting)
    <3>1. h \in Queued /\ h \in AiTasks /\ Lined(Tail(waiting), Queued \ {h})
      BY <1>1, <2>3, LinedTail
    <3>2. permits' = permits /\ waiting' = Tail(waiting)
          /\ ask' = [ask EXCEPT ![t] = "idle", ![h] = "call"]
      BY <2>1, <2>3 DEF GiveBack
    <3> HIDE DEF h
    <3>3. t # h /\ t \in Holding /\ h \notin Holding
      BY <2>1, <3>1 DEF Queued, Holding
    <3>4. \A s \in AiTasks : ask'[s] = IF s = h THEN "call" ELSE IF s = t THEN "idle" ELSE ask[s]
      BY <1>1, <3>1, <3>2, <3>3 DEF AiTypeOK
    <3>5. Holding' = (Holding \ {t}) \cup {h} /\ Queued' = Queued \ {h}
      BY <2>1, <3>1, <3>3, <3>4 DEF Holding, Queued
    <3>6. Cardinality(Holding') = Cardinality(Holding)
      <4>1. IsFiniteSet(Holding \ {t}) /\ Cardinality(Holding \ {t}) = Cardinality(Holding) - 1
        BY <3>3, HoldingFinite, FS_RemoveElement
      <4>2. Cardinality(Holding') = Cardinality(Holding \ {t}) + 1
        BY <3>3, <3>5, <4>1, FS_AddElement
      <4> QED
        BY <4>1, <4>2, HoldingFinite
    <3>7. ask' \in [AiTasks -> {"idle", "quota", "permit", "timed", "untimed", "queued", "patient",
                               "call", "record", "release"}]
      BY <1>1, <3>1, <3>2 DEF AiTypeOK
    <3>8. AiTypeOK'
      BY <1>1, <2>1, <3>1, <3>2, <3>7 DEF AiTypeOK, Lined
    <3> QED
      BY <1>1, <2>1, <2>3, <3>1, <3>2, <3>5, <3>6, <3>8, AiInvParts
  <2> QED
    BY <2>2, <2>3
<1>7. ASSUME NEW t \in AiTasks, AcquireTimesOut(t) \/ ClientGone(t)
      PROVE  AiInv'
  <2>1. CASE ask[t] = "quota"
    <3>1. UNCHANGED <<paid, usage, permits, waiting, asks, aiNow>> /\ To(t, "idle")
      BY <1>7, <2>1 DEF AcquireTimesOut, ClientGone
    <3>2. \A s \in AiTasks : ask'[s] = IF s = t THEN "idle" ELSE ask[s]
      BY <1>1, <3>1, ToIs
    <3>3. Holding' = Holding /\ Queued' = Queued
      BY <2>1, <3>2 DEF Holding, Queued
    <3>4. AiTypeOK'
      BY <1>1, <3>1, ToIs DEF AiTypeOK
    <3> QED
      BY <1>1, <3>1, <3>3, <3>4, SemaphoreRests
  <2>2. CASE ask[t] \in {"queued", "patient"}
    BY <1>7, <2>2, LeavesQueueOK DEF AcquireTimesOut, ClientGone
  <2> QED
    BY <1>7, <2>1, <2>2 DEF AcquireTimesOut, ClientGone
<1>8. CASE PlanChanges \/ AiTick \/ UNCHANGED aiVars
  <2>1. paid' \in BOOLEAN
    <3>1. paid' = ~paid \/ paid' = paid
      BY <1>8, Zenon DEF PlanChanges, AiTick, aiVars
    <3> QED
      BY <1>2, <3>1, Zenon
  <2>2. UNCHANGED <<usage, permits, waiting, ask, asks>>
    BY <1>8, Zenon DEF PlanChanges, AiTick, aiVars
  <2>3. aiNow' = aiNow \/ (aiNow < AiTime /\ aiNow' = aiNow + 1)
    BY <1>8, Zenon DEF PlanChanges, AiTick, aiVars
  <2>4. aiNow' \in Nat /\ aiNow' <= AiTime
    BY <1>1, <1>2, <2>3
  <2>5. AiTypeOK' /\ Holding' = Holding /\ Queued' = Queued
    BY <1>1, <2>1, <2>2, <2>4 DEF AiTypeOK, Holding, Queued
  <2> QED
    BY <2>2, <2>4, <2>5, SemaphoreRests
<1> QED
  BY <1>3, <1>4, <1>5, <1>6, <1>7, <1>8 DEF AiNext, Expand

\* Permits are neither lost nor made, and the queue is exactly who waits, in whatever
\* order requests come, time out, are abandoned and end.
THEOREM SpecPermitsConserved == AiSpec => []PermitsConserved
<1>1. AiInv => PermitsConserved
  BY DEF AiInv
<1> QED
  BY <1>1, AiInvInit, AiInvNext, PTL DEF AiSpec

(* AiExpansion: the quota                                                      *)

\* What a step that uses nothing and makes no promise does to the quota.
LEMMA QuotaRests ==
  ASSUME AiInv, UsageInWindow' \in Nat, UsageInWindow' <= UsageInWindow, Promised' \subseteq Promised
  PROVE  [Quota!Next]_(Quota!ctaVars)
<1>1. Promised \in SUBSET AiTasks /\ Promised' \in SUBSET AiTasks
  BY DEF Promised
<1>2. Quota!Release
  BY <1>1 DEF Quota!Release
<1> QED
  BY <1>2 DEF Quota!Next

\* The usage in the window is a number, and that of a later moment no more.
LEMMA UsageIs ==
  ASSUME AiInv
  PROVE  /\ UsageInWindow \in Nat
         /\ usage' = usage /\ aiNow' \in Nat /\ aiNow <= aiNow' =>
              UsageInWindow' \in Nat /\ UsageInWindow' <= UsageInWindow
<1>1. usage \in Seq(Nat) /\ Len(usage) \in Nat /\ aiNow \in Nat /\ QuotaWindow \in Nat
  <2>1. usage \in Seq(0..AiTime) /\ 0..AiTime \subseteq Nat
    BY AiAssumption DEF AiInv, PermitsConserved, AiTypeOK
  <2>2. usage \in Seq(Nat)
    BY <2>1, SeqMonotonic
  <2> QED
    BY <2>2, LenProperties, AiAssumption DEF AiInv, PermitsConserved, AiTypeOK
<1> DEFINE F == Fresh(usage, QuotaWindow, aiNow)
<1>2. IsFiniteSet(F) /\ Cardinality(F) \in Nat
  <2>1. IsFiniteSet(1..Len(usage)) /\ F \subseteq 1..Len(usage)
    BY <1>1, FS_Interval DEF Fresh
  <2> QED
    BY <2>1, FS_Subset, FS_CardinalityType
<1>3. ASSUME usage' = usage, aiNow' \in Nat, aiNow <= aiNow'
      PROVE  UsageInWindow' \in Nat /\ UsageInWindow' <= UsageInWindow
  <2>1. Fresh(usage, QuotaWindow, aiNow)' \subseteq F
    <3>1. \A k \in 1..Len(usage) : usage[k] \in Nat
      BY <1>1
    <3> QED
      BY <1>1, <1>3, <3>1 DEF Fresh, Stale
  <2> HIDE DEF F
  <2>2. Cardinality(Fresh(usage, QuotaWindow, aiNow)') \in Nat
        /\ Cardinality(Fresh(usage, QuotaWindow, aiNow)') <= Cardinality(F)
    BY <1>2, <2>1, FS_Subset, FS_CardinalityType
  <2> QED
    BY <2>2 DEF UsageInWindow, F
<1> QED
  BY <1>2, <1>3 DEF UsageInWindow

LEMMA QuotaStep ==
  ASSUME AiInv, [AiNext]_aiVars
  PROVE  [Quota!Next]_(Quota!ctaVars)
<1>1. /\ AiTypeOK /\ Lined(waiting, Queued) /\ UsageInWindow \in Nat
  BY AiInvParts, UsageIs
<1>2. /\ usage \in Seq(0..AiTime) /\ aiNow \in 0..AiTime /\ QuotaWindow \in Nat /\ AiTime \in Nat
  BY AiAssumption DEF AiInv, PermitsConserved, AiTypeOK
<1>3. ASSUME NEW t \in AiTasks, CheckQuota(t) PROVE [Quota!Next]_(Quota!ctaVars)
  <2>1. UsageInWindow' = UsageInWindow
    BY <1>3 DEF CheckQuota, UsageInWindow
  <2>2. CASE UsageInWindow < Limit
    <3>1. \A s \in AiTasks : ask'[s] = IF s = t THEN "permit" ELSE ask[s]
      BY <1>1, <1>3, <2>2, ToIs DEF CheckQuota
    <3>2. Promised' = Promised \cup {t}
      BY <3>1 DEF Promised
    <3>3. UsageInWindow < PaidQuota
      BY <1>1, <2>2, AiAssumption DEF Limit
    <3>4. Quota!Check(t, AiUser)
      BY <2>1, <3>2, <3>3 DEF Quota!Check
    <3> QED
      BY <3>4 DEF Quota!Next
  <2>3. CASE ~(UsageInWindow < Limit)
    <3>1. To(t, "idle")
      BY <1>3, <2>3, Zenon DEF CheckQuota
    <3>2. \A s \in AiTasks : ask'[s] = IF s = t THEN "idle" ELSE ask[s]
      BY <1>1, <3>1, ToIs
    <3>3. Promised' \subseteq Promised
      BY <3>2 DEF Promised
    <3> QED
      BY <1>1, <2>1, <3>3, QuotaRests
  <2> QED
    BY <2>2, <2>3
<1>4. ASSUME NEW t \in AiTasks, RecordUsage(t) PROVE [Quota!Next]_(Quota!ctaVars)
  <2>1. UsageInWindow' = UsageInWindow + 1
    <3>1. aiNow' = aiNow /\ usage' = Append(Prune(usage, QuotaWindow, aiNow), aiNow)
      BY <1>4 DEF RecordUsage
    <3>2. 0..AiTime \in SUBSET Nat
      BY <1>2
    <3>3. Cardinality(Fresh(usage', QuotaWindow, aiNow)) = Cardinality(Fresh(usage, QuotaWindow, aiNow)) + 1
      BY <1>2, <3>1, <3>2, PruneAppendCount
    <3> QED
      BY <3>1, <3>3 DEF UsageInWindow
  <2>2. \A s \in AiTasks : ask'[s] = IF s = t THEN "release" ELSE ask[s]
    BY <1>1, <1>4, ToIs DEF RecordUsage
  <2>3. t \in Promised /\ Promised' = Promised \ {t}
    BY <1>4, <2>2 DEF RecordUsage, Promised
  <2>4. Quota!Act(t, AiUser)
    BY <2>1, <2>3 DEF Quota!Act
  <2> QED
    BY <2>4 DEF Quota!Next
<1>5. ASSUME NEW t \in AiTasks, StartExpand(t) \/ LookForPermit(t) \/ Acquire(t) \/ ProviderAnswers(t)
                                \/ AcquireTimesOut(t) \/ ClientGone(t)
      PROVE  [Quota!Next]_(Quota!ctaVars)
  <2>1. UNCHANGED <<usage, aiNow>>
    BY <1>5 DEF StartExpand, LookForPermit, Acquire, ProviderAnswers, AcquireTimesOut, ClientGone
  <2>2. PICK pc : To(t, pc) /\ (ask[t] = "idle" => pc = "quota")
                  /\ (ask[t] = "quota" => pc = "idle")
    BY <1>5 DEF StartExpand, LookForPermit, Acquire, ProviderAnswers, AcquireTimesOut, ClientGone
  <2>3. ask[t] \in {"idle", "quota"} \/ t \in Promised
    BY <1>5 DEF StartExpand, LookForPermit, Acquire, ProviderAnswers, AcquireTimesOut, ClientGone, Promised
  <2>4. \A s \in AiTasks : ask'[s] = IF s = t THEN pc ELSE ask[s]
    BY <1>1, <2>2, ToIs
  <2>5. Promised' \subseteq Promised
    BY <2>2, <2>3, <2>4 DEF Promised
  <2> QED
    BY <1>1, <2>1, <2>5, QuotaRests DEF UsageInWindow
<1>6. ASSUME NEW t \in AiTasks, DropPermit(t) PROVE [Quota!Next]_(Quota!ctaVars)
  <2>1. UNCHANGED <<usage, aiNow>> /\ GiveBack(t)
    BY <1>6 DEF DropPermit
  <2>2. Promised' \subseteq Promised
    <3>1. CASE waiting = <<>>
      <4>1. \A s \in AiTasks : ask'[s] = IF s = t THEN "idle" ELSE ask[s]
        BY <1>1, <2>1, <3>1, ToIs DEF GiveBack
      <4> QED
        BY <4>1 DEF Promised
    <3>2. CASE waiting # <<>>
      <4> DEFINE h == Head(waiting)
      <4>1. h \in Queued
        BY <1>1, <3>2, LinedTail
      <4>2. ask' = [ask EXCEPT ![t] = "idle", ![h] = "call"]
        BY <2>1, <3>2 DEF GiveBack
      <4> HIDE DEF h
      <4> QED
        BY <1>1, <4>1, <4>2 DEF AiTypeOK, Queued, Promised
    <3> QED
      BY <3>1, <3>2
  <2> QED
    BY <1>1, <2>1, <2>2, QuotaRests DEF UsageInWindow
<1>7. CASE PlanChanges \/ AiTick \/ UNCHANGED aiVars
  <2>1. usage' = usage /\ Promised' = Promised /\ (aiNow' = aiNow \/ aiNow' = aiNow + 1)
    BY <1>7, Zenon DEF PlanChanges, AiTick, aiVars, Promised
  <2>2. aiNow' \in Nat /\ aiNow <= aiNow'
    BY <1>2, <2>1
  <2> QED
    BY <2>1, <2>2, UsageIs, QuotaRests
<1> QED
  BY <1>3, <1>4, <1>5, <1>6, <1>7 DEF AiNext, Expand

\* The AI quota is a limit that is checked first and used up later, for any number of
\* requests at a time, any quotas and any changes of the plan.
THEOREM SpecQuotaImplements == AiSpec => QuotaImplements
<1>1. AiInit => Quota!Init
  <2> SUFFICES ASSUME AiInit PROVE Quota!Init
    OBVIOUS
  <2>1. Fresh(usage, QuotaWindow, aiNow) = {} /\ Promised = {}
    BY DEF AiInit, Fresh, Promised
  <2>2. UsageInWindow = 0
    BY <2>1, FS_EmptySet DEF UsageInWindow
  <2> QED
    BY <2>1, <2>2, AiAssumption DEF Quota!Init
<1>2. AiInv /\ [AiNext]_aiVars => [Quota!Next]_(Quota!ctaVars)
  BY QuotaStep
<1> QED
  BY <1>1, <1>2, AiInvInit, AiInvNext, PTL DEF AiSpec, QuotaImplements, Quota!Spec
-----------------------------------------------------------------------------
(* Shutdown                                                                    *)

\* Where the shutdown is determines the pool, and what it has waited for: beyond the
\* wait every loop has stopped, unless the wait ran out.
PhaseInv ==
  /\ pool = CASE main = "closing" -> "closing"
              [] main \in {"drain", "exit"} -> "closed"
              [] OTHER -> "open"
  /\ main \in {"pool", "closing", "drain", "exit"} /\ ~timedOut =>
       \A l \in Loops : loop[l].pc = "stopped"
  /\ \A l \in Loops : loop[l].pc = "sleep" => loop[l].attempt < MaxRetries

ProcessInv == ProcessTypeOK /\ PhaseInv
-----------------------------------------------------------------------------
LEMMA InitProcessInv == ProcessInit => ProcessInv
<1> SUFFICES ASSUME ProcessInit PROVE ProcessInv
  OBVIOUS
<1>1. 0 \in 0..MaxRetries /\ 0 \in 0..QueryBound BY ShutdownAssumption
<1>2. ProcessTypeOK BY <1>1 DEF ProcessInit, ProcessTypeOK
<1>3. PhaseInv BY DEF ProcessInit, PhaseInv
<1>4. QED BY <1>2, <1>3 DEF ProcessInv

\* A loop that has stopped takes no further step, and the attempt of a run is one that
\* run_with_retry makes.
LEMMA LoopInv ==
  ASSUME ProcessInv, NEW l \in Loops, LoopStep(l)
  PROVE  ProcessInv'
<1> USE ShutdownAssumption DEF ProcessInv
<1>1. PICK pc \in {"wait", "run", "query", "sleep", "stopped"}, n \in 0..MaxRetries :
        LoopGoes(l, pc, n) /\ (pc = "sleep" => n < MaxRetries)
  BY DEF LoopStep, TickerFires, StopSeen, RunQueries, RunGoesOn, RunEnds, RunFails, RetryAgain,
         ProcessTypeOK, PhaseInv
<1>2. loop[l].pc # "stopped"
  BY DEF LoopStep, TickerFires, StopSeen, RunQueries, RunGoesOn, RunEnds, RunFails, RetryAgain
<1>3. ProcessTypeOK' BY <1>1 DEF ProcessTypeOK, LoopGoes
<1>4. UNCHANGED <<request, stop, pool, main, timedOut>> BY <1>1 DEF LoopGoes
<1>5. \A k \in Loops : loop'[k] = IF k = l THEN [pc |-> pc, attempt |-> n] ELSE loop[k]
  BY <1>1 DEF LoopGoes, ProcessTypeOK
<1>6. PhaseInv' BY <1>1, <1>2, <1>4, <1>5 DEF PhaseInv
<1>7. QED BY <1>3, <1>6

\* Requests touch neither the loops nor the shutdown.
LEMMA RequestInv ==
  ASSUME ProcessInv, NEW q \in Requests, Arrive(q) \/ RequestStep(q) \/ ClientStep(q)
  PROVE  ProcessInv'
<1> USE ShutdownAssumption DEF ProcessInv
<1>1. PICK pc \in {"none", "body", "handler", "query", "answer"}, n \in 0..QueryBound :
        RequestGoes(q, pc, n)
  BY ShutdownAssumption
  DEF Arrive, RequestStep, ClientStep, BodySent, AnswerTaken, HangUp, QueryStarts, QueryEnds, Answer,
      PoolRefuses, ProcessTypeOK
<1>2. ProcessTypeOK' BY <1>1 DEF ProcessTypeOK, RequestGoes
<1>3. PhaseInv' BY <1>1 DEF PhaseInv, RequestGoes
<1>4. QED BY <1>2, <1>3

\* The steps of the shutdown, one after the other.
LEMMA MainInv ==
  ASSUME ProcessInv, Signalled \/ MainStep
  PROVE  ProcessInv'
<1> USE DEF ProcessInv, ProcessTypeOK, PhaseInv, MainGoes
<1>1. CASE Signalled BY <1>1 DEF Signalled
<1>2. CASE CloseAllSessions BY <1>2 DEF CloseAllSessions
<1>3. CASE SignalScheduler BY <1>3 DEF SignalScheduler
<1>4. CASE SchedulerStopped BY <1>4 DEF SchedulerStopped
<1>5. CASE JoinTimesOut BY <1>5 DEF JoinTimesOut
<1>6. CASE ClosePool BY <1>6 DEF ClosePool
<1>7. CASE PoolClosed BY <1>7 DEF PoolClosed
<1>8. CASE Exit BY <1>8 DEF Exit
<1>9. QED BY <1>1, <1>2, <1>3, <1>4, <1>5, <1>6, <1>7, <1>8 DEF MainStep

LEMMA StepProcessInv == ProcessInv /\ [ProcessNext]_processVars => ProcessInv'
<1> SUFFICES ASSUME ProcessInv, [ProcessNext]_processVars PROVE ProcessInv'
  OBVIOUS
<1>1. CASE ProcessNext BY <1>1, LoopInv, RequestInv, MainInv DEF ProcessNext
<1>2. CASE UNCHANGED processVars
  BY <1>2 DEF processVars, ProcessInv, ProcessTypeOK, PhaseInv
<1>3. QED BY <1>1, <1>2

\* Type correctness: in particular, no run of a task is tried more than MaxRetries times.
THEOREM SpecProcessTypeOK == ProcessSpec => []ProcessTypeOK
<1>1. ProcessInv => ProcessTypeOK BY DEF ProcessInv
<1>2. QED BY <1>1, InitProcessInv, StepProcessInv, PTL DEF ProcessSpec

\* However many loops there are and whatever they were doing when the signal came, the
\* pool is closed under a run only after the wait has timed out.
THEOREM SpecRunsComplete == ProcessSpec => []RunsComplete
<1>1. ProcessInv => RunsComplete
  <2> SUFFICES ASSUME ProcessInv, pool # "open", ~timedOut
               PROVE  \A l \in Loops : loop[l].pc = "stopped"
    BY DEF RunsComplete
  <2>1. main \in {"closing", "drain", "exit"} BY DEF ProcessInv, ProcessTypeOK, PhaseInv
  <2>2. QED BY <2>1 DEF ProcessInv, PhaseInv
<1>2. QED BY <1>1, InitProcessInv, StepProcessInv, PTL DEF ProcessSpec
=============================================================================
