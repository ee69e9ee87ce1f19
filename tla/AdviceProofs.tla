---------------------------- MODULE AdviceProofs ----------------------------
(***************************************************************************)
(* Proofs about what people are told and answer: what is recommended from  *)
(* the evidence of a case, what the field companion keeps of its user's    *)
(* answers, and what is advised on a road that is seen.                    *)
(***************************************************************************)
EXTENDS SafetyFusion, FieldCompanion, RoadCognition, FiniteSetTheorems, TLAPS

-----------------------------------------------------------------------------
(* Finite sets                                                             *)

(* A non-empty set of naturals has a least element.                        *)
LEMMA SmallestOf ==
    ASSUME NEW S, S \subseteq Nat, S # {}
    PROVE  \E m \in S : \A n \in S : m =< n
<1>1. IsWellFoundedOn(OpToRel(<, Nat), Nat)
  BY NatLessThanWellFounded, Zenon
<1>2. PICK x \in S : \A y \in S : ~ (<<y, x>> \in OpToRel(<, Nat))
  BY <1>1, WFMin, Zenon
<1>3. \A y \in S : ~ (y < x)
  BY <1>2, Zenon DEF OpToRel
<1> QED BY <1>3

(* What removing an element always leads back into is empty.               *)
LEMMA NoneIsBad ==
    ASSUME NEW S, IsFiniteSet(S), NEW bad \in SUBSET (SUBSET S),
           \A s \in bad : \E x \in s : s \ {x} \in bad
    PROVE  bad = {}
<1> DEFINE sizes == {Cardinality(s) : s \in bad}
<1>1. ASSUME NEW s \in bad PROVE IsFiniteSet(s) /\ Cardinality(s) \in Nat
  <2>1. s \in SUBSET S
    OBVIOUS
  <2> QED BY <2>1, FS_Subset, FS_CardinalityType
<1>2. ASSUME NEW s \in bad
      PROVE  \E t \in bad : Cardinality(t) < Cardinality(s)
  <2>1. PICK x \in s : s \ {x} \in bad
    OBVIOUS
  <2>2. Cardinality(s \ {x}) = Cardinality(s) - 1
    BY <1>1, FS_RemoveElement
  <2> QED BY <1>1, <2>1, <2>2
<1> SUFFICES ASSUME bad # {} PROVE FALSE
  OBVIOUS
<1>3. sizes \subseteq Nat /\ sizes # {}
  BY <1>1
<1>4. PICK m \in sizes : \A n \in sizes : m =< n
  <2> HIDE DEF sizes
  <2> QED BY <1>3, SmallestOf
<1>5. PICK s \in bad : m = Cardinality(s)
  OBVIOUS
<1>6. PICK t \in bad : Cardinality(t) < Cardinality(s)
  BY <1>2
<1>7. Cardinality(t) \in sizes
  OBVIOUS
<1>8. m =< Cardinality(t)
  <2> HIDE DEF sizes
  <2> QED BY <1>4, <1>7
<1> QED BY <1>1, <1>5, <1>6, <1>8

(* A fold takes, from each subset, the element that last chooses, and      *)
(* applies next to it and to the fold of the others.                       *)
Chooses(last, S) == \A s \in SUBSET S : s # {} => last[s] \in s
Closed(next, S, T) == \A x \in S : \A t \in T : next[<<x, t>>] \in T
IsFold(g, S, base, last, next) ==
    g = [s \in SUBSET S |-> IF s = {} THEN base ELSE next[<<last[s], g[s \ {last[s]}]>>]]

(* There is a fold over a finite set.                                      *)
LEMMA FoldExists ==
    ASSUME NEW S, IsFiniteSet(S), NEW T, NEW base \in T,
           NEW last, Chooses(last, S), NEW next, Closed(next, S, T)
    PROVE  \E g \in [SUBSET S -> T] : IsFold(g, S, base, last, next)
<1> USE DEF Chooses, Closed
<1> DEFINE value(g, s) == IF s = {} THEN base ELSE next[<<last[s], g[s \ {last[s]}]>>]
           upTo(n) == \E g \in [SUBSET S -> T] :
                         \A s \in SUBSET S : Cardinality(s) <= n => g[s] = value(g, s)
<1>1. ASSUME NEW s \in SUBSET S
      PROVE  /\ IsFiniteSet(s) /\ Cardinality(s) \in Nat /\ Cardinality(s) <= Cardinality(S)
             /\ Cardinality(s) = 0 <=> s = {}
             /\ s # {} => /\ s \ {last[s]} \in SUBSET S /\ last[s] \in S
                          /\ Cardinality(s \ {last[s]}) = Cardinality(s) - 1
  <2>1. IsFiniteSet(s) /\ Cardinality(s) \in Nat /\ Cardinality(s) <= Cardinality(S)
    BY FS_Subset, FS_CardinalityType
  <2>2. Cardinality(s) = 0 <=> s = {}
    BY <2>1, FS_EmptySet
  <2>3. s # {} => Cardinality(s \ {last[s]}) = Cardinality(s) - 1
    BY <2>1, FS_RemoveElement
  <2> QED BY <2>1, <2>2, <2>3
<1>2. ASSUME NEW n \in Nat PROVE upTo(n)
  <2> DEFINE bad == {m \in Nat : ~upTo(m)}
  <2> SUFFICES ASSUME bad # {} PROVE FALSE
    OBVIOUS
  <2>1. PICK m \in bad : \A k \in bad : m =< k
    BY SmallestOf
  <2>2. CASE m = 0
    <3> DEFINE g == [s \in SUBSET S |-> base]
    <3>1. \A s \in SUBSET S : Cardinality(s) <= 0 => g[s] = value(g, s)
      BY <1>1
    <3> QED BY <2>1, <2>2, <3>1
  <2>3. CASE m # 0
    <3> HIDE DEF upTo
    <3>1. m - 1 \in Nat /\ upTo(m - 1)
      BY <2>1, <2>3
    <3> USE DEF upTo
    <3>2. PICK g \in [SUBSET S -> T] :
              \A s \in SUBSET S : Cardinality(s) <= m - 1 => g[s] = value(g, s)
      BY <3>1
    <3> DEFINE more == [s \in SUBSET S |-> value(g, s)]
    <3>3. more \in [SUBSET S -> T]
      BY <1>1, <3>2
    <3>4. ASSUME NEW s \in SUBSET S, Cardinality(s) <= m PROVE more[s] = value(more, s)
      <4>1. ASSUME s # {} PROVE more[s \ {last[s]}] = g[s \ {last[s]}]
        <5>1. /\ s \ {last[s]} \in SUBSET S
              /\ Cardinality(s \ {last[s]}) <= m - 1
          BY <1>1, <2>1, <3>4, <4>1
        <5>2. more[s \ {last[s]}] = value(g, s \ {last[s]})
          BY <5>1
        <5>3. g[s \ {last[s]}] = value(g, s \ {last[s]})
          BY <3>2, <5>1
        <5> QED BY <5>2, <5>3
      <4> QED BY <4>1
    <3> HIDE DEF more
    <3> QED BY <2>1, <3>3, <3>4
  <2> QED BY <2>2, <2>3
<1>3. Cardinality(S) \in Nat /\ \A s \in SUBSET S : Cardinality(s) <= Cardinality(S)
  BY <1>1, FS_CardinalityType
<1>4. PICK g \in [SUBSET S -> T] : \A s \in SUBSET S : Cardinality(s) <= Cardinality(S) => g[s] = value(g, s)
  BY <1>2, <1>3
<1>5. g = [s \in SUBSET S |-> value(g, s)]
  BY <1>3, <1>4
<1> QED BY <1>5 DEF IsFold

-----------------------------------------------------------------------------
(* SafetyFusion                                                            *)

(* The sum of finitely many numbers is one.                                *)
LEMMA SumIsNatural ==
    ASSUME NEW S, IsFiniteSet(S), NEW h \in [S -> Nat]
    PROVE  SumFunction(h) \in Nat
<1> DEFINE first(s) == CHOOSE x \in s : TRUE
           step(g) == [s \in SUBSET S |->
                         IF s = {} THEN 0 ELSE h[first(s)] + g[s \ {first(s)}]]
           sum == CHOOSE g : g = step(g)
<1>1. SumFunction(h) = sum[S]
  BY DEF SumFunction, SumFunctionOnSet, FoldFunctionOnSet, MapThenFoldSet
<1>2. \A s \in SUBSET S : s # {} => first(s) \in s /\ h[first(s)] \in Nat
  OBVIOUS
<1>3. \E g : g = step(g)
  <2> DEFINE last == [s \in SUBSET S |-> first(s)]
             next == [z \in S \X Nat |-> h[z[1]] + z[2]]
  <2>1. Chooses(last, S)
    BY <1>2 DEF Chooses
  <2>2. \A x \in S : \A t \in Nat : next[<<x, t>>] \in Nat /\ next[<<x, t>>] = h[x] + t
    OBVIOUS
  <2> HIDE DEF next
  <2>3. Closed(next, S, Nat)
    BY <2>2 DEF Closed
  <2>4. PICK g \in [SUBSET S -> Nat] : IsFold(g, S, 0, last, next)
    <3>1. 0 \in Nat
      OBVIOUS
    <3> QED BY <2>1, <2>3, <3>1, FoldExists, Zenon
  <2>5. ASSUME NEW s \in SUBSET S
        PROVE  g[s] = IF s = {} THEN 0 ELSE h[first(s)] + g[s \ {first(s)}]
    <3>1. g[s] = IF s = {} THEN 0 ELSE next[<<last[s], g[s \ {last[s]}]>>]
      BY <2>4 DEF IsFold
    <3>2. CASE s # {}
      <4>1. last[s] = first(s) /\ first(s) \in S /\ g[s \ {first(s)}] \in Nat
        BY <1>2, <3>2
      <4> HIDE DEF last
      <4> QED BY <2>2, <3>1, <3>2, <4>1
    <3> QED BY <3>1, <3>2
  <2>6. g = step(g)
    BY <2>5
  <2> QED BY <2>6
<1>4. sum = step(sum)
  BY <1>3
<1> HIDE DEF sum
<1> DEFINE bad == {s \in SUBSET S : sum[s] \notin Nat}
<1>5. ASSUME NEW s \in bad PROVE \E x \in s : s \ {x} \in bad
  <2>1. sum[s] = IF s = {} THEN 0 ELSE h[first(s)] + sum[s \ {first(s)}]
    BY <1>4
  <2>2. s # {} /\ first(s) \in s /\ h[first(s)] \in Nat
    BY <1>2, <2>1
  <2>3. sum[s \ {first(s)}] \notin Nat /\ s \ {first(s)} \in SUBSET S
    BY <2>1, <2>2
  <2> QED BY <2>2, <2>3
<1>6. bad = {}
  <2>1. bad \in SUBSET (SUBSET S)
    OBVIOUS
  <2> HIDE DEF bad
  <2> QED BY <1>5, <2>1, NoneIsBad
<1> QED BY <1>1, <1>6

(* The larger of two integers.                                             *)
LEMMA LargerOf ==
    ASSUME NEW a \in Int, NEW b \in Int
    PROVE  /\ Max({a, b}) \in {a, b} /\ Max({a, b}) \in Int
           /\ Max({a, b}) >= a /\ Max({a, b}) >= b
<1>1. \E x \in {a, b} : \A y \in {a, b} : x >= y
  OBVIOUS
<1> QED BY <1>1 DEF Max

(* The smaller of two integers.                                            *)
LEMMA SmallerOf ==
    ASSUME NEW a \in Int, NEW b \in Int
    PROVE  /\ Min({a, b}) \in {a, b} /\ Min({a, b}) \in Int
           /\ Min({a, b}) <= a /\ Min({a, b}) <= b
<1>1. \E x \in {a, b} : \A y \in {a, b} : x <= y
  OBVIOUS
<1> QED BY <1>1 DEF Min

(* A set of at least two elements has two.                                 *)
LEMMA TwoOf ==
    ASSUME NEW S, ~(Cardinality(S) < 2)
    PROVE  \E x, y \in S : x # y
<1> SUFFICES ASSUME \A x, y \in S : x = y PROVE Cardinality(S) < 2
  OBVIOUS
<1>1. CASE S = {}
  BY <1>1, FS_EmptySet
<1>2. CASE S # {}
  <2>1. PICK x \in S : S = {x}
    BY <1>2
  <2>2. Cardinality(S) = 1
    BY <2>1, FS_Singleton
  <2> QED BY <2>2
<1> QED BY <1>1, <1>2

(* What an item that can be weighed contributes is an integer.             *)
LEMMA ContributionIsInteger ==
    ASSUME NEW i \in Catalog, NEW at \in Nat, validEvidence(i)
    PROVE  contribution(i, at) \in Int
<1> USE FusionAssumption
<1> DEFINE w == BASE_WEIGHT[i.code]
           f == freshness(i, at)
           n == integrityFactor[i.integrity]
           d == deviceConditionFactor[i.device]
           q == i.reliability
           product == w * f * q * n * d
<1>1. w \in Int
  BY DEF validEvidence, BASE_WEIGHT
<1>2. f \in Int
  BY DEF freshness
<1>3. n \in Int /\ d \in Int /\ q \in Int
  BY DEF integrityFactor, deviceConditionFactor
<1> HIDE DEF w, f, n, d, q
<1>4. product \in Int
  BY <1>1, <1>2, <1>3
<1>5. contribution(i, at) = CASE i.direction = "SUPPORTS_RISK"   -> (product + 8) \div 16
                              [] i.direction = "SUPPORTS_SAFETY" -> -Min({12500, (product + 7) \div 16})
                              [] OTHER                           -> 0
  BY DEF contribution, w, f, n, d, q
<1> HIDE DEF product
<1>6. (product + 8) \div 16 \in Int /\ (product + 7) \div 16 \in Int
  BY <1>4
<1>7. 12500 \in Int /\ Min({12500, (product + 7) \div 16}) \in Int
  <2> DEFINE most == 12500
  <2>1. most \in Int
    OBVIOUS
  <2> HIDE DEF most
  <2>2. Min({most, (product + 7) \div 16}) \in Int
    BY <1>6, <2>1, SmallerOf, Zenon
  <2> QED BY <2>1, <2>2 DEF most
<1> QED BY <1>5, <1>6, <1>7

(* The weighed evidence adds up to a natural number.                       *)
LEMMA SumsAreNatural ==
    ASSUME NEW ev \in SUBSET Catalog, NEW at \in Nat, \A i \in ev : validEvidence(i)
    PROVE  RiskScore(ev, at) \in Nat /\ safetyOffset(ev, at) \in Int
<1>1. IsFiniteSet(ev)
  BY FusionAssumption, FS_Subset
<1>2. ASSUME NEW i \in ev
      PROVE  Max({0, contribution(i, at)}) \in Nat /\ Max({0, -contribution(i, at)}) \in Nat
  <2>1. contribution(i, at) \in Int /\ -contribution(i, at) \in Int
    BY ContributionIsInteger
  <2>2. 0 \in Int
    OBVIOUS
  <2>3. /\ Max({0, contribution(i, at)}) \in Int /\ Max({0, contribution(i, at)}) >= 0
        /\ Max({0, -contribution(i, at)}) \in Int /\ Max({0, -contribution(i, at)}) >= 0
    BY <2>1, <2>2, LargerOf, Zenon
  <2> QED BY <2>3
<1> DEFINE up == [i \in ev |-> Max({0, contribution(i, at)})]
           down == [i \in ev |-> Max({0, -contribution(i, at)})]
<1>3. up \in [ev -> Nat] /\ down \in [ev -> Nat]
  BY <1>2
<1>4. RiskScore(ev, at) = SumFunction(up) /\ safetyOffset(ev, at) = Min({12500, SumFunction(down)})
  BY DEF RiskScore, safetyOffset
<1> HIDE DEF up, down
<1>5. SumFunction(up) \in Nat /\ SumFunction(down) \in Nat
  BY <1>1, <1>3, SumIsNatural, Zenon
<1> DEFINE most == 12500
<1>6. most \in Int /\ SumFunction(down) \in Int
  BY <1>5
<1>7. safetyOffset(ev, at) = Min({most, SumFunction(down)})
  BY <1>4
<1> HIDE DEF most
<1>8. Min({most, SumFunction(down)}) \in Int
  BY <1>6, SmallerOf, Zenon
<1> QED BY <1>4, <1>5, <1>7, <1>8

(* A higher score never gives a lower severity (severityFromScore).        *)
LEMMA SeverityGrows ==
    ASSUME NEW s \in Int, NEW t \in Int, s <= t
    PROVE  /\ severityFromScore(s) \in 0 .. 4 /\ severityFromScore(s) <= severityFromScore(t)
           /\ s >= 30000 => severityFromScore(s) >= 3
<1>1. ASSUME NEW x \in Int
      PROVE  /\ x >= 55000 => severityFromScore(x) = 4
             /\ x >= 30000 /\ x < 55000 => severityFromScore(x) = 3
             /\ x >= 15000 /\ x < 30000 => severityFromScore(x) = 2
             /\ x >= 5000 /\ x < 15000 => severityFromScore(x) = 1
             /\ x < 5000 => severityFromScore(x) = 0
  <2>1. CASE x >= 55000
    BY <2>1 DEF severityFromScore
  <2>2. CASE x >= 30000 /\ x < 55000
    BY <2>2 DEF severityFromScore
  <2>3. CASE x >= 15000 /\ x < 30000
    BY <2>3 DEF severityFromScore
  <2>4. CASE x >= 5000 /\ x < 15000
    BY <2>4 DEF severityFromScore
  <2>5. CASE x < 5000
    BY <2>5 DEF severityFromScore
  <2> QED BY <2>1, <2>2, <2>3, <2>4, <2>5
<1> QED BY <1>1

(* The score is an integer: no lower than the floor when blocked, and,     *)
(* when silence speaks, than the risk and the silence.                     *)
LEMMA ScoreIsBounded ==
    ASSUME NEW ev \in SUBSET Catalog, NEW at \in Nat, \A i \in ev : validEvidence(i),
           NEW contact \in ContactStates, NEW blocked \in BOOLEAN
    PROVE  LET s == Score(ev, at, contact, blocked)
           IN  /\ s \in Int
               /\ blocked => s >= 30000
               /\ contact \in {"NO_RESPONSE", "DISCONNECTED"} =>
                     s >= RiskScore(ev, at) + contactRiskBoost(contact)
               /\ contactRiskBoost(contact) \in Nat
<1> DEFINE base == RiskScore(ev, at) + contactRiskBoost(contact)
           risk == base + (IF Cardinality(RecentRiskSources(ev, at)) >= 2 THEN 7500 ELSE 0)
                        + (IF hasContradiction(ev) THEN 5000 ELSE 0)
           offset == safetyOffset(ev, at)
           applies == OffsetApplies(ev, at, contact, blocked)
           score == IF applies THEN Max({0, risk - offset}) ELSE risk
<1>1. contactRiskBoost(contact) \in Nat
  BY DEF contactRiskBoost
<1>2. contact \in {"NO_RESPONSE", "DISCONNECTED"} => ~applies
  BY DEF OffsetApplies, contactRiskBoost
<1>3. offset \in Int /\ base \in Int
  BY <1>1, SumsAreNatural
<1>4. Score(ev, at, contact, blocked) = IF blocked THEN Max({score, 30000}) ELSE score
  BY DEF Score, FloorIfBlocked
<1> HIDE DEF base, offset, applies
<1>5. risk \in Int /\ risk >= base
  BY <1>3
<1> HIDE DEF risk
<1>6. risk - offset \in Int
  BY <1>3, <1>5
<1> DEFINE kept == Max({0, risk - offset})
<1>7. kept \in Int
  <2>1. 0 \in Int
    OBVIOUS
  <2> QED BY <1>6, <2>1, LargerOf, Zenon
<1> HIDE DEF kept
<1>10. score \in Int /\ (~applies => score = risk)
  BY <1>5, <1>7 DEF kept
<1> HIDE DEF score
<1>8. Max({score, 30000}) \in Int /\ Max({score, 30000}) >= score /\ Max({score, 30000}) >= 30000
  <2> DEFINE floor == 30000
  <2>1. floor \in Int
    OBVIOUS
  <2> HIDE DEF floor
  <2>2. Max({score, floor}) \in Int /\ Max({score, floor}) >= score /\ Max({score, floor}) >= floor
    BY <1>10, <2>1, LargerOf, Zenon
  <2> QED BY <2>2 DEF floor
<1>9. base = RiskScore(ev, at) + contactRiskBoost(contact)
  BY DEF base
<1> QED BY <1>1, <1>2, <1>3, <1>4, <1>5, <1>8, <1>9, <1>10

(* Uncertainty stays within its scale.                                     *)
LEMMA UncertaintyIsBounded ==
    ASSUME NEW ev, NEW at, NEW contact, NEW guards
    PROVE  Uncertainty(ev, at, contact, guards) \in 0 .. 100
<1> DEFINE missing == MissingInputs(ev, at, contact, guards)
           all == {"SOURCE", "CORROBORATION", "OUTCOME", "DEVICE", "LOCATION", "CLEARANCE"}
           gaps == Min({20, 3 * Cardinality(missing)})
           Of(holds, amount) == IF holds THEN amount ELSE 0
           u == 5 + Of(hasContradiction(ev), 30)
                  + Of(Cardinality(RecentTrusted(ev, at)) < 2, 25)
                  + Of(allStale(ev, at), 20)
                  + Of(\E i \in ev : i.device # "HEALTHY", 10)
                  + Of(\E i \in ev : i.integrity # "VERIFIED", 15)
                  + Of(\E k \in GuardKinds : guards[k] = "DEGRADED", 20)
                  + Of(\E k \in GuardKinds : guards[k] = "BLOCK_AND_REVIEW", 50)
                  + Of(contact \in {"NO_RESPONSE", "UNREACHABLE", "DISCONNECTED"}, 15)
                  + gaps
<1>1. IsFiniteSet(all)
  <2>1. all = {} \cup {"SOURCE"} \cup {"CORROBORATION"} \cup {"OUTCOME"} \cup {"DEVICE"}
                 \cup {"LOCATION"} \cup {"CLEARANCE"}
    OBVIOUS
  <2>2. \A S, x : IsFiniteSet(S) => IsFiniteSet(S \cup {x})
    BY FS_AddElement
  <2>3. IsFiniteSet({})
    BY FS_EmptySet
  <2> HIDE DEF all
  <2> QED BY <2>1, <2>2, <2>3
<1>2. missing \in SUBSET all
  BY DEF MissingInputs
<1>3. Cardinality(missing) \in Nat
  BY <1>1, <1>2, FS_Subset, FS_CardinalityType
<1>4. 3 * Cardinality(missing) \in Int /\ 3 * Cardinality(missing) >= 0
  BY <1>3
<1>5. gaps \in Int /\ gaps >= 0
  <2>1. 20 \in Int
    OBVIOUS
  <2>2. gaps \in Int /\ gaps \in {20, 3 * Cardinality(missing)}
    BY <1>4, <2>1, SmallerOf, Zenon
  <2> QED BY <1>4, <2>2
<1>6. Uncertainty(ev, at, contact, guards) = Min({100, u})
  BY DEF Uncertainty, clamp01
<1> HIDE DEF gaps, missing
<1>8. u \in Int /\ u >= 0
  <2> DEFINE a == Of(hasContradiction(ev), 30)
             b == Of(Cardinality(RecentTrusted(ev, at)) < 2, 25)
             c == Of(allStale(ev, at), 20)
             d == Of(\E i \in ev : i.device # "HEALTHY", 10)
             e == Of(\E i \in ev : i.integrity # "VERIFIED", 15)
             f == Of(\E k \in GuardKinds : guards[k] = "DEGRADED", 20)
             g == Of(\E k \in GuardKinds : guards[k] = "BLOCK_AND_REVIEW", 50)
             h == Of(contact \in {"NO_RESPONSE", "UNREACHABLE", "DISCONNECTED"}, 15)
  <2>1. /\ a \in {30, 0} /\ b \in {25, 0} /\ c \in {20, 0} /\ d \in {10, 0}
        /\ e \in {15, 0} /\ f \in {20, 0} /\ g \in {50, 0} /\ h \in {15, 0}
    BY DEF Of
  <2>2. u = 5 + a + b + c + d + e + f + g + h + gaps
    OBVIOUS
  <2> HIDE DEF u, a, b, c, d, e, f, g, h
  <2> QED BY <1>5, <2>1, <2>2
<1> HIDE DEF u
<1>9. 100 \in Int
  OBVIOUS
<1>10. Min({100, u}) \in {100, u} /\ Min({100, u}) <= 100 /\ Min({100, u}) \in Int
  BY <1>8, <1>9, SmallerOf, Zenon
<1> QED BY <1>6, <1>8, <1>10

(* What is said of every recommendation.                                   *)
Cautious(a) == a # NoAdvice =>
    LET r == a.result
    IN  /\ r.recommended \in 0 .. 4 /\ r.current \in 0 .. 4 /\ r.uncertainty \in 0 .. 100
        /\ r.recommended >= r.current
        /\ r.recommended >= 3 => r.review
        /\ ~r.review => /\ a.vouched /\ a.failures = {}
                        /\ \A i \in a.evidence : i.integrity # "INVALID"
                        /\ \E i, j \in a.evidence : i # j /\ isRecentTrusted(i, a.at)
                                                          /\ isRecentTrusted(j, a.at)
        /\ a.failures # {} => r.recommended >= 3 /\ r.review
        /\ /\ a.contact \in {"NO_RESPONSE", "DISCONNECTED"} /\ "registry" \notin a.failures
           /\ \A i \in a.evidence : validEvidence(i)
           => r.recommended >= severityFromScore(RiskScore(a.evidence, a.at)
                                                   + contactRiskBoost(a.contact))

(* The property of the run, said of the last answer.                       *)
LEMMA CautionIsMeant == AdviceIsCautious <=> Cautious(advice)
  BY DEF AdviceIsCautious, FusionTypeOK, UnreviewedIsVouched, FailureNeverCalms,
         SilenceIsNotSafety, Cautious

FusionInv ==
    /\ fusionClock \in Nat
    /\ contactState \in ContactStates
    /\ severity \in 0 .. 4
    /\ Cautious(advice)

(* A guard that fails blocks; the data-quality guard is clear only of      *)
(* valid evidence.                                                         *)
LEMMA GuardsAnswer ==
    ASSUME NEW ev, NEW at, NEW failed, NEW k \in GuardKinds
    PROVE  /\ k \in failed => GuardResults(ev, at, failed)[k] = "BLOCK_AND_REVIEW"
           /\ /\ k = "DATA_QUALITY" /\ GuardResults(ev, at, failed)[k] = "CLEAR"
              => \A i \in ev : i.integrity # "INVALID"
  BY DEF GuardResults, GuardKinds, DataQualityGuard

(* What the ports and guards that fail leave of the recommendation.        *)
LEMMA AdviceIsWeighed ==
    ASSUME NEW ev \in SUBSET Catalog, NEW at \in Nat, NEW contact \in ContactStates,
           NEW current \in 0 .. 4, NEW failed, \A i \in ev : validEvidence(i)
    PROVE  LET r == evaluateSafetyFusion(ev, at, contact, current, GuardResults(ev, at, failed))
           IN  /\ r.recommended \in 0 .. 4 /\ r.current = current /\ r.uncertainty \in 0 .. 100
               /\ r.recommended >= r.current
               /\ r.recommended >= 3 => r.review
               /\ ~r.review => /\ \A k \in GuardKinds : k \notin failed
                               /\ \A i \in ev : i.integrity # "INVALID"
                               /\ \E i, j \in ev : i # j /\ isRecentTrusted(i, at)
                                                         /\ isRecentTrusted(j, at)
               /\ (\E k \in GuardKinds : k \in failed) => r.recommended >= 3
               /\ contact \in {"NO_RESPONSE", "DISCONNECTED"} =>
                     r.recommended >= severityFromScore(RiskScore(ev, at) + contactRiskBoost(contact))
<1> DEFINE guards == GuardResults(ev, at, failed)
           blocked == \E k \in GuardKinds : guards[k] = "BLOCK_AND_REVIEW"
           score == Score(ev, at, contact, blocked)
           level == severityFromScore(score)
           recommended == maxSeverity(level, current)
           uncertainty == Uncertainty(ev, at, contact, guards)
           review == \/ recommended >= 3
                     \/ uncertainty >= 30
                     \/ hasContradiction(ev)
                     \/ allStale(ev, at)
                     \/ Cardinality(RecentTrusted(ev, at)) < 2
                     \/ \E k \in GuardKinds : guards[k] # "CLEAR"
           r == evaluateSafetyFusion(ev, at, contact, current, guards)
           base == RiskScore(ev, at) + contactRiskBoost(contact)
<1>1. /\ r.recommended = recommended /\ r.current = current /\ r.uncertainty = uncertainty
      /\ r.review = review
  BY DEF evaluateSafetyFusion
<1>2. uncertainty \in 0 .. 100
  BY UncertaintyIsBounded
<1>3. /\ (\E k \in GuardKinds : k \in failed) => blocked
      /\ guards["DATA_QUALITY"] = "CLEAR" => \A i \in ev : i.integrity # "INVALID"
      /\ "DATA_QUALITY" \in GuardKinds
  BY GuardsAnswer DEF GuardKinds
<1>4. blocked => \E k \in GuardKinds : guards[k] # "CLEAR"
  OBVIOUS
<1>5. blocked \in BOOLEAN
  OBVIOUS
<1>6. (~(Cardinality(RecentTrusted(ev, at)) < 2)) =>
          \E i, j \in ev : i # j /\ isRecentTrusted(i, at) /\ isRecentTrusted(j, at)
  <2> SUFFICES ASSUME ~(Cardinality(RecentTrusted(ev, at)) < 2)
               PROVE  \E i, j \in ev : i # j /\ isRecentTrusted(i, at) /\ isRecentTrusted(j, at)
    OBVIOUS
  <2>1. \E x, y \in RecentTrusted(ev, at) : x # y
    BY TwoOf
  <2> QED BY <2>1 DEF RecentTrusted
<1> HIDE DEF guards, uncertainty
<1>7. ~review => /\ \A k \in GuardKinds : guards[k] = "CLEAR"
                 /\ ~(Cardinality(RecentTrusted(ev, at)) < 2)
  OBVIOUS
<1>8. recommended >= 3 => review
  OBVIOUS
<1> HIDE DEF review
<1>9. /\ score \in Int
      /\ blocked => score >= 30000
      /\ contact \in {"NO_RESPONSE", "DISCONNECTED"} => score >= base
      /\ base \in Int
  <2> HIDE DEF blocked
  <2>2. contactRiskBoost(contact) \in Nat
    BY DEF contactRiskBoost
  <2>1. contactRiskBoost(contact) \in Nat /\ RiskScore(ev, at) \in Nat
    BY <2>2, SumsAreNatural
  <2> QED BY ScoreIsBounded, <1>5, <2>1
<1> HIDE DEF blocked, score, base
<1>10. /\ level \in 0 .. 4
       /\ blocked => level >= 3
       /\ contact \in {"NO_RESPONSE", "DISCONNECTED"} =>
             severityFromScore(base) \in 0 .. 4 /\ level >= severityFromScore(base)
  <2>1. level \in 0 .. 4 /\ (score >= 30000 => level >= 3)
    BY <1>9, SeverityGrows
  <2>2. base <= score => severityFromScore(base) \in 0 .. 4 /\ severityFromScore(base) <= level
    BY <1>9, SeverityGrows
  <2>3. severityFromScore(base) \in Int /\ level \in Int => (severityFromScore(base) <= level => level >= severityFromScore(base))
    OBVIOUS
  <2> QED BY <1>9, <2>1, <2>2, <2>3
<1> HIDE DEF level
<1>11. /\ recommended \in {level, current} /\ recommended \in Int
       /\ recommended >= level /\ recommended >= current
  <2>1. level \in Int /\ current \in Int
    BY <1>10
  <2> QED BY <2>1, LargerOf, Zenon DEF maxSeverity
<1> HIDE DEF recommended
<1>12. /\ recommended \in 0 .. 4
       /\ blocked => recommended >= 3
       /\ contact \in {"NO_RESPONSE", "DISCONNECTED"} => recommended >= severityFromScore(base)
  BY <1>10, <1>11
<1>13. ~review => /\ \A k \in GuardKinds : k \notin failed
                  /\ \A i \in ev : i.integrity # "INVALID"
                  /\ \E i, j \in ev : i # j /\ isRecentTrusted(i, at) /\ isRecentTrusted(j, at)
  BY <1>3, <1>4, <1>6, <1>7
<1> HIDE DEF r
<1>14. /\ r.recommended \in 0 .. 4 /\ r.current = current /\ r.uncertainty \in 0 .. 100
       /\ r.recommended >= r.current
       /\ r.recommended >= 3 => r.review
       /\ (\E k \in GuardKinds : k \in failed) => r.recommended >= 3
       /\ contact \in {"NO_RESPONSE", "DISCONNECTED"} => r.recommended >= severityFromScore(base)
  BY <1>1, <1>2, <1>3, <1>8, <1>11, <1>12
<1>15. ~r.review => ~review
  BY <1>1
<1> QED BY <1>13, <1>14, <1>15 DEF r, base, guards

(* What recommend answers is cautious, whatever fails on the way.          *)
LEMMA AdviceIsGiven ==
    ASSUME FusionInv, NEW ev \in SUBSET Catalog, NEW failures \in Failures, recommend(ev, failures)
    PROVE  FusionInv'
<1> DEFINE at == IF "clock" \in failures THEN 0 ELSE fusionClock
           ports == {"clock", "shape", "guards", "authority"}
           failed == (failures \cap GuardKinds)
                       \cup (IF Governed(ev, fusionClock, failures) THEN {} ELSE {"DATA_QUALITY"})
           known == "registry" \notin failures /\ \A i \in ev : validEvidence(i)
           weighed == evaluateSafetyFusion(ev, at, contactState, severity, GuardResults(ev, at, failed))
           r == IF known THEN weighed ELSE blockedRecommendation(severity)
           a == [result |-> r, evidence |-> ev, at |-> at, contact |-> contactState,
                 failures |-> failures, vouched |-> Vouched(ev, fusionClock) /\ UniqueIds(ev)]
<1>1. advice' = a /\ UNCHANGED <<fusionClock, receipts, contactState, severity>>
  BY DEF recommend
<1>2. at \in Nat /\ contactState \in ContactStates /\ severity \in 0 .. 4
  BY DEF FusionInv
<1>3. failures = {} \/ \E f \in GuardKinds \cup ports \cup {"registry"} : failures = {f}
  BY DEF Failures
<1>4. /\ (\A k \in GuardKinds : k \notin failed) =>
            /\ failures \cap (GuardKinds \cup ports) = {}
            /\ Vouched(ev, fusionClock) /\ UniqueIds(ev)
      /\ failures # {} => (\E k \in GuardKinds : k \in failed) \/ "registry" \in failures
  <2>1. "DATA_QUALITY" \in GuardKinds
    BY DEF GuardKinds
  <2>2. Governed(ev, fusionClock, failures) =>
            failures \cap ports = {} /\ Vouched(ev, fusionClock) /\ UniqueIds(ev)
    BY DEF Governed
  <2>3. (\A k \in GuardKinds : k \notin failed) =>
            failures \cap GuardKinds = {} /\ Governed(ev, fusionClock, failures)
    BY <2>1
  <2>4. failures # {} /\ failures \cap (GuardKinds \cup ports) = {} => "registry" \in failures
    BY <1>3
  <2> HIDE DEF failed, ports
  <2> QED BY <2>2, <2>3, <2>4
<1>5. CASE known
  <2>1. r = weighed /\ \A i \in ev : validEvidence(i)
    BY <1>5
  <2> HIDE DEF failed, at, known, r
  <2> DEFINE Fits(w) ==
        /\ w.recommended \in 0 .. 4 /\ w.current = severity /\ w.uncertainty \in 0 .. 100
        /\ w.recommended >= w.current
        /\ w.recommended >= 3 => w.review
        /\ ~w.review => /\ \A k \in GuardKinds : k \notin failed
                        /\ \A i \in ev : i.integrity # "INVALID"
                        /\ \E i, j \in ev : i # j /\ isRecentTrusted(i, at)
                                                  /\ isRecentTrusted(j, at)
        /\ (\E k \in GuardKinds : k \in failed) => w.recommended >= 3
        /\ contactState \in {"NO_RESPONSE", "DISCONNECTED"} =>
              w.recommended >= severityFromScore(RiskScore(ev, at) + contactRiskBoost(contactState))
  <2>7. Fits(weighed)
    BY <1>2, <2>1, AdviceIsWeighed, Zenon
  <2>2. /\ r.recommended \in 0 .. 4 /\ r.current = severity /\ r.uncertainty \in 0 .. 100
        /\ r.recommended >= r.current
        /\ r.recommended >= 3 => r.review
        /\ ~r.review => /\ \A k \in GuardKinds : k \notin failed
                        /\ \A i \in ev : i.integrity # "INVALID"
                        /\ \E i, j \in ev : i # j /\ isRecentTrusted(i, at)
                                                  /\ isRecentTrusted(j, at)
        /\ (\E k \in GuardKinds : k \in failed) => r.recommended >= 3
        /\ contactState \in {"NO_RESPONSE", "DISCONNECTED"} =>
              r.recommended >= severityFromScore(RiskScore(ev, at) + contactRiskBoost(contactState))
    BY <2>1, <2>7
  <2>3. "registry" \notin failures
    BY <1>5 DEF known
  <2>4. ~r.review => failures = {} /\ Vouched(ev, fusionClock) /\ UniqueIds(ev)
    BY <1>3, <1>4, <2>2, <2>3
  <2>5. failures # {} => r.recommended >= 3 /\ r.review
    BY <1>4, <2>2, <2>3
  <2>6. Cautious(a)
    BY <1>2, <2>2, <2>3, <2>4, <2>5 DEF Cautious
  <2> QED BY <1>1, <1>2, <2>6 DEF FusionInv
<1>6. CASE ~known
  <2>1. /\ r.recommended = maxSeverity(severity, 3) /\ r.current = severity
        /\ r.uncertainty = 100 /\ r.review = TRUE
    BY <1>6 DEF blockedRecommendation
  <2>2. maxSeverity(severity, 3) \in 0 .. 4 /\ maxSeverity(severity, 3) >= 3 /\ maxSeverity(severity, 3) >= severity
    <3>1. severity \in Int /\ 3 \in Int
      BY <1>2
    <3>2. /\ maxSeverity(severity, 3) \in {severity, 3} /\ maxSeverity(severity, 3) >= 3
          /\ maxSeverity(severity, 3) >= severity
      BY <3>1, LargerOf, Zenon DEF maxSeverity
    <3> QED BY <1>2, <3>2
  <2>3. ~(/\ "registry" \notin failures /\ \A i \in ev : validEvidence(i))
    BY <1>6
  <2> HIDE DEF failed, at, known, r
  <2>4. Cautious(a)
    BY <1>2, <2>1, <2>2, <2>3 DEF Cautious
  <2> QED BY <1>1, <1>2, <2>4 DEF FusionInv
<1> QED BY <1>5, <1>6

(* Every step of the safety fusion keeps the invariant.                    *)
LEMMA FusionKept == FusionInv /\ [FusionNext]_fusionVars => FusionInv'
<1> SUFFICES ASSUME FusionInv, [FusionNext]_fusionVars PROVE FusionInv'
  OBVIOUS
<1>1. ASSUME NEW i \in Catalog, Vouch(i) \/ Lapse(i) PROVE FusionInv'
  BY <1>1 DEF Vouch, Lapse, FusionInv
<1>2. ASSUME NEW ev \in SUBSET Catalog, NEW failures \in Failures, recommend(ev, failures)
      PROVE  FusionInv'
  BY <1>2, AdviceIsGiven
<1>3. ASSUME NEW adopt \in BOOLEAN, adoptAdvice(adopt) PROVE FusionInv'
  <2> DEFINE r == advice.result.recommended
  <2>1. severity \in 0 .. 4 /\ r \in 0 .. 4
    BY <1>3 DEF adoptAdvice, FusionInv, Cautious
  <2>2. severity \in Int /\ r \in Int
    BY <2>1
  <2>3. Max({severity, r}) \in {severity, r}
    <3> HIDE DEF r
    <3> QED BY <2>2, LargerOf, Zenon
  <2>4. severity' \in 0 .. 4
    BY <1>3, <2>1, <2>3 DEF adoptAdvice
  <2> QED BY <1>3, <2>4 DEF adoptAdvice, FusionInv, Cautious
<1>4. ASSUME NEW s \in ContactStates, ContactMoves(s) PROVE FusionInv'
  BY <1>4 DEF ContactMoves, FusionInv
<1>5. CASE FusionTick
  <2>1. fusionClock' \in Nat
    BY <1>5 DEF FusionTick, FusionInv
  <2> QED BY <1>5, <2>1 DEF FusionTick, FusionInv
<1>6. CASE UNCHANGED fusionVars
  BY <1>6 DEF fusionVars, FusionInv
<1> QED BY <1>1, <1>2, <1>3, <1>4, <1>5, <1>6 DEF FusionNext

(* Every recommendation that is answered can be stated, needs no review    *)
(* only when vouched evidence bears it, is raised by whatever fails, and   *)
(* is not lowered while the person cannot be reached (recommend).          *)
THEOREM CautiousAdvice == FusionSpec => []AdviceIsCautious
<1>1. FusionInit => FusionInv
  BY DEF FusionInit, FusionInv, ContactStates, Cautious
<1>2. FusionInv => AdviceIsCautious
  BY CautionIsMeant DEF FusionInv
<1> QED BY <1>1, <1>2, FusionKept, PTL DEF FusionSpec

----------------------------------------------------------------------------
(* FieldCompanion                                                          *)

(* A set of positions that is not empty has a last one.                    *)
LEMMA LastOf ==
    ASSUME NEW n \in Nat, NEW s \in SUBSET (1 .. n), s # {}
    PROVE  Max(s) \in s
<1> DEFINE back == {n - x : x \in s}
<1>1. back \subseteq Nat /\ back # {}
  <2>1. \A x \in s : x \in 1 .. n /\ n - x \in Nat
    OBVIOUS
  <2>2. PICK x \in s : TRUE
    OBVIOUS
  <2> QED BY <2>1, <2>2
<1>2. PICK m \in back : \A k \in back : m =< k
  <2> HIDE DEF back
  <2> QED BY <1>1, SmallestOf
<1>3. PICK x \in s : m = n - x
  OBVIOUS
<1>4. ASSUME NEW y \in s PROVE x >= y
  <2>1. n - y \in back
    OBVIOUS
  <2>2. m =< n - y
    <3> HIDE DEF back
    <3> QED BY <1>2, <2>1
  <2> QED BY <1>3, <2>2
<1> QED BY <1>4 DEF Max

(* Appending to a queue adds an operation to it.                           *)
LEMMA OpsOfAppend ==
    ASSUME NEW t \in Seq(Queued), NEW q \in Queued
    PROVE  Append(t, q) \in Seq(Queued) /\ OpsIn(Append(t, q)) = OpsIn(t) \cup {q.op}
<1>1. /\ Append(t, q) \in Seq(Queued) /\ Len(Append(t, q)) = Len(t) + 1
      /\ Append(t, q)[Len(t) + 1] = q
      /\ \A i \in 1 .. Len(t) : Append(t, q)[i] = t[i]
      /\ Len(t) \in Nat /\ DOMAIN t = 1 .. Len(t)
      /\ DOMAIN Append(t, q) = 1 .. Len(t) + 1
  OBVIOUS
<1>2. OpsIn(Append(t, q)) \subseteq OpsIn(t) \cup {q.op}
  BY <1>1 DEF OpsIn
<1>3. OpsIn(t) \subseteq OpsIn(Append(t, q))
  <2>1. \A i \in 1 .. Len(t) : i \in 1 .. Len(t) + 1
    BY <1>1
  <2> QED BY <1>1, <2>1, Zenon DEF OpsIn
<1>4. q.op \in OpsIn(Append(t, q))
  <2>1. Len(t) + 1 \in 1 .. Len(t) + 1
    BY <1>1
  <2> QED BY <1>1, <2>1, Zenon DEF OpsIn
<1> QED BY <1>1, <1>2, <1>3, <1>4

(* The first of a queue, and the rest.                                     *)
LEMMA OpsOfTail ==
    ASSUME NEW t \in Seq(Queued), t # <<>>
    PROVE  /\ Head(t) \in Queued /\ Head(t).op \in OpsIn(t)
           /\ Tail(t) \in Seq(Queued) /\ OpsIn(Tail(t)) \subseteq OpsIn(t)
<1>1. /\ Len(t) \in Nat /\ Len(t) >= 1 /\ DOMAIN t = 1 .. Len(t) /\ Head(t) = t[1]
      /\ Tail(t) \in Seq(Queued) /\ Len(Tail(t)) = Len(t) - 1
      /\ DOMAIN Tail(t) = 1 .. Len(t) - 1
      /\ \A i \in 1 .. Len(t) - 1 : Tail(t)[i] = t[i + 1]
  OBVIOUS
<1>2. 1 \in DOMAIN t /\ t[1] \in Queued
  BY <1>1
<1>3. ASSUME NEW i \in DOMAIN Tail(t) PROVE Tail(t)[i].op \in OpsIn(t)
  <2>1. i + 1 \in DOMAIN t /\ Tail(t)[i] = t[i + 1]
    BY <1>1, <1>3
  <2> QED BY <2>1 DEF OpsIn
<1> QED BY <1>1, <1>2, <1>3 DEF OpsIn

LEMMA OpsOfQueue ==
    /\ OpsIn(<<>>) = {}
    /\ \A t \in Seq(Queued) : OpsIn(t) \subseteq Ops
<1>1. ASSUME NEW t \in Seq(Queued) PROVE OpsIn(t) \subseteq Ops
  <2>1. \A i \in DOMAIN t : t[i] \in Queued
    OBVIOUS
  <2> QED BY <2>1 DEF OpsIn, Queued
<1>2. OpsIn(<<>>) = {}
  BY DEF OpsIn
<1> QED BY <1>1, <1>2

(* The queue a flush leaves holds what failed, and whatever is queued that *)
(* it neither acknowledged nor found expired.                              *)
LEMMA MergedQueue ==
    ASSUME NEW fl \in Flush, cur.pending \in Seq(Queued)
    PROVE  /\ Merged(fl) \in Seq(Queued)
           /\ OpsIn(cur.pending) \ (fl.acked \cup expired) \subseteq OpsIn(Merged(fl))
           /\ OpsIn(Merged(fl)) \subseteq OpsIn(fl.remaining) \cup OpsIn(cur.pending)
<1> DEFINE pend == cur.pending
           base == fl.remaining
           dropped == OpsIn(fl.remaining) \cup fl.acked \cup expired
           S == DOMAIN pend
           T == Seq(Queued)
           step(g) == [s \in SUBSET S |->
                         IF s = {} THEN base
                         ELSE IF pend[Max(s)].op \in dropped THEN g[s \ {Max(s)}]
                         ELSE Append(g[s \ {Max(s)}], pend[Max(s)])]
           fold == CHOOSE g : g = step(g)
<1>1. Merged(fl) = fold[S]
  BY DEF Merged, FoldLeft, MapThenFoldSet
<1>2. /\ base \in T /\ Len(pend) \in Nat /\ S = 1 .. Len(pend)
      /\ \A x \in S : pend[x] \in Queued
  BY DEF Flush
<1>3. IsFiniteSet(S)
  <2>1. IsFiniteSet(1 .. Len(pend))
    <3> HIDE DEF pend
    <3> QED BY ONLY <1>2, FS_Interval, SMT
  <2> QED BY ONLY <1>2, <2>1, Zenon
<1>4. \A s \in SUBSET S : s # {} => Max(s) \in s
  BY <1>2, LastOf
<1>5. PICK g \in [SUBSET S -> T] : g = step(g)
  <2> DEFINE last == [s \in SUBSET S |-> Max(s)]
             next == [z \in S \X T |-> IF pend[z[1]].op \in dropped THEN z[2]
                                       ELSE Append(z[2], pend[z[1]])]
  <2>1. Chooses(last, S)
    BY <1>4 DEF Chooses
  <2>2. \A x \in S : \A t \in T : /\ next[<<x, t>>] \in T
                               /\ next[<<x, t>>] = IF pend[x].op \in dropped THEN t
                                                  ELSE Append(t, pend[x])
    BY <1>2
  <2> HIDE DEF S, T, base, next, last, dropped, pend
  <2>3. PICK g \in [SUBSET S -> T] :
           g = [s \in SUBSET S |-> IF s = {} THEN base ELSE next[<<last[s], g[s \ {last[s]}]>>]]
    <3>1. Closed(next, S, T)
      BY <2>2 DEF Closed
    <3>2. base \in T
      BY <1>2
    <3>3. \E g \in [SUBSET S -> T] : IsFold(g, S, base, last, next)
      BY <1>3, <2>1, <3>1, <3>2, FoldExists, Zenon
    <3> QED BY <3>3 DEF IsFold
  <2>4. ASSUME NEW s \in SUBSET S, s # {}
        PROVE  g[s] = IF pend[Max(s)].op \in dropped THEN g[s \ {Max(s)}]
                      ELSE Append(g[s \ {Max(s)}], pend[Max(s)])
    <3>1. last[s] = Max(s) /\ Max(s) \in S /\ g[s \ {Max(s)}] \in T
      BY <1>4, <2>4 DEF last
    <3>2. g[s] = next[<<Max(s), g[s \ {Max(s)}]>>]
      BY <2>3, <2>4, <3>1
    <3> QED BY <2>2, <3>1, <3>2
  <2>5. g[{}] = base
    BY <2>3
  <2>6. g = step(g)
    BY <2>3, <2>4, <2>5
  <2> QED BY <2>6
<1>6. fold = step(fold)
  BY <1>5
<1> HIDE DEF fold
<1>7. \A s \in SUBSET S :
         fold[s] = IF s = {} THEN base
                   ELSE IF pend[Max(s)].op \in dropped THEN fold[s \ {Max(s)}]
                   ELSE Append(fold[s \ {Max(s)}], pend[Max(s)])
  BY <1>6
<1> DEFINE good(s) == /\ fold[s] \in T
                      /\ OpsIn(base) \subseteq OpsIn(fold[s])
                      /\ OpsIn(fold[s]) \subseteq OpsIn(base) \cup OpsIn(pend)
                      /\ \A x \in s : pend[x].op \in dropped \/ pend[x].op \in OpsIn(fold[s])
           bad == {s \in SUBSET S : ~ good(s)}
<1>8. ASSUME NEW t \in T, NEW q \in Queued
      PROVE  Append(t, q) \in T /\ OpsIn(Append(t, q)) = OpsIn(t) \cup {q.op}
  BY OpsOfAppend
<1>9. ASSUME NEW s \in SUBSET S, ~ good(s)
      PROVE  \E x \in s : ~ good(s \ {x})
  <2>1. s # {}
    BY <1>2, <1>7, <1>9
  <2>2. Max(s) \in s /\ Max(s) \in S
    BY <1>4, <2>1
  <2> DEFINE m == Max(s)
             r == s \ {m}
  <2> SUFFICES ASSUME good(r) PROVE FALSE
    BY <2>2
  <2>5. pend[m].op \in OpsIn(pend)
    BY <2>2 DEF OpsIn
  <2> HIDE DEF m, T, S, pend, base, dropped
  <2>3. CASE pend[m].op \in dropped
    <3>1. fold[s] = fold[r]
      BY <1>7, <2>1, <2>3 DEF m
    <3> QED BY <1>9, <2>3, <3>1
  <2>4. CASE pend[m].op \notin dropped
    <3>1. fold[s] = Append(fold[r], pend[m])
      BY <1>7, <2>1, <2>4 DEF m
    <3>2. /\ fold[s] \in T
          /\ OpsIn(fold[s]) = OpsIn(fold[r]) \cup {pend[m].op}
      BY <1>2, <1>8, <2>2, <3>1 DEF m
    <3> QED BY <1>9, <2>5, <3>2
  <2> QED BY <2>3, <2>4
<1>10. good(S)
  <2> HIDE DEF S, good
  <2>1. \A s \in bad : \E x \in s : s \ {x} \in bad
    BY <1>9
  <2>2. bad = {}
    BY <1>3, <2>1, NoneIsBad
  <2> QED BY <2>2
<1>11. \A o \in OpsIn(pend) : \E x \in S : pend[x].op = o
  BY DEF OpsIn
<1> HIDE DEF S, T, pend, base
<1> QED BY <1>1, <1>10, <1>11 DEF T, pend, base

(* The client: well-formed; a flush that waits for an answer has asked;    *)
(* what it counts as acknowledged is recorded; nothing is forgotten.       *)
ClientIsKept ==
    /\ cur \in State /\ stored \in State
    /\ flush \in [Flushers -> Flush \cup {NoFlush}]
    /\ registered \in BOOLEAN
    /\ created \in 0 .. MaxOps
    /\ upsets \in 0 .. MaxUpsets
    /\ expired \in SUBSET Ops /\ abandoned \in SUBSET Ops
    /\ \A f \in Flushers : flush[f] # NoFlush =>
          /\ flush[f].sent => flush[f].todo # <<>>
          /\ \A o \in flush[f].acked : Recorded(o)
    /\ \A o \in cur.acked \cup stored.acked : Recorded(o)
    /\ NothingForgotten
    /\ SettledIsStored

(* The server: well-formed; what it answered is recorded; the reservation  *)
(* of an operation is held by at most one request, and by none once an     *)
(* operation took effect without a record.                                 *)
ServerIsFenced ==
    /\ wire \subseteq [by : Flushers \cup {NoFlush}, q : Queued, scope : Scopes,
                     at : {"sent", "held", "ERROR"} \cup Receipts]
    /\ reserved \in SUBSET Ops /\ refused \in SUBSET Ops
    /\ ledger \in [Ops -> LedgerRow \cup {NoFlush}]
    /\ applied \in [Ops -> Nat]
    /\ \A r \in wire : /\ r.at \in Receipts => Recorded(r.q.op)
                       /\ r.at = "held" => r.q.op \in reserved
    /\ \A r, s \in wire : r.at = "held" /\ s.at = "held" /\ r.q.op = s.q.op => r = s
    /\ \A o \in Ops :
          /\ applied[o] =< 1
          /\ applied[o] # 0 /\ ~ Recorded(o) =>
                o \in reserved /\ \A r \in wire : r.at = "held" => r.q.op # o

(* The inductive invariant.                                                *)
FieldInv == ClientIsKept /\ ServerIsFenced

(* Operations made for a scope; the operations that a flush still has.     *)
OwnOps(ops, m, scope) == \A o \in ops : m[o] = scope
InFlight(x) == IF x = NoFlush THEN {} ELSE OpsIn(x.todo) \cup OpsIn(x.remaining)

(* The page is that of its scope, and so is all that it queues.            *)
PageOwn(c, s, fl, m, scope) ==
    /\ c.scope = scope /\ s.scope = scope
    /\ OwnOps(OpsIn(c.pending), m, scope) /\ OwnOps(OpsIn(s.pending), m, scope)
    /\ \A f \in Flushers : OwnOps(InFlight(fl[f]), m, scope)

WireOwn(w, m) == \A r \in w : r.scope = m[r.q.op]
LedgerOwn(l, m) == \A o \in Ops : l[o] # NoFlush => l[o].scope = m[o]

(* The scopes of pages, requests and records agree, and what is not yet    *)
(* made has none.                                                          *)
ScopesMatch ==
    /\ booted \in Scopes
    /\ made \in [Ops -> Scopes \cup {NoFlush}]
    /\ \A o \in Ops : o > created => made[o] = NoFlush
    /\ PageOwn(cur, stored, flush, made, booted)
    /\ WireOwn(wire, made)
    /\ LedgerOwn(ledger, made)

LEMMA FieldPromised == FieldInv /\ ScopesMatch => DeliveredAndKept
  BY DEF FieldInv, ClientIsKept, ServerIsFenced, ScopesMatch, WireOwn, LedgerOwn, Recorded,
     DeliveredAndKept, FieldTypeOK, AppliedOnce, SentInOwnScope

LEMMA FieldStart == FieldInit => FieldInv
<1> SUFFICES ASSUME FieldInit PROVE FieldInv
  OBVIOUS
<1>1. initialState(booted) \in State
  BY DEF FieldInit, initialState, State, Phases, Networks
<1>2. ClientIsKept
  <2>1. cur = initialState(booted) /\ stored = initialState(booted) /\ initialState(booted).acked = {}
    BY DEF FieldInit, initialState
  <2>2. flush \in [Flushers -> Flush \cup {NoFlush}] /\ \A f \in Flushers : flush[f] = NoFlush
    BY DEF FieldInit
  <2>3. /\ registered \in BOOLEAN /\ created \in 0 .. MaxOps /\ upsets \in 0 .. MaxUpsets
        /\ expired = {} /\ abandoned = {}
    <3>1. registered = FALSE /\ created = 0 /\ upsets = 0 /\ expired = {} /\ abandoned = {}
      BY DEF FieldInit
    <3>2. 0 \in 0 .. MaxOps /\ 0 \in 0 .. MaxUpsets
      BY FieldAssumption
    <3> QED BY <3>1, <3>2
  <2>4. NothingForgotten
    <3>1. created = 0
      BY DEF FieldInit
    <3> QED BY <3>1 DEF NothingForgotten
  <2> QED BY <1>1, <2>1, <2>2, <2>3, <2>4 DEF ClientIsKept, SettledIsStored
<1>3. ServerIsFenced
  BY FieldAssumption DEF FieldInit, ServerIsFenced, Recorded
<1> QED BY <1>2, <1>3 DEF FieldInv

(* The client does not see a server that only records more.                *)
LEMMA ClientStays ==
    ASSUME ClientIsKept, UNCHANGED <<deviceVars, scopeVars>>,
           \A o \in Ops : Recorded(o) => Recorded(o)'
    PROVE  ClientIsKept'
<1>1. /\ cur' = cur /\ stored' = stored /\ flush' = flush /\ registered' = registered
      /\ created' = created /\ expired' = expired /\ upsets' = upsets
      /\ abandoned' = abandoned
  BY DEF deviceVars, scopeVars
<1>2. /\ cur.acked \subseteq Ops /\ stored.acked \subseteq Ops
      /\ \A f \in Flushers : flush[f] # NoFlush => flush[f].acked \subseteq Ops
      /\ 1 .. created \subseteq Ops
  BY FieldAssumption DEF ClientIsKept, State, Flush, Ops
<1>3. NothingForgotten'
  BY <1>1, <1>2 DEF ClientIsKept, NothingForgotten
<1>4. SettledIsStored'
  BY <1>1, Zenon DEF ClientIsKept, SettledIsStored
<1>5. \A f \in Flushers : flush'[f] # NoFlush => \A o \in flush'[f].acked : Recorded(o)'
  BY <1>1, <1>2 DEF ClientIsKept
<1>6. \A o \in cur'.acked \cup stored'.acked : Recorded(o)'
  BY <1>1, <1>2 DEF ClientIsKept
<1> QED BY <1>1, <1>3, <1>4, <1>5, <1>6 DEF ClientIsKept

(* A call that changes and saves the state, losing no operation, and       *)
(* begins a flush or none.                                                 *)
LEMMA SettleKeeps ==
    ASSUME ClientIsKept, NEW f \in Flushers, NEW state \in State, Settle(f, state),
           state.acked = cur.acked, OpsIn(cur.pending) \subseteq OpsIn(state.pending),
           created' \in 0 .. MaxOps,
           \A o \in (1 .. created') \ (1 .. created) : o \in OpsIn(state.pending),
           upsets' \in 0 .. MaxUpsets, UNCHANGED <<registered, expired, ledger, abandoned>>
    PROVE  ClientIsKept'
<1>1. /\ cur' = state /\ stored' = state
      /\ flush' = [flush EXCEPT ![f] = IF state.network = "OFFLINE" THEN NoFlush ELSE Flushing(state)]
  BY DEF Settle
<1>2. Flushing(state) \in Flush /\ Flushing(state).acked = state.acked /\ ~ Flushing(state).sent
  BY DEF Flushing, Flush, State
<1>3. /\ flush' \in [Flushers -> Flush \cup {NoFlush}]
      /\ flush'[f] \in {NoFlush, Flushing(state)}
      /\ \A g \in Flushers : g # f => flush'[g] = flush[g]
  BY <1>1, <1>2 DEF ClientIsKept
<1>4. \A g \in Flushers : flush'[g] # NoFlush =>
          /\ flush'[g].sent => flush'[g].todo # <<>>
          /\ \A o \in flush'[g].acked : Recorded(o)
  <2> SUFFICES ASSUME NEW g \in Flushers, flush'[g] # NoFlush
               PROVE  /\ flush'[g].sent => flush'[g].todo # <<>>
                      /\ \A o \in flush'[g].acked : Recorded(o)
    OBVIOUS
  <2>1. CASE g = f
    BY <1>2, <1>3, <2>1 DEF ClientIsKept
  <2>2. CASE g # f
    BY <1>3, <2>2 DEF ClientIsKept
  <2> QED BY <2>1, <2>2
<1>5. NothingForgotten'
  BY <1>1 DEF ClientIsKept, NothingForgotten, Recorded
<1>6. SettledIsStored'
  BY <1>1 DEF SettledIsStored
<1> QED BY <1>1, <1>3, <1>4, <1>5, <1>6 DEF ClientIsKept, Recorded

(* A flush that goes on, or begins.                                        *)
LEMMA FlushKeeps ==
    ASSUME ClientIsKept, NEW f \in Flushers, NEW x \in Flush,
           flush' = [flush EXCEPT ![f] = x], x.sent => x.todo # <<>>,
           \A o \in x.acked : Recorded(o),
           cur' \in State, cur'.pending = cur.pending, cur'.acked = cur.acked,
           upsets' \in 0 .. MaxUpsets, registered' \in BOOLEAN,
           UNCHANGED <<stored, created, expired, ledger, abandoned>>
    PROVE  ClientIsKept'
<1>1. x # NoFlush
  BY FieldAssumption
<1>2. /\ flush' \in [Flushers -> Flush \cup {NoFlush}]
      /\ flush'[f] = x
      /\ \A g \in Flushers : g # f => flush'[g] = flush[g]
  BY DEF ClientIsKept
<1>3. \A g \in Flushers : flush'[g] # NoFlush =>
          /\ flush'[g].sent => flush'[g].todo # <<>>
          /\ \A o \in flush'[g].acked : Recorded(o)
  <2> SUFFICES ASSUME NEW g \in Flushers, flush'[g] # NoFlush
               PROVE  /\ flush'[g].sent => flush'[g].todo # <<>>
                      /\ \A o \in flush'[g].acked : Recorded(o)
    OBVIOUS
  <2>1. CASE g = f
    BY <1>2, <2>1
  <2>2. CASE g # f
    BY <1>2, <2>2 DEF ClientIsKept
  <2> QED BY <2>1, <2>2
<1>4. NothingForgotten'
  BY DEF ClientIsKept, NothingForgotten, Recorded
<1>5. SettledIsStored'
  BY <1>1, <1>2 DEF SettledIsStored
<1> QED BY <1>2, <1>3, <1>4, <1>5 DEF ClientIsKept, Recorded

(* What the user does: the operation is queued behind the others.          *)
LEMMA EnqueueKeeps ==
    ASSUME ClientIsKept, NEW f \in Flushers, NEW state \in State, Enqueue(f, state),
           state.acked = cur.acked, state.pending = cur.pending
    PROVE  ClientIsKept'
<1> DEFINE q == [op |-> created + 1, attempts |-> 0]
           more == enqueue(state)
<1>1. created \in Nat /\ created + 1 \in Ops /\ created' = created + 1 /\ created' \in 0 .. MaxOps
  BY FieldAssumption DEF ClientIsKept, Enqueue, CanEnqueue, Ops
<1>2. q \in Queued
  BY <1>1, FieldAssumption DEF Queued
<1>3. more.pending = Append(state.pending, q) /\ more.acked = state.acked
  BY DEF enqueue, State
<1>4. more \in State
  <2>1. Append(state.pending, q) \in Seq(Queued)
    BY <1>2 DEF State
  <2>2. more = [state EXCEPT !.pending = Append(state.pending, q)]
    BY DEF enqueue
  <2> HIDE DEF q, more
  <2> QED BY <2>1, <2>2 DEF State
<1>5. OpsIn(more.pending) = OpsIn(state.pending) \cup {created + 1}
  <2>1. state.pending \in Seq(Queued)
    BY DEF State
  <2> QED BY <1>2, <1>3, <2>1, OpsOfAppend
<1>6. (1 .. created') \ (1 .. created) = {created + 1}
  BY <1>1
<1>7. /\ Settle(f, more) /\ upsets' \in 0 .. MaxUpsets
      /\ UNCHANGED <<registered, expired, ledger, abandoned>>
  BY DEF Enqueue, serverVars, scopeVars, ClientIsKept
<1> HIDE DEF more, q
<1> QED BY <1>1, <1>3, <1>4, <1>5, <1>6, <1>7, SettleKeeps

(* Phases stay phases.                                                     *)
LEMMA PhaseIsPhase ==
    ASSUME NEW n \in Networks, NEW p \in Phases
    PROVE  phaseForNetwork(n, p) \in Phases
BY DEF phaseForNetwork, Phases

LEMMA UserKeeps ==
    ASSUME ClientIsKept, NEW f \in Flushers, NEW b \in BOOLEAN,
           setConsent(f, b) \/ respond(f, b) \/ selectLanguage(f) \/ share(f)
    PROVE  ClientIsKept'
<1>1. /\ cur \in State /\ cur.network \in Networks /\ "READY" \in Phases
      /\ "HUMAN_REVIEW" \in Phases
  BY DEF ClientIsKept, State, Phases
<1>2. phaseForNetwork(cur.network, "READY") \in Phases
  BY <1>1, PhaseIsPhase
<1>3. CASE setConsent(f, b)
  <2> DEFINE s == [cur EXCEPT !.consent = IF b THEN "GRANTED" ELSE "DECLINED",
                              !.phase = IF b THEN phaseForNetwork(cur.network, "READY")
                                             ELSE "HUMAN_REVIEW",
                              !.prompt = b]
  <2>1. s \in State /\ s.acked = cur.acked /\ s.pending = cur.pending
    BY <1>1, <1>2 DEF State
  <2>2. Enqueue(f, s)
    BY <1>3 DEF setConsent
  <2> HIDE DEF s
  <2> QED BY <2>1, <2>2, EnqueueKeeps
<1>4. CASE respond(f, b)
  <2> DEFINE s == [cur EXCEPT !.phase = IF b THEN "HUMAN_REVIEW"
                                        ELSE phaseForNetwork(cur.network, "READY")]
  <2>1. s \in State /\ s.acked = cur.acked /\ s.pending = cur.pending
    BY <1>1, <1>2 DEF State
  <2>2. Enqueue(f, s)
    BY <1>4 DEF respond
  <2> HIDE DEF s
  <2> QED BY <2>1, <2>2, EnqueueKeeps
<1>5. CASE selectLanguage(f)
  <2> DEFINE s == [cur EXCEPT !.prompt = TRUE]
  <2>1. s \in State /\ s.acked = cur.acked /\ s.pending = cur.pending
    BY <1>1 DEF State
  <2>2. Enqueue(f, s)
    BY <1>5 DEF selectLanguage
  <2> HIDE DEF s
  <2> QED BY <2>1, <2>2, EnqueueKeeps
<1>6. CASE share(f)
  BY <1>1, <1>6, EnqueueKeeps DEF share
<1> QED BY <1>3, <1>4, <1>5, <1>6

LEMMA DeviceKeeps ==
    ASSUME ClientIsKept, NEW f \in Flushers, NEW n \in Networks, updateDevice(f, n)
    PROVE  ClientIsKept'
<1> DEFINE s == [cur EXCEPT !.network = n, !.phase = phaseForNetwork(n, cur.phase)]
<1>1. s \in State /\ s.acked = cur.acked /\ s.pending = cur.pending
  <2>1. cur \in State /\ cur.phase \in Phases
    BY DEF ClientIsKept, State
  <2>2. phaseForNetwork(n, cur.phase) \in Phases
    BY <2>1, PhaseIsPhase
  <2> QED BY <2>1, <2>2 DEF State
<1>2. /\ Settle(f, s) /\ created' = created /\ upsets' \in 0 .. MaxUpsets
      /\ UNCHANGED <<registered, expired, ledger, abandoned>>
  BY FieldAssumption DEF updateDevice, Upset, serverVars, scopeVars, ClientIsKept
<1>3. created \in 0 .. MaxOps
  BY DEF ClientIsKept
<1> HIDE DEF s
<1> QED BY <1>1, <1>2, <1>3, SettleKeeps

LEMMA ShownKeeps ==
    ASSUME ClientIsKept, NEW p \in {"OPERATOR_TAKEOVER", "COMPLETED"}, Shown(p)
    PROVE  ClientIsKept'
<1>1. /\ cur' \in State /\ cur'.pending = cur.pending /\ cur'.acked = cur.acked
      /\ stored' = cur'
  BY DEF Shown, ClientIsKept, State, Phases
<1>2. /\ upsets' \in 0 .. MaxUpsets
      /\ UNCHANGED <<flush, registered, created, expired, ledger, abandoned>>
  BY FieldAssumption DEF Shown, Upset, serverVars, scopeVars, ClientIsKept
<1>3. NothingForgotten'
  BY <1>1, <1>2 DEF ClientIsKept, NothingForgotten, Recorded
<1> QED BY <1>1, <1>2, <1>3 DEF ClientIsKept, Recorded, SettledIsStored

LEMMA FlushPendingKeeps ==
    ASSUME ClientIsKept, NEW f \in Flushers, FlushPending(f)
    PROVE  ClientIsKept'
<1> DEFINE x == Flushing(cur)
<1>1. x \in Flush /\ x.acked = cur.acked /\ x.sent = FALSE
  BY DEF Flushing, Flush, State, ClientIsKept
<1>2. /\ flush' = [flush EXCEPT ![f] = x] /\ upsets' \in 0 .. MaxUpsets
      /\ UNCHANGED <<cur, stored, registered, created, expired, ledger, abandoned>>
  BY FieldAssumption DEF FlushPending, Upset, serverVars, scopeVars, ClientIsKept
<1>3. /\ \A o \in x.acked : Recorded(o)
      /\ cur \in State /\ registered \in BOOLEAN
  BY <1>1 DEF ClientIsKept
<1> HIDE DEF x
<1> QED BY <1>1, <1>2, <1>3, FlushKeeps

LEMMA RegisterKeeps ==
    ASSUME ClientIsKept, RegisterDevice
    PROVE  ClientIsKept'
<1>1. /\ registered' \in BOOLEAN
      /\ UNCHANGED <<cur, stored, flush, created, expired, upsets, ledger, abandoned>>
  BY DEF RegisterDevice, serverVars, scopeVars
<1>2. NothingForgotten'
  BY <1>1 DEF ClientIsKept, NothingForgotten, Recorded
<1> QED BY <1>1, <1>2 DEF ClientIsKept, Recorded, SettledIsStored

(* What a failed delivery leaves of a flush.                               *)
LEMMA FailedIsFlush ==
    ASSUME ClientIsKept, NEW f \in Flushers, flush[f] # NoFlush, flush[f].todo # <<>>,
           Failed(f)
    PROVE  \E x \in Flush : /\ flush' = [flush EXCEPT ![f] = x]
                            /\ ~ x.sent /\ x.acked = flush[f].acked
                            /\ InFlight(x) \subseteq InFlight(flush[f])
<1> DEFINE fl == flush[f]
           q == Head(fl.todo)
           again == [q EXCEPT !.attempts = IF @ > MaxSends THEN @ ELSE @ + 1]
           x == [fl EXCEPT !.todo = IF cur.network = "DEGRADED" THEN <<>> ELSE Tail(@),
                           !.remaining = Append(@, again), !.sent = FALSE]
<1>1. fl \in Flush
  BY DEF ClientIsKept
<1>2. q \in Queued /\ Tail(fl.todo) \in Seq(Queued)
  BY <1>1 DEF Flush
<1>3. again \in Queued
  <2> DEFINE n == IF q.attempts > MaxSends THEN q.attempts ELSE q.attempts + 1
  <2>1. n \in 0 .. MaxSends + 1
    <3>1. MaxSends \in Nat
      BY FieldAssumption
    <3>2. q.attempts \in 0 .. MaxSends + 1
      BY <1>2 DEF Queued
    <3> HIDE DEF q
    <3> QED BY <3>1, <3>2
  <2>2. again = [q EXCEPT !.attempts = n]
    OBVIOUS
  <2> HIDE DEF n, again, q
  <2> QED BY <1>2, <2>1, <2>2 DEF Queued
<1>4. /\ x \in Flush /\ x.sent = FALSE /\ x.acked = fl.acked
      /\ InFlight(x) \subseteq InFlight(fl)
  <2> DEFINE todo == IF cur.network = "DEGRADED" THEN <<>> ELSE Tail(fl.todo)
             rest == Append(fl.remaining, again)
  <2>1. x = [fl EXCEPT !.todo = todo, !.remaining = rest, !.sent = FALSE]
    OBVIOUS
  <2>2. fl.todo \in Seq(Queued) /\ fl.remaining \in Seq(Queued) /\ again.op = q.op
    BY <1>1, <1>2 DEF Flush, Queued
  <2>3. /\ todo \in Seq(Queued) /\ OpsIn(todo) \subseteq OpsIn(fl.todo)
        /\ q.op \in OpsIn(fl.todo)
    <3> HIDE DEF fl
    <3> QED BY <2>2, OpsOfTail, OpsOfQueue DEF fl
  <2>4. rest \in Seq(Queued) /\ OpsIn(rest) = OpsIn(fl.remaining) \cup {q.op}
    <3> HIDE DEF again, fl, q
    <3> QED BY <1>3, <2>2, OpsOfAppend
  <2> HIDE DEF todo, rest, x, fl, again, q
  <2>5. x \in Flush /\ x.sent = FALSE /\ x.acked = fl.acked /\ x.todo = todo /\ x.remaining = rest
    BY <1>1, <2>1, <2>3, <2>4 DEF Flush
  <2>6. x # NoFlush /\ fl # NoFlush
    BY <1>1, <2>5, FieldAssumption
  <2> QED BY <2>3, <2>4, <2>5, <2>6 DEF InFlight
<1>5. flush' = [flush EXCEPT ![f] = x]
  BY DEF Failed
<1> HIDE DEF x
<1> QED BY <1>4, <1>5

LEMMA FlushNextKeeps ==
    ASSUME ClientIsKept, NEW f \in Flushers, FlushNext(f)
    PROVE  ClientIsKept'
<1> DEFINE fl == flush[f]
<1>1. fl \in Flush /\ fl # NoFlush /\ fl.todo # <<>> /\ ~ fl.sent
  BY DEF ClientIsKept, FlushNext
<1>2. /\ UNCHANGED <<cur, stored, registered, created, expired, upsets, ledger, abandoned>>
      /\ cur \in State /\ registered \in BOOLEAN /\ upsets \in 0 .. MaxUpsets
      /\ \A o \in fl.acked : Recorded(o)
  BY <1>1 DEF FlushNext, scopeVars, ClientIsKept
<1>3. \E x \in Flush : /\ flush' = [flush EXCEPT ![f] = x]
                       /\ (x.sent => x.todo # <<>>) /\ x.acked = fl.acked
  <2>1. CASE flush' = [flush EXCEPT ![f].todo = Tail(@)]
    <3> DEFINE x == [fl EXCEPT !.todo = Tail(fl.todo)]
    <3>1. Tail(fl.todo) \in Seq(Queued)
      BY <1>1 DEF Flush
    <3>2. x \in Flush /\ x.acked = fl.acked /\ x.sent = fl.sent
      <4> HIDE DEF fl
      <4> QED BY <1>1, <3>1 DEF Flush
    <3>3. flush' = [flush EXCEPT ![f] = x]
      BY <2>1
    <3> HIDE DEF x
    <3> QED BY <1>1, <3>2, <3>3
  <2>2. CASE Failed(f)
    BY <1>1, <2>2, FailedIsFlush
  <2>3. CASE flush' = [flush EXCEPT ![f].sent = TRUE]
    <3>1. [fl EXCEPT !.sent = TRUE] \in Flush
      BY <1>1 DEF Flush
    <3> QED BY <1>1, <2>3, <3>1 DEF Flush
  <2> QED BY <2>1, <2>2, <2>3 DEF FlushNext
<1> QED BY <1>2, <1>3, FlushKeeps

LEMMA AnsweredKeeps ==
    ASSUME ClientIsKept, ServerIsFenced, NEW f \in Flushers, NEW r \in wire, Answered(f, r)
    PROVE  ClientIsKept'
<1> DEFINE fl == flush[f]
<1>1. fl \in Flush /\ fl # NoFlush /\ fl.todo # <<>> /\ fl.sent
  BY DEF ClientIsKept, Answered
<1>2. /\ UNCHANGED <<stored, registered, created, expired, upsets, ledger, abandoned>>
      /\ cur \in State /\ registered \in BOOLEAN /\ upsets \in 0 .. MaxUpsets
      /\ \A o \in fl.acked : Recorded(o)
  BY <1>1 DEF Answered, scopeVars, ClientIsKept
<1>3. CASE r.at = "ERROR"
  <2>1. Failed(f) /\ cur' = cur
    BY <1>3 DEF Answered
  <2>2. PICK x \in Flush : /\ flush' = [flush EXCEPT ![f] = x]
                           /\ ~ x.sent /\ x.acked = fl.acked
    BY <1>1, <2>1, FailedIsFlush
  <2> QED BY <1>2, <2>1, <2>2, FlushKeeps
<1>4. CASE r.at # "ERROR"
  <2> DEFINE x == [fl EXCEPT !.todo = Tail(@), !.acked = @ \cup {r.q.op}, !.sent = FALSE]
  <2>1. /\ flush' = [flush EXCEPT ![f] = x] /\ cur' = applyReceipt(cur, r.at)
        /\ r.at \in Receipts
    <3>1. flush' = [flush EXCEPT ![f] = x] /\ cur' = applyReceipt(cur, r.at)
      BY <1>4 DEF Answered
    <3>2. r.at \in Receipts
      <4>1. r.at \in {"ERROR"} \cup Receipts
        BY Zenon DEF Answered
      <4> QED BY <1>4, <4>1
    <3> QED BY <3>1, <3>2
  <2>2. r.q.op \in Ops /\ Recorded(r.q.op)
    BY <2>1 DEF ServerIsFenced, Queued
  <2>3. x \in Flush /\ x.sent = FALSE /\ x.acked = fl.acked \cup {r.q.op}
    <3>1. Tail(fl.todo) \in Seq(Queued) /\ fl.acked \cup {r.q.op} \in SUBSET Ops
      BY <1>1, <2>2 DEF Flush
    <3>2. x = [fl EXCEPT !.todo = Tail(fl.todo), !.acked = fl.acked \cup {r.q.op}, !.sent = FALSE]
      OBVIOUS
    <3> HIDE DEF x, fl
    <3> QED BY <1>1, <3>1, <3>2 DEF Flush
  <2>4. cur' \in State /\ cur'.pending = cur.pending /\ cur'.acked = cur.acked
    <3>1. cur.network \in Networks /\ "READY" \in Phases
      BY <1>2 DEF State, Phases
    <3>2. phaseForNetwork(cur.network, "READY") \in Phases
      BY <3>1, PhaseIsPhase
    <3> DEFINE p == IF r.at = "ACCEPTED" THEN phaseForNetwork(cur.network, "READY") ELSE r.at
    <3>3. p \in Phases
      BY <2>1, <3>2, FieldAssumption DEF Phases
    <3>4. cur' = [cur EXCEPT !.phase = p, !.takeover = @ \/ r.at = "OPERATOR_TAKEOVER"]
      BY <2>1 DEF applyReceipt
    <3> HIDE DEF p
    <3> QED BY <1>2, <3>3, <3>4 DEF State
  <2> HIDE DEF x
  <2>5. \A o \in x.acked : Recorded(o)
    BY <1>2, <2>2, <2>3
  <2> QED BY <1>2, <2>1, <2>3, <2>4, <2>5, FlushKeeps
<1> QED BY <1>3, <1>4

LEMMA UnansweredKeeps ==
    ASSUME ClientIsKept, NEW f \in Flushers, NEW r \in wire, Unanswered(f, r)
    PROVE  ClientIsKept'
<1> DEFINE fl == flush[f]
<1>1. fl \in Flush /\ fl # NoFlush /\ fl.todo # <<>> /\ fl.sent
  BY DEF ClientIsKept, Unanswered
<1>2. /\ UNCHANGED <<cur, stored, registered, created, expired, upsets, ledger, abandoned>>
      /\ cur \in State /\ registered \in BOOLEAN /\ upsets \in 0 .. MaxUpsets
      /\ \A o \in fl.acked : Recorded(o)
  BY <1>1 DEF Unanswered, scopeVars, ClientIsKept
<1>3. PICK x \in Flush : /\ flush' = [flush EXCEPT ![f] = x]
                         /\ ~ x.sent /\ x.acked = fl.acked
  BY <1>1, FailedIsFlush DEF Unanswered
<1> QED BY <1>2, <1>3, FlushKeeps

LEMMA FlushEndKeeps ==
    ASSUME ClientIsKept, NEW f \in Flushers, FlushEnd(f)
    PROVE  ClientIsKept'
<1> DEFINE fl == flush[f]
<1>1. fl \in Flush /\ fl # NoFlush /\ cur \in State /\ \A o \in fl.acked : Recorded(o)
  BY DEF ClientIsKept, FlushEnd
<1>2. /\ cur' = [cur EXCEPT !.pending = Merged(fl), !.acked = fl.acked] /\ stored' = cur'
      /\ flush' = [flush EXCEPT ![f] = NoFlush]
      /\ UNCHANGED <<registered, created, expired, upsets, ledger, abandoned>>
  BY DEF FlushEnd, serverVars, scopeVars
<1>3. /\ Merged(fl) \in Seq(Queued)
      /\ OpsIn(cur.pending) \ (fl.acked \cup expired) \subseteq OpsIn(Merged(fl))
  <2>1. cur.pending \in Seq(Queued)
    BY <1>1 DEF State
  <2> QED BY <1>1, <2>1, MergedQueue
<1>4. cur' \in State /\ cur'.pending = Merged(fl) /\ cur'.acked = fl.acked
  <2>1. fl.acked \in SUBSET Ops
    BY <1>1 DEF Flush
  <2> HIDE DEF fl
  <2> QED BY <1>1, <1>2, <1>3, <2>1 DEF State
<1>5. NothingForgotten'
  <2> SUFFICES ASSUME NEW o \in (1 .. created) \ (expired \cup abandoned), ~ Recorded(o)
               PROVE  o \in OpsIn(cur'.pending) /\ o \in OpsIn(stored'.pending)
    BY <1>2 DEF NothingForgotten, Recorded
  <2>1. o \in OpsIn(cur.pending)
    BY DEF ClientIsKept, NothingForgotten
  <2> QED BY <1>1, <1>2, <1>3, <1>4, <2>1
<1>6. /\ flush' \in [Flushers -> Flush \cup {NoFlush}]
      /\ \A g \in Flushers : flush'[g] # NoFlush => flush'[g] = flush[g]
  BY <1>2 DEF ClientIsKept
<1>7. SettledIsStored'
  BY <1>2 DEF SettledIsStored
<1> QED BY <1>1, <1>2, <1>4, <1>5, <1>6, <1>7 DEF ClientIsKept, Recorded

LEMMA ReloadKeeps ==
    ASSUME ClientIsKept, NEW f \in Flushers, Reload(f)
    PROVE  ClientIsKept'
<1>1. /\ stored' = cur'
      /\ flush' = [g \in Flushers |->
            IF g = f /\ cur'.network # "OFFLINE" THEN Flushing(cur') ELSE NoFlush]
      /\ registered' = FALSE /\ upsets' \in 0 .. MaxUpsets
      /\ UNCHANGED <<created, expired, ledger>>
  BY FieldAssumption DEF Reload, Upset, ClientIsKept
<1>2. PICK scope \in Scopes, discard \in BOOLEAN :
         /\ Unusable(scope) => discard
         /\ discard => Unusable(scope) \/ OpsIn(stored.pending) \subseteq expired
         /\ booted' = scope
         /\ cur' = IF discard THEN initialState(scope)
                   ELSE [stored EXCEPT !.phase = phaseForNetwork(stored.network, @)]
         /\ abandoned' = IF Unusable(scope) THEN abandoned \cup OpsIn(stored.pending)
                         ELSE abandoned
  BY Zenon DEF Reload
<1>3. stored \in State /\ stored.phase \in Phases /\ stored.network \in Networks
  BY DEF ClientIsKept, State
<1>4. OpsIn(stored.pending) \in SUBSET Ops
  <2>1. stored.pending \in Seq(Queued)
    BY <1>3 DEF State
  <2>2. \A i \in DOMAIN stored.pending : stored.pending[i] \in Queued
    BY <2>1
  <2> QED BY <2>2 DEF OpsIn, Queued
<1>5. /\ cur' \in State
      /\ cur'.acked \subseteq stored.acked
      /\ discard \/ cur'.pending = stored.pending
  <2>1. CASE discard
    <3>1. cur' = initialState(scope)
      BY <1>2, <2>1
    <3> QED BY <2>1, <3>1 DEF initialState, State, Phases, Networks
  <2>2. CASE ~ discard
    <3>1. phaseForNetwork(stored.network, stored.phase) \in Phases
      BY <1>3, PhaseIsPhase
    <3>2. cur' = [stored EXCEPT !.phase = phaseForNetwork(stored.network, stored.phase)]
      BY <1>2, <2>2
    <3> QED BY <1>3, <3>1, <3>2 DEF State
  <2> QED BY <2>1, <2>2
<1>6. Flushing(cur') \in Flush /\ Flushing(cur').acked = cur'.acked /\ Flushing(cur').sent = FALSE
  BY <1>5 DEF Flushing, Flush, State
<1>7. /\ flush' \in [Flushers -> Flush \cup {NoFlush}]
      /\ \A g \in Flushers : flush'[g] \in {NoFlush, Flushing(cur')}
  BY <1>1, <1>6
<1>8. \A o \in cur'.acked \cup stored'.acked : Recorded(o)'
  BY <1>1, <1>5 DEF ClientIsKept, Recorded
<1>9. NothingForgotten'
  <2> SUFFICES ASSUME NEW o \in (1 .. created) \ (expired \cup abandoned'), ~ Recorded(o)
               PROVE  o \in OpsIn(cur'.pending)
    BY <1>1 DEF NothingForgotten, Recorded
  <2>1. o \notin abandoned /\ (Unusable(scope) => o \notin OpsIn(stored.pending))
    BY <1>2
  <2>2. o \in OpsIn(stored.pending)
    BY <2>1 DEF ClientIsKept, NothingForgotten
  <2>3. ~ discard
    BY <1>2, <2>1, <2>2
  <2> QED BY <1>5, <2>2, <2>3
<1>10. SettledIsStored'
  BY <1>1 DEF SettledIsStored
<1>11. abandoned' \in SUBSET Ops
  BY <1>2, <1>4 DEF ClientIsKept
<1>12. \A g \in Flushers : flush'[g] # NoFlush =>
          /\ flush'[g].sent => flush'[g].todo # <<>>
          /\ \A o \in flush'[g].acked : Recorded(o)'
  BY <1>6, <1>7, <1>8
<1> QED BY <1>1, <1>5, <1>7, <1>8, <1>9, <1>10, <1>11, <1>12 DEF ClientIsKept

LEMMA ExpireKeeps ==
    ASSUME ClientIsKept, NEW o \in Ops, Expire(o)
    PROVE  ClientIsKept'
<1>1. /\ expired \subseteq expired' /\ expired' \in SUBSET Ops /\ upsets' \in 0 .. MaxUpsets
      /\ UNCHANGED <<cur, stored, flush, registered, created, ledger, abandoned>>
  BY FieldAssumption DEF Expire, Upset, serverVars, scopeVars, ClientIsKept
<1>2. NothingForgotten'
  BY <1>1 DEF ClientIsKept, NothingForgotten, Recorded
<1> QED BY <1>1, <1>2 DEF ClientIsKept, Recorded, SettledIsStored

-----------------------------------------------------------------------------
(* The server                                                              *)

Requests == [by : Flushers \cup {NoFlush}, q : Queued, scope : Scopes,
             at : {"sent", "held", "ERROR"} \cup Receipts]

(* What moves only requests keeps the fence if it makes none of them held  *)
(* or answered that was not.                                               *)
LEMMA FenceStays ==
    ASSUME ServerIsFenced, wire' \subseteq Requests, UNCHANGED <<reserved, ledger, applied>>,
           refused' = refused \/ refused' \in SUBSET Ops,
           \A r \in wire' : r.at \in Receipts =>
               \E s \in wire : s.at \in Receipts /\ s.q.op = r.q.op,
           \A r \in wire' : r.at = "held" =>
               \E s \in wire : s.at = "held" /\ s.q.op = r.q.op,
           \A r, s \in wire' : r.at = "held" /\ s.at = "held" /\ r.q.op = s.q.op => r = s
    PROVE  ServerIsFenced'
<1>1. \A r \in wire' : /\ r.at \in Receipts => Recorded(r.q.op)'
                       /\ r.at = "held" => r.q.op \in reserved'
  BY DEF ServerIsFenced, Recorded
<1>2. \A o \in Ops :
          /\ applied'[o] =< 1
          /\ applied'[o] # 0 /\ ~ Recorded(o)' =>
                o \in reserved' /\ \A r \in wire' : r.at = "held" => r.q.op # o
  <2> SUFFICES ASSUME NEW o \in Ops
               PROVE  /\ applied[o] =< 1
                      /\ applied[o] # 0 /\ ~ Recorded(o) =>
                           o \in reserved /\ \A r \in wire' : r.at = "held" => r.q.op # o
    BY DEF Recorded
  <2>1. /\ applied[o] =< 1
        /\ applied[o] # 0 /\ ~ Recorded(o) =>
              o \in reserved /\ \A r \in wire : r.at = "held" => r.q.op # o
    BY DEF ServerIsFenced
  <2> QED BY <2>1
<1> QED BY <1>1, <1>2 DEF ServerIsFenced, Requests

LEMMA NotReceipts == {"sent", "held", "ERROR"} \cap Receipts = {}
BY FieldAssumption

LEMMA FlushNextFenced ==
    ASSUME ClientIsKept, ServerIsFenced, NEW f \in Flushers, FlushNext(f)
    PROVE  ServerIsFenced'
<1> DEFINE q == Head(flush[f].todo)
           new == [by |-> f, q |-> q, scope |-> cur.scope, at |-> "sent"]
<1>1. q \in Queued /\ cur.scope \in Scopes
  BY DEF ClientIsKept, FlushNext, Flush, State
<1>2. wire' \subseteq wire \cup {new} /\ UNCHANGED <<reserved, ledger, applied, refused>>
  BY DEF FlushNext
<1>3. new \in Requests /\ new.at = "sent"
  BY <1>1 DEF Requests
<1>4. wire \subseteq Requests
  BY DEF ServerIsFenced, Requests
<1> HIDE DEF new
<1>5. \A r \in wire' : r \in wire \/ r.at = "sent"
  BY <1>2, <1>3
<1>6. \A r, s \in wire' : r.at = "held" /\ s.at = "held" /\ r.q.op = s.q.op => r = s
  BY <1>5 DEF ServerIsFenced
<1>7. \A r \in wire' : r.at \in Receipts \cup {"held"} => r \in wire
  BY <1>5, NotReceipts
<1> QED BY <1>2, <1>3, <1>4, <1>6, <1>7, FenceStays

LEMMA AnsweredFenced ==
    ASSUME ServerIsFenced, NEW f \in Flushers, NEW r \in wire, Answered(f, r)
    PROVE  ServerIsFenced'
<1>1. wire' \subseteq wire /\ UNCHANGED <<reserved, ledger, applied, refused>>
  BY DEF Answered
<1>2. wire \subseteq Requests
  BY DEF ServerIsFenced, Requests
<1>3. \A x, y \in wire' : x.at = "held" /\ y.at = "held" /\ x.q.op = y.q.op => x = y
  BY <1>1 DEF ServerIsFenced
<1> QED BY <1>1, <1>2, <1>3, FenceStays

(* A request that nobody waits for any more.                               *)
LEMMA Orphaned ==
    ASSUME NEW r \in Requests
    PROVE  /\ [r EXCEPT !.by = NoFlush] \in Requests
           /\ [r EXCEPT !.by = NoFlush].q = r.q /\ [r EXCEPT !.by = NoFlush].at = r.at
           /\ [r EXCEPT !.by = NoFlush].scope = r.scope
BY DEF Requests

LEMMA UnansweredFenced ==
    ASSUME ServerIsFenced, NEW f \in Flushers, NEW r \in wire, Unanswered(f, r)
    PROVE  ServerIsFenced'
<1> DEFINE orphan == [r EXCEPT !.by = NoFlush]
<1>1. /\ wire' \subseteq (wire \ {r}) \cup {orphan}
      /\ UNCHANGED <<reserved, ledger, applied, refused>>
  BY DEF Unanswered
<1>2. wire \subseteq Requests
  BY DEF ServerIsFenced, Requests
<1>3. orphan \in Requests /\ orphan.q = r.q /\ orphan.at = r.at
  BY <1>2, Orphaned
<1> HIDE DEF orphan
<1>4. \A x, y \in wire' : x.at = "held" /\ y.at = "held" /\ x.q.op = y.q.op => x = y
  <2> SUFFICES ASSUME NEW x \in wire', NEW y \in wire', x.at = "held", y.at = "held",
                      x.q.op = y.q.op
               PROVE  x = y
    OBVIOUS
  <2>1. \A a, b \in wire : a.at = "held" /\ b.at = "held" /\ a.q.op = b.q.op => a = b
    BY DEF ServerIsFenced
  <2>2. /\ x \in wire \ {r} \/ x = orphan
        /\ y \in wire \ {r} \/ y = orphan
    BY <1>1
  <2> QED BY <1>3, <2>1, <2>2
<1>5. \A x \in wire' : \E y \in wire : y.at = x.at /\ y.q.op = x.q.op
  BY <1>1, <1>3
<1> QED BY <1>1, <1>2, <1>3, <1>4, <1>5, FenceStays

LEMMA ReloadFenced ==
    ASSUME ServerIsFenced, NEW f \in Flushers, Reload(f)
    PROVE  ServerIsFenced'
<1>1. /\ wire' = {[r EXCEPT !.by = NoFlush] : r \in {w \in wire : w.at \in {"sent", "held"}}}
      /\ UNCHANGED <<reserved, ledger, applied, refused>>
  BY DEF Reload
<1>2. wire \subseteq Requests
  BY DEF ServerIsFenced, Requests
<1>3. \A x \in wire' : \E y \in wire : x = [y EXCEPT !.by = NoFlush]
  BY <1>1
<1>4. \A x \in wire' : \E y \in wire : /\ x = [y EXCEPT !.by = NoFlush]
                                       /\ x \in Requests /\ x.q = y.q /\ x.at = y.at
  <2>1. ASSUME NEW y \in wire
        PROVE  LET x == [y EXCEPT !.by = NoFlush]
               IN  x \in Requests /\ x.q = y.q /\ x.at = y.at
    BY <1>2, Orphaned
  <2> QED BY <1>3, <2>1, Zenon
<1>5. \A x, y \in wire' : x.at = "held" /\ y.at = "held" /\ x.q.op = y.q.op => x = y
  <2> SUFFICES ASSUME NEW x \in wire', NEW y \in wire', x.at = "held", y.at = "held",
                      x.q.op = y.q.op
               PROVE  x = y
    OBVIOUS
  <2>1. \A a, b \in wire : a.at = "held" /\ b.at = "held" /\ a.q.op = b.q.op => a = b
    BY DEF ServerIsFenced
  <2>2. PICK a \in wire : x = [a EXCEPT !.by = NoFlush] /\ x.q = a.q /\ x.at = a.at
    BY <1>4
  <2>3. PICK b \in wire : y = [b EXCEPT !.by = NoFlush] /\ y.q = b.q /\ y.at = b.at
    BY <1>4
  <2> QED BY <2>1, <2>2, <2>3
<1>6. /\ wire' \subseteq Requests
      /\ \A x \in wire' : \E y \in wire : y.at = x.at /\ y.q.op = x.q.op
  BY <1>4
<1> QED BY <1>1, <1>5, <1>6, FenceStays

(* A request that the server takes a step further.                         *)
LEMMA AtMoves ==
    ASSUME ServerIsFenced, NEW r \in wire, NEW step \in {"sent", "held", "ERROR"} \cup Receipts,
           At(r, step)
    PROVE  \E x \in Requests : /\ wire' \subseteq (wire \ {r}) \cup {x}
                               /\ x.q = r.q /\ x.at = step /\ x.scope = r.scope
<1> DEFINE x == [r EXCEPT !.at = step]
<1>1. r \in Requests
  BY DEF ServerIsFenced, Requests
<1>2. x \in Requests /\ x.q = r.q /\ x.at = step /\ x.scope = r.scope
  BY <1>1 DEF Requests
<1>3. wire' \subseteq (wire \ {r}) \cup {x}
  BY DEF At
<1> HIDE DEF x
<1> QED BY <1>2, <1>3

LEMMA ReceiveFenced ==
    ASSUME ServerIsFenced, NEW r \in wire, Receive(r)
    PROVE  ServerIsFenced' /\ ledger' = ledger
<1>1. ledger' = ledger /\ applied' = applied /\ refused' = refused /\ r.at = "sent"
  BY DEF Receive
<1>2. wire \subseteq Requests /\ r.q.op \in Ops
  BY DEF ServerIsFenced, Requests, Queued
<1>3. \A a, b \in wire : a.at = "held" /\ b.at = "held" /\ a.q.op = b.q.op => a = b
  BY DEF ServerIsFenced
<1>4. CASE UNCHANGED reserved /\ At(r, "ERROR")
  <2>1. PICK x \in Requests : /\ wire' \subseteq (wire \ {r}) \cup {x}
                              /\ x.q = r.q /\ x.at = "ERROR"
    BY <1>4, AtMoves
  <2>2. \A y \in wire' : y \in wire \/ y.at = "ERROR"
    BY <2>1
  <2>3. \A a, b \in wire' : a.at = "held" /\ b.at = "held" /\ a.q.op = b.q.op => a = b
    BY <1>3, <2>2
  <2>4. \A y \in wire' : y.at \in Receipts \cup {"held"} => y \in wire
    BY <2>2, NotReceipts
  <2>5. wire' \subseteq Requests
    BY <1>2, <2>1
  <2> QED BY <1>1, <1>4, <2>3, <2>4, <2>5, FenceStays
<1>5. CASE r.q.op \notin reserved /\ reserved' = reserved \cup {r.q.op} /\ At(r, "held")
  <2>1. PICK x \in Requests : /\ wire' \subseteq (wire \ {r}) \cup {x}
                              /\ x.q = r.q /\ x.at = "held"
    BY <1>5, AtMoves
  <2>2. \A y \in wire : y.at = "held" => y.q.op \in reserved /\ y.q.op # r.q.op
    BY <1>5 DEF ServerIsFenced
  <2>3. \A y \in wire' : (y \in wire /\ y # r) \/ y = x
    BY <2>1
  <2>4. \A a, b \in wire' : a.at = "held" /\ b.at = "held" /\ a.q.op = b.q.op => a = b
    BY <1>3, <2>1, <2>2, <2>3
  <2>5. \A y \in wire' : /\ y.at \in Receipts => Recorded(y.q.op)'
                         /\ y.at = "held" => y.q.op \in reserved'
    BY <1>1, <1>5, <2>1, <2>2, <2>3, NotReceipts DEF ServerIsFenced, Recorded
  <2>6. \A o \in Ops : /\ applied'[o] =< 1
                       /\ applied'[o] # 0 /\ ~ Recorded(o)' =>
                             o \in reserved' /\ \A y \in wire' : y.at = "held" => y.q.op # o
    <3> SUFFICES ASSUME NEW o \in Ops
                 PROVE  /\ applied[o] =< 1
                        /\ applied[o] # 0 /\ ~ Recorded(o) =>
                             o \in reserved' /\ \A y \in wire' : y.at = "held" => y.q.op # o
      BY <1>1 DEF Recorded
    <3>1. /\ applied[o] =< 1
          /\ applied[o] # 0 /\ ~ Recorded(o) =>
                o \in reserved /\ \A y \in wire : y.at = "held" => y.q.op # o
      BY DEF ServerIsFenced
    <3>2. o \in reserved => o # x.q.op
      BY <1>5, <2>1
    <3> QED BY <1>5, <2>3, <3>1, <3>2
  <2>7. wire' \subseteq Requests /\ reserved' \in SUBSET Ops
    BY <1>2, <1>5, <2>1 DEF ServerIsFenced
  <2> QED BY <1>1, <2>4, <2>5, <2>6, <2>7 DEF ServerIsFenced, Requests
<1> QED BY <1>1, <1>4, <1>5 DEF Receive

(* The request that holds the reservation is answered with what is on      *)
(* record, and lets it go.                                                 *)
LEMMA Released ==
    ASSUME ServerIsFenced, NEW r \in wire, r.at = "held", NEW step \in Receipts, At(r, step),
           reserved' = reserved \ {r.q.op}, refused' = refused,
           ledger' \in [Ops -> LedgerRow \cup {NoFlush}], ledger'[r.q.op] # NoFlush,
           applied' \in [Ops -> Nat], applied'[r.q.op] =< 1,
           \A p \in Ops : p # r.q.op => ledger'[p] = ledger[p] /\ applied'[p] = applied[p]
    PROVE  ServerIsFenced' /\ \A p \in Ops : Recorded(p) => Recorded(p)'
<1> DEFINE o == r.q.op
<1>1. wire \subseteq Requests /\ \A y \in wire : y.q.op \in Ops
  BY DEF ServerIsFenced, Requests, Queued
<1>2. \A y \in wire : y.at = "held" /\ y # r => y.q.op # o
  BY DEF ServerIsFenced
<1>3. PICK x \in Requests : /\ wire' \subseteq (wire \ {r}) \cup {x}
                            /\ x.q = r.q /\ x.at = step
  <2>1. step \in {"sent", "held", "ERROR"} \cup Receipts
    OBVIOUS
  <2> QED BY <2>1, AtMoves
<1>4. x.at \in Receipts /\ x.at # "held"
  BY <1>3, NotReceipts
<1>5. \A y \in wire' : (y \in wire /\ y # r) \/ y = x
  BY <1>3
<1>6. \A p \in Ops : Recorded(p) => Recorded(p)'
  BY DEF Recorded
<1>7. Recorded(o)'
  BY DEF Recorded
<1>8. \A y \in wire' : /\ y.at \in Receipts => Recorded(y.q.op)'
                       /\ y.at = "held" => y.q.op \in reserved'
  <2> SUFFICES ASSUME NEW y \in wire'
               PROVE  /\ y.at \in Receipts => Recorded(y.q.op)'
                      /\ y.at = "held" => y.q.op \in reserved'
    OBVIOUS
  <2>1. CASE y = x
    BY <1>3, <1>4, <1>7, <2>1
  <2>2. CASE y \in wire /\ y # r
    <3>1. /\ y.at \in Receipts => Recorded(y.q.op)
          /\ y.at = "held" => y.q.op \in reserved
      BY <2>2 DEF ServerIsFenced
    <3> QED BY <1>1, <1>2, <1>6, <2>2, <3>1
  <2> QED BY <1>5, <2>1, <2>2
<1>9. \A a, b \in wire' : a.at = "held" /\ b.at = "held" /\ a.q.op = b.q.op => a = b
  <2>1. \A a, b \in wire : a.at = "held" /\ b.at = "held" /\ a.q.op = b.q.op => a = b
    BY DEF ServerIsFenced
  <2> QED BY <1>4, <1>5, <2>1
<1>10. \A p \in Ops : /\ applied'[p] =< 1
                      /\ applied'[p] # 0 /\ ~ Recorded(p)' =>
                            p \in reserved' /\ \A y \in wire' : y.at = "held" => y.q.op # p
  <2> SUFFICES ASSUME NEW p \in Ops
               PROVE  /\ applied'[p] =< 1
                      /\ applied'[p] # 0 /\ ~ Recorded(p)' =>
                            p \in reserved' /\ \A y \in wire' : y.at = "held" => y.q.op # p
    OBVIOUS
  <2>1. CASE p = o
    BY <1>7, <2>1
  <2>2. CASE p # o
    <3>1. /\ applied[p] =< 1
          /\ applied[p] # 0 /\ ~ Recorded(p) =>
                p \in reserved /\ \A y \in wire : y.at = "held" => y.q.op # p
      BY DEF ServerIsFenced
    <3>2. applied'[p] = applied[p]
      BY <2>2
    <3>3. ~ Recorded(p)' => ~ Recorded(p)
      BY <1>6
    <3> QED BY <1>4, <1>5, <2>2, <3>1, <3>2, <3>3
  <2> QED BY <2>1, <2>2
<1>11. wire' \subseteq Requests /\ reserved' \in SUBSET Ops /\ refused' \in SUBSET Ops
  BY <1>1, <1>3 DEF ServerIsFenced
<1> QED BY <1>6, <1>8, <1>9, <1>10, <1>11 DEF ServerIsFenced, Requests

(* A request that fails leaves everything but itself as it was.            *)
LEMMA FailedFenced ==
    ASSUME ServerIsFenced, NEW r \in wire, At(r, "ERROR"),
           UNCHANGED <<reserved, ledger, applied>>, refused' = refused \/ refused' \in SUBSET Ops
    PROVE  ServerIsFenced'
<1>1. wire \subseteq Requests
  BY DEF ServerIsFenced, Requests
<1>2. PICK x \in Requests : /\ wire' \subseteq (wire \ {r}) \cup {x}
                            /\ x.q = r.q /\ x.at = "ERROR"
  BY AtMoves
<1>3. \A y \in wire' : y \in wire \/ y.at = "ERROR"
  BY <1>2
<1>4. \A a, b \in wire' : a.at = "held" /\ b.at = "held" /\ a.q.op = b.q.op => a = b
  BY <1>3 DEF ServerIsFenced
<1>5. \A y \in wire' : y.at \in Receipts \cup {"held"} => y \in wire
  BY <1>3, NotReceipts
<1>6. wire' \subseteq Requests
  BY <1>1, <1>2
<1> QED BY <1>4, <1>5, <1>6, FenceStays

LEMMA ConcludeFenced ==
    ASSUME ServerIsFenced, NEW r \in wire, Conclude(r)
    PROVE  ServerIsFenced' /\ \A p \in Ops : Recorded(p) => Recorded(p)'
<1> DEFINE o == r.q.op
<1>1. /\ r.at = "held" /\ o \in Ops /\ r.q \in Queued /\ r.scope \in Scopes
      /\ ledger \in [Ops -> LedgerRow \cup {NoFlush}]
      /\ applied \in [Ops -> Nat] /\ applied[o] =< 1
  BY DEF Conclude, ServerIsFenced, Queued
<1>2. CASE /\ Recorded(o) /\ At(r, ledger[o].receipt) /\ reserved' = reserved \ {o}
           /\ UNCHANGED <<ledger, applied, refused>>
  <2>1. ledger[o] # NoFlush /\ ledger[o].receipt \in Receipts
    BY <1>1, <1>2 DEF Recorded, LedgerRow
  <2> QED BY <1>1, <1>2, <2>1, Released
<1>3. CASE /\ At(r, "ERROR") /\ refused' \in {refused, refused \cup {o}}
           /\ UNCHANGED <<reserved, ledger, applied>>
  <2>1. refused' = refused \/ refused' \in SUBSET Ops
    BY <1>1, <1>3 DEF ServerIsFenced
  <2>2. ServerIsFenced'
    BY <1>3, <2>1, FailedFenced
  <2> QED BY <1>3, <2>2 DEF Recorded
<1>4. ASSUME NEW receipt \in Receipts, ~ Recorded(o),
             ledger' = [ledger EXCEPT ![o] =
                          [q |-> r.q, scope |-> r.scope, receipt |-> receipt]],
             At(r, receipt), applied' = [applied EXCEPT ![o] = @ + 1],
             reserved' = reserved \ {o}, refused' = refused
      PROVE  ServerIsFenced' /\ \A p \in Ops : Recorded(p) => Recorded(p)'
  <2>1. applied[o] = 0
    BY <1>1, <1>4 DEF ServerIsFenced
  <2> DEFINE row == [q |-> r.q, scope |-> r.scope, receipt |-> receipt]
  <2>2. row \in LedgerRow /\ row # NoFlush
    BY <1>1, FieldAssumption DEF LedgerRow
  <2>3. /\ ledger' \in [Ops -> LedgerRow \cup {NoFlush}] /\ ledger'[o] # NoFlush
        /\ \A p \in Ops : p # o => ledger'[p] = ledger[p]
    <3> HIDE DEF row, o
    <3> QED BY <1>1, <1>4, <2>2 DEF row
  <2>4. /\ applied' \in [Ops -> Nat] /\ applied'[o] =< 1
        /\ \A p \in Ops : p # o => applied'[p] = applied[p]
    <3> HIDE DEF o
    <3> QED BY <1>1, <1>4, <2>1
  <2> QED BY <1>1, <1>4, <2>3, <2>4, Released
<1> QED BY <1>2, <1>3, <1>4 DEF Conclude

LEMMA DieFenced ==
    ASSUME ServerIsFenced, NEW r \in wire, Die(r)
    PROVE  ServerIsFenced' /\ ledger' = ledger
<1> DEFINE o == r.q.op
           x == [r EXCEPT !.at = "ERROR"]
<1>1. /\ UNCHANGED <<reserved, ledger, refused>> /\ r.at \in {"sent", "held"}
      /\ wire' \subseteq (wire \ {r}) \cup {x}
  BY DEF Die
<1>2. wire \subseteq Requests /\ o \in Ops /\ applied \in [Ops -> Nat]
  BY DEF ServerIsFenced, Requests, Queued
<1>3. x \in Requests /\ x.q = r.q /\ x.at = "ERROR"
  BY <1>2 DEF Requests
<1> HIDE DEF x
<1>4. \A y \in wire' : (y \in wire /\ y # r) \/ y.at = "ERROR"
  BY <1>1, <1>3
<1>5. \A a, b \in wire : a.at = "held" /\ b.at = "held" /\ a.q.op = b.q.op => a = b
  BY DEF ServerIsFenced
<1>6. \A a, b \in wire' : a.at = "held" /\ b.at = "held" /\ a.q.op = b.q.op => a = b
  BY <1>4, <1>5
<1>7. \A y \in wire' : y.at \in Receipts \cup {"held"} => y \in wire /\ y # r
  BY <1>4, NotReceipts
<1>8. wire' \subseteq Requests
  BY <1>1, <1>2, <1>3
<1>9. CASE applied' = applied
  BY <1>1, <1>6, <1>7, <1>8, <1>9, FenceStays
<1>10. CASE r.at = "held" /\ ~ Recorded(o) /\ applied' = [applied EXCEPT ![o] = @ + 1]
  <2>1. applied[o] = 0 /\ o \in reserved
    BY <1>2, <1>10 DEF ServerIsFenced
  <2>2. /\ applied' \in [Ops -> Nat] /\ applied'[o] = 1
        /\ \A p \in Ops : p # o => applied'[p] = applied[p]
    <3> HIDE DEF o
    <3> QED BY <1>2, <1>10, <2>1
  <2>3. \A y \in wire' : y.at = "held" => y.q.op # o
    BY <1>5, <1>7, <1>10
  <2>4. \A p \in Ops : /\ applied'[p] =< 1
                       /\ applied'[p] # 0 /\ ~ Recorded(p)' =>
                             p \in reserved' /\ \A y \in wire' : y.at = "held" => y.q.op # p
    <3> SUFFICES ASSUME NEW p \in Ops
                 PROVE  /\ applied'[p] =< 1
                        /\ applied'[p] # 0 /\ ~ Recorded(p) =>
                             p \in reserved /\ \A y \in wire' : y.at = "held" => y.q.op # p
      BY <1>1 DEF Recorded
    <3>1. CASE p = o
      BY <2>1, <2>2, <2>3, <3>1
    <3>2. CASE p # o
      <4>1. /\ applied[p] =< 1
            /\ applied[p] # 0 /\ ~ Recorded(p) =>
                  p \in reserved /\ \A y \in wire : y.at = "held" => y.q.op # p
        BY DEF ServerIsFenced
      <4> QED BY <1>7, <2>2, <3>2, <4>1
    <3> QED BY <3>1, <3>2
  <2>5. \A y \in wire' : /\ y.at \in Receipts => Recorded(y.q.op)'
                         /\ y.at = "held" => y.q.op \in reserved'
    BY <1>1, <1>7 DEF ServerIsFenced, Recorded
  <2> QED BY <1>1, <1>6, <1>8, <2>2, <2>4, <2>5 DEF ServerIsFenced, Requests
<1> QED BY <1>1, <1>9, <1>10 DEF Die

-----------------------------------------------------------------------------

(* The scopes                                                              *)

LEMMA ScopesStart == FieldInit => ScopesMatch
<1> SUFFICES ASSUME FieldInit PROVE ScopesMatch
  OBVIOUS
<1>1. /\ booted \in Scopes /\ cur = initialState(booted) /\ stored = initialState(booted)
      /\ made = [o \in Ops |-> NoFlush] /\ ledger = [o \in Ops |-> NoFlush] /\ wire = {}
      /\ \A f \in Flushers : flush[f] = NoFlush
  BY DEF FieldInit
<1>2. cur.scope = booted /\ cur.pending = <<>>
  BY <1>1 DEF initialState
<1> QED BY <1>1, <1>2, OpsOfQueue DEF ScopesMatch, PageOwn, OwnOps, InFlight, WireOwn, LedgerOwn

(* A call that saves the state and begins a flush or none.                 *)
LEMMA SettleOwn ==
    ASSUME ClientIsKept, NEW f \in Flushers, NEW state, Settle(f, state), NEW m, NEW scope,
           state.scope = scope, OwnOps(OpsIn(state.pending), m, scope),
           \A g \in Flushers : OwnOps(InFlight(flush[g]), m, scope)
    PROVE  PageOwn(cur', stored', flush', m, scope)
<1>1. /\ cur' = state /\ stored' = state
      /\ \A g \in Flushers : flush'[g] \in {NoFlush, Flushing(state), flush[g]}
  BY DEF Settle, ClientIsKept
<1>2. InFlight(NoFlush) = {} /\ InFlight(Flushing(state)) \subseteq OpsIn(state.pending)
  BY OpsOfQueue DEF InFlight, Flushing
<1> QED BY <1>1, <1>2 DEF PageOwn, OwnOps

(* A flush that begins or goes on with operations it has, or are queued.   *)
LEMMA FlushOwn ==
    ASSUME ClientIsKept, ScopesMatch, NEW f \in Flushers, NEW x,
           flush' = [flush EXCEPT ![f] = x],
           InFlight(x) \subseteq InFlight(flush[f]) \cup OpsIn(cur.pending),
           cur'.scope = cur.scope, cur'.pending = cur.pending, stored' = stored
    PROVE  PageOwn(cur', stored', flush', made, booted)
<1>1. \A g \in Flushers : flush'[g] = IF g = f THEN x ELSE flush[g]
  BY DEF ClientIsKept
<1> QED BY <1>1 DEF ScopesMatch, PageOwn, OwnOps

(* What the page does without making an operation.                         *)
LEMMA PageMatches ==
    ASSUME ScopesMatch, PageOwn(cur', stored', flush', made, booted'),
           booted' \in Scopes, UNCHANGED <<made, created, ledger>>, WireOwn(wire', made)
    PROVE  ScopesMatch'
BY DEF ScopesMatch

LEMMA EnqueueMatches ==
    ASSUME ClientIsKept, ServerIsFenced, ScopesMatch, NEW f \in Flushers, NEW state \in State,
           Enqueue(f, state), state.pending = cur.pending, state.scope = cur.scope
    PROVE  ScopesMatch'
<1> DEFINE q == [op |-> created + 1, attempts |-> 0]
           more == enqueue(state)
<1>1. /\ created \in Nat /\ created + 1 \in Ops /\ created' = created + 1 /\ q \in Queued
      /\ Settle(f, more) /\ made' = [made EXCEPT ![created + 1] = booted]
      /\ UNCHANGED <<booted, serverVars>>
  BY FieldAssumption DEF ClientIsKept, Enqueue, CanEnqueue, Ops, Queued
<1>2. /\ more.scope = booted
      /\ OpsIn(more.pending) = OpsIn(cur.pending) \cup {created + 1}
  <2>1. more.pending = Append(cur.pending, q) /\ more.scope = cur.scope
    BY DEF enqueue, State
  <2>2. cur.pending \in Seq(Queued) /\ cur.scope = booted
    BY DEF ClientIsKept, State, ScopesMatch, PageOwn
  <2>3. OpsIn(Append(cur.pending, q)) = OpsIn(cur.pending) \cup {q.op}
    <3> HIDE DEF q
    <3> QED BY <1>1, <2>2, OpsOfAppend
  <2> QED BY <2>1, <2>2, <2>3
<1>3. /\ made' \in [Ops -> Scopes \cup {NoFlush}] /\ made'[created + 1] = booted
      /\ \A o \in Ops : o > created' => made'[o] = NoFlush
  <2>1. \A o \in Ops : o \in Nat
    BY DEF Ops
  <2> QED BY <1>1, <2>1 DEF ScopesMatch
<1>4. \A o \in Ops : made[o] \in Scopes => made'[o] = made[o]
  <2>1. made[created + 1] = NoFlush
    BY <1>1 DEF ScopesMatch
  <2> QED BY <1>1, <2>1, FieldAssumption DEF ScopesMatch
<1>5. \A ops \in SUBSET Ops : OwnOps(ops, made, booted) => OwnOps(ops, made', booted)
  BY <1>4 DEF ScopesMatch, OwnOps
<1>6. PageOwn(cur', stored', flush', made', booted)
  <2>1. OpsIn(cur.pending) \subseteq Ops
    BY OpsOfQueue DEF ClientIsKept, State
  <2>2. ASSUME NEW g \in Flushers PROVE InFlight(flush[g]) \subseteq Ops
    BY OpsOfQueue DEF ClientIsKept, Flush, InFlight
  <2>3. OwnOps(OpsIn(more.pending), made', booted)
    BY <1>2, <1>3, <1>5, <2>1 DEF ScopesMatch, PageOwn, OwnOps
  <2>4. \A g \in Flushers : OwnOps(InFlight(flush[g]), made', booted)
    BY <1>5, <2>2 DEF ScopesMatch, PageOwn
  <2> HIDE DEF more
  <2> QED BY <1>1, <1>2, <2>3, <2>4, SettleOwn
<1>7. WireOwn(wire', made') /\ LedgerOwn(ledger', made')
  <2>1. \A r \in wire : r.scope \in Scopes /\ r.q.op \in Ops
    BY DEF ServerIsFenced, Queued
  <2>2. \A o \in Ops : ledger[o] # NoFlush => ledger[o].scope \in Scopes
    BY DEF ServerIsFenced, LedgerRow
  <2> QED BY <1>1, <1>4, <2>1, <2>2 DEF ScopesMatch, WireOwn, LedgerOwn, serverVars
<1> QED BY <1>1, <1>3, <1>6, <1>7 DEF ScopesMatch

LEMMA UserMatches ==
    ASSUME ClientIsKept, ServerIsFenced, ScopesMatch, NEW f \in Flushers, NEW b \in BOOLEAN,
           setConsent(f, b) \/ respond(f, b) \/ selectLanguage(f) \/ share(f)
    PROVE  ScopesMatch'
<1>1. /\ cur \in State /\ cur.network \in Networks /\ "READY" \in Phases
      /\ "HUMAN_REVIEW" \in Phases
  BY DEF ClientIsKept, State, Phases
<1>2. phaseForNetwork(cur.network, "READY") \in Phases
  BY <1>1, PhaseIsPhase
<1>3. \E s \in State : Enqueue(f, s) /\ s.pending = cur.pending /\ s.scope = cur.scope
  <2>1. CASE setConsent(f, b)
    <3> DEFINE s == [cur EXCEPT !.consent = IF b THEN "GRANTED" ELSE "DECLINED",
                                !.phase = IF b THEN phaseForNetwork(cur.network, "READY")
                                               ELSE "HUMAN_REVIEW",
                                !.prompt = b]
    <3>1. s \in State /\ s.pending = cur.pending /\ s.scope = cur.scope
      BY <1>1, <1>2 DEF State
    <3>2. Enqueue(f, s)
      BY <2>1 DEF setConsent
    <3> HIDE DEF s
    <3> QED BY <3>1, <3>2
  <2>2. CASE respond(f, b)
    <3> DEFINE s == [cur EXCEPT !.phase = IF b THEN "HUMAN_REVIEW"
                                          ELSE phaseForNetwork(cur.network, "READY")]
    <3>1. s \in State /\ s.pending = cur.pending /\ s.scope = cur.scope
      BY <1>1, <1>2 DEF State
    <3>2. Enqueue(f, s)
      BY <2>2 DEF respond
    <3> HIDE DEF s
    <3> QED BY <3>1, <3>2
  <2>3. CASE selectLanguage(f)
    <3> DEFINE s == [cur EXCEPT !.prompt = TRUE]
    <3>1. s \in State /\ s.pending = cur.pending /\ s.scope = cur.scope
      BY <1>1 DEF State
    <3>2. Enqueue(f, s)
      BY <2>3 DEF selectLanguage
    <3> HIDE DEF s
    <3> QED BY <3>1, <3>2
  <2>4. CASE share(f)
    BY <1>1, <2>4 DEF share
  <2> QED BY <2>1, <2>2, <2>3, <2>4
<1> QED BY <1>3, EnqueueMatches

LEMMA DeviceMatches ==
    ASSUME ClientIsKept, ScopesMatch, NEW f \in Flushers, NEW n \in Networks, updateDevice(f, n)
    PROVE  ScopesMatch'
<1> DEFINE s == [cur EXCEPT !.network = n, !.phase = phaseForNetwork(n, cur.phase)]
<1>1. s.scope = cur.scope /\ s.pending = cur.pending
  BY DEF ClientIsKept, State
<1>2. Settle(f, s) /\ UNCHANGED <<booted, made, created, ledger, wire>>
  BY DEF updateDevice, serverVars, scopeVars
<1> HIDE DEF s
<1>3. PageOwn(cur', stored', flush', made, booted)
  BY <1>1, <1>2, SettleOwn DEF ScopesMatch, PageOwn
<1> QED BY <1>2, <1>3, PageMatches DEF ScopesMatch

LEMMA QuietMatches ==
    ASSUME ClientIsKept, ScopesMatch,
           \/ \E p \in {"OPERATOR_TAKEOVER", "COMPLETED"} : Shown(p)
           \/ RegisterDevice
           \/ \E o \in Ops : Expire(o)
    PROVE  ScopesMatch'
<1>1. /\ UNCHANGED <<flush, booted, made, created, ledger, wire>>
      /\ cur'.scope = cur.scope /\ cur'.pending = cur.pending /\ stored' \in {stored, cur'}
  BY DEF Shown, RegisterDevice, Expire, ClientIsKept, State, serverVars, scopeVars
<1> QED BY <1>1 DEF ScopesMatch, PageOwn

LEMMA FlushPendingMatches ==
    ASSUME ClientIsKept, ScopesMatch, NEW f \in Flushers, FlushPending(f)
    PROVE  ScopesMatch'
<1>1. /\ flush' = [flush EXCEPT ![f] = Flushing(cur)]
      /\ UNCHANGED <<cur, stored, booted, made, created, ledger, wire>>
  BY DEF FlushPending, serverVars, scopeVars
<1>2. InFlight(Flushing(cur)) \subseteq OpsIn(cur.pending)
  BY OpsOfQueue DEF InFlight, Flushing
<1>3. PageOwn(cur', stored', flush', made, booted)
  BY <1>1, <1>2, FlushOwn
<1> QED BY <1>1, <1>3, PageMatches DEF ScopesMatch

LEMMA FlushNextMatches ==
    ASSUME ClientIsKept, ScopesMatch, NEW f \in Flushers, FlushNext(f)
    PROVE  ScopesMatch'
<1> DEFINE fl == flush[f]
           q == Head(fl.todo)
           new == [by |-> f, q |-> q, scope |-> cur.scope, at |-> "sent"]
<1>1. /\ fl \in Flush /\ fl # NoFlush /\ fl.todo # <<>>
      /\ UNCHANGED <<cur, stored, booted, made, created, ledger>>
      /\ wire' \subseteq wire \cup {new}
  BY DEF ClientIsKept, FlushNext, scopeVars
<1>2. fl.todo \in Seq(Queued)
  BY <1>1 DEF Flush
<1>3. q.op \in InFlight(fl) /\ Tail(fl.todo) \in Seq(Queued) /\ OpsIn(Tail(fl.todo)) \subseteq OpsIn(fl.todo)
  BY <1>1, <1>2, OpsOfTail DEF InFlight
<1>4. \E x : flush' = [flush EXCEPT ![f] = x] /\ InFlight(x) \subseteq InFlight(fl)
  <2>1. CASE flush' = [flush EXCEPT ![f].todo = Tail(@)]
    <3> DEFINE x == [fl EXCEPT !.todo = Tail(fl.todo)]
    <3>1. x \in Flush /\ x.todo = Tail(fl.todo) /\ x.remaining = fl.remaining
      <4> HIDE DEF fl
      <4> QED BY <1>1, <1>3 DEF Flush
    <3>2. flush' = [flush EXCEPT ![f] = x]
      BY <2>1
    <3> HIDE DEF x
    <3>3. InFlight(x) \subseteq InFlight(fl)
      BY <1>1, <1>3, <3>1, FieldAssumption DEF InFlight
    <3> QED BY <3>2, <3>3
  <2>2. CASE Failed(f)
    BY <1>1, <2>2, FailedIsFlush
  <2>3. CASE flush' = [flush EXCEPT ![f].sent = TRUE]
    <3> DEFINE x == [fl EXCEPT !.sent = TRUE]
    <3>1. x \in Flush /\ x.todo = fl.todo /\ x.remaining = fl.remaining
      BY <1>1 DEF Flush
    <3>2. flush' = [flush EXCEPT ![f] = x]
      BY <2>3
    <3> HIDE DEF x
    <3>3. InFlight(x) \subseteq InFlight(fl)
      BY <1>1, <3>1, FieldAssumption DEF InFlight
    <3> QED BY <3>2, <3>3
  <2> QED BY <2>1, <2>2, <2>3 DEF FlushNext
<1>5. PageOwn(cur', stored', flush', made, booted)
  BY <1>1, <1>4, FlushOwn
<1>6. new.scope = made[new.q.op]
  BY <1>3 DEF ScopesMatch, PageOwn, OwnOps
<1> HIDE DEF new
<1>7. WireOwn(wire', made)
  BY <1>1, <1>6 DEF ScopesMatch, WireOwn
<1> QED BY <1>1, <1>5, <1>7, PageMatches DEF ScopesMatch

LEMMA AnswerMatches ==
    ASSUME ClientIsKept, ServerIsFenced, ScopesMatch, NEW f \in Flushers, NEW r \in wire,
           Answered(f, r) \/ Unanswered(f, r)
    PROVE  ScopesMatch'
<1> DEFINE fl == flush[f]
           orphan == [r EXCEPT !.by = NoFlush]
<1>1. /\ fl \in Flush /\ fl # NoFlush /\ fl.todo # <<>>
      /\ UNCHANGED <<stored, booted, made, created, ledger>>
      /\ wire' \subseteq wire \cup {orphan}
  BY DEF ClientIsKept, Answered, Unanswered, scopeVars
<1>2. orphan.q = r.q /\ orphan.scope = r.scope
  BY Orphaned DEF ServerIsFenced, Requests
<1>3. cur'.scope = cur.scope /\ cur'.pending = cur.pending
  BY DEF Answered, Unanswered, applyReceipt, ClientIsKept, State
<1>4. \E x : flush' = [flush EXCEPT ![f] = x] /\ InFlight(x) \subseteq InFlight(fl)
  <2>1. CASE Failed(f)
    BY <1>1, <2>1, FailedIsFlush
  <2>2. CASE flush' = [flush EXCEPT ![f] = [fl EXCEPT !.todo = Tail(@),
                          !.acked = @ \cup {r.q.op}, !.sent = FALSE]]
    <3> DEFINE x == [fl EXCEPT !.todo = Tail(@), !.acked = @ \cup {r.q.op}, !.sent = FALSE]
    <3>1. fl.todo \in Seq(Queued) /\ fl.acked \cup {r.q.op} \in SUBSET Ops
      BY <1>1 DEF Flush, ServerIsFenced, Queued
    <3>2. Tail(fl.todo) \in Seq(Queued) /\ OpsIn(Tail(fl.todo)) \subseteq OpsIn(fl.todo)
      BY <1>1, <3>1, OpsOfTail
    <3>3. x \in Flush /\ x.todo = Tail(fl.todo) /\ x.remaining = fl.remaining
      <4>1. x = [fl EXCEPT !.todo = Tail(fl.todo), !.acked = fl.acked \cup {r.q.op}, !.sent = FALSE]
        OBVIOUS
      <4> HIDE DEF x, fl
      <4> QED BY <1>1, <3>1, <3>2, <4>1 DEF Flush
    <3>4. flush' = [flush EXCEPT ![f] = x]
      BY <2>2
    <3> HIDE DEF x
    <3>5. InFlight(x) \subseteq InFlight(fl)
      BY <1>1, <3>2, <3>3, FieldAssumption DEF InFlight
    <3> QED BY <3>4, <3>5
  <2> QED BY <2>1, <2>2 DEF Answered, Unanswered
<1>5. PageOwn(cur', stored', flush', made, booted)
  BY <1>1, <1>3, <1>4, FlushOwn
<1> HIDE DEF orphan
<1>6. WireOwn(wire', made)
  BY <1>1, <1>2 DEF ScopesMatch, WireOwn
<1> QED BY <1>1, <1>5, <1>6, PageMatches DEF ScopesMatch

LEMMA FlushEndMatches ==
    ASSUME ClientIsKept, ScopesMatch, NEW f \in Flushers, FlushEnd(f)
    PROVE  ScopesMatch'
<1> DEFINE fl == flush[f]
<1>1. /\ fl \in Flush /\ fl # NoFlush /\ cur \in State
      /\ cur' = [cur EXCEPT !.pending = Merged(fl), !.acked = fl.acked] /\ stored' = cur'
      /\ flush' = [flush EXCEPT ![f] = NoFlush]
      /\ UNCHANGED <<booted, made, created, ledger, wire>>
  BY DEF ClientIsKept, FlushEnd, serverVars, scopeVars
<1>2. cur'.scope = cur.scope /\ cur'.pending = Merged(fl)
  BY <1>1 DEF State
<1>3. OpsIn(Merged(fl)) \subseteq InFlight(fl) \cup OpsIn(cur.pending)
  <2>1. cur.pending \in Seq(Queued)
    BY <1>1 DEF State
  <2> QED BY <1>1, <2>1, MergedQueue DEF InFlight
<1>4. \A g \in Flushers : flush'[g] \in {NoFlush, flush[g]}
  BY <1>1 DEF ClientIsKept
<1>5. PageOwn(cur', stored', flush', made, booted)
  BY <1>1, <1>2, <1>3, <1>4 DEF ScopesMatch, PageOwn, OwnOps, InFlight
<1> QED BY <1>1, <1>5, PageMatches DEF ScopesMatch

(* boot keeps the stored queue on a page of its own scope only.            *)
LEMMA ReloadMatches ==
    ASSUME ClientIsKept, ServerIsFenced, ScopesMatch, NEW f \in Flushers, Reload(f)
    PROVE  ScopesMatch'
<1>1. /\ stored' = cur' /\ UNCHANGED <<made, created, ledger>>
      /\ flush' = [g \in Flushers |->
            IF g = f /\ cur'.network # "OFFLINE" THEN Flushing(cur') ELSE NoFlush]
      /\ wire' = {[r EXCEPT !.by = NoFlush] : r \in {w \in wire : w.at \in {"sent", "held"}}}
  BY DEF Reload
<1>2. PICK scope \in Scopes, discard \in BOOLEAN :
         /\ Unusable(scope) => discard
         /\ booted' = scope
         /\ cur' = IF discard THEN initialState(scope)
                   ELSE [stored EXCEPT !.phase = phaseForNetwork(stored.network, @)]
  BY Zenon DEF Reload
<1>3. cur'.scope = scope /\ OwnOps(OpsIn(cur'.pending), made, scope)
  <2>1. CASE discard
    BY <1>2, <2>1, OpsOfQueue DEF initialState, OwnOps
  <2>2. CASE ~ discard
    <3>1. stored.scope = scope
      BY <1>2, <2>2 DEF Unusable
    <3>2. cur'.scope = stored.scope /\ cur'.pending = stored.pending
      BY <1>2, <2>2 DEF ClientIsKept, State
    <3> QED BY <3>1, <3>2 DEF ScopesMatch, PageOwn
  <2> QED BY <2>1, <2>2
<1>4. PageOwn(cur', stored', flush', made, scope)
  <2>1. InFlight(NoFlush) = {} /\ InFlight(Flushing(cur')) \subseteq OpsIn(cur'.pending)
    BY OpsOfQueue DEF InFlight, Flushing
  <2>2. \A g \in Flushers : flush'[g] \in {NoFlush, Flushing(cur')}
    BY <1>1
  <2> QED BY <1>1, <1>3, <2>1, <2>2 DEF PageOwn, OwnOps
<1>5. WireOwn(wire', made)
  <2> SUFFICES ASSUME NEW x \in wire' PROVE x.scope = made[x.q.op]
    BY DEF WireOwn
  <2>1. PICK y \in wire : x = [y EXCEPT !.by = NoFlush]
    BY <1>1
  <2>2. x.q = y.q /\ x.scope = y.scope
    BY <2>1, Orphaned DEF ServerIsFenced, Requests
  <2> QED BY <2>2 DEF ScopesMatch, WireOwn
<1> QED BY <1>1, <1>2, <1>4, <1>5, PageMatches

LEMMA ServerMatches ==
    ASSUME ServerIsFenced, ScopesMatch, NEW r \in wire, Receive(r) \/ Conclude(r) \/ Die(r)
    PROVE  ScopesMatch'
<1>1. UNCHANGED <<cur, stored, flush, created, booted, made>>
  BY DEF Receive, Conclude, Die, deviceVars, scopeVars
<1>2. r \in Requests /\ r.q.op \in Ops
  BY DEF ServerIsFenced, Requests, Queued
<1>3. \A x \in wire' : x \in wire \/ (x.q = r.q /\ x.scope = r.scope)
  <2>1. ASSUME NEW step \in {"sent", "held", "ERROR"} \cup Receipts, At(r, step)
        PROVE  \A x \in wire' : x \in wire \/ (x.q = r.q /\ x.scope = r.scope)
    BY <2>1, AtMoves
  <2>2. CASE Receive(r)
    BY <2>1, <2>2 DEF Receive
  <2>3. CASE Conclude(r)
    <3>1. \E step \in {"sent", "held", "ERROR"} \cup Receipts : At(r, step)
      <4>1. Recorded(r.q.op) => ledger[r.q.op].receipt \in Receipts
        BY <1>2 DEF ServerIsFenced, Recorded, LedgerRow
      <4> QED BY <2>3, <4>1 DEF Conclude
    <3> QED BY <2>1, <3>1
  <2>4. CASE Die(r)
    <3>1. wire' \subseteq wire \cup {[r EXCEPT !.at = "ERROR"]}
      BY <2>4 DEF Die
    <3>2. [r EXCEPT !.at = "ERROR"].q = r.q /\ [r EXCEPT !.at = "ERROR"].scope = r.scope
      BY <1>2 DEF Requests
    <3> QED BY <3>1, <3>2
  <2> QED BY <2>2, <2>3, <2>4
<1>4. WireOwn(wire', made)
  BY <1>3 DEF ScopesMatch, WireOwn
<1>5. LedgerOwn(ledger', made)
  <2>1. CASE ledger' = ledger
    BY <2>1 DEF ScopesMatch
  <2>2. ASSUME NEW receipt \in Receipts,
               ledger' = [ledger EXCEPT ![r.q.op] =
                            [q |-> r.q, scope |-> r.scope, receipt |-> receipt]]
        PROVE  LedgerOwn(ledger', made)
    <3>1. r.scope = made[r.q.op]
      BY DEF ScopesMatch, WireOwn
    <3>2. \A o \in Ops : ledger'[o] = IF o = r.q.op
                           THEN [q |-> r.q, scope |-> r.scope, receipt |-> receipt]
                           ELSE ledger[o]
      BY <2>2 DEF ServerIsFenced
    <3> QED BY <3>1, <3>2 DEF ScopesMatch, LedgerOwn
  <2> QED BY <2>1, <2>2 DEF Receive, Conclude, Die
<1> QED BY <1>1, <1>4, <1>5 DEF ScopesMatch

LEMMA ScopesStep == FieldInv /\ ScopesMatch /\ [FieldNext]_fieldVars => ScopesMatch'
<1> SUFFICES ASSUME ClientIsKept, ServerIsFenced, ScopesMatch, [FieldNext]_fieldVars
             PROVE  ScopesMatch'
  BY DEF FieldInv
<1>1. CASE UNCHANGED fieldVars
  BY <1>1 DEF fieldVars, deviceVars, serverVars, scopeVars, ScopesMatch
<1>2. CASE FieldNext
  BY <1>2, UserMatches, DeviceMatches, QuietMatches, FlushPendingMatches, FlushNextMatches,
     AnswerMatches, FlushEndMatches, ReloadMatches, ServerMatches DEF FieldNext
<1> QED BY <1>1, <1>2

LEMMA FieldStep == FieldInv /\ [FieldNext]_fieldVars => FieldInv'
<1> SUFFICES ASSUME ClientIsKept, ServerIsFenced, [FieldNext]_fieldVars
             PROVE  ClientIsKept' /\ ServerIsFenced'
  BY DEF FieldInv
<1>1. ASSUME UNCHANGED serverVars PROVE ServerIsFenced'
  BY <1>1 DEF serverVars, ServerIsFenced, Recorded
<1>2. ASSUME NEW f \in Flushers, NEW b \in BOOLEAN,
             setConsent(f, b) \/ respond(f, b) \/ selectLanguage(f) \/ share(f)
      PROVE  ClientIsKept' /\ ServerIsFenced'
  <2>1. UNCHANGED serverVars
    BY <1>2 DEF setConsent, respond, selectLanguage, share, Enqueue
  <2> QED BY <1>1, <1>2, <2>1, UserKeeps
<1>3. ASSUME NEW f \in Flushers, NEW n \in Networks, updateDevice(f, n)
      PROVE  ClientIsKept' /\ ServerIsFenced'
  BY <1>1, <1>3, DeviceKeeps DEF updateDevice
<1>4. ASSUME NEW f \in Flushers, FlushPending(f)
      PROVE  ClientIsKept' /\ ServerIsFenced'
  BY <1>1, <1>4, FlushPendingKeeps DEF FlushPending
<1>5. ASSUME NEW f \in Flushers, FlushNext(f)
      PROVE  ClientIsKept' /\ ServerIsFenced'
  BY <1>5, FlushNextKeeps, FlushNextFenced
<1>6. ASSUME NEW f \in Flushers, NEW r \in wire, Answered(f, r) \/ Unanswered(f, r)
      PROVE  ClientIsKept' /\ ServerIsFenced'
  BY <1>6, AnsweredKeeps, AnsweredFenced, UnansweredKeeps, UnansweredFenced
<1>7. ASSUME NEW f \in Flushers, FlushEnd(f)
      PROVE  ClientIsKept' /\ ServerIsFenced'
  BY <1>1, <1>7, FlushEndKeeps DEF FlushEnd
<1>8. ASSUME NEW f \in Flushers, Reload(f)
      PROVE  ClientIsKept' /\ ServerIsFenced'
  BY <1>8, ReloadKeeps, ReloadFenced
<1>9. ASSUME NEW p \in {"OPERATOR_TAKEOVER", "COMPLETED"}, Shown(p)
      PROVE  ClientIsKept' /\ ServerIsFenced'
  BY <1>1, <1>9, ShownKeeps DEF Shown
<1>10. ASSUME RegisterDevice PROVE ClientIsKept' /\ ServerIsFenced'
  BY <1>1, <1>10, RegisterKeeps DEF RegisterDevice
<1>11. ASSUME NEW o \in Ops, Expire(o) PROVE ClientIsKept' /\ ServerIsFenced'
  BY <1>1, <1>11, ExpireKeeps DEF Expire
<1>12. ASSUME NEW r \in wire, Receive(r) \/ Conclude(r) \/ Die(r)
       PROVE  ClientIsKept' /\ ServerIsFenced'
  <2>1. ServerIsFenced' /\ \A o \in Ops : Recorded(o) => Recorded(o)'
    <3>1. ledger' = ledger => \A o \in Ops : Recorded(o) => Recorded(o)'
      BY DEF Recorded
    <3> QED BY <1>12, <3>1, ReceiveFenced, ConcludeFenced, DieFenced
  <2>2. UNCHANGED <<deviceVars, scopeVars>>
    BY <1>12 DEF Receive, Conclude, Die
  <2> QED BY <2>1, <2>2, ClientStays
<1>13. ASSUME UNCHANGED fieldVars PROVE ClientIsKept' /\ ServerIsFenced'
  <2>1. UNCHANGED serverVars /\ UNCHANGED <<deviceVars, scopeVars>>
    BY <1>13 DEF fieldVars
  <2>2. \A o \in Ops : Recorded(o) => Recorded(o)'
    BY <2>1 DEF serverVars, Recorded
  <2> QED BY <1>1, <2>1, <2>2, ClientStays
<1>14. CASE UNCHANGED fieldVars
  BY <1>13, <1>14
<1>15. CASE FieldNext
  BY <1>2, <1>3, <1>4, <1>5, <1>6, <1>7, <1>8, <1>9, <1>10, <1>11, <1>12, <1>15 DEF FieldNext
<1> QED BY <1>14, <1>15

(* What the user did takes effect at most once, in the scope it was meant  *)
(* for, and none of it is forgotten unless boot cannot use what is stored, *)
(* through overlapping flushes, lost answers, reloads for this or another  *)
(* case and deaths of the server (flush, boot and the delivery route).     *)
THEOREM OperationsAreKept == FieldSpec => []DeliveredAndKept
<1>1. FieldInit => FieldInv /\ ScopesMatch
  BY FieldStart, ScopesStart
<1>2. FieldInv /\ ScopesMatch /\ [FieldNext]_fieldVars => (FieldInv /\ ScopesMatch)'
  BY FieldStep, ScopesStep
<1>3. FieldInv /\ ScopesMatch => DeliveredAndKept
  BY FieldPromised
<1> QED BY <1>1, <1>2, <1>3, PTL DEF FieldSpec

-----------------------------------------------------------------------------
(* The two figures of a conflict                                           *)

LEMMA SquareIsNatural == ASSUME NEW x \in Int PROVE x * x \in Nat
<1>1. CASE x >= 0
  BY <1>1, SMT
<1>2. CASE x < 0
  <2>1. -x \in Nat /\ (-x) * (-x) = x * x
    BY <1>2, SMT
  <2> QED BY <2>1, SMT
<1> QED BY <1>1, <1>2

(* Two entities approaching at A, a the square of their speed, within time *)
(* h of each other: the approach to the envelope that closes at h.         *)
LEMMA ApproachAtHorizon ==
    ASSUME NEW a \in Nat, a # 0, NEW A \in Int, NEW c \in Int, NEW h \in Nat,
           A > 0, A >= a * h
    PROVE  LET late == 2 * A - 2 * a * h
               discriminant == (-2 * A) * (-2 * A) - 4 * a * c
           IN  (c <= 0 \/ (discriminant >= 0 /\ (late <= 0 \/ late * late <= discriminant)))
                 <=> c - 2 * (A * h) + a * (h * h) <= 0
<1> DEFINE g == c - 2 * (A * h) + a * (h * h)
           late == 2 * A - 2 * a * h
           discriminant == (-2 * A) * (-2 * A) - 4 * a * c
<1>1. discriminant - late * late = (-4) * (a * g)
  BY SMT
<1>2. late \in Nat /\ late * late \in Nat /\ a * g \in Int /\ g \in Int /\ discriminant \in Int
  <2>1. late \in Int /\ late >= 0
    <3>1. PICK ah \in Int : ah = a * h
      BY SMT
    <3>2. 2 * a * h = 2 * ah
      BY <3>1, SMT
    <3> QED BY <3>1, <3>2, SMT
  <2> QED BY <2>1, SquareIsNatural, SMT
<1>3. a * g <= 0 <=> g <= 0
  <2>1. CASE g > 0
    <3>1. a * g > 0
      <4> HIDE DEF g
      <4> QED BY <1>2, <2>1, SMT
    <3> QED BY <3>1, <2>1, <1>2
  <2>2. CASE g <= 0
    <3>1. a * g <= 0
      <4> HIDE DEF g
      <4>1. PICK k \in Nat : g = -k
        BY <1>2, <2>2, SMT
      <4>2. a * k \in Nat /\ a * g = -(a * k)
        BY <4>1, SMT
      <4> QED BY <4>2, SMT
    <3> QED BY <3>1, <2>2
  <2> QED BY <2>1, <2>2, <1>2, SMT
<1>4. c <= 0 => g <= 0
  <2>1. PICK d \in Nat : A = a * h + d
    <3>1. a * h \in Nat /\ A - a * h \in Nat
      BY SMT
    <3> QED BY <3>1, SMT
  <2>2. A * h = a * (h * h) + d * h
    BY <2>1, SMT
  <2>3. a * (h * h) \in Nat /\ d * h \in Nat
    BY <2>1, SMT
  <2>4. g = c - a * (h * h) - 2 * (d * h)
    <3>1. PICK ahh \in Nat, dh \in Nat, Ah \in Int :
             ahh = a * (h * h) /\ dh = d * h /\ Ah = A * h /\ Ah = ahh + dh
      BY <2>2, <2>3, SMT
    <3> QED BY <3>1, SMT
  <2> HIDE DEF g
  <2> QED BY <2>3, <2>4, SMT
<1>5. late <= 0 => late * late = 0
  <2> HIDE DEF late
  <2>1. late <= 0 => late = 0
    BY <1>2, SMT
  <2> QED BY <2>1, SMT
<1> HIDE DEF g, late, discriminant
<1>6. (c <= 0 \/ (discriminant >= 0 /\ (late <= 0 \/ late * late <= discriminant))) <=> g <= 0
  BY <1>1, <1>2, <1>3, <1>4, <1>5, SMT
<1> QED BY <1>6 DEF g, late, discriminant

(* ... that closes before it.                                              *)
LEMMA ApproachBeforeHorizon ==
    ASSUME NEW a \in Nat, a # 0, NEW A \in Int, NEW cc \in Int, NEW ee \in Int, NEW h \in Nat,
           A > 0, A < a * h
    PROVE  LET late == 2 * A - 2 * a * h
               discriminant == (-2 * A) * (-2 * A) - 4 * a * (cc - ee)
           IN  (cc - ee <= 0 \/ (discriminant >= 0 /\ (late <= 0 \/ late * late <= discriminant)))
                 <=> a * cc - A * A <= ee * a
<1>1. 2 * A - 2 * a * h <= 0
  <2>1. PICK ah \in Int : ah = a * h
    BY SMT
  <2>2. 2 * a * h = 2 * ah
    BY <2>1, SMT
  <2> QED BY <2>1, <2>2, SMT
<1>2. PICK acc \in Int, aee \in Int, AA \in Nat : acc = a * cc /\ aee = ee * a /\ AA = A * A
  BY SquareIsNatural, SMT
<1>3. (-2 * A) * (-2 * A) - 4 * a * (cc - ee) = 4 * AA - 4 * (acc - aee)
  BY <1>2, SMT
<1>4. cc - ee <= 0 => acc - aee <= 0
  <2> SUFFICES ASSUME cc - ee <= 0 PROVE acc - aee <= 0
    OBVIOUS
  <2>1. PICK k \in Nat : ee = cc + k
    <3>1. ee - cc \in Nat
      BY SMT
    <3> QED BY <3>1, SMT
  <2>2. a * k \in Nat /\ aee = acc + a * k
    BY <1>2, <2>1, SMT
  <2> QED BY <2>2, SMT
<1>5. (a * cc - A * A <= ee * a) <=> (acc - AA <= aee)
  BY <1>2
<1> QED BY <1>1, <1>2, <1>3, <1>4, <1>5, SMT

(* Nothing that moves away comes nearer.                                   *)
LEMMA NoApproach ==
    ASSUME NEW a \in Nat, NEW B \in Int, NEW c \in Int, NEW h \in Nat, a = 0 \/ -B <= 0,
           a # 0, (2 * B) * (2 * B) - 4 * a * c >= 0, 2 * B <= 0
    PROVE  c <= 0
<1>1. B = 0
  BY SMT
<1>2. 4 * a * c <= 0
  BY <1>1, SMT
<1> SUFFICES ASSUME c > 0 PROVE FALSE
  BY SMT
<1>3. a * c > 0
  BY SMT
<1> QED BY <1>2, <1>3, SMT

LEMMA PairOf == \A p \in Int \X Int : \E x, y \in Int : p = <<x, y>>
OBVIOUS

LEMMA FiguresAgree ==
    ASSUME RoadAssumption, NEW m \in Motions
    PROVE  firstSphereIntersection(m)
             <=> minimumSeparation(m)[1] <= m.envelope * m.envelope * minimumSeparation(m)[2]
<1>1. PICK x1 \in Int, x2 \in Int, v1 \in Int, v2 \in Int :
          m.position = <<x1, x2>> /\ m.velocity = <<v1, v2>>
  <2>1. m.position \in Int \X Int
    BY DEF RoadAssumption
  <2>2. m.velocity \in Int \X Int
    BY DEF RoadAssumption
  <2>3. PICK x1 \in Int, x2 \in Int : m.position = <<x1, x2>>
    BY <2>1, PairOf, Zenon
  <2>4. PICK v1 \in Int, v2 \in Int : m.velocity = <<v1, v2>>
    BY <2>2, PairOf, Zenon
  <2> QED BY <2>3, <2>4
<1>2. PICK e \in Nat, h \in Nat : m.envelope = e /\ m.horizon = h
  BY DEF RoadAssumption
<1>3. PICK a \in Nat, B \in Int, cc \in Int, ee \in Nat :
          /\ a = v1 * v1 + v2 * v2 /\ B = x1 * v1 + x2 * v2 /\ cc = x1 * x1 + x2 * x2
          /\ ee = e * e
  <2>1. v1 * v1 \in Nat /\ v2 * v2 \in Nat
    BY SquareIsNatural
  <2>2. \A p, q \in Nat : p + q \in Nat
    OBVIOUS
  <2>3. v1 * v1 + v2 * v2 \in Nat
    BY <2>1, <2>2
  <2>4. /\ x1 * v1 + x2 * v2 \in Int /\ x1 * x1 + x2 * x2 \in Int
        /\ e * e \in Nat
    BY SquareIsNatural, SMT
  <2> QED BY <2>3, <2>4
<1>4. /\ dot(m.velocity, m.velocity) = a
      /\ dot(m.position, m.velocity) = B
      /\ dot(m.position, m.position) = cc
  BY <1>1, <1>3 DEF dot
<1> DEFINE late == -(2 * B) - 2 * a * h
           discriminant == (2 * B) * (2 * B) - 4 * a * (cc - ee)
           hit == cc - ee <= 0 \/ (a # 0 /\ discriminant >= 0 /\ 2 * B <= 0
                                    /\ (late <= 0 \/ late * late <= discriminant))
<1>5. firstSphereIntersection(m) <=> hit
  BY <1>2, <1>3, <1>4 DEF firstSphereIntersection, WithinHorizon
<1>6. dot(Moved(m, 0), Moved(m, 0)) = cc
  <2>1. Moved(m, 0) = <<x1, x2>>
    BY <1>1, SMT DEF Moved
  <2> QED BY <2>1, <1>3 DEF dot
<1>7. dot(Moved(m, h), Moved(m, h)) = cc + 2 * (B * h) + a * (h * h)
  <2>1. PICK p \in Int, q \in Int : p = v1 * h /\ q = v2 * h
    BY SMT
  <2>2. Moved(m, h) = <<x1 + p, x2 + q>>
    BY <1>1, <2>1, SMT DEF Moved
  <2>3. dot(Moved(m, h), Moved(m, h)) = (x1 + p) * (x1 + p) + (x2 + q) * (x2 + q)
    BY <2>2 DEF dot
  <2>4. (x1 + p) * (x1 + p) + (x2 + q) * (x2 + q) =
           (x1 * x1 + x2 * x2) + 2 * (x1 * p + x2 * q) + (p * p + q * q)
    BY SMT
  <2>5. x1 * p + x2 * q = B * h
    BY <2>1, <1>3, SMT
  <2>6. p * p + q * q = a * (h * h)
    BY <2>1, <1>3, SMT
  <2> QED BY <2>3, <2>4, <2>5, <2>6, <1>3, SMT
<1>8. CASE a = 0 \/ -B <= 0
  <2>1. minimumSeparation(m) = <<cc, 1>>
    BY <1>4, <1>6, <1>8 DEF minimumSeparation
  <2>2. ASSUME a # 0, discriminant >= 0, 2 * B <= 0 PROVE cc - ee <= 0
    <3>1. cc - ee \in Int
      OBVIOUS
    <3> QED BY ONLY <1>8, <2>2, <3>1, NoApproach, a \in Nat, B \in Int, h \in Nat
  <2>4. hit <=> cc - ee <= 0
    <3> HIDE DEF late, discriminant
    <3> QED BY <2>2
  <2>3. minimumSeparation(m)[1] = cc /\ e * e * minimumSeparation(m)[2] = ee
    BY <2>1, <1>3, SMT
  <2> QED BY <1>2, <1>5, <2>4, <2>3
<1>9. CASE a # 0 /\ -B > 0 /\ -B >= a * h
  <2>1. minimumSeparation(m) = <<cc + 2 * (B * h) + a * (h * h), 1>>
    <3> HIDE DEF hit
    <3>1. ~ (a = 0 \/ -B <= 0)
      BY <1>9, SMT
    <3> QED BY <1>2, <1>4, <1>7, <1>9, <3>1 DEF minimumSeparation
  <2> DEFINE A == -B
  <2>2. A \in Int /\ A > 0 /\ A >= a * h /\ cc - ee \in Int
    BY <1>9, SMT
  <2>3. /\ late = 2 * A - 2 * a * h
        /\ discriminant = (-2 * A) * (-2 * A) - 4 * a * (cc - ee)
        /\ 2 * B <= 0
        /\ B * h = -(A * h)
    BY <2>2, SMT
  <2>4. hit <=> (cc - ee) - 2 * (A * h) + a * (h * h) <= 0
    <3> HIDE DEF A, late, discriminant
    <3> QED BY <1>9, <2>2, <2>3, ApproachAtHorizon
  <2>5. minimumSeparation(m)[1] = cc - 2 * (A * h) + a * (h * h)
        /\ e * e * minimumSeparation(m)[2] = ee
    BY <2>1, <2>3, <1>3, SMT
  <2> HIDE DEF hit, A
  <2>6. (cc - ee) - 2 * (A * h) + a * (h * h) <= 0 <=> cc - 2 * (A * h) + a * (h * h) <= ee
    <3>1. ASSUME NEW i \in Int, NEW j \in Int
          PROVE  (cc - ee) - 2 * i + j <= 0 <=> cc - 2 * i + j <= ee
      OBVIOUS
    <3>2. A * h \in Int /\ a * (h * h) \in Int
      BY <2>2, SMT
    <3> QED BY <3>1, <3>2
  <2> QED BY <1>2, <1>5, <2>4, <2>5, <2>6
<1>10. CASE a # 0 /\ -B > 0 /\ -B < a * h
  <2> DEFINE A == -B
  <2>1. minimumSeparation(m) = <<a * cc - A * A, a>>
    <3>1. ~ (a = 0 \/ -B <= 0) /\ ~ (-B >= a * h)
      BY <1>10, SMT
    <3> HIDE DEF hit
    <3> QED BY <1>2, <1>4, <1>10, <3>1 DEF minimumSeparation
  <2>2. A \in Int /\ A > 0 /\ A < a * h
    BY <1>10, SMT
  <2>3. /\ late = 2 * A - 2 * a * h
        /\ discriminant = (-2 * A) * (-2 * A) - 4 * a * (cc - ee)
        /\ 2 * B <= 0
    BY <2>2, SMT
  <2>4. hit <=> a * cc - A * A <= ee * a
    <3> DEFINE far == 2 * A - 2 * a * h
               root == (-2 * A) * (-2 * A) - 4 * a * (cc - ee)
    <3>1. (cc - ee <= 0 \/ (root >= 0 /\ (far <= 0 \/ far * far <= root)))
            <=> a * cc - A * A <= ee * a
      <4> HIDE DEF A
      <4>1. ee \in Int /\ a # 0
        BY <1>10
      <4> QED BY ONLY <2>2, <4>1, a \in Nat, cc \in Int, h \in Nat, ApproachBeforeHorizon
    <3>2. late = far /\ discriminant = root
      BY <2>3
    <3> HIDE DEF A, late, discriminant, far, root
    <3> QED BY <1>10, <2>3, <3>1, <3>2
  <2>5. minimumSeparation(m)[1] = a * cc - A * A
        /\ e * e * minimumSeparation(m)[2] = ee * a
    BY <2>1, <1>3
  <2> QED BY <1>2, <1>5, <2>4, <2>5
<1>11. a * h \in Int /\ -B \in Int
  BY SMT
<1> QED BY <1>8, <1>9, <1>10, <1>11, SMT

(* The order of the least members.                                         *)
LEMMA MinOf ==
    ASSUME NEW S, S \subseteq Nat, S # {}
    PROVE  Min(S) \in S /\ Min(S) \in Nat /\ \A n \in S : Min(S) <= n
<1>1. \E m \in S : \A n \in S : m <= n
  BY SmallestOf
<1> QED BY <1>1, Zenon DEF Min

-----------------------------------------------------------------------------
(* What a map says stands for as long as its state is in force.            *)

(* Cell c is seen until u, by observations obs and leases ls for the state *)
(* numbered dig.                                                           *)
SeenUntil(c, u, obs, ls, dig) ==
    \E seeing \in SUBSET obs :
        /\ Cardinality(seeing) >= Quorum
        /\ \A o \in seeing : Expiry(o) >= u /\ o.health = "HEALTHY"
        /\ \A o \in seeing : \E a \in Assertions : /\ a.obs = o.id /\ a.cell = c
                                                   /\ a.state = "COVERED" /\ a.until >= u
        /\ \E of \in [seeing -> {Lineages[l].class : l \in DOMAIN Lineages}] :
             /\ \A o \in seeing : \E l \in DOMAIN Lineages :
                    /\ Lineages[l].class = of[o] /\ o.id \in Lineages[l].obs
                    /\ ls[l] # Unbuilt /\ ls[l].digest = dig /\ ls[l].expires >= u
             /\ \A o, p \in seeing : of[o] = of[p] => o = p

RoadType ==
    /\ roadClock \in Nat
    /\ observed \subseteq Observations
    /\ leased \in [DOMAIN Lineages -> Lease \cup {Unbuilt}]
    /\ \A l \in DOMAIN Lineages : leased[l] # Unbuilt => leased[l].expires <= roadClock + LeaseTerm
    /\ roadState \in RoadState \cup {Unbuilt}
    /\ prediction # Unbuilt => prediction.at \in Nat

CoverageStands ==
    coverage # Unbuilt =>
        /\ roadState # Unbuilt
        /\ coverage.digest \in Nat /\ coverage.digest <= Digest
        /\ \A c \in Cells :
             /\ coverage.cells[c].until \in Nat
             /\ coverage.digest = Digest /\ coverage.cells[c].state = "OBSERVED" =>
                  SeenUntil(c, coverage.cells[c].until, observed, leased, Digest)

RoadInv == RoadType /\ CoverageStands

LEMMA DigestIsNatural == RoadType => Digest \in Nat
BY DEF RoadType, Digest, RoadState

LEMMA SomeClass ==
    ASSUME RoadAssumption
    PROVE  /\ DOMAIN Lineages \subseteq Nat
           /\ IsFiniteSet({Lineages[l].class : l \in DOMAIN Lineages})
<1>1. PICK n \in Nat : DOMAIN Lineages = 1 .. n
  BY DEF RoadAssumption
<1> DEFINE D == DOMAIN Lineages
           C == {Lineages[l].class : l \in DOMAIN Lineages}
           f == [l \in D |-> Lineages[l].class]
<1>2. IsFiniteSet(D)
  <2>1. IsFiniteSet(1 .. n)
    BY FS_Interval
  <2> QED BY <1>1, <2>1
<1>3. f \in Surjection(D, C)
  BY DEF Surjection
<1>4. IsFiniteSet(C)
  <2> HIDE DEF D, C, f
  <2> QED BY <1>2, <1>3, FS_Surjection
<1> QED BY <1>1, <1>4

(* A lease counts only where it binds; the first is one of them.           *)
LEMMA LeaseIsValid ==
    ASSUME RoadAssumption, NEW o, NEW t, NEW l \in LeaseFor(o, t)
    PROVE  /\ l \in validLeases(o, t) /\ l \in DOMAIN Lineages
           /\ LeaseFor(o, t) = {l}
<1>1. validLeases(o, t) \subseteq Nat /\ validLeases(o, t) \subseteq DOMAIN Lineages
  BY SomeClass DEF validLeases
<1>2. validLeases(o, t) # {} /\ LeaseFor(o, t) = {Min(validLeases(o, t))}
  BY DEF LeaseFor
<1>3. Min(validLeases(o, t)) \in validLeases(o, t)
  BY <1>1, <1>2, MinOf
<1> QED BY <1>1, <1>2, <1>3

(* What is admitted has arrived; what is accepted is healthy.              *)
LEMMA AdmittedHas ==
    ASSUME RoadAssumption, RoadType, NEW t, NEW o \in Admitted(t)
    PROVE  /\ o \in observed /\ o \in Observations /\ Expiry(o) \in Nat
           /\ assessSensorObservationAdmission(o, t) = "ACCEPT" => o.health = "HEALTHY"
<1>1. o \in observed /\ o \in Observations
  BY DEF Admitted, RoadType
<1>2. Expiry(o) \in Nat
  BY <1>1 DEF RoadAssumption, Expiry
<1>3. o.health \in {"HEALTHY", "DEGRADED", "QUARANTINED", "UNAVAILABLE"}
  BY <1>1 DEF RoadAssumption
<1>4. assessSensorObservationAdmission(o, t) = "ACCEPT" =>
          o.health \notin {"QUARANTINED", "UNAVAILABLE", "DEGRADED"}
  BY DEF assessSensorObservationAdmission
<1> QED BY <1>1, <1>2, <1>3, <1>4

(* A valid lease is a lease.                                               *)
LEMMA ValidIsLease ==
    ASSUME RoadType, NEW o, NEW t, NEW l \in validLeases(o, t)
    PROVE  /\ leased[l] # Unbuilt /\ leased[l].digest = Digest
           /\ leased[l].expires \in Nat /\ o.id \in Lineages[l].obs /\ l \in DOMAIN Lineages
<1>1. l \in DOMAIN Lineages /\ leased[l] # Unbuilt /\ leased[l].digest = Digest /\ o.id \in Lineages[l].obs
  BY DEF validLeases
<1>2. leased[l] \in Lease
  BY <1>1 DEF RoadType
<1> QED BY <1>1, <1>2 DEF Lease

LEMMA TrustedHas ==
    ASSUME RoadAssumption, RoadType, NEW c, NEW t, NEW x \in Trusted(c, t)
    PROVE  /\ x.says \in Assertions /\ x.seen \in Admitted(t)
           /\ x.says.cell = c /\ x.says.obs = x.seen.id
           /\ LeaseFor(x.seen, t) = {x.by}
           /\ x.by \in DOMAIN Lineages /\ x.seen.id \in Lineages[x.by].obs
           /\ leased[x.by] # Unbuilt /\ leased[x.by].digest = Digest
           /\ TrustedUntil(x) \in Nat /\ TrustedUntil(x) <= x.says.until
           /\ TrustedUntil(x) <= Expiry(x.seen) /\ TrustedUntil(x) <= leased[x.by].expires
           /\ {x.says.until, Expiry(x.seen), leased[x.by].expires} \subseteq Nat
<1>1. /\ x.says \in Assertions /\ x.seen \in Admitted(t) /\ x.says.cell = c /\ x.says.obs = x.seen.id
      /\ x.by \in LeaseFor(x.seen, t)
  BY DEF Trusted
<1>2. LeaseFor(x.seen, t) = {x.by} /\ x.by \in validLeases(x.seen, t)
  BY <1>1, LeaseIsValid
<1>3. /\ leased[x.by] # Unbuilt /\ leased[x.by].digest = Digest /\ leased[x.by].expires \in Nat
      /\ x.seen.id \in Lineages[x.by].obs /\ x.by \in DOMAIN Lineages
  BY <1>2, ValidIsLease
<1>4. Expiry(x.seen) \in Nat
  BY <1>1, AdmittedHas
<1>5. x.says.until \in Nat
  BY <1>1 DEF RoadAssumption
<1> DEFINE S == {x.says.until, Expiry(x.seen), leased[x.by].expires}
<1>6. S \subseteq Nat /\ S # {}
  BY <1>3, <1>4, <1>5
<1>7. Min(S) \in Nat /\ \A n \in S : Min(S) <= n
  <2> HIDE DEF S
  <2> QED BY <1>6, MinOf
<1>8. TrustedUntil(x) = Min(S)
  BY DEF TrustedUntil
<1>9. TrustedUntil(x) \in Nat /\ \A n \in S : TrustedUntil(x) <= n
  BY <1>7, <1>8, Zenon
<1>10. S \subseteq Nat
  BY <1>6
<1> QED BY <1>1, <1>2, <1>3, <1>9, <1>10

LEMMA DisputedUntilIsNatural ==
    ASSUME RoadAssumption, RoadType, NEW d \in Disputes, NEW t
    PROVE  DisputedUntil(d, t) \in Nat
<1> DEFINE named == {o \in Admitted(t) : o.id \in d.obs}
           S == {d.until} \cup {Expiry(o) : o \in named}
                  \cup {leased[l].expires : l \in UNION {LeaseFor(o, t) : o \in named}}
<1>1. \A o \in named : Expiry(o) \in Nat
  BY AdmittedHas
<1>2. \A o \in named : \A l \in LeaseFor(o, t) : leased[l].expires \in Nat
  BY LeaseIsValid, ValidIsLease
<1>3. d.until \in Nat
  BY DEF RoadAssumption
<1>4. S \subseteq Nat /\ S # {}
  <2> HIDE DEF named
  <2> QED BY <1>1, <1>2, <1>3
<1>5. Min(S) \in Nat
  <2> HIDE DEF S
  <2> QED BY <1>4, MinOf
<1> QED BY <1>5 DEF DisputedUntil

(* A cell that is observed is seen, until then, by a quorum.               *)
LEMMA ObservedIsSeen ==
    ASSUME RoadAssumption, RoadType, roadState # Unbuilt, NEW c, NEW t
    PROVE  LET cell == fuseCoverageCell(c, t)
           IN  /\ cell.until \in Nat
               /\ cell.state = "OBSERVED" => SeenUntil(c, cell.until, observed, leased, Digest)
<1> DEFINE trusted == Trusted(c, t)
           disputes == TrustedDisputes(c, t)
           classes == {Lineages[x.by].class : x \in trusted}
           Summary(class) ==
               summarizeIndependenceClass({x \in trusted : Lineages[x.by].class = class}, t)
           strong == {k \in classes : Summary(k).state = "COVERED" /\ Summary(k).strong}
           cell == fuseCoverageCell(c, t)
           U == {roadState.until} \cup {TrustedUntil(x) : x \in trusted}
                  \cup {DisputedUntil(d, t) : d \in disputes}
           u == cell.until
           Strong(x, k) == /\ Lineages[x.by].class = k /\ x.says.state = "COVERED"
                           /\ assessSensorObservationAdmission(x.seen, t) = "ACCEPT"
<1>1. cell.until = Min(U)
  BY DEF fuseCoverageCell
<1>2. cell.state = "OBSERVED" => Cardinality(strong) >= Quorum
  BY DEF fuseCoverageCell
<1>3. U \subseteq Nat /\ U # {}
  <2>1. roadState.until \in Nat
    BY DEF RoadType, RoadState
  <2>2. \A x \in trusted : TrustedUntil(x) \in Nat
    BY TrustedHas
  <2>3. \A d \in disputes : DisputedUntil(d, t) \in Nat
    <3>1. disputes \subseteq Disputes
      BY DEF TrustedDisputes
    <3> QED BY <3>1, DisputedUntilIsNatural
  <2> HIDE DEF trusted, disputes
  <2> QED BY <2>1, <2>2, <2>3
<1>4. u \in Nat /\ \A n \in U : u <= n
  <2> HIDE DEF U, cell
  <2>1. Min(U) \in Nat /\ \A n \in U : Min(U) <= n
    BY <1>3, MinOf
  <2> QED BY <1>1, <2>1, Zenon
<1>5. \A x \in trusted : u <= TrustedUntil(x)
  <2> HIDE DEF u, trusted
  <2> QED BY <1>4
<1>6. ASSUME NEW k \in strong PROVE \E x \in trusted : Strong(x, k)
  <2> DEFINE values == {x \in trusted : Lineages[x.by].class = k}
             states == {x.says.state : x \in values}
  <2>1. values # {}
    <3> HIDE DEF trusted
    <3> QED OBVIOUS
  <2>2. Summary(k).state = "COVERED" /\ Summary(k).strong
    OBVIOUS
  <2>3. \A x \in values : assessSensorObservationAdmission(x.seen, t) = "ACCEPT"
    <3> HIDE DEF trusted
    <3> QED BY <2>2 DEF summarizeIndependenceClass
  <2>4. "COVERED" = CHOOSE s \in states : TRUE
    <3> HIDE DEF trusted
    <3> QED BY <2>2 DEF summarizeIndependenceClass
  <2>5. "COVERED" \in states
    <3>1. states # {}
      <4>1. PICK x \in values : TRUE
        BY <2>1
      <4>2. x.says.state \in states
        OBVIOUS
      <4> QED BY <4>2
    <3> HIDE DEF states
    <3> QED BY <2>4, <3>1
  <2>6. PICK x \in values : x.says.state = "COVERED"
    BY <2>5
  <2> HIDE DEF trusted
  <2> QED BY <2>3, <2>6
<1> DEFINE w == [k \in strong |-> CHOOSE x \in trusted : Strong(x, k)]
           seeing == {w[k].seen : k \in strong}
           of == [o \in seeing |-> Lineages[CHOOSE l \in LeaseFor(o, t) : TRUE].class]
<1>7. ASSUME NEW k \in strong PROVE w[k] \in trusted /\ Strong(w[k], k)
  <2> HIDE DEF trusted, strong, Strong
  <2> QED BY <1>6
<1>7a. ASSUME NEW x \in trusted PROVE LeaseFor(x.seen, t) = {x.by}
  <2>1. x \in Trusted(c, t)
    OBVIOUS
  <2>2. x.by \in LeaseFor(x.seen, t)
    BY <2>1 DEF Trusted
  <2> QED BY <2>2, LeaseIsValid
<1>8. ASSUME NEW k \in strong PROVE w[k].seen \in seeing /\ of[w[k].seen] = k
  <2>1. LeaseFor(w[k].seen, t) = {w[k].by}
    <3> HIDE DEF trusted, strong, w, Strong
    <3> QED BY <1>7, <1>7a
  <2>2. w[k].seen \in seeing
    <3> HIDE DEF strong, w
    <3> QED OBVIOUS
  <2>3. of[w[k].seen] = Lineages[w[k].by].class
    <3> HIDE DEF strong, w, seeing
    <3> QED BY <2>1, <2>2
  <2> HIDE DEF of, seeing, strong, w, trusted
  <2> QED BY <1>7, <2>2, <2>3
<1>9. ASSUME NEW o \in seeing PROVE \E k \in strong : o = w[k].seen /\ of[o] = k
  <2>1. PICK k \in strong : o = w[k].seen
    <3> HIDE DEF strong, w
    <3> QED OBVIOUS
  <2> HIDE DEF strong, w, seeing, of
  <2> QED BY <2>1, <1>8
<1>10. Cardinality(seeing) = Cardinality(strong)
  <2> DEFINE f == [k \in strong |-> w[k].seen]
  <2>1. IsFiniteSet(strong)
    <3> DEFINE C == {Lineages[l].class : l \in DOMAIN Lineages}
    <3>1. \A x \in trusted : x.by \in DOMAIN Lineages
      BY TrustedHas
    <3>2. strong \subseteq C
      <4> HIDE DEF trusted
      <4> QED BY <3>1
    <3>3. IsFiniteSet(C)
      BY SomeClass
    <3> HIDE DEF C, strong
    <3> QED BY <3>2, <3>3, FS_Subset
  <2>2. f \in [strong -> seeing]
    <3> HIDE DEF strong, w
    <3> QED OBVIOUS
  <2>3. \A o \in seeing : \E k \in strong : f[k] = o
    <3> HIDE DEF strong, w, of
    <3> QED OBVIOUS
  <2>4. \A j, k \in strong : f[j] = f[k] => j = k
    <3> HIDE DEF strong, w, of, seeing
    <3> QED BY <1>8
  <2> HIDE DEF f, strong, seeing
  <2>5. f \in Bijection(strong, seeing)
    BY <2>2, <2>3, <2>4 DEF Bijection, Injection, Surjection, IsInjective
  <2>6. ExistsBijection(strong, seeing)
    BY <2>5 DEF ExistsBijection
  <2> QED BY <2>1, <2>6, FS_Bijection
<1>11. ASSUME NEW o \in seeing
       PROVE  /\ o \in observed /\ Expiry(o) >= u /\ o.health = "HEALTHY"
              /\ \E a \in Assertions : /\ a.obs = o.id /\ a.cell = c
                                       /\ a.state = "COVERED" /\ a.until >= u
              /\ \E l \in DOMAIN Lineages :
                    /\ Lineages[l].class = of[o] /\ o.id \in Lineages[l].obs
                    /\ leased[l] # Unbuilt /\ leased[l].digest = Digest /\ leased[l].expires >= u
  <2>1. PICK k \in strong : o = w[k].seen /\ of[o] = k
    BY <1>9
  <2>2. PICK x \in trusted : x = w[k] /\ Strong(x, k)
    <3> HIDE DEF trusted, strong, w, Strong
    <3> QED BY <1>7
  <2>3. o = x.seen
    <3> HIDE DEF strong, w, seeing, of
    <3> QED BY <2>1, <2>2
  <2>4. /\ o \in observed /\ o.health = "HEALTHY"
    <3>1. x.seen \in Admitted(t)
      BY <2>2 DEF Trusted
    <3>2. assessSensorObservationAdmission(x.seen, t) = "ACCEPT"
      BY <2>2
    <3> HIDE DEF strong, w, seeing, of
    <3> QED BY <2>3, <3>1, <3>2, AdmittedHas
  <2>5. /\ x.says \in Assertions /\ x.says.cell = c /\ x.says.obs = x.seen.id
        /\ x.by \in DOMAIN Lineages /\ x.seen.id \in Lineages[x.by].obs
        /\ leased[x.by] # Unbuilt /\ leased[x.by].digest = Digest
        /\ TrustedUntil(x) \in Nat /\ TrustedUntil(x) <= x.says.until
        /\ TrustedUntil(x) <= Expiry(x.seen) /\ TrustedUntil(x) <= leased[x.by].expires
        /\ {x.says.until, Expiry(x.seen), leased[x.by].expires} \subseteq Nat
    BY TrustedHas
  <2>6. u <= TrustedUntil(x) /\ u \in Nat
    BY <1>4, <1>5
  <2>7. Expiry(o) >= u /\ x.says.until >= u /\ leased[x.by].expires >= u
    <3> HIDE DEF u, strong, w, seeing, of
    <3>1. x.says.until \in Nat /\ Expiry(x.seen) \in Nat /\ leased[x.by].expires \in Nat
      BY <2>5
    <3> DEFINE a == x.says.until
               b == Expiry(x.seen)
               e == leased[x.by].expires
               v == TrustedUntil(x)
    <3>2. v \in Nat /\ u \in Nat /\ u <= v /\ v <= a /\ v <= b /\ v <= e
      BY <2>5, <2>6
    <3>3. a >= u /\ b >= u /\ e >= u
      <4>1. a \in Nat /\ b \in Nat /\ e \in Nat
        BY <3>1
      <4> HIDE DEF a, b, e, v
      <4> QED BY <3>2, <4>1
    <3> QED BY <2>3, <3>3
  <2> HIDE DEF u, strong, w, seeing, of, trusted
  <2>8. Lineages[x.by].class = of[o]
    BY <2>1, <2>2
  <2> QED BY <2>2, <2>3, <2>4, <2>5, <2>7, <2>8
<1>12. ASSUME cell.state = "OBSERVED" PROVE SeenUntil(c, u, observed, leased, Digest)
  <2>1. Cardinality(seeing) >= Quorum
    <3> HIDE DEF seeing, strong, cell
    <3> QED BY <1>2, <1>10, <1>12
  <2>2. of \in [seeing -> {Lineages[l].class : l \in DOMAIN Lineages}]
    <3>1. \A o \in seeing : of[o] \in {Lineages[l].class : l \in DOMAIN Lineages}
      <4> HIDE DEF seeing, of, u, strong, w
      <4> QED BY <1>11
    <3> HIDE DEF seeing, strong
    <3> QED BY <3>1
  <2>3. \A o, p \in seeing : of[o] = of[p] => o = p
    <3> HIDE DEF seeing, of, strong, w
    <3> QED BY <1>9
  <2>4. seeing \in SUBSET observed
    <3> HIDE DEF seeing, of, u, strong, w
    <3> QED BY <1>11
  <2> HIDE DEF seeing, of, u, strong, w, cell
  <2>5. \A o \in seeing : Expiry(o) >= u /\ o.health = "HEALTHY"
    BY <1>11
  <2>6. \A o \in seeing : \E a \in Assertions : /\ a.obs = o.id /\ a.cell = c
                                                /\ a.state = "COVERED" /\ a.until >= u
    BY <1>11
  <2>7. \A o \in seeing : \E l \in DOMAIN Lineages :
            /\ Lineages[l].class = of[o] /\ o.id \in Lineages[l].obs
            /\ leased[l] # Unbuilt /\ leased[l].digest = Digest /\ leased[l].expires >= u
    BY <1>11
  <2> QED BY <2>1, <2>2, <2>3, <2>4, <2>5, <2>6, <2>7, Zenon DEF SeenUntil
<1> QED BY <1>4, <1>12

-----------------------------------------------------------------------------
(* A best candidate                                                        *)

(* An order that is total and transitive has a first element in every      *)
(* finite set that is not empty.                                           *)
Total(better, S) == \A c, d \in S : <<c, d>> \in better \/ <<d, c>> \in better
Chained(better, S) ==
    \A c, d, e \in S : <<c, d>> \in better /\ <<d, e>> \in better => <<c, e>> \in better

LEMMA BestOf ==
    ASSUME NEW S, IsFiniteSet(S), S # {}, NEW better, Total(better, S), Chained(better, S)
    PROVE  \E c \in S : \A d \in S : <<c, d>> \in better
<1> DEFINE bad == {s \in SUBSET S : s # {} /\ ~ \E c \in s : \A d \in s : <<c, d>> \in better}
<1>1. bad \in SUBSET (SUBSET S)
  OBVIOUS
<1>2. ASSUME NEW s \in bad PROVE \E x \in s : s \ {x} \in bad
  <2>1. PICK x \in s : TRUE
    OBVIOUS
  <2> SUFFICES ASSUME s \ {x} \notin bad PROVE FALSE
    BY <2>1
  <2>2. s \in SUBSET S /\ x \in S /\ <<x, x>> \in better
    BY <2>1 DEF Total
  <2>3. s \ {x} # {}
    <3> SUFFICES ASSUME s = {x} PROVE FALSE
      OBVIOUS
    <3> QED BY <2>2
  <2>4. PICK c \in s \ {x} : \A d \in s \ {x} : <<c, d>> \in better
    BY <2>2, <2>3
  <2>5. <<c, x>> \in better => \A d \in s : <<c, d>> \in better
    BY <2>4
  <2>6. <<x, c>> \in better => \A d \in s : <<x, d>> \in better
    BY <2>2, <2>4 DEF Chained
  <2>7. <<c, x>> \in better \/ <<x, c>> \in better
    BY <2>2, <2>4 DEF Total
  <2> QED BY <2>1, <2>4, <2>5, <2>6, <2>7
<1>3. bad = {}
  <2> HIDE DEF bad
  <2> QED BY <1>1, <1>2, NoneIsBad
<1>4. S \in SUBSET S
  OBVIOUS
<1> QED BY <1>3, <1>4

LEMMA SequenceOf ==
    ASSUME NEW u \in Seq(Int)
    PROVE  Len(u) \in Nat /\ DOMAIN u = 1 .. Len(u) /\ \A n \in DOMAIN u : u[n] \in Int
OBVIOUS

(* Where two outcomes first differ.                                        *)
LEMMA FirstDifference ==
    ASSUME NEW u \in Seq(Int), NEW v \in Seq(Int), Len(u) = Len(v), u # v
    PROVE  \E i \in DOMAIN u : u[i] # v[i] /\ \A j \in 1 .. i - 1 : u[j] = v[j]
<1> DEFINE D == {i \in DOMAIN u : u[i] # v[i]}
<1>1. DOMAIN u = 1 .. Len(u) /\ DOMAIN v = 1 .. Len(u) /\ Len(u) \in Nat
  OBVIOUS
<1>2. u = [i \in 1 .. Len(u) |-> u[i]] /\ v = [i \in 1 .. Len(u) |-> v[i]]
  BY <1>1
<1>3. D # {}
  <2> SUFFICES ASSUME \A i \in 1 .. Len(u) : u[i] = v[i] PROVE FALSE
    BY <1>1
  <2> QED BY <1>2, Zenon
<1>4. D \subseteq Nat
  BY <1>1
<1>5. PICK i \in D : \A j \in D : i <= j
  <2> HIDE DEF D
  <2> QED BY <1>3, <1>4, SmallestOf
<1>6. ASSUME NEW j \in 1 .. i - 1 PROVE u[j] = v[j]
  <2>1. i \in 1 .. Len(u)
    BY <1>1, <1>5
  <2>2. j \in 1 .. Len(u) /\ ~ (i <= j)
    <3> HIDE DEF D
    <3> QED BY <1>1, <2>1
  <2>3. j \notin D
    <3> HIDE DEF D
    <3> QED BY <1>5, <2>2
  <2> QED BY <1>1, <2>2, <2>3
<1> QED BY <1>5, <1>6

(* Candidates of one inquiry are totally ordered.                          *)
LEMMA PreferredIsTotal ==
    ASSUME RoadAssumption, NEW c \in Candidates, NEW d \in Candidates
    PROVE  Preferred(c, d) \/ Preferred(d, c)
<1> DEFINE u == c.outcomes
           v == d.outcomes
<1>1. /\ u \in Seq(Int) /\ v \in Seq(Int) /\ Len(u) = Len(v)
      /\ c.id \in Int /\ d.id \in Int
  BY DEF RoadAssumption
<1>2. CASE u = v
  BY <1>1, <1>2 DEF Preferred
<1>3. CASE u # v
  <2> HIDE DEF u, v
  <2>1. PICK i \in DOMAIN u : u[i] # v[i] /\ \A j \in 1 .. i - 1 : u[j] = v[j]
    BY <1>1, <1>3, FirstDifference
  <2>2. i \in DOMAIN v /\ u[i] \in Int /\ v[i] \in Int
    <3>1. /\ DOMAIN u = 1 .. Len(u) /\ \A n \in DOMAIN u : u[n] \in Int
          /\ DOMAIN v = 1 .. Len(v) /\ \A n \in DOMAIN v : v[n] \in Int
      BY <1>1, SequenceOf
    <3>2. DOMAIN u = DOMAIN v
      BY <1>1, <3>1, Zenon
    <3> QED BY <2>1, <3>1, <3>2, Zenon
  <2>3. u[i] < v[i] \/ v[i] < u[i]
    BY <2>1, <2>2
  <2> USE DEF u, v
  <2> QED BY <2>1, <2>2, <2>3, Zenon DEF Preferred, compareProtectedOutcomesLexicographically
<1> QED BY <1>2, <1>3

LEMMA LexicographicChains ==
    ASSUME NEW u \in Seq(Int), NEW v \in Seq(Int), NEW w \in Seq(Int),
           Len(u) = Len(v), Len(v) = Len(w),
           compareProtectedOutcomesLexicographically(u, v),
           compareProtectedOutcomesLexicographically(v, w)
    PROVE  compareProtectedOutcomesLexicographically(u, w)
<1>1. PICK i \in DOMAIN u : u[i] < v[i] /\ \A j \in 1 .. i - 1 : u[j] = v[j]
  BY DEF compareProtectedOutcomesLexicographically
<1>2. PICK k \in DOMAIN v : v[k] < w[k] /\ \A j \in 1 .. k - 1 : v[j] = w[j]
  BY DEF compareProtectedOutcomesLexicographically
<1>3. /\ DOMAIN u = DOMAIN v /\ DOMAIN v = 1 .. Len(u) /\ Len(u) \in Nat
      /\ \A n \in DOMAIN u : u[n] \in Int /\ v[n] \in Int /\ w[n] \in Int
  BY SequenceOf, Zenon
<1>4. CASE i < k
  <2>1. i \in 1 .. k - 1
    BY <1>3, <1>4
  <2>2. u[i] < w[i]
    BY <1>1, <1>2, <2>1
  <2>3. \A j \in 1 .. i - 1 : u[j] = w[j]
    BY <1>1, <1>2, <1>3, <1>4
  <2> QED BY <2>2, <2>3 DEF compareProtectedOutcomesLexicographically
<1>5. CASE k < i
  <2>1. k \in 1 .. i - 1
    BY <1>3, <1>5
  <2>2. u[k] < w[k]
    BY <1>1, <1>2, <2>1
  <2>3. \A j \in 1 .. k - 1 : u[j] = w[j]
    BY <1>1, <1>2, <1>3, <1>5
  <2> QED BY <1>3, <2>2, <2>3 DEF compareProtectedOutcomesLexicographically
<1>6. CASE i = k
  <2>1. u[i] < w[i]
    BY <1>1, <1>2, <1>3, <1>6
  <2>2. \A j \in 1 .. i - 1 : u[j] = w[j]
    BY <1>1, <1>2, <1>3, <1>6
  <2> QED BY <2>1, <2>2 DEF compareProtectedOutcomesLexicographically
<1> QED BY <1>3, <1>4, <1>5, <1>6

LEMMA PreferredChains ==
    ASSUME RoadAssumption, NEW c \in Candidates, NEW d \in Candidates, NEW e \in Candidates,
           Preferred(c, d), Preferred(d, e)
    PROVE  Preferred(c, e)
<1> DEFINE u == c.outcomes
           v == d.outcomes
           w == e.outcomes
<1>1. /\ u \in Seq(Int) /\ v \in Seq(Int) /\ w \in Seq(Int) /\ Len(u) = Len(v) /\ Len(v) = Len(w)
      /\ c.id \in Int /\ d.id \in Int /\ e.id \in Int
  BY DEF RoadAssumption
<1>2. \/ compareProtectedOutcomesLexicographically(u, v)
      \/ u = v /\ c.id <= d.id
  BY DEF Preferred
<1>3. \/ compareProtectedOutcomesLexicographically(v, w)
      \/ v = w /\ d.id <= e.id
  BY DEF Preferred
<1>4. \/ compareProtectedOutcomesLexicographically(u, w)
      \/ u = w /\ c.id <= e.id
  <2>1. c.id <= d.id /\ d.id <= e.id => c.id <= e.id
    <3>1. \A i, j, k \in Int : i <= j /\ j <= k => i <= k
      OBVIOUS
    <3> QED BY <1>1, <3>1, Zenon
  <2> HIDE DEF u, v, w
  <2>2. compareProtectedOutcomesLexicographically(u, v)
          /\ compareProtectedOutcomesLexicographically(v, w)
        => compareProtectedOutcomesLexicographically(u, w)
    BY <1>1, LexicographicChains
  <2> QED BY <1>2, <1>3, <2>1, <2>2
<1> QED BY <1>4 DEF Preferred

LEMMA BestCandidate ==
    ASSUME RoadAssumption, NEW S, S \subseteq Candidates, IsFiniteSet(S), S # {}
    PROVE  LET best == CHOOSE c \in S : \A d \in S : Preferred(c, d)
           IN  best \in S /\ \A d \in S : Preferred(best, d)
<1> DEFINE better == {p \in S \X S : Preferred(p[1], p[2])}
<1>1. \A c, d \in S : <<c, d>> \in better <=> Preferred(c, d)
  OBVIOUS
<1> HIDE DEF better
<1>2. Total(better, S)
  BY <1>1, PreferredIsTotal DEF Total
<1>3. Chained(better, S)
  BY <1>1, PreferredChains DEF Chained
<1>4. \E c \in S : \A d \in S : <<c, d>> \in better
  BY <1>2, <1>3, BestOf
<1>5. \E c \in S : \A d \in S : Preferred(c, d)
  BY <1>1, <1>4
<1> QED BY <1>5, Zenon

LEMMA PreferredIsSafe ==
    ASSUME RoadAssumption, NEW c \in Candidates, NEW d \in Candidates, Preferred(c, d)
    PROVE  c.outcomes[1] <= d.outcomes[1]
<1> DEFINE u == c.outcomes
           v == d.outcomes
<1>1. u \in Seq(Int) /\ v \in Seq(Int) /\ Len(u) = Len(v) /\ u # <<>>
  BY DEF RoadAssumption
<1>2. 1 \in DOMAIN u /\ u[1] \in Int /\ v[1] \in Int /\ \A i \in DOMAIN u : i \in Nat /\ i >= 1
  <2> HIDE DEF u, v
  <2> QED BY <1>1
<1>3. CASE compareProtectedOutcomesLexicographically(u, v)
  <2> HIDE DEF u, v
  <2>1. PICK i \in DOMAIN u : u[i] < v[i] /\ \A j \in 1 .. i - 1 : u[j] = v[j]
    BY <1>3 DEF compareProtectedOutcomesLexicographically
  <2>2. i \in Nat /\ i >= 1
    BY <1>2, <2>1
  <2>3. ASSUME i = 1 PROVE u[1] <= v[1]
    BY <1>2, <2>1, <2>3
  <2>4. ASSUME i > 1 PROVE u[1] <= v[1]
    <3>1. 1 \in 1 .. i - 1
      BY <2>2, <2>4
    <3>2. u[1] = v[1]
      BY <2>1, <3>1
    <3> QED BY <1>2, <3>2
  <2>5. u[1] <= v[1]
    BY <2>2, <2>3, <2>4
  <2> QED BY <2>5 DEF u, v
<1>4. CASE u = v
  BY <1>2, <1>4
<1> QED BY <1>3, <1>4 DEF Preferred

-----------------------------------------------------------------------------
(* What is advised                                                         *)

(* The candidate selected, when there is one, is the best of those that    *)
(* are valid.                                                              *)
LEMMA SelectedIsValid ==
    ASSUME RoadAssumption, NEW q \in Inquiries,
           Gated(q).selected # Unbuilt
    PROVE  LET c == Gated(q).selected
           IN  /\ evaluateDecisionCriticalCoverage(q.cells) = "ALLOW_ADVISORY_EVALUATION"
               /\ c \in q.candidates /\ c \in Candidates /\ validateCandidate(c) = "valid"
               /\ \E d \in q.candidates : d.action = "NO_ACTION" /\ c.outcomes[1] <= d.outcomes[1]
<1> DEFINE S == {c \in q.candidates : validateCandidate(c) = "valid"}
           best == CHOOSE c \in S : \A d \in S : Preferred(c, d)
<1>1. /\ evaluateDecisionCriticalCoverage(q.cells) = "ALLOW_ADVISORY_EVALUATION"
      /\ Gated(q) = evaluateCounterfactualCandidates(q.candidates)
  BY DEF Gated, Outcome
<1>2. /\ evaluateCounterfactualCandidates(q.candidates).selected = best
      /\ Cardinality({c \in S : c.action = "NO_ACTION"}) = 1
  <2> DEFINE R == q.candidates
             N == {c \in S : c.action = "NO_ACTION"}
             hard == \/ cognitiveStateRequiresAbstention
                     \/ \E c \in R : \/ validateCandidate(c) = "hard"
                                    \/ \E d \in R \ {c} : d.id = c.id
             idle == \A c \in S : c.action = "NO_ACTION"
             asks == best.action \in {"ABSTAIN", "REQUEST_MORE_EVIDENCE", "REQUEST_HUMAN_REVIEW"}
             answer == IF roadState.until <= roadClock THEN Outcome("REQUEST_MORE_EVIDENCE", Unbuilt)
                       ELSE IF hard \/ Cardinality(N) # 1 THEN Outcome("ABSTAIN", Unbuilt)
                       ELSE IF idle THEN Outcome("REQUEST_MORE_EVIDENCE", Unbuilt)
                       ELSE IF asks THEN Outcome(best.action, best)
                       ELSE Outcome("RECOMMEND", best)
  <2>1. evaluateCounterfactualCandidates(R) = answer
    BY DEF evaluateCounterfactualCandidates
  <2>2. \A d, s : Outcome(d, s).selected = s
    BY DEF Outcome
  <2>3. answer.selected # Unbuilt
    <3> HIDE DEF answer
    <3> QED BY <1>1, <2>1
  <2> HIDE DEF hard, idle, asks, best, N
  <2>4. answer.selected = best /\ Cardinality(N) = 1
    BY <2>2, <2>3
  <2> HIDE DEF answer
  <2>5. evaluateCounterfactualCandidates(q.candidates).selected = best
    BY <2>1, <2>4
  <2> QED BY <2>4, <2>5 DEF N
<1>3. IsFiniteSet(q.candidates) /\ q.candidates \subseteq Candidates
  BY DEF RoadAssumption, Candidates
<1>4. S \subseteq q.candidates /\ IsFiniteSet(S)
  BY <1>3, FS_Subset
<1>5. PICK d \in S : d.action = "NO_ACTION"
  <2> DEFINE N == {c \in S : c.action = "NO_ACTION"}
  <2>1. N # {}
    <3> SUFFICES ASSUME N = {} PROVE FALSE
      OBVIOUS
    <3>1. Cardinality(N) = 1
      BY <1>2
    <3> HIDE DEF N
    <3> QED BY <3>1, FS_EmptySet
  <2> HIDE DEF S
  <2> QED BY <2>1
<1>6. best \in S /\ \A e \in S : Preferred(best, e)
  <2>1. S \subseteq Candidates /\ S # {}
    BY <1>3, <1>4, <1>5
  <2> HIDE DEF S
  <2> QED BY <1>4, <2>1, BestCandidate
<1> HIDE DEF best
<1>7. best \in Candidates /\ d \in Candidates /\ Preferred(best, d) /\ validateCandidate(best) = "valid"
  BY <1>3, <1>5, <1>6
<1>8. best.outcomes[1] <= d.outcomes[1]
  BY <1>7, PreferredIsSafe
<1> QED BY <1>1, <1>2, <1>5, <1>6, <1>7, <1>8

LEMMA AdviceIsSeen ==
    ASSUME RoadAssumption, RoadInv, NEW q \in Inquiries, coverage # Unbuilt,
           evaluateDecisionCriticalCoverage(q.cells) = "ALLOW_ADVISORY_EVALUATION"
    PROVE  \A c \in q.cells :
              \E u \in Nat : u > roadClock /\ SeenUntil(c, u, observed, leased, Digest)
<1>1. /\ coverage.digest = Digest
      /\ \A c \in q.cells : c \in Cells /\ coverage.cells[c].until > roadClock
                            /\ coverage.cells[c].state = "OBSERVED"
  BY DEF evaluateDecisionCriticalCoverage
<1> QED BY <1>1 DEF RoadInv, CoverageStands

LEMMA AdviceIsInTime ==
    ASSUME RoadAssumption, RoadInv, NEW c \in Candidates, coverage # Unbuilt, prediction # Unbuilt,
           validateCandidate(c) = "valid"
    PROVE  /\ prediction.digest = roadState.digest
           /\ CandidateUntil(c) \in roadClock + 1 .. roadState.until
<1>1. prediction.digest = Digest /\ ~ OutlivesState(c) /\ ~ (CandidateUntil(c) <= roadClock)
  BY DEF validateCandidate
<1>2. roadState # Unbuilt /\ Digest = roadState.digest /\ roadState.until \in Nat
  BY DEF RoadInv, CoverageStands, RoadType, Digest, RoadState
<1>3. roadClock \in Nat /\ CandidateUntil(c) \in Nat
  <2>1. prediction.at \in Nat /\ c.term \in Nat /\ roadClock \in Nat
    BY DEF RoadInv, RoadType, RoadAssumption
  <2> QED BY <2>1 DEF CandidateUntil
<1>4. CandidateUntil(c) <= roadState.until
  BY <1>1, <1>2, <1>3 DEF OutlivesState
<1> QED BY <1>1, <1>2, <1>3, <1>4

(* Cell c is seen at time t by observations obs and leases ls, each        *)
(* observation through a lease of its own, for the state numbered dig.     *)
SeenNow(c, t, obs, ls, dig) ==
    \E seeing \in SUBSET {o \in obs : Expiry(o) > t /\ o.health = "HEALTHY"} :
        /\ Cardinality(seeing) >= Quorum
        /\ \A o \in seeing : \E a \in Assertions : /\ a.obs = o.id /\ a.cell = c
                                                   /\ a.state = "COVERED" /\ a.until > t
        /\ \E of \in [seeing -> {Lineages[l].class : l \in DOMAIN Lineages}] :
             \A o, p \in seeing :
                /\ of[o] \in {Lineages[l].class : l \in
                                {l \in DOMAIN Lineages : /\ ls[l] # Unbuilt
                                                         /\ ls[l].expires > t
                                                         /\ ls[l].digest = dig
                                                         /\ o.id \in Lineages[l].obs}}
                /\ of[o] = of[p] => o = p

LEMMA StillAhead == \A x, u, t \in Nat : x >= u /\ u > t => x > t
OBVIOUS

(* What stands for a while counts now.                                     *)
LEMMA SeenIsNow ==
    ASSUME RoadAssumption, RoadType, NEW c, NEW u \in Nat, u > roadClock,
           SeenUntil(c, u, observed, leased, Digest)
    PROVE  SeenNow(c, roadClock, observed, leased, Digest)
<1>1. PICK seeing \in SUBSET observed :
        /\ Cardinality(seeing) >= Quorum
        /\ \A o \in seeing : Expiry(o) >= u /\ o.health = "HEALTHY"
        /\ \A o \in seeing : \E a \in Assertions : /\ a.obs = o.id /\ a.cell = c
                                                   /\ a.state = "COVERED" /\ a.until >= u
        /\ \E of \in [seeing -> {Lineages[l].class : l \in DOMAIN Lineages}] :
             /\ \A o \in seeing : \E l \in DOMAIN Lineages :
                    /\ Lineages[l].class = of[o] /\ o.id \in Lineages[l].obs
                    /\ leased[l] # Unbuilt /\ leased[l].digest = Digest /\ leased[l].expires >= u
             /\ \A o, p \in seeing : of[o] = of[p] => o = p
  BY Zenon DEF SeenUntil
<1>2. PICK of \in [seeing -> {Lineages[l].class : l \in DOMAIN Lineages}] :
             /\ \A o \in seeing : \E l \in DOMAIN Lineages :
                    /\ Lineages[l].class = of[o] /\ o.id \in Lineages[l].obs
                    /\ leased[l] # Unbuilt /\ leased[l].digest = Digest /\ leased[l].expires >= u
             /\ \A o, p \in seeing : of[o] = of[p] => o = p
  BY <1>1
<1>3. roadClock \in Nat
  BY DEF RoadType
<1>4. ASSUME NEW o \in seeing PROVE Expiry(o) > roadClock /\ o.health = "HEALTHY"
  <2>1. Expiry(o) >= u /\ o.health = "HEALTHY"
    BY <1>1
  <2>2. Expiry(o) \in Nat
    <3>1. o \in Observations
      BY DEF RoadType
    <3>2. o.captured \in Nat /\ o.ttl \in Nat
      BY <3>1 DEF RoadAssumption
    <3>3. \A x, y \in Nat : x + y \in Nat
      OBVIOUS
    <3> QED BY <3>2, <3>3, Zenon DEF Expiry
  <2> QED BY <1>3, <2>1, <2>2, StillAhead, Zenon
<1>5. ASSUME NEW o \in seeing
      PROVE  \E a \in Assertions : /\ a.obs = o.id /\ a.cell = c
                                   /\ a.state = "COVERED" /\ a.until > roadClock
  <2>1. PICK a \in Assertions : a.obs = o.id /\ a.cell = c /\ a.state = "COVERED" /\ a.until >= u
    BY <1>1
  <2>2. a.until \in Nat
    BY DEF RoadAssumption
  <2> QED BY <1>3, <2>1, <2>2, StillAhead, Zenon
<1>6. ASSUME NEW o \in seeing
      PROVE  of[o] \in {Lineages[l].class : l \in
                           {l \in DOMAIN Lineages : /\ leased[l] # Unbuilt
                                                    /\ leased[l].expires > roadClock
                                                    /\ leased[l].digest = Digest
                                                    /\ o.id \in Lineages[l].obs}}
  <2>1. PICK l \in DOMAIN Lineages :
          /\ Lineages[l].class = of[o] /\ o.id \in Lineages[l].obs
          /\ leased[l] # Unbuilt /\ leased[l].digest = Digest /\ leased[l].expires >= u
    BY <1>2
  <2>2. leased[l].expires \in Nat
    BY <2>1 DEF RoadType, Lease
  <2>3. leased[l].expires > roadClock
    BY <1>3, <2>1, <2>2, StillAhead, Zenon
  <2> QED BY <2>1, <2>3
<1>7. seeing \in SUBSET {o \in observed : Expiry(o) > roadClock /\ o.health = "HEALTHY"}
  BY <1>4
<1>8. \A o, p \in seeing :
         /\ of[o] \in {Lineages[l].class : l \in
                         {l \in DOMAIN Lineages : /\ leased[l] # Unbuilt
                                                  /\ leased[l].expires > roadClock
                                                  /\ leased[l].digest = Digest
                                                  /\ o.id \in Lineages[l].obs}}
         /\ of[o] = of[p] => o = p
  <2>1. \A o \in seeing : of[o] \in {Lineages[l].class : l \in
                         {l \in DOMAIN Lineages : /\ leased[l] # Unbuilt
                                                  /\ leased[l].expires > roadClock
                                                  /\ leased[l].digest = Digest
                                                  /\ o.id \in Lineages[l].obs}}
    BY <1>6
  <2>2. \A o, p \in seeing : of[o] = of[p] => o = p
    BY <1>2, Zenon
  <2> QED BY <2>1, <2>2, Zenon
<1>9. Cardinality(seeing) >= Quorum
  BY <1>1
<1>10. \A o \in seeing : \E a \in Assertions : /\ a.obs = o.id /\ a.cell = c
                                               /\ a.state = "COVERED" /\ a.until > roadClock
  BY <1>5
<1>11. of \in [seeing -> {Lineages[l].class : l \in DOMAIN Lineages}]
  BY <1>2
<1> QED BY <1>7, <1>8, <1>9, <1>10, <1>11, Zenon DEF SeenNow

-----------------------------------------------------------------------------
(* What is said of an answer e, given at time t on observations obs and    *)
(* leases ls, when the state in force has number dig.                      *)
CoveredBy(e, t, obs, ls, dig) == \A c \in e.asked.cells : SeenNow(c, t, obs, ls, dig)

CurrentBy(e, t, state, foreseen) ==
    LET s == e.answer.selected
    IN  /\ foreseen.digest = state.digest
        /\ foreseen.at + s.term \in t + 1 .. state.until
        /\ \E c \in e.asked.candidates : c.action = "NO_ACTION" /\ s.outcomes[1] <= c.outcomes[1]

AdvisedBy(e) == e # Unbuilt /\ e.kind = "advice" /\ e.answer.selected # Unbuilt

AdviceStands ==
    AdvisedBy(evaluation) => /\ CoveredBy(evaluation, roadClock, observed, leased, Digest)
                             /\ CurrentBy(evaluation, roadClock, roadState, prediction)

(* The property of the run, said of an answer and of what it rests on.     *)
LEMMA GroundingIsMeant == AdviceIsGrounded <=> AdviceStands
<1>1. AdviceIsCovered <=> (AdvisedBy(evaluation) =>
          CoveredBy(evaluation, roadClock, observed, leased, Digest))
  BY DEF AdviceIsCovered, CoveredBy, SeenNow, Advised, AdvisedBy, validLeases
<1>2. AdviceIsCurrent <=> (AdvisedBy(evaluation) =>
          CurrentBy(evaluation, roadClock, roadState, prediction))
  BY DEF AdviceIsCurrent, CurrentBy, Advised, AdvisedBy, CandidateUntil
<1> QED BY <1>1, <1>2 DEF AdviceIsGrounded, AdviceStands

LEMMA AdviceIsRight ==
    ASSUME RoadAssumption, RoadInv, NEW q \in Inquiries, evaluateCandidates(q)
    PROVE  AdviceStands'
<1> DEFINE e == [kind |-> "advice", asked |-> q, answer |-> Gated(q)]
           s == Gated(q).selected
<1>1. /\ coverage # Unbuilt /\ prediction # Unbuilt
      /\ evaluation' = e
      /\ roadClock' = roadClock /\ observed' = observed /\ leased' = leased
      /\ roadState' = roadState /\ coverage' = coverage /\ prediction' = prediction
  BY DEF evaluateCandidates
<1>2. e.asked = q /\ e.answer.selected = s
  OBVIOUS
<1> HIDE DEF e
<1>3. ASSUME AdvisedBy(e)
      PROVE  /\ CoveredBy(e, roadClock, observed, leased, Digest)
             /\ CurrentBy(e, roadClock, roadState, prediction)
  <2>1. s # Unbuilt
    BY <1>2, <1>3 DEF AdvisedBy
  <2>2. /\ evaluateDecisionCriticalCoverage(q.cells) = "ALLOW_ADVISORY_EVALUATION"
        /\ s \in Candidates /\ validateCandidate(s) = "valid"
        /\ \E d \in q.candidates : d.action = "NO_ACTION" /\ s.outcomes[1] <= d.outcomes[1]
    BY <2>1, SelectedIsValid
  <2> HIDE DEF s
  <2>3. CurrentBy(e, roadClock, roadState, prediction)
    <3>1. /\ prediction.digest = roadState.digest
          /\ CandidateUntil(s) \in roadClock + 1 .. roadState.until
      BY <1>1, <2>2, AdviceIsInTime
    <3>2. prediction.at + s.term \in roadClock + 1 .. roadState.until
      BY <3>1 DEF CandidateUntil
    <3> QED BY <1>2, <2>2, <3>1, <3>2, Zenon DEF CurrentBy
  <2>4. ASSUME NEW c \in q.cells
        PROVE  \E u \in Nat : u > roadClock /\ SeenUntil(c, u, observed, leased, Digest)
    BY <1>1, <2>2, AdviceIsSeen
  <2>5. CoveredBy(e, roadClock, observed, leased, Digest)
    <3>1. RoadType
      BY DEF RoadInv
    <3>2. ASSUME NEW c \in q.cells PROVE SeenNow(c, roadClock, observed, leased, Digest)
      <4>1. PICK u \in Nat : u > roadClock /\ SeenUntil(c, u, observed, leased, Digest)
        BY <2>4
      <4> QED BY <3>1, <4>1, SeenIsNow
    <3> QED BY <1>2, <3>2, Zenon DEF CoveredBy
  <2> QED BY <2>3, <2>5
<1>4. Digest' = Digest
  BY <1>1 DEF Digest
<1>5. AdvisedBy(evaluation') =>
        /\ CoveredBy(evaluation', roadClock', observed', leased', Digest')
        /\ CurrentBy(evaluation', roadClock', roadState', prediction')
  BY <1>1, <1>3, <1>4, Zenon
<1> QED BY <1>5 DEF AdviceStands

(* Where nothing is advised, no advice is wrong.                           *)
LEMMA NothingAdvised ==
    ASSUME evaluation' = Unbuilt \/ evaluation'.kind # "advice"
    PROVE  AdviceStands'
BY DEF AdviceStands, AdvisedBy

-----------------------------------------------------------------------------
(* What a step leaves of a map                                             *)

(* Who is seen stays seen when observations are added and leases renewed.  *)
LEMMA SeenStays ==
    ASSUME NEW c, NEW u, NEW dig, NEW obs, NEW ls, NEW obs2, NEW ls2,
           SeenUntil(c, u, obs, ls, dig), obs \subseteq obs2,
           \A l \in DOMAIN Lineages :
              ls[l] # Unbuilt /\ ls[l].digest = dig /\ ls[l].expires >= u =>
                 ls2[l] # Unbuilt /\ ls2[l].digest = dig /\ ls2[l].expires >= u
    PROVE  SeenUntil(c, u, obs2, ls2, dig)
<1>1. PICK seeing \in SUBSET obs :
        /\ Cardinality(seeing) >= Quorum
        /\ \A o \in seeing : Expiry(o) >= u /\ o.health = "HEALTHY"
        /\ \A o \in seeing : \E a \in Assertions : /\ a.obs = o.id /\ a.cell = c
                                                   /\ a.state = "COVERED" /\ a.until >= u
        /\ \E of \in [seeing -> {Lineages[l].class : l \in DOMAIN Lineages}] :
             /\ \A o \in seeing : \E l \in DOMAIN Lineages :
                    /\ Lineages[l].class = of[o] /\ o.id \in Lineages[l].obs
                    /\ ls[l] # Unbuilt /\ ls[l].digest = dig /\ ls[l].expires >= u
             /\ \A o, p \in seeing : of[o] = of[p] => o = p
  BY Zenon DEF SeenUntil
<1>2. PICK of \in [seeing -> {Lineages[l].class : l \in DOMAIN Lineages}] :
             /\ \A o \in seeing : \E l \in DOMAIN Lineages :
                    /\ Lineages[l].class = of[o] /\ o.id \in Lineages[l].obs
                    /\ ls[l] # Unbuilt /\ ls[l].digest = dig /\ ls[l].expires >= u
             /\ \A o, p \in seeing : of[o] = of[p] => o = p
  BY <1>1
<1>3. \A o \in seeing : \E l \in DOMAIN Lineages :
         /\ Lineages[l].class = of[o] /\ o.id \in Lineages[l].obs
         /\ ls2[l] # Unbuilt /\ ls2[l].digest = dig /\ ls2[l].expires >= u
  BY <1>2, Zenon
<1>4. seeing \in SUBSET obs2
  BY <1>1
<1>5. /\ Cardinality(seeing) >= Quorum
      /\ \A o \in seeing : Expiry(o) >= u /\ o.health = "HEALTHY"
      /\ \A o \in seeing : \E a \in Assertions : /\ a.obs = o.id /\ a.cell = c
                                                 /\ a.state = "COVERED" /\ a.until >= u
  BY <1>1, Zenon
<1>6. \A o, p \in seeing : of[o] = of[p] => o = p
  BY <1>2, Zenon
<1> QED BY <1>3, <1>4, <1>5, <1>6, Zenon DEF SeenUntil

(* A map stands for what does not change the state in force.               *)
LEMMA CoverageStays ==
    ASSUME RoadType, CoverageStands,
           roadState' = roadState, coverage' = coverage, observed \subseteq observed',
           \A l \in DOMAIN Lineages : leased[l] # Unbuilt =>
              leased'[l] = leased[l] \/ /\ leased'[l] # Unbuilt /\ leased'[l].digest = Digest
                                        /\ leased'[l].expires >= leased[l].expires
                                        /\ leased'[l].expires \in Nat
    PROVE  CoverageStands'
<1>1. Digest' = Digest
  BY DEF Digest
<1>2. ASSUME NEW c, NEW u \in Nat, SeenUntil(c, u, observed, leased, Digest)
      PROVE  SeenUntil(c, u, observed', leased', Digest')
  <2>1. ASSUME NEW l \in DOMAIN Lineages,
               leased[l] # Unbuilt, leased[l].digest = Digest, leased[l].expires >= u
        PROVE  leased'[l] # Unbuilt /\ leased'[l].digest = Digest /\ leased'[l].expires >= u
    <3>1. leased[l].expires \in Nat
      BY <2>1 DEF RoadType, Lease
    <3>2. CASE leased'[l] = leased[l]
      BY <2>1, <3>2
    <3>3. CASE leased'[l] # leased[l]
      <4>1. /\ leased'[l] # Unbuilt /\ leased'[l].digest = Digest
            /\ leased'[l].expires >= leased[l].expires /\ leased'[l].expires \in Nat
        BY <2>1, <3>3
      <4> QED BY <2>1, <3>1, <4>1
    <3> QED BY <3>2, <3>3
  <2>2. SeenUntil(c, u, observed', leased', Digest)
    BY <1>2, <2>1, SeenStays
  <2> QED BY <1>1, <2>2
<1>3. SUFFICES ASSUME coverage' # Unbuilt PROVE
        /\ roadState' # Unbuilt
        /\ coverage'.digest \in Nat /\ coverage'.digest <= Digest'
        /\ \A c \in Cells :
             /\ coverage'.cells[c].until \in Nat
             /\ coverage'.digest = Digest' /\ coverage'.cells[c].state = "OBSERVED" =>
                  SeenUntil(c, coverage'.cells[c].until, observed', leased', Digest')
  BY Zenon DEF CoverageStands
<1>4. /\ roadState # Unbuilt
      /\ coverage.digest \in Nat /\ coverage.digest <= Digest
      /\ \A c \in Cells :
           /\ coverage.cells[c].until \in Nat
           /\ coverage.digest = Digest /\ coverage.cells[c].state = "OBSERVED" =>
                SeenUntil(c, coverage.cells[c].until, observed, leased, Digest)
  BY <1>3 DEF CoverageStands
<1>5. ASSUME NEW c \in Cells, coverage.digest = Digest, coverage.cells[c].state = "OBSERVED"
      PROVE  SeenUntil(c, coverage.cells[c].until, observed', leased', Digest')
  BY <1>2, <1>4, <1>5
<1> QED BY <1>1, <1>4, <1>5

-----------------------------------------------------------------------------
(* One lemma for each step                                                 *)

LEMMA EntityIsOne ==
    ASSUME RoadAssumption, RoadType, NEW k, NEW t, NEW u \in Nat
    PROVE  Entity(k, t, u) \in [epistemic : Epistemics, until : Nat]
<1> DEFINE reports == {o \in Admitted(t) : k \in DOMAIN o.tracks}
           S == {u} \cup {Expiry(o) : o \in reports}
<1>1. \A o \in reports : Expiry(o) \in Nat
  BY AdmittedHas
<1>2. S \subseteq Nat /\ S # {}
  <2> HIDE DEF reports
  <2> QED BY <1>1
<1>3. Min(S) \in Nat
  <2> HIDE DEF S
  <2> QED BY <1>2, MinOf
<1>4. Entity(k, t, u).until = Min(S)
  BY DEF Entity
<1>5. Entity(k, t, u).epistemic \in Epistemics
  BY DEF Entity, Epistemics
<1>6. Entity(k, t, u) = [epistemic |-> Entity(k, t, u).epistemic, until |-> Entity(k, t, u).until]
  BY DEF Entity
<1> HIDE DEF S
<1> QED BY <1>3, <1>4, <1>5, <1>6

LEMMA StateIsBuilt ==
    ASSUME RoadAssumption, RoadInv, buildCognitiveRoadState
    PROVE  RoadInv' /\ AdviceStands' /\ ConflictAgrees'
<1> DEFINE t == roadClock
           tracks == UNION {DOMAIN o.tracks : o \in Admitted(t)}
           entities == [k \in tracks |-> Entity(k, t, t + StateTerm)]
           built == [digest |-> Digest + 1, until |-> t + StateTerm, entities |-> entities]
<1>1. /\ roadState' = built /\ evaluation' = Unbuilt
      /\ roadClock' = roadClock /\ observed' = observed /\ leased' = leased
      /\ coverage' = coverage /\ prediction' = prediction
  BY DEF buildCognitiveRoadState
<1>2. RoadType /\ CoverageStands /\ Digest \in Nat
  BY DigestIsNatural DEF RoadInv
<1>3. t + StateTerm \in Nat
  BY <1>2 DEF RoadType, RoadAssumption
<1>4. built \in RoadState
  <2>1. tracks \subseteq UNION {DOMAIN o.tracks : o \in Observations}
    BY <1>2, AdmittedHas
  <2>2. \A k \in tracks : Entity(k, t, t + StateTerm) \in [epistemic : Epistemics, until : Nat]
    BY <1>2, <1>3, EntityIsOne
  <2> HIDE DEF tracks
  <2>3. entities \in [tracks -> [epistemic : Epistemics, until : Nat]]
    BY <2>2
  <2>4. entities \in UNION {[ks -> [epistemic : Epistemics, until : Nat]] :
                              ks \in SUBSET UNION {DOMAIN o.tracks : o \in Observations}}
    <3> HIDE DEF entities
    <3> QED BY <2>1, <2>3
  <2> HIDE DEF entities
  <2> QED BY <1>2, <1>3, <2>4 DEF RoadState
<1>5. built.digest = Digest + 1
  OBVIOUS
<1> HIDE DEF built
<1>6. roadState' # Unbuilt /\ Digest' = Digest + 1
  <2>1. roadState' # Unbuilt
    BY <1>1, <1>4 DEF RoadAssumption
  <2> QED BY <1>1, <1>5, <2>1 DEF Digest
<1>7. RoadType'
  <2>1. /\ roadClock' \in Nat
        /\ observed' \subseteq Observations
        /\ leased' \in [DOMAIN Lineages -> Lease \cup {Unbuilt}]
        /\ \A l \in DOMAIN Lineages : leased'[l] # Unbuilt => leased'[l].expires <= roadClock' + LeaseTerm
        /\ roadState' \in RoadState \cup {Unbuilt}
        /\ prediction' # Unbuilt => prediction'.at \in Nat
    BY <1>1, <1>2, <1>4 DEF RoadType
  <2> QED BY <2>1 DEF RoadType
<1>8. CoverageStands'
  <2> SUFFICES ASSUME coverage # Unbuilt
               PROVE  /\ coverage.digest \in Nat /\ coverage.digest <= Digest + 1
                      /\ coverage.digest # Digest + 1
                      /\ \A c \in Cells : coverage.cells[c].until \in Nat
    BY <1>1, <1>6 DEF CoverageStands
  <2>1. coverage.digest \in Nat /\ coverage.digest <= Digest
        /\ \A c \in Cells : coverage.cells[c].until \in Nat
    BY <1>2 DEF CoverageStands
  <2> QED BY <1>2, <2>1
<1> QED BY <1>1, <1>7, <1>8, NothingAdvised DEF RoadInv, ConflictAgrees

LEMMA MapIsBuilt ==
    ASSUME RoadAssumption, RoadInv, buildEpistemicCoverageMap
    PROVE  RoadInv' /\ AdviceStands' /\ ConflictAgrees'
<1> DEFINE cells == [c \in Cells |-> fuseCoverageCell(c, roadClock)]
           built == [digest |-> Digest, cells |-> cells,
                     until |-> Min({roadState.until} \cup {cells[c].until : c \in Cells})]
<1>1. /\ coverage' = built /\ evaluation' = Unbuilt /\ roadState # Unbuilt
      /\ roadClock' = roadClock /\ observed' = observed /\ leased' = leased
      /\ roadState' = roadState /\ prediction' = prediction
  BY DEF buildEpistemicCoverageMap
<1>2. RoadType /\ Digest \in Nat /\ Digest' = Digest
  BY <1>1, DigestIsNatural DEF RoadInv, Digest
<1>3. built.digest = Digest /\ built.cells = cells
  OBVIOUS
<1>4. RoadType'
  BY <1>1, <1>2 DEF RoadType
<1>5. ASSUME NEW c \in Cells
      PROVE  /\ cells[c].until \in Nat
             /\ cells[c].state = "OBSERVED" =>
                  SeenUntil(c, cells[c].until, observed, leased, Digest)
  <2>1. cells[c] = fuseCoverageCell(c, roadClock)
    OBVIOUS
  <2> HIDE DEF cells
  <2> QED BY <1>1, <1>2, <2>1, ObservedIsSeen
<1> HIDE DEF built, cells
<1>6. CoverageStands'
  <2>1. coverage'.digest = Digest' /\ coverage'.cells = cells /\ roadState' # Unbuilt
        /\ Digest' \in Nat
    BY <1>1, <1>2, <1>3
  <2>2. coverage'.digest \in Nat /\ coverage'.digest <= Digest'
    BY <2>1
  <2>3. ASSUME NEW c \in Cells
        PROVE  /\ coverage'.cells[c].until \in Nat
               /\ coverage'.cells[c].state = "OBSERVED" =>
                    SeenUntil(c, coverage'.cells[c].until, observed', leased', Digest')
    BY <1>1, <1>2, <1>5, <2>1
  <2> QED BY <2>1, <2>2, <2>3 DEF CoverageStands
<1> QED BY <1>1, <1>4, <1>6, NothingAdvised DEF RoadInv, ConflictAgrees

LEMMA CandidatesAreEvaluated ==
    ASSUME RoadAssumption, RoadInv, NEW q \in Inquiries, evaluateCandidates(q)
    PROVE  RoadInv' /\ AdviceStands' /\ ConflictAgrees'
<1>1. /\ evaluation' = [kind |-> "advice", asked |-> q, answer |-> Gated(q)]
      /\ roadClock' = roadClock /\ observed' = observed /\ leased' = leased
      /\ roadState' = roadState /\ coverage' = coverage /\ prediction' = prediction
  BY DEF evaluateCandidates
<1>2. RoadType'
  BY <1>1 DEF RoadInv, RoadType
<1>3. CoverageStands'
  BY <1>1, CoverageStays DEF RoadInv
<1>4. ConflictAgrees'
  <2>1. evaluation'.kind = "advice"
    BY <1>1
  <2> QED BY <2>1 DEF ConflictAgrees
<1> QED BY <1>2, <1>3, <1>4, AdviceIsRight DEF RoadInv

LEMMA ConflictIsEvaluated ==
    ASSUME RoadAssumption, RoadInv, NEW k1, NEW k2, evaluateCognitivePairwiseConflict(k1, k2)
    PROVE  RoadInv' /\ AdviceStands' /\ ConflictAgrees'
<1>1. PICK m \in Motions :
        evaluation' = [kind |-> "conflict", motion |-> m,
                       intersected |-> firstSphereIntersection(m),
                       separation |-> minimumSeparation(m)]
  BY DEF evaluateCognitivePairwiseConflict
<1>2. /\ roadClock' = roadClock /\ observed' = observed /\ leased' = leased
      /\ roadState' = roadState /\ coverage' = coverage /\ prediction' = prediction
  BY DEF evaluateCognitivePairwiseConflict
<1>3. RoadType'
  BY <1>2 DEF RoadInv, RoadType
<1>4. CoverageStands'
  BY <1>2, CoverageStays DEF RoadInv
<1>5. /\ evaluation'.kind = "conflict" /\ evaluation'.motion = m
      /\ evaluation'.intersected = firstSphereIntersection(m)
      /\ evaluation'.separation = minimumSeparation(m)
  BY <1>1
<1>6. ConflictAgrees'
  <2>1. evaluation'.intersected
          <=> evaluation'.separation[1]
                <= evaluation'.motion.envelope * evaluation'.motion.envelope
                     * evaluation'.separation[2]
    <3>1. firstSphereIntersection(m)
            <=> minimumSeparation(m)[1] <= m.envelope * m.envelope * minimumSeparation(m)[2]
      BY FiguresAgree
    <3> QED BY <1>5, <3>1, Zenon
  <2> QED BY <2>1 DEF ConflictAgrees
<1> QED BY <1>3, <1>4, <1>5, <1>6, NothingAdvised DEF RoadInv

LEMMA ObservationArrives ==
    ASSUME RoadAssumption, RoadInv, NEW o \in Observations, observe(o)
    PROVE  RoadInv' /\ AdviceStands' /\ ConflictAgrees'
<1>1. /\ observed' = observed \cup {o} /\ evaluation' = Unbuilt
      /\ roadClock' = roadClock /\ leased' = leased
      /\ roadState' = roadState /\ coverage' = coverage /\ prediction' = prediction
  BY DEF observe
<1>2. RoadType'
  BY <1>1 DEF RoadInv, RoadType
<1>3. CoverageStands'
  BY <1>1, CoverageStays DEF RoadInv
<1> QED BY <1>1, <1>2, <1>3, NothingAdvised DEF RoadInv, ConflictAgrees

LEMMA LeaseIsIssued ==
    ASSUME RoadAssumption, RoadInv, NEW l \in DOMAIN Lineages, issueLease(l)
    PROVE  RoadInv' /\ AdviceStands' /\ ConflictAgrees'
<1> DEFINE lease == [digest |-> Digest, expires |-> roadClock + LeaseTerm]
<1>1. /\ leased' = [leased EXCEPT ![l] = lease] /\ evaluation' = Unbuilt
      /\ roadClock' = roadClock /\ observed' = observed
      /\ roadState' = roadState /\ coverage' = coverage /\ prediction' = prediction
  BY DEF issueLease
<1>2. RoadType /\ CoverageStands /\ Digest \in Nat
  BY DigestIsNatural DEF RoadInv
<1>3. roadClock + LeaseTerm \in Nat
  BY <1>2 DEF RoadType, RoadAssumption
<1>4. lease \in Lease /\ lease # Unbuilt /\ lease.digest = Digest /\ lease.expires = roadClock + LeaseTerm
  BY <1>2, <1>3 DEF Lease, RoadAssumption
<1> HIDE DEF lease
<1>5. leased \in [DOMAIN Lineages -> Lease \cup {Unbuilt}]
  BY <1>2 DEF RoadType
<1>6. /\ leased' \in [DOMAIN Lineages -> Lease \cup {Unbuilt}]
      /\ leased'[l] = lease /\ \A m \in DOMAIN Lineages \ {l} : leased'[m] = leased[m]
  BY <1>1, <1>4, <1>5
<1>7. RoadType'
  <2>1. ASSUME NEW m \in DOMAIN Lineages, leased'[m] # Unbuilt
        PROVE  leased'[m].expires <= roadClock + LeaseTerm
    <3>1. CASE m = l
      BY <1>3, <1>4, <1>6, <3>1
    <3>2. CASE m # l
      BY <1>2, <1>6, <2>1, <3>2 DEF RoadType
    <3> QED BY <3>1, <3>2
  <2> QED BY <1>1, <1>2, <1>6, <2>1 DEF RoadType
<1>8. CoverageStands'
  <2>1. ASSUME NEW m \in DOMAIN Lineages, leased[m] # Unbuilt
        PROVE  leased'[m] = leased[m] \/ /\ leased'[m] # Unbuilt /\ leased'[m].digest = Digest
                                         /\ leased'[m].expires >= leased[m].expires
                                         /\ leased'[m].expires \in Nat
    <3>1. CASE m # l
      BY <1>6, <3>1
    <3>2. CASE m = l
      <4>1. leased[m].expires <= roadClock + LeaseTerm /\ leased[m].expires \in Nat
        BY <1>2, <2>1 DEF RoadType, Lease
      <4> QED BY <1>3, <1>4, <1>6, <3>2, <4>1
    <3> QED BY <3>1, <3>2
  <2> QED BY <1>1, <1>2, <2>1, CoverageStays
<1> QED BY <1>1, <1>7, <1>8, NothingAdvised DEF RoadInv, ConflictAgrees

LEMMA OutcomesArePredicted ==
    ASSUME RoadAssumption, RoadInv, predict
    PROVE  RoadInv' /\ AdviceStands' /\ ConflictAgrees'
<1>1. /\ prediction' = [digest |-> Digest, at |-> roadClock] /\ evaluation' = Unbuilt
      /\ roadClock' = roadClock /\ observed' = observed /\ leased' = leased
      /\ roadState' = roadState /\ coverage' = coverage
  BY DEF predict
<1>2. RoadType'
  <2>1. prediction'.at = roadClock
    BY <1>1
  <2> QED BY <1>1, <2>1 DEF RoadInv, RoadType
<1>3. CoverageStands'
  BY <1>1, CoverageStays DEF RoadInv
<1> QED BY <1>1, <1>2, <1>3, NothingAdvised DEF RoadInv, ConflictAgrees

LEMMA TimePasses ==
    ASSUME RoadAssumption, RoadInv, RoadTick
    PROVE  RoadInv' /\ AdviceStands' /\ ConflictAgrees'
<1>1. /\ roadClock' = roadClock + 1 /\ evaluation' = Unbuilt
      /\ observed' = observed /\ leased' = leased
      /\ roadState' = roadState /\ coverage' = coverage /\ prediction' = prediction
  BY DEF RoadTick
<1>2. RoadType'
  <2>1. RoadType /\ roadClock \in Nat /\ LeaseTerm \in Nat
    BY DEF RoadInv, RoadType, RoadAssumption
  <2>2. ASSUME NEW l \in DOMAIN Lineages, leased[l] # Unbuilt
        PROVE  leased[l].expires <= (roadClock + 1) + LeaseTerm
    <3>1. leased[l].expires \in Nat /\ leased[l].expires <= roadClock + LeaseTerm
      BY <2>1, <2>2 DEF RoadType, Lease
    <3>2. \A x, y, z \in Nat : x <= y + z => x <= (y + 1) + z
      OBVIOUS
    <3> QED BY <2>1, <3>1, <3>2, Zenon
  <2> QED BY <1>1, <2>1, <2>2 DEF RoadType
<1>3. CoverageStands'
  BY <1>1, CoverageStays DEF RoadInv
<1> QED BY <1>1, <1>2, <1>3, NothingAdvised DEF RoadInv, ConflictAgrees

LEMMA RoadStarts == RoadInit => RoadInv /\ AdviceStands /\ ConflictAgrees
<1> SUFFICES ASSUME RoadInit PROVE RoadInv /\ AdviceStands /\ ConflictAgrees
  OBVIOUS
<1>1. RoadType
  BY DEF RoadInit, RoadType
<1> QED BY <1>1 DEF RoadInit, RoadInv, CoverageStands, AdviceStands, AdvisedBy, ConflictAgrees

LEMMA RoadStep ==
    ASSUME RoadAssumption, RoadInv, AdviceStands, ConflictAgrees, [RoadNext]_roadVars
    PROVE  RoadInv' /\ AdviceStands' /\ ConflictAgrees'
<1>1. CASE buildCognitiveRoadState
  BY <1>1, StateIsBuilt
<1>2. CASE buildEpistemicCoverageMap
  BY <1>2, MapIsBuilt
<1>3. ASSUME NEW q \in Inquiries, evaluateCandidates(q)
      PROVE  RoadInv' /\ AdviceStands' /\ ConflictAgrees'
  BY <1>3, CandidatesAreEvaluated
<1>4. ASSUME NEW k1 \in {c.track : c \in Claims}, NEW k2 \in {c.track : c \in Claims},
             evaluateCognitivePairwiseConflict(k1, k2)
      PROVE  RoadInv' /\ AdviceStands' /\ ConflictAgrees'
  BY <1>4, ConflictIsEvaluated
<1>5. ASSUME NEW o \in Observations, observe(o)
      PROVE  RoadInv' /\ AdviceStands' /\ ConflictAgrees'
  BY <1>5, ObservationArrives
<1>6. ASSUME NEW l \in DOMAIN Lineages, issueLease(l)
      PROVE  RoadInv' /\ AdviceStands' /\ ConflictAgrees'
  BY <1>6, LeaseIsIssued
<1>7. CASE predict
  BY <1>7, OutcomesArePredicted
<1>8. CASE RoadTick
  BY <1>8, TimePasses
<1>9. CASE UNCHANGED roadVars
  <2>1. /\ roadClock' = roadClock /\ observed' = observed /\ leased' = leased
        /\ roadState' = roadState /\ coverage' = coverage /\ prediction' = prediction
        /\ evaluation' = evaluation
    BY <1>9 DEF roadVars
  <2>2. RoadType'
    BY <2>1 DEF RoadInv, RoadType
  <2>3. CoverageStands'
    BY <2>1, CoverageStays DEF RoadInv
  <2>4. Digest' = Digest
    BY <2>1 DEF Digest
  <2>5. AdviceStands'
    BY <2>1, <2>4 DEF AdviceStands
  <2>6. ConflictAgrees'
    BY <2>1 DEF ConflictAgrees
  <2> QED BY <2>2, <2>3, <2>5, <2>6 DEF RoadInv
<1> QED BY <1>1, <1>2, <1>3, <1>4, <1>5, <1>6, <1>7, <1>8, <1>9 DEF RoadNext

(* Whatever was built when and however leases are renewed, what is         *)
(* advised rests on cells that a quorum of independent observations sees   *)
(* at that moment, was predicted for the state in force, does not outlive  *)
(* it, and is no more dangerous than doing nothing                         *)
(* (evaluateCoverageGovernedCounterfactualCandidates).                     *)
THEOREM GroundedAdvice == RoadSpec => []AdviceIsGrounded
<1>1. RoadInit => RoadInv /\ AdviceStands /\ ConflictAgrees
  BY RoadStarts
<1>2. RoadInv /\ AdviceStands /\ ConflictAgrees /\ [RoadNext]_roadVars
        => (RoadInv /\ AdviceStands /\ ConflictAgrees)'
  BY RoadAssumption, RoadStep
<1> QED BY <1>1, <1>2, GroundingIsMeant, PTL DEF RoadSpec

(* For all integer motions, the time of the first intersection and the     *)
(* least separation say the same (evaluateCognitivePairwiseConflict).      *)
THEOREM AgreeingConflict == RoadSpec => []ConflictAgrees
<1>1. RoadInit => RoadInv /\ AdviceStands /\ ConflictAgrees
  BY RoadStarts
<1>2. RoadInv /\ AdviceStands /\ ConflictAgrees /\ [RoadNext]_roadVars
        => (RoadInv /\ AdviceStands /\ ConflictAgrees)'
  BY RoadAssumption, RoadStep
<1> QED BY <1>1, <1>2, PTL DEF RoadSpec
=============================================================================
