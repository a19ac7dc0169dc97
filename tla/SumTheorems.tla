---------------------------- MODULE SumTheorems ----------------------------
(***************************************************************************)
(* Sums over finite sets: what an induction over data would give, by least *)
(* counterexamples.                                                        *)
(***************************************************************************)
EXTENDS Integers, FiniteSets, FiniteSetsExt, FiniteSetTheorems, NaturalsInduction,
        WellFoundedInduction, TLAPS

Total(f) == MapThenSumSet(LAMBDA k : f[k], DOMAIN f)

(* A set of naturals that is not empty has a least element. *)
LEMMA LeastElement ==
  ASSUME NEW T \in SUBSET Nat, T # {}
  PROVE  \E n \in T : \A k \in T : n <= k
<1> DEFINE R == OpToRel(<, Nat)
<1>1. IsWellFoundedOn(R, Nat)
  BY NatLessThanWellFounded, Zenon
<1>2. \A x, y \in Nat : y < x => <<y, x>> \in R
  BY Zenon DEF OpToRel
<1> HIDE DEF R
<1>3. PICK n \in T : \A k \in T : ~(<<k, n>> \in R)
  BY <1>1, WFMin, Zenon
<1>4. \A k \in T : ~(k < n)
  BY <1>2, <1>3, Zenon
<1> QED BY <1>4

Pick(s) == CHOOSE x \in s : TRUE
Step(f, g, s) == IF s = {} THEN 0 ELSE f[Pick(s)] + g[s \ {Pick(s)}]

(* The partial sums that the definition of Total chooses. *)
Partial(f, g) == g = [s \in SUBSET DOMAIN f |-> Step(f, g, s)]

(* Total is the partial sum of the whole domain. *)
LEMMA TotalDef == ASSUME NEW f PROVE Total(f) = (CHOOSE g : Partial(f, g))[DOMAIN f]
BY Zenon DEF Total, MapThenSumSet, MapThenFoldSet, Partial, Step, Pick

(* What is left of a set without the element picked is smaller. *)
LEMMA PickSmaller ==
  ASSUME NEW D, IsFiniteSet(D), NEW s \in SUBSET D, s # {}
  PROVE  /\ Pick(s) \in s /\ s \ {Pick(s)} \in SUBSET D
         /\ Cardinality(s) \in Nat /\ Cardinality(s \ {Pick(s)}) = Cardinality(s) - 1
<1>1. Pick(s) \in s
  BY DEF Pick
<1>2. IsFiniteSet(s)
  BY FS_Subset
<1> QED BY <1>1, <1>2, FS_RemoveElement, FS_CardinalityType

(* Partial sums of a finite set exist. *)
LEMMA PartialExists ==
  ASSUME NEW f, IsFiniteSet(DOMAIN f)
  PROVE  \E g : Partial(f, g)
<1> DEFINE D == DOMAIN f
           Upto(g, n) == \A s \in SUBSET D : Cardinality(s) <= n => g[s] = Step(f, g, s)
           T == {n \in Nat : ~\E g : Upto(g, n)}
<1>0. IsFiniteSet(D)
  OBVIOUS
<1> HIDE DEF D
<1>1. ASSUME NEW s \in SUBSET D, Cardinality(s) <= 0 PROVE s = {}
  <2>1. IsFiniteSet(s)
    BY <1>0, FS_Subset
  <2> QED BY <1>1, <2>1, FS_EmptySet, FS_CardinalityType
<1>2. 0 \notin T
  <2> DEFINE g == [s \in SUBSET D |-> 0]
  <2>1. Upto(g, 0)
    BY <1>1 DEF Step
  <2> QED BY <2>1
<1>3. ASSUME NEW m \in Nat, m # 0, m - 1 \notin T PROVE m \notin T
  <2>1. PICK g : Upto(g, m - 1)
    BY <1>3
  <2> DEFINE h == [s \in SUBSET D |-> Step(f, g, s)]
  <2>2. ASSUME NEW s \in SUBSET D, Cardinality(s) <= m
        PROVE  h[s] = Step(f, h, s)
    <3>1. CASE s = {}
      BY <3>1 DEF Step
    <3>2. CASE s # {}
      <4> DEFINE t == s \ {Pick(s)}
      <4>1. t \in SUBSET D /\ Cardinality(t) <= m - 1
        BY <1>0, <1>3, <2>2, <3>2, PickSmaller
      <4>2. h[t] = g[t]
        BY <2>1, <4>1
      <4> QED BY <3>2, <4>2 DEF Step
    <3> QED BY <3>1, <3>2
  <2> HIDE DEF h
  <2> QED BY <2>2
<1> HIDE DEF T
<1>4. T = {}
  <2> SUFFICES ASSUME T # {} PROVE FALSE
    OBVIOUS
  <2>1. T \in SUBSET Nat
    BY DEF T
  <2>2. PICK m \in T : \A k \in T : m <= k
    BY <2>1, LeastElement
  <2>3. m \in Nat /\ m # 0 /\ m - 1 \in Nat /\ m - 1 \notin T
    BY <1>2, <2>1, <2>2
  <2> QED BY <1>3, <2>2, <2>3
<1>5. PICK g : Upto(g, Cardinality(D))
  <2>1. Cardinality(D) \in Nat
    BY <1>0, FS_CardinalityType
  <2> QED BY <1>4, <2>1 DEF T
<1> DEFINE h == [s \in SUBSET D |-> Step(f, g, s)]
<1>6. \A s \in SUBSET D : h[s] = g[s]
  <2> SUFFICES ASSUME NEW s \in SUBSET D PROVE g[s] = Step(f, g, s)
    OBVIOUS
  <2>1. Cardinality(s) <= Cardinality(D)
    BY <1>0, FS_Subset
  <2> QED BY <1>5, <2>1
<1>7. \A s \in SUBSET D : Step(f, g, s) = Step(f, h, s)
  <2> SUFFICES ASSUME NEW s \in SUBSET D PROVE Step(f, g, s) = Step(f, h, s)
    OBVIOUS
  <2>1. CASE s = {}
    BY <2>1 DEF Step
  <2>2. CASE s # {}
    <3>1. h[s \ {Pick(s)}] = g[s \ {Pick(s)}]
      BY <1>0, <1>6, <2>2, PickSmaller
    <3> HIDE DEF h
    <3> QED BY <2>2, <3>1 DEF Step
  <2> QED BY <2>1, <2>2
<1>8. h = [s \in SUBSET D |-> Step(f, h, s)]
  BY <1>7
<1> HIDE DEF h
<1> QED BY <1>8 DEF Partial, D

(* A sum of numbers from a set closed under addition is in that set. *)
LEMMA TotalClosed ==
  ASSUME NEW f, IsFiniteSet(DOMAIN f), NEW V, 0 \in V, \A x, y \in V : x + y \in V,
         \A k \in DOMAIN f : f[k] \in V
  PROVE  Total(f) \in V
<1> DEFINE D == DOMAIN f
           g == CHOOSE h : Partial(f, h)
           T == {n \in Nat : \E s \in SUBSET D : Cardinality(s) = n /\ g[s] \notin V}
<1>1. Partial(f, g)
  BY PartialExists
<1>2. Total(f) = g[D] /\ IsFiniteSet(D)
  BY TotalDef
<1>3. \A s \in SUBSET D : g[s] = Step(f, g, s)
  <2> HIDE DEF g
  <2> QED BY <1>1 DEF Partial
<1>4. \A k \in D : f[k] \in V
  OBVIOUS
<1> HIDE DEF g, D
<1>5. T = {}
  <2> SUFFICES ASSUME T # {} PROVE FALSE
    OBVIOUS
  <2>1. T \in SUBSET Nat
    OBVIOUS
  <2>2. PICK m \in T : \A k \in T : m <= k
    <3> HIDE DEF T
    <3> QED BY <2>1, LeastElement
  <2>3. PICK s \in SUBSET D : Cardinality(s) = m /\ g[s] \notin V
    BY <2>2
  <2>4. CASE s = {}
    BY <1>3, <2>3, <2>4 DEF Step
  <2>5. CASE s # {}
    <3> DEFINE t == s \ {Pick(s)}
    <3>1. Pick(s) \in D /\ t \in SUBSET D /\ Cardinality(t) = m - 1 /\ m \in Nat
      BY <1>2, <2>3, <2>5, PickSmaller
    <3>2. g[t] \in V
      <4>1. IsFiniteSet(t)
        BY <1>2, <3>1, FS_Subset
      <4>2. Cardinality(t) \in Nat /\ m - 1 \notin T
        BY <2>1, <2>2, <3>1, <4>1, FS_CardinalityType
      <4> QED BY <3>1, <4>2
    <3>3. g[s] = f[Pick(s)] + g[t]
      BY <1>3, <2>5 DEF Step
    <3> QED BY <1>4, <2>3, <3>1, <3>2, <3>3
  <2> QED BY <2>4, <2>5
<1>6. Cardinality(D) \in Nat
  BY <1>2, FS_CardinalityType
<1> QED BY <1>2, <1>5, <1>6

(* What holds of no element, and of a set when it holds without the element *)
(* picked, holds of every subset of a finite set.                           *)
LEMMA EverySubset ==
  ASSUME NEW D, IsFiniteSet(D), NEW Good, {} \in Good,
         \A s \in SUBSET D : s # {} /\ s \ {Pick(s)} \in Good => s \in Good
  PROVE  \A s \in SUBSET D : s \in Good
<1> DEFINE T == {n \in Nat : \E s \in SUBSET D : Cardinality(s) = n /\ s \notin Good}
<1>1. T = {}
  <2> SUFFICES ASSUME T # {} PROVE FALSE
    OBVIOUS
  <2>1. T \in SUBSET Nat
    OBVIOUS
  <2>2. PICK m \in T : \A k \in T : m <= k
    <3> HIDE DEF T
    <3> QED BY <2>1, LeastElement
  <2>3. PICK s \in SUBSET D : Cardinality(s) = m /\ s \notin Good
    BY <2>2
  <2>4. s # {}
    BY <2>3
  <2> DEFINE t == s \ {Pick(s)}
  <2>5. t \in SUBSET D /\ Cardinality(t) = m - 1 /\ m \in Nat
    BY <2>3, <2>4, PickSmaller
  <2>6. t \in Good
    <3>1. IsFiniteSet(t)
      BY <2>5, FS_Subset
    <3>2. Cardinality(t) \in Nat /\ m - 1 \notin T
      BY <2>1, <2>2, <2>5, <3>1, FS_CardinalityType
    <3> QED BY <2>5, <3>2
  <2> QED BY <2>3, <2>4, <2>6
<1>2. \A s \in SUBSET D : Cardinality(s) \in Nat
  BY FS_Subset, FS_CardinalityType
<1> QED BY <1>1, <1>2

(* The partial sums of a function. *)
Part(f) == CHOOSE g : Partial(f, g)

(* They start at nothing and take the element picked, up to the total. *)
LEMMA PartSteps ==
  ASSUME NEW f, IsFiniteSet(DOMAIN f)
  PROVE  /\ Part(f)[{}] = 0 /\ Total(f) = Part(f)[DOMAIN f]
         /\ \A s \in SUBSET DOMAIN f : s # {} =>
              /\ Pick(s) \in s /\ s \ {Pick(s)} \in SUBSET DOMAIN f
              /\ Part(f)[s] = f[Pick(s)] + Part(f)[s \ {Pick(s)}]
<1> DEFINE g == Part(f)
<1>1. Partial(f, g)
  BY PartialExists DEF Part
<1>2. Total(f) = g[DOMAIN f]
  BY TotalDef DEF Part
<1> HIDE DEF g
<1>3. \A s \in SUBSET DOMAIN f : g[s] = Step(f, g, s)
  BY <1>1 DEF Partial
<1>4. g[{}] = 0
  BY <1>3 DEF Step
<1>5. ASSUME NEW s \in SUBSET DOMAIN f, s # {}
      PROVE  Pick(s) \in s /\ g[s] = f[Pick(s)] + g[s \ {Pick(s)}]
  <2>1. g[s] = Step(f, g, s)
    BY <1>3
  <2>2. g[s] = f[Pick(s)] + g[s \ {Pick(s)}]
    BY <1>5, <2>1 DEF Step
  <2> QED BY <1>5, <2>2 DEF Pick
<1> QED BY <1>2, <1>4, <1>5 DEF g

(* Partial sums of integers are integers. *)
LEMMA PartInt ==
  ASSUME NEW f, IsFiniteSet(DOMAIN f), \A k \in DOMAIN f : f[k] \in Int
  PROVE  Total(f) \in Int /\ \A s \in SUBSET DOMAIN f : Part(f)[s] \in Int
<1> DEFINE Good == {s \in SUBSET DOMAIN f : Part(f)[s] \in Int}
<1>1. {} \in Good
  BY PartSteps
<1>2. ASSUME NEW s \in SUBSET DOMAIN f, s # {}, s \ {Pick(s)} \in Good
      PROVE  s \in Good
  <2>1. Pick(s) \in s /\ Part(f)[s] = f[Pick(s)] + Part(f)[s \ {Pick(s)}]
    BY <1>2, PartSteps
  <2> QED BY <1>2, <2>1
<1> HIDE DEF Good
<1>3. \A s \in SUBSET DOMAIN f : s \in Good
  BY <1>1, <1>2, EverySubset
<1> QED BY <1>3, PartSteps DEF Good

(* The sum of sums is the sum of both. *)
LEMMA TotalAdd ==
  ASSUME NEW D, IsFiniteSet(D), NEW f, NEW g, NEW h, DOMAIN f = D, DOMAIN g = D, DOMAIN h = D,
         \A k \in D : g[k] \in Int /\ h[k] \in Int /\ f[k] = g[k] + h[k]
  PROVE  Total(f) = Total(g) + Total(h)
<1> DEFINE Good == {s \in SUBSET D : Part(f)[s] = Part(g)[s] + Part(h)[s]}
<1>1. Part(f)[{}] = 0 /\ Part(g)[{}] = 0 /\ Part(h)[{}] = 0
  BY PartSteps
<1>2. (\A s \in SUBSET D : Part(g)[s] \in Int) /\ (\A s \in SUBSET D : Part(h)[s] \in Int)
  BY PartInt
<1>3. ASSUME NEW s \in SUBSET D, s # {}, s \ {Pick(s)} \in Good
      PROVE  s \in Good
  <2>1. Pick(s) \in s /\ s \ {Pick(s)} \in SUBSET D /\ Part(f)[s] = f[Pick(s)] + Part(f)[s \ {Pick(s)}]
    BY <1>3, PartSteps
  <2>2. Part(g)[s] = g[Pick(s)] + Part(g)[s \ {Pick(s)}]
    BY <1>3, PartSteps
  <2>3. Part(h)[s] = h[Pick(s)] + Part(h)[s \ {Pick(s)}]
    BY <1>3, PartSteps
  <2>4. PICK k, t : k = Pick(s) /\ t = s \ {Pick(s)}
    OBVIOUS
  <2>5. k \in D /\ t \in SUBSET D /\ Part(f)[t] = Part(g)[t] + Part(h)[t]
    BY <1>3, <2>1, <2>4
  <2>6. f[k] = g[k] + h[k] /\ g[k] \in Int /\ h[k] \in Int /\ Part(g)[t] \in Int /\ Part(h)[t] \in Int
    BY <1>2, <2>5
  <2> QED BY <2>1, <2>2, <2>3, <2>4, <2>5, <2>6
<1>4. {} \in Good
  BY <1>1
<1> HIDE DEF Good
<1>5. \A s \in SUBSET D : s \in Good
  BY <1>3, <1>4, EverySubset
<1>6. Total(f) = Part(f)[D] /\ Total(g) = Part(g)[D] /\ Total(h) = Part(h)[D]
  BY PartSteps
<1> QED BY <1>5, <1>6 DEF Good

(* A common factor. *)
LEMMA TotalScale ==
  ASSUME NEW D, IsFiniteSet(D), NEW f, NEW g, NEW c \in Int, DOMAIN f = D, DOMAIN g = D,
         \A k \in D : g[k] \in Int /\ f[k] = c * g[k]
  PROVE  Total(f) = c * Total(g)
<1> DEFINE Good == {s \in SUBSET D : Part(f)[s] = c * Part(g)[s]}
<1>1. Part(f)[{}] = 0 /\ Part(g)[{}] = 0
  BY PartSteps
<1>2. \A s \in SUBSET D : Part(g)[s] \in Int
  BY PartInt
<1>3. ASSUME NEW s \in SUBSET D, s # {}, s \ {Pick(s)} \in Good
      PROVE  s \in Good
  <2>1. Pick(s) \in s /\ s \ {Pick(s)} \in SUBSET D /\ Part(f)[s] = f[Pick(s)] + Part(f)[s \ {Pick(s)}]
    BY <1>3, PartSteps
  <2>2. Part(g)[s] = g[Pick(s)] + Part(g)[s \ {Pick(s)}]
    BY <1>3, PartSteps
  <2>4. PICK k, t : k = Pick(s) /\ t = s \ {Pick(s)}
    OBVIOUS
  <2>5. k \in D /\ t \in SUBSET D /\ Part(f)[t] = c * Part(g)[t]
    BY <1>3, <2>1, <2>4
  <2>6. f[k] = c * g[k] /\ g[k] \in Int /\ Part(g)[t] \in Int
    BY <1>2, <2>5
  <2>7. \A x, y \in Int : c * x + c * y = c * (x + y)
    OBVIOUS
  <2>8. Part(f)[s] = c * (g[k] + Part(g)[t])
    BY <2>1, <2>4, <2>5, <2>6, <2>7
  <2> QED BY <2>2, <2>4, <2>8
<1>4. {} \in Good
  BY <1>1
<1> HIDE DEF Good
<1>5. \A s \in SUBSET D : s \in Good
  BY <1>3, <1>4, EverySubset
<1>6. Total(f) = Part(f)[D] /\ Total(g) = Part(g)[D]
  BY PartSteps
<1> QED BY <1>5, <1>6 DEF Good

(* Sums follow what they sum. *)
LEMMA TotalLe ==
  ASSUME NEW D, IsFiniteSet(D), NEW f, NEW g, DOMAIN f = D, DOMAIN g = D,
         \A k \in D : f[k] \in Int /\ g[k] \in Int /\ f[k] <= g[k]
  PROVE  Total(f) <= Total(g)
<1>1. PICK h : h = [k \in D |-> g[k] - f[k]]
  OBVIOUS
<1>2. DOMAIN h = D /\ \A k \in D : h[k] \in Nat /\ g[k] = f[k] + h[k]
  BY <1>1
<1>3. Total(g) = Total(f) + Total(h)
  BY <1>2, TotalAdd
<1>4. Total(h) \in Nat
  <2>1. 0 \in Nat /\ \A x, y \in Nat : x + y \in Nat
    OBVIOUS
  <2> QED BY <1>2, <2>1, TotalClosed
<1>5. Total(f) \in Int
  BY PartInt
<1> QED BY <1>3, <1>4, <1>5

(* Ones and zeros count. *)
LEMMA TotalCount ==
  ASSUME NEW D, IsFiniteSet(D), NEW f, DOMAIN f = D, NEW A \in SUBSET D,
         \A k \in D : f[k] = IF k \in A THEN 1 ELSE 0
  PROVE  Total(f) = Cardinality(A)
<1> DEFINE Good == {s \in SUBSET D : Part(f)[s] = Cardinality(s \cap A)}
<1>1. {} \in Good
  <2>1. {} \cap A = {} /\ Cardinality({}) = 0
    BY FS_EmptySet
  <2> QED BY <2>1, PartSteps
<1>2. ASSUME NEW s \in SUBSET D, s # {}, s \ {Pick(s)} \in Good
      PROVE  s \in Good
  <2>1. Pick(s) \in s /\ s \ {Pick(s)} \in SUBSET D /\ Part(f)[s] = f[Pick(s)] + Part(f)[s \ {Pick(s)}]
    BY <1>2, PartSteps
  <2>2. PICK k, t : k = Pick(s) /\ t = s \ {Pick(s)}
    OBVIOUS
  <2>3. k \in s /\ k \in D /\ t \in SUBSET D /\ Part(f)[s] = f[k] + Part(f)[t] /\ Part(f)[t] = Cardinality(t \cap A)
    BY <1>2, <2>1, <2>2
  <2>4. IsFiniteSet(s \cap A) /\ IsFiniteSet(t \cap A)
    BY <2>3, FS_Subset
  <2>5. CASE k \in A
    <3>1. t \cap A = (s \cap A) \ {k} /\ k \in s \cap A
      BY <2>2, <2>3, <2>5
    <3>2. PICK S : S = s \cap A
      OBVIOUS
    <3>3. IsFiniteSet(S) /\ k \in S /\ t \cap A = S \ {k}
      BY <2>4, <3>1, <3>2
    <3>4. Cardinality(S \ {k}) = Cardinality(S) - 1
      BY <3>3, FS_RemoveElement
    <3>5. Cardinality(t \cap A) = Cardinality(s \cap A) - 1
      BY <3>2, <3>3, <3>4
    <3>6. Cardinality(s \cap A) \in Nat
      BY <2>4, FS_CardinalityType
    <3> QED BY <2>3, <2>5, <3>5, <3>6
  <2>6. CASE k \notin A
    <3>1. t \cap A = s \cap A
      BY <2>2, <2>3, <2>6
    <3>2. Cardinality(s \cap A) \in Nat
      BY <2>4, FS_CardinalityType
    <3> QED BY <2>3, <2>6, <3>1, <3>2
  <2> QED BY <2>5, <2>6
<1> HIDE DEF Good
<1>3. \A s \in SUBSET D : s \in Good
  BY <1>1, <1>2, EverySubset
<1>4. Total(f) = Part(f)[D] /\ D \cap A = A
  BY PartSteps
<1> QED BY <1>3, <1>4 DEF Good

(* A sum of naturals is no less than each of them. *)
LEMMA TotalOfOne ==
  ASSUME NEW f, IsFiniteSet(DOMAIN f), \A k \in DOMAIN f : f[k] \in Nat, NEW x \in DOMAIN f
  PROVE  f[x] <= Total(f)
<1> DEFINE D == DOMAIN f
<1>1. PICK g : g = [k \in D |-> IF k \in {x} THEN 1 ELSE 0]
  OBVIOUS
<1>2. DOMAIN g = D /\ \A k \in D : g[k] = IF k \in {x} THEN 1 ELSE 0
  BY <1>1
<1>3. Total(g) = Cardinality({x})
  BY <1>2, TotalCount
<1>4. Total(g) = 1
  BY <1>3, FS_Singleton, Zenon
<1>5. PICK h : h = [k \in D |-> f[x] * g[k]]
  OBVIOUS
<1>6. DOMAIN h = D /\ f[x] \in Int /\ \A k \in D : g[k] \in Int /\ h[k] = f[x] * g[k]
  BY <1>2, <1>5
<1>7. Total(h) = f[x] * Total(g)
  BY <1>2, <1>6, TotalScale
<1>8. \A k \in D : h[k] \in Int /\ f[k] \in Int /\ h[k] <= f[k]
  BY <1>2, <1>6
<1>9. Total(h) <= Total(f)
  BY <1>6, <1>8, TotalLe
<1> QED BY <1>4, <1>6, <1>7, <1>9

(* Sums of the same values are the same. *)
LEMMA TotalSame ==
  ASSUME NEW f, NEW g, DOMAIN f = DOMAIN g, \A k \in DOMAIN f : f[k] = g[k],
         IsFiniteSet(DOMAIN f), \A k \in DOMAIN f : f[k] \in Int
  PROVE  Total(f) = Total(g)
<1>1. Total(f) <= Total(g)
  BY TotalLe
<1>2. Total(g) <= Total(f)
  BY TotalLe
<1>3. Total(f) \in Int /\ Total(g) \in Int
  BY PartInt
<1> QED BY <1>1, <1>2, <1>3

(* One value moves, and the sum with it. *)
LEMMA TotalMoves ==
  ASSUME NEW D, IsFiniteSet(D), NEW f, NEW g, DOMAIN f = D, DOMAIN g = D, NEW x \in D, NEW c \in Int,
         \A k \in D : f[k] \in Int, \A k \in D \ {x} : g[k] = f[k], g[x] = f[x] + c
  PROVE  Total(g) = Total(f) + c
<1>1. PICK u : u = [k \in D |-> IF k \in {x} THEN 1 ELSE 0]
  OBVIOUS
<1>2. DOMAIN u = D /\ \A k \in D : u[k] = IF k \in {x} THEN 1 ELSE 0
  BY <1>1
<1>3. Total(u) = Cardinality({x})
  BY <1>2, TotalCount
<1>4. Total(u) = 1
  BY <1>3, FS_Singleton, Zenon
<1>5. PICK h : h = [k \in D |-> c * u[k]]
  OBVIOUS
<1>6. DOMAIN h = D /\ \A k \in D : u[k] \in Int /\ h[k] = c * u[k]
  BY <1>2, <1>5
<1>7. Total(h) = c * Total(u)
  BY <1>2, <1>6, TotalScale
<1>8. \A k \in D : f[k] \in Int /\ h[k] \in Int /\ g[k] = f[k] + h[k]
  BY <1>2, <1>6
<1>9. Total(g) = Total(f) + Total(h)
  BY <1>6, <1>8, TotalAdd
<1> QED BY <1>4, <1>7, <1>9

(* The last to be summed may be any. *)
LEMMA PartOff ==
  ASSUME NEW f, IsFiniteSet(DOMAIN f), \A k \in DOMAIN f : f[k] \in Int
  PROVE  \A s \in SUBSET DOMAIN f : \A x \in s : Part(f)[s] = f[x] + Part(f)[s \ {x}]
<1> DEFINE D == DOMAIN f
           Off(s, x) == Part(f)[s] = f[x] + Part(f)[s \ {x}]
           T == {n \in Nat : \E s \in SUBSET D : Cardinality(s) = n /\ \E x \in s : ~Off(s, x)}
<1>1. \A s \in SUBSET D : Part(f)[s] \in Int
  BY PartInt
<1>2. T = {}
  <2> SUFFICES ASSUME T # {} PROVE FALSE
    OBVIOUS
  <2>1. T \in SUBSET Nat
    OBVIOUS
  <2>2. PICK m \in T : \A k \in T : m <= k
    <3> HIDE DEF T
    <3> QED BY <2>1, LeastElement
  <2>3. PICK s \in SUBSET D : Cardinality(s) = m /\ \E x \in s : ~Off(s, x)
    BY <2>2
  <2>4. PICK x \in s : ~Off(s, x)
    BY <2>3
  <2>5. PICK p : p = Pick(s)
    OBVIOUS
  <2>6. p \in s /\ Off(s, p)
    BY <2>4, <2>5, PartSteps
  <2>7. p # x
    BY <2>4, <2>6
  <2>8. ASSUME NEW q \in s, NEW y \in s \ {q} PROVE Off(s \ {q}, y)
    <3>1. PICK t : t = s \ {q}
      OBVIOUS
    <3>2. IsFiniteSet(s) /\ IsFiniteSet(t) /\ t \in SUBSET D
      BY <3>1, FS_Subset
    <3>3. Cardinality(t) = Cardinality(s) - 1
      BY <3>1, <3>2, FS_RemoveElement
    <3>4. m \in Nat /\ m - 1 \notin T /\ Cardinality(t) \in Nat
      BY <2>1, <2>2, <3>2, FS_CardinalityType
    <3>5. m - 1 \in Nat /\ Cardinality(t) = m - 1
      BY <2>3, <3>3, <3>4
    <3>6. Off(t, y)
      <4> HIDE DEF Off
      <4> QED BY <3>1, <3>2, <3>4, <3>5
    <3> QED BY <3>1, <3>6
  <2>9. Off(s \ {p}, x) /\ Off(s \ {x}, p)
    <3> HIDE DEF Off
    <3> QED BY <2>6, <2>7, <2>8
  <2>10. (s \ {p}) \ {x} = (s \ {x}) \ {p}
    OBVIOUS
  <2>11. PICK a, b, c : a = Part(f)[s \ {p}] /\ b = Part(f)[s \ {x}] /\ c = Part(f)[(s \ {x}) \ {p}]
    OBVIOUS
  <2>12. a \in Int /\ b \in Int /\ c \in Int /\ f[p] \in Int /\ f[x] \in Int
    <3>1. s \ {p} \in SUBSET D /\ s \ {x} \in SUBSET D /\ (s \ {x}) \ {p} \in SUBSET D
      OBVIOUS
    <3>2. a \in Int /\ b \in Int /\ c \in Int
      BY ONLY <1>1, <2>11, <3>1
    <3> QED BY <2>6, <3>2
  <2>13. a = f[x] + c /\ b = f[p] + c /\ Part(f)[s] = f[p] + a
    BY <2>6, <2>9, <2>10, <2>11
  <2>14. Part(f)[s] = f[x] + b
    BY ONLY <2>12, <2>13
  <2> QED BY <2>4, <2>11, <2>14
<1>3. \A s \in SUBSET D : Cardinality(s) \in Nat
  BY FS_Subset, FS_CardinalityType
<1> HIDE DEF Off
<1>4. \A s \in SUBSET D : \A x \in s : Off(s, x)
  BY <1>2, <1>3
<1> QED BY <1>4 DEF Off

(* One more to sum. *)
LEMMA TotalGrows ==
  ASSUME NEW f, IsFiniteSet(DOMAIN f), \A k \in DOMAIN f : f[k] \in Int, NEW x \in DOMAIN f,
         NEW h, DOMAIN h = DOMAIN f \ {x}, \A k \in DOMAIN h : h[k] = f[k]
  PROVE  Total(f) = f[x] + Total(h)
<1> DEFINE E == DOMAIN h
           Good == {s \in SUBSET E : Part(f)[s] = Part(h)[s]}
<1>1. IsFiniteSet(E) /\ E \in SUBSET DOMAIN f
  BY FS_Subset
<1>2. {} \in Good
  BY <1>1, PartSteps
<1>3. ASSUME NEW s \in SUBSET E, s # {}, s \ {Pick(s)} \in Good
      PROVE  s \in Good
  <2>1. s \in SUBSET DOMAIN f
    BY <1>1
  <2>2. Pick(s) \in s /\ Part(h)[s] = h[Pick(s)] + Part(h)[s \ {Pick(s)}]
    BY <1>1, <1>3, PartSteps
  <2>3. Part(f)[s] = f[Pick(s)] + Part(f)[s \ {Pick(s)}]
    BY <1>3, <2>1, PartSteps
  <2> QED BY <1>3, <2>2, <2>3
<1> HIDE DEF Good
<1>4. \A s \in SUBSET E : s \in Good
  BY <1>1, <1>2, <1>3, EverySubset
<1>5. Part(f)[E] = Part(h)[E] /\ Total(h) = Part(h)[E]
  BY <1>1, <1>4, PartSteps DEF Good
<1>6. Total(f) = Part(f)[DOMAIN f]
  BY PartSteps
<1>7. Part(f)[DOMAIN f] = f[x] + Part(f)[E]
  BY PartOff
<1> QED BY <1>5, <1>6, <1>7

(* Rows of sums and columns of sums come to the same. *)
LEMMA TotalCross ==
  ASSUME NEW D, IsFiniteSet(D), NEW E, IsFiniteSet(E),
         NEW m, DOMAIN m = D, \A d \in D : DOMAIN m[d] = E, \A d \in D, e \in E : m[d][e] \in Int,
         NEW c, DOMAIN c = E, \A e \in E : DOMAIN c[e] = D, \A d \in D, e \in E : c[e][d] = m[d][e],
         NEW r, DOMAIN r = D, \A d \in D : r[d] = Total(m[d]),
         NEW k, DOMAIN k = E, \A e \in E : k[e] = Total(c[e])
  PROVE  Total(r) = Total(k)
<1>2. DOMAIN r = D /\ \A d \in D : r[d] \in Int
  BY PartInt
<1>4. DOMAIN c = E /\ \A e \in E : DOMAIN c[e] = D /\ \A d \in D : c[e][d] = m[d][e] /\ c[e][d] \in Int
  OBVIOUS
<1>5. PICK q : q = [s \in SUBSET D |-> [e \in E |-> Part(c[e])[s]]]
  OBVIOUS
<1>6. ASSUME NEW s \in SUBSET D
      PROVE  DOMAIN q[s] = E /\ \A e \in E : q[s][e] = Part(c[e])[s] /\ q[s][e] \in Int
  <2>1. DOMAIN q[s] = E /\ \A e \in E : q[s][e] = Part(c[e])[s]
    BY <1>5
  <2>2. ASSUME NEW e \in E PROVE Part(c[e])[s] \in Int
    BY <1>4, PartInt
  <2> QED BY <2>1, <2>2
<1> DEFINE Good == {s \in SUBSET D : Part(r)[s] = Total(q[s])}
<1>7. {} \in Good
  <2>1. PICK z : z = q[{}]
    OBVIOUS
  <2>2. \A e \in E : Part(c[e])[{}] = 0
    BY <1>4, PartSteps
  <2>3. DOMAIN z = E /\ \A e \in E : z[e] \in {0}
    BY <1>6, <2>1, <2>2
  <2>4. 0 \in {0} /\ \A x, y \in {0} : x + y \in {0}
    OBVIOUS
  <2>5. Total(z) \in {0}
    BY <2>3, <2>4, TotalClosed
  <2>6. Part(r)[{}] = 0
    BY <1>2, PartSteps
  <2> QED BY <2>1, <2>5, <2>6
<1>8. ASSUME NEW s \in SUBSET D, s # {}, s \ {Pick(s)} \in Good
      PROVE  s \in Good
  <2>1. PICK x, t : x = Pick(s) /\ t = s \ {Pick(s)}
    OBVIOUS
  <2>2. x \in D /\ t \in SUBSET D /\ Part(r)[s] = r[x] + Part(r)[t]
    <3>1. Pick(s) \in s /\ s \ {Pick(s)} \in SUBSET D /\ Part(r)[s] = r[Pick(s)] + Part(r)[s \ {Pick(s)}]
      BY <1>2, <1>8, PartSteps
    <3> QED BY <2>1, <3>1
  <2>3. ASSUME NEW e \in E PROVE q[s][e] = m[x][e] + q[t][e]
    <3>1. PICK f : f = c[e]
      OBVIOUS
    <3>2. DOMAIN f = D /\ f[x] = m[x][e]
      BY <1>4, <2>2, <3>1
    <3>3. Part(f)[s] = f[x] + Part(f)[t]
      <4>1. IsFiniteSet(DOMAIN f) /\ s \in SUBSET DOMAIN f
        BY <3>2
      <4>2. Part(f)[s] = f[Pick(s)] + Part(f)[s \ {Pick(s)}]
        BY <1>8, <4>1, PartSteps
      <4> QED BY <2>1, <4>2
    <3>4. q[s][e] = Part(f)[s] /\ q[t][e] = Part(f)[t]
      BY <1>6, <2>2, <3>1
    <3> QED BY <3>2, <3>3, <3>4
  <2>4. PICK f, g, h : f = q[s] /\ g = m[x] /\ h = q[t]
    OBVIOUS
  <2>5. DOMAIN f = E /\ DOMAIN g = E /\ DOMAIN h = E
        /\ \A e \in E : g[e] \in Int /\ h[e] \in Int /\ f[e] = g[e] + h[e]
    BY <1>6, <2>2, <2>3, <2>4
  <2>6. Total(f) = Total(g) + Total(h)
    BY <2>5, TotalAdd
  <2> QED BY <1>2, <1>8, <2>1, <2>2, <2>4, <2>6
<1> HIDE DEF Good
<1>9. \A s \in SUBSET D : s \in Good
  BY <1>7, <1>8, EverySubset
<1>10. Total(r) = Total(q[D])
  BY <1>2, <1>9, PartSteps DEF Good
<1>11. \A e \in E : q[D][e] = k[e]
  <2>1. \A e \in E : Part(c[e])[D] = Total(c[e])
    BY <1>4, PartSteps
  <2> QED BY <1>6, <2>1
<1>12. PICK z : z = q[D]
  OBVIOUS
<1>13. DOMAIN z = E /\ \A e \in E : z[e] \in Int /\ z[e] = k[e]
  BY <1>6, <1>11, <1>12
<1>14. Total(z) = Total(k)
  BY <1>13, TotalSame
<1> QED BY <1>10, <1>12, <1>14

(* What is summed over a part does not depend on the rest. *)
LEMMA PartRestrict ==
  ASSUME NEW f, IsFiniteSet(DOMAIN f), NEW s \in SUBSET DOMAIN f,
         NEW h, DOMAIN h = s, \A k \in s : h[k] = f[k]
  PROVE  Total(h) = Part(f)[s]
<1> DEFINE Good == {t \in SUBSET s : Part(h)[t] = Part(f)[t]}
<1>1. IsFiniteSet(s)
  BY FS_Subset
<1>2. {} \in Good
  BY <1>1, PartSteps
<1>3. ASSUME NEW t \in SUBSET s, t # {}, t \ {Pick(t)} \in Good PROVE t \in Good
  <2>1. t \in SUBSET DOMAIN f
    OBVIOUS
  <2>2. Pick(t) \in t /\ Part(h)[t] = h[Pick(t)] + Part(h)[t \ {Pick(t)}]
    BY <1>1, <1>3, PartSteps
  <2>3. Part(f)[t] = f[Pick(t)] + Part(f)[t \ {Pick(t)}]
    BY <1>3, <2>1, PartSteps
  <2> QED BY <1>3, <2>2, <2>3
<1> HIDE DEF Good
<1>4. \A t \in SUBSET s : t \in Good
  BY <1>1, <1>2, <1>3, EverySubset
<1>5. Total(h) = Part(h)[s]
  BY <1>1, PartSteps
<1> QED BY <1>4, <1>5 DEF Good

(* A sum is the sum of the parts of a set and of its rest. *)
LEMMA TotalSplit ==
  ASSUME NEW f, IsFiniteSet(DOMAIN f), \A k \in DOMAIN f : f[k] \in Int, NEW A \in SUBSET DOMAIN f,
         NEW g, DOMAIN g = A, \A k \in A : g[k] = f[k],
         NEW h, DOMAIN h = DOMAIN f \ A, \A k \in DOMAIN f \ A : h[k] = f[k]
  PROVE  Total(f) = Total(g) + Total(h)
<1> DEFINE D == DOMAIN f
           B == D \ A
           Good == {s \in SUBSET A : Part(f)[B \cup s] = Part(f)[B] + Part(f)[s]}
<1>1. \A s \in SUBSET D : Part(f)[s] \in Int
  BY PartInt
<1>2. IsFiniteSet(A)
  BY FS_Subset
<1>3. {} \in Good
  <2>1. B \cup {} = B /\ B \in SUBSET D
    OBVIOUS
  <2>2. Part(f)[{}] = 0
    BY PartSteps
  <2>3. Part(f)[B] \in Int
    BY <1>1, <2>1
  <2> QED BY <2>1, <2>2, <2>3
<1>4. ASSUME NEW s \in SUBSET A, s # {}, s \ {Pick(s)} \in Good PROVE s \in Good
  <2>1. PICK p, t, u : p = Pick(s) /\ t = s \ {p} /\ u = B \cup s
    OBVIOUS
  <2>2. p \in s /\ u \ {p} = B \cup t /\ p \in u
    BY <1>4, <2>1 DEF Pick
  <2>3. {s, t, u, B} \subseteq SUBSET D
    BY <2>1
  <2>4. Part(f)[s] = f[p] + Part(f)[t] /\ Part(f)[u] = f[p] + Part(f)[B \cup t]
    BY <2>1, <2>2, <2>3, PartOff
  <2>5. Part(f)[B \cup t] = Part(f)[B] + Part(f)[t]
    BY <1>4, <2>1
  <2>6. f[p] \in Int /\ Part(f)[B] \in Int /\ Part(f)[t] \in Int
    BY <1>1, <2>2, <2>3
  <2>7. Part(f)[u] = Part(f)[B] + Part(f)[s]
    BY ONLY <2>4, <2>5, <2>6
  <2> QED BY <2>1, <2>7
<1>5. A \in Good
  <2> HIDE DEF Good
  <2> QED BY <1>2, <1>3, <1>4, EverySubset
<1>6. Total(f) = Part(f)[D]
  BY PartSteps
<1>7. Total(g) = Part(f)[A]
  BY PartRestrict
<1>8. Total(h) = Part(f)[B]
  BY PartRestrict
<1>9. B \cup A = D /\ B \in SUBSET D
  OBVIOUS
<1>10. Part(f)[A] \in Int /\ Part(f)[B] \in Int
  BY <1>1, <1>9
<1> QED BY <1>5, <1>6, <1>7, <1>8, <1>9, <1>10

(* One value grows, or is new, and the sum with it. *)
LEMMA TotalRaised ==
  ASSUME NEW f, IsFiniteSet(DOMAIN f), \A k \in DOMAIN f : f[k] \in Int, NEW b, NEW c \in Int,
         NEW e, DOMAIN e = DOMAIN f \cup {b},
         \A k \in DOMAIN e : e[k] = (IF k \in DOMAIN f THEN f[k] ELSE 0) + (IF k = b THEN c ELSE 0)
  PROVE  Total(e) = Total(f) + c
<1>1. CASE b \in DOMAIN f
  <2>1. PICK D : D = DOMAIN f
    OBVIOUS
  <2>2. IsFiniteSet(D) /\ DOMAIN e = D /\ b \in D /\ \A k \in D : f[k] \in Int
    BY <1>1, <2>1
  <2>3. \A k \in D \ {b} : e[k] = f[k]
    BY <1>1, <2>1
  <2>4. e[b] = f[b] + c
    BY <1>1, <2>1
  <2> QED BY <2>1, <2>2, <2>3, <2>4, TotalMoves
<1>2. CASE b \notin DOMAIN f
  <2>1. IsFiniteSet(DOMAIN e) /\ b \in DOMAIN e
    BY FS_AddElement
  <2>2. DOMAIN f = DOMAIN e \ {b}
    BY <1>2
  <2>3. \A k \in DOMAIN e : e[k] \in Int
    OBVIOUS
  <2>4. \A k \in DOMAIN f : f[k] = e[k]
    BY <1>2
  <2>5. e[b] = c
    BY <1>2
  <2>6. Total(e) = e[b] + Total(f)
    BY ONLY <2>1, <2>2, <2>3, <2>4, TotalGrows
  <2>7. Total(f) \in Int
    BY PartInt
  <2> QED BY <2>5, <2>6, <2>7
<1> QED BY <1>1, <1>2

(* A finite set of integers that is not empty has its greatest and its least *)
(* element.                                                                  *)
LEMMA MaxOf ==
  ASSUME NEW S, S \subseteq Int, IsFiniteSet(S), S # {}
  PROVE  /\ Max(S) \in S /\ \A y \in S : y <= Max(S)
         /\ Min(S) \in S /\ \A y \in S : Min(S) <= y
<1> DEFINE High(s) == \E x \in s : \A y \in s : y <= x
           Low(s) == \E x \in s : \A y \in s : x <= y
           Good == {s \in SUBSET S : s # {} => High(s) /\ Low(s)}
<1>1. {} \in Good
  OBVIOUS
<1>2. ASSUME NEW s \in SUBSET S, s # {}, s \ {Pick(s)} \in Good PROVE s \in Good
  <2>1. PICK p : p = Pick(s)
    OBVIOUS
  <2>2. p \in s
    BY <1>2, <2>1 DEF Pick
  <2>3. PICK t : t = s \ {p} /\ (t # {} => High(t) /\ Low(t))
    BY <1>2, <2>1
  <2>4. CASE t = {}
    <3>1. s = {p}
      BY <2>2, <2>3, <2>4
    <3> QED BY <2>2, <3>1
  <2>5. CASE t # {}
    <3>1. PICK x \in t : \A y \in t : y <= x
      BY <2>3, <2>5
    <3>2. PICK z \in t : \A y \in t : z <= y
      BY <2>3, <2>5
    <3>3. High(s)
      <4>1. CASE p <= x
        BY <2>2, <2>3, <3>1, <4>1
      <4>2. CASE ~(p <= x)
        <5>1. \A y \in s : y <= p
          BY <2>2, <2>3, <3>1, <4>2
        <5> QED BY <2>2, <5>1
      <4> QED BY <4>1, <4>2
    <3>4. Low(s)
      <4>1. CASE z <= p
        BY <2>2, <2>3, <3>2, <4>1
      <4>2. CASE ~(z <= p)
        <5>1. \A y \in s : p <= y
          BY <2>2, <2>3, <3>2, <4>2
        <5> QED BY <2>2, <5>1
      <4> QED BY <4>1, <4>2
    <3> QED BY <3>3, <3>4
  <2> QED BY <2>4, <2>5
<1>3. S \in Good
  <2> HIDE DEF Good
  <2> QED BY <1>1, <1>2, EverySubset, Zenon
<1>4. High(S) /\ Low(S)
  BY <1>3
<1>5. Max(S) \in S /\ \A y \in S : Max(S) >= y
  BY <1>4 DEF Max
<1>6. Min(S) \in S /\ \A y \in S : Min(S) =< y
  BY <1>4 DEF Min
<1> QED BY <1>5, <1>6

(* What a finite set is mapped to is finite, and no larger. *)
LEMMA ImageFinite ==
  ASSUME NEW f, IsFiniteSet(DOMAIN f), NEW T, T = {f[x] : x \in DOMAIN f}
  PROVE  IsFiniteSet(T) /\ Cardinality(T) <= Cardinality(DOMAIN f)
<1>1. PICK D, g : D = DOMAIN f /\ g = [x \in D |-> f[x]]
  OBVIOUS
<1>2. g \in [D -> T] /\ \A t \in T : \E x \in D : g[x] = t
  BY <1>1
<1>3. g \in Surjection(D, T)
  BY <1>2 DEF Surjection
<1>4. IsFiniteSet(D)
  BY <1>1
<1>5. IsFiniteSet(T) /\ Cardinality(T) <= Cardinality(D)
  BY ONLY <1>3, <1>4, FS_Surjection
<1> QED BY <1>1, <1>5

(* One value and zeros sum to the value. *)
LEMMA TotalOnly ==
  ASSUME NEW f, IsFiniteSet(DOMAIN f), NEW x \in DOMAIN f, f[x] \in Int,
         \A k \in DOMAIN f \ {x} : f[k] = 0
  PROVE  Total(f) = f[x]
<1> DEFINE z == [k \in DOMAIN f |-> 0]
           D == DOMAIN f
           none == {}
<1>1. DOMAIN z = D /\ (\A k \in D : z[k] = 0) /\ none \in SUBSET D
  OBVIOUS
<1>2. \A k \in D : z[k] = IF k \in none THEN 1 ELSE 0
  OBVIOUS
<1>3. Cardinality(none) = 0
  BY FS_EmptySet
<1>4. IsFiniteSet(D)
  OBVIOUS
<1>5. /\ DOMAIN f = D /\ x \in D /\ f[x] \in Int
      /\ \A k \in D : z[k] \in Int
      /\ \A k \in D \ {x} : f[k] = z[k]
      /\ f[x] = z[x] + f[x]
  OBVIOUS
<1> HIDE DEF z, D, none
<1>6. Total(z) = 0
  BY ONLY <1>1, <1>2, <1>3, <1>4, TotalCount
<1>7. PICK c : c = f[x]
  OBVIOUS
<1>8. Total(f) = Total(z) + c
  BY ONLY <1>1, <1>4, <1>5, <1>7, TotalMoves
<1> QED BY <1>5, <1>6, <1>7, <1>8

(* The same values under other names come to the same. *)
LEMMA TotalRenamed ==
  ASSUME NEW A, IsFiniteSet(A), NEW k, DOMAIN k = A, \A a, b \in A : k[a] = k[b] => a = b,
         NEW f, DOMAIN f = {k[a] : a \in A}, \A d \in DOMAIN f : f[d] \in Int,
         NEW g, DOMAIN g = A, \A a \in A : g[a] = f[k[a]]
  PROVE  Total(f) = Total(g) /\ Cardinality(DOMAIN f) = Cardinality(A)
<1> DEFINE D == DOMAIN f
           m == [a \in A |-> [d \in D |-> IF k[a] = d THEN f[d] ELSE 0]]
           c == [d \in D |-> [a \in A |-> IF k[a] = d THEN f[d] ELSE 0]]
<1>1. IsFiniteSet(D)
  BY ImageFinite
<1>2. \A a \in A : g[a] = Total(m[a])
  <2> TAKE a \in A
  <2> DEFINE h == m[a]
             x == k[a]
  <2>1. /\ DOMAIN h = D /\ x \in D /\ h[x] = f[x] /\ f[x] \in Int /\ g[a] = f[x]
        /\ \A e \in D \ {x} : h[e] = 0
    OBVIOUS
  <2> HIDE DEF h, x, D
  <2>2. Total(h) = h[x]
    BY ONLY <1>1, <2>1, TotalOnly
  <2> QED BY <2>1, <2>2 DEF h
<1>3. \A d \in D : f[d] = Total(c[d])
  <2> TAKE d \in D
  <2> DEFINE h == c[d]
  <2>1. PICK x \in A : k[x] = d
    OBVIOUS
  <2>2. /\ DOMAIN h = A /\ h[x] = f[d] /\ f[d] \in Int
        /\ \A e \in A \ {x} : h[e] = 0
    BY <2>1
  <2> HIDE DEF h, D
  <2>3. Total(h) = h[x]
    <3>1. IsFiniteSet(DOMAIN h) /\ x \in DOMAIN h /\ h[x] \in Int /\ \A e \in DOMAIN h \ {x} : h[e] = 0
      BY <2>1, <2>2
    <3> QED BY ONLY <3>1, TotalOnly
  <2> QED BY <2>2, <2>3 DEF h
<1>4. /\ DOMAIN m = A /\ (\A a \in A : DOMAIN m[a] = D) /\ (\A a \in A, d \in D : m[a][d] \in Int)
      /\ DOMAIN c = D /\ (\A d \in D : DOMAIN c[d] = A) /\ (\A a \in A, d \in D : c[d][a] = m[a][d])
  OBVIOUS
<1>5. Total(g) = Total(f)
  <2> DEFINE r == g
             s == f
  <2>1. /\ DOMAIN r = A /\ \A a \in A : r[a] = Total(m[a])
        /\ DOMAIN s = D /\ \A d \in D : s[d] = Total(c[d])
    BY <1>2, <1>3
  <2>2. IsFiniteSet(A)
    OBVIOUS
  <2> HIDE DEF r, s, m, c, D
  <2>3. Total(r) = Total(s)
    BY ONLY <1>1, <1>4, <2>1, <2>2, TotalCross, Z3T(60)
  <2> QED BY <2>3 DEF r, s
<1>6. Cardinality(D) = Cardinality(A)
  <2> DEFINE b == [a \in A |-> k[a]]
  <2>1. b \in [A -> D] /\ (\A x, y \in A : b[x] = b[y] => x = y) /\ \A d \in D : \E a \in A : b[a] = d
    OBVIOUS
  <2> HIDE DEF b, D
  <2>2. ExistsBijection(A, D)
    BY <2>1 DEF ExistsBijection, Bijection, Injection, Surjection, IsInjective
  <2> QED BY <2>2, FS_Bijection
<1> QED BY <1>5, <1>6

(* Zeros elsewhere do not count. *)
LEMMA TotalPadded ==
  ASSUME NEW f, IsFiniteSet(DOMAIN f), NEW g, DOMAIN g \subseteq DOMAIN f,
         \A k \in DOMAIN g : g[k] \in Int /\ f[k] = g[k],
         \A k \in DOMAIN f \ DOMAIN g : f[k] = 0
  PROVE  Total(f) = Total(g)
<1> DEFINE D == DOMAIN f
           A == DOMAIN g
           h == [k \in D \ A |-> 0]
           none == {}
<1>1. IsFiniteSet(D) /\ A \in SUBSET D /\ none \in SUBSET (D \ A)
  OBVIOUS
<1>2. \A k \in D : f[k] \in Int
  OBVIOUS
<1>3. /\ DOMAIN f = D /\ DOMAIN g = A /\ \A k \in A : g[k] = f[k]
      /\ DOMAIN h = D \ A /\ \A k \in D \ A : h[k] = f[k]
  OBVIOUS
<1>4. \A k \in D \ A : h[k] = IF k \in none THEN 1 ELSE 0
  OBVIOUS
<1>5. Cardinality(none) = 0
  BY FS_EmptySet
<1>6. IsFiniteSet(A)
  BY <1>1, FS_Subset
<1>7. \A k \in A : g[k] \in Int
  OBVIOUS
<1> HIDE DEF D, A, h, none
<1>8. IsFiniteSet(D \ A)
  <2>1. D \ A \in SUBSET D
    OBVIOUS
  <2> QED BY <1>1, <2>1, FS_Subset
<1>9. Total(h) = 0
  BY ONLY <1>1, <1>3, <1>4, <1>5, <1>8, TotalCount
<1>10. Total(f) = Total(g) + Total(h)
  BY ONLY <1>1, <1>2, <1>3, TotalSplit
<1>11. Total(g) \in Int
  BY ONLY <1>3, <1>6, <1>7, PartInt
<1> QED BY ONLY <1>9, <1>10, <1>11

(* Summed group by group it is the same sum. *)
LEMMA TotalGrouped ==
  ASSUME NEW f, IsFiniteSet(DOMAIN f), \A x \in DOMAIN f : f[x] \in Int,
         NEW K, IsFiniteSet(K), NEW key, \A x \in DOMAIN f : key[x] \in K,
         NEW g, DOMAIN g = K,
         \A k \in K : g[k] = Total([x \in {y \in DOMAIN f : key[y] = k} |-> f[x]])
  PROVE  Total(g) = Total(f)
<1> DEFINE D == DOMAIN f
           m == [x \in D |-> [k \in K |-> IF key[x] = k THEN f[x] ELSE 0]]
           c == [k \in K |-> [x \in D |-> IF key[x] = k THEN f[x] ELSE 0]]
<1>1. IsFiniteSet(D) /\ IsFiniteSet(K)
  OBVIOUS
<1>2. \A x \in D : f[x] = Total(m[x])
  <2> TAKE x \in D
  <2> DEFINE h == m[x]
  <2>1. PICK k \in K : key[x] = k
    OBVIOUS
  <2>2. /\ DOMAIN h = K /\ h[k] = f[x] /\ f[x] \in Int
        /\ \A e \in K \ {k} : h[e] = 0
    BY <2>1
  <2> HIDE DEF h, D
  <2>3. Total(h) = h[k]
    <3>1. IsFiniteSet(DOMAIN h) /\ k \in DOMAIN h /\ h[k] \in Int /\ \A e \in DOMAIN h \ {k} : h[e] = 0
      BY <1>1, <2>1, <2>2
    <3> QED BY ONLY <3>1, TotalOnly
  <2> QED BY <2>2, <2>3 DEF h
<1>3. \A k \in K : g[k] = Total(c[k])
  <2> TAKE k \in K
  <2> DEFINE h == c[k]
             s == [x \in {y \in D : key[y] = k} |-> f[x]]
  <2>1. /\ IsFiniteSet(DOMAIN h) /\ DOMAIN s \subseteq DOMAIN h
        /\ \A x \in DOMAIN s : s[x] \in Int /\ h[x] = s[x]
        /\ \A x \in DOMAIN h \ DOMAIN s : h[x] = 0
    BY <1>1
  <2>2. g[k] = Total(s)
    OBVIOUS
  <2> HIDE DEF h, s
  <2>3. Total(h) = Total(s)
    BY ONLY <2>1, TotalPadded
  <2> QED BY <2>2, <2>3 DEF h
<1>4. /\ DOMAIN m = D /\ (\A x \in D : DOMAIN m[x] = K) /\ (\A x \in D, k \in K : m[x][k] \in Int)
      /\ DOMAIN c = K /\ (\A k \in K : DOMAIN c[k] = D) /\ (\A x \in D, k \in K : c[k][x] = m[x][k])
  OBVIOUS
<1>5. /\ DOMAIN f = D /\ DOMAIN g = K
  OBVIOUS
<1>6. Total(f) = Total(g)
  <2> DEFINE r == f
             s == g
  <2>1. /\ DOMAIN r = D /\ \A x \in D : r[x] = Total(m[x])
        /\ DOMAIN s = K /\ \A k \in K : s[k] = Total(c[k])
    BY <1>2, <1>3, <1>5
  <2>2. IsFiniteSet(K)
    BY <1>1
  <2>3. IsFiniteSet(D)
    BY <1>1
  <2> HIDE DEF r, s, m, c, D
  <2>4. Total(r) = Total(s)
    BY ONLY <2>3, <1>4, <2>1, <2>2, TotalCross, Z3T(60)
  <2> QED BY <2>4 DEF r, s
<1> QED BY <1>6
=============================================================================
