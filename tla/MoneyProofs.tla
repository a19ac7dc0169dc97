---------------------------- MODULE MoneyProofs ----------------------------
(***************************************************************************)
(* What is paid and what is reported.  Pay runs pay once, name what they   *)
(* left unpaid and never submit against a stale copy, and the books show   *)
(* what the provider paid, for any number of employees, periods, hotels    *)
(* and concurrent settlements (PayRun).  The statement of the facts, the   *)
(* statement of the journal, the CPA pack and the trial balance tie, for   *)
(* any dictionaries, charts, facts and postings (Statements).  And a gap   *)
(* in the past never fails a performance request (Performance).            *)
(***************************************************************************)
EXTENDS PayRun, Performance, Statements, SumTheorems


-----------------------------------------------------------------------------
(* Sums *)

(* Hours and money of a card's hotels. *)
LEMMA SumOfHours ==
  ASSUME NEW f \in [Hotel -> Nat]
  PROVE  Sum(f) \in Nat
<1>1. IsFiniteSet(Hotel) /\ DOMAIN f = Hotel
  BY FS_Interval, PayRunConstants DEF Hotel
<1>2. IsFiniteSet(DOMAIN f) /\ \A k \in DOMAIN f : f[k] \in Nat
  BY <1>1
<1>3. 0 \in Nat /\ \A x, y \in Nat : x + y \in Nat
  OBVIOUS
<1>4. Total(f) \in Nat
  BY <1>2, <1>3, TotalClosed
<1> QED BY <1>4 DEF Sum, Total

(* No hours at any hotel are no hours. *)
LEMMA SumOfNone == Sum(NoHours) = 0
<1>1. IsFiniteSet(Hotel) /\ DOMAIN NoHours = Hotel
  BY FS_Interval, PayRunConstants DEF Hotel, NoHours
<1>2. IsFiniteSet(DOMAIN NoHours) /\ \A k \in DOMAIN NoHours : NoHours[k] \in {0}
  BY <1>1 DEF NoHours
<1>3. 0 \in {0} /\ \A x, y \in {0} : x + y \in {0}
  OBVIOUS
<1>4. Total(NoHours) \in {0}
  BY <1>2, <1>3, TotalClosed
<1> QED BY <1>4 DEF Sum, Total

-----------------------------------------------------------------------------
(* apportion *)

(* Who is above k: a larger remainder, or the same and an earlier key. *)
AboveIn(r, k) == {j \in DOMAIN r : r[j] > r[k] \/ (r[j] = r[k] /\ j < k)}

(* The ranks of a finite set are its positions: exactly n places, for each  *)
(* n up to its size, have a rank below n.                                   *)
LEMMA RanksCount ==
  ASSUME NEW D, D \subseteq Int, IsFiniteSet(D), NEW r, DOMAIN r = D, \A k \in D : r[k] \in Int,
         NEW n \in Nat, n <= Cardinality(D)
  PROVE  Cardinality({k \in D : Cardinality(AboveIn(r, k)) < n}) = n
<1> DEFINE Rank == [k \in D |-> Cardinality(AboveIn(r, k))]
           size == Cardinality(D)
           Low == {k \in D : Rank[k] < n}
           High == D \ Low
<1>1. size \in Nat
  BY FS_CardinalityType
<1>2. ASSUME NEW k \in D
      PROVE  /\ AboveIn(r, k) \in SUBSET D /\ k \notin AboveIn(r, k)
             /\ IsFiniteSet(AboveIn(r, k)) /\ Rank[k] \in Nat /\ Rank[k] < size
  <2>1. AboveIn(r, k) \in SUBSET D /\ k \notin AboveIn(r, k)
    BY DEF AboveIn
  <2>2. IsFiniteSet(AboveIn(r, k)) /\ IsFiniteSet(D \ {k})
    BY <2>1, FS_Subset
  <2>3. Cardinality(D \ {k}) = size - 1
    BY FS_RemoveElement
  <2>4. AboveIn(r, k) \in SUBSET (D \ {k})
    BY <2>1
  <2>5. Cardinality(AboveIn(r, k)) <= Cardinality(D \ {k})
    BY <2>2, <2>4, FS_Subset
  <2>6. Cardinality(AboveIn(r, k)) \in Nat
    BY <2>2, FS_CardinalityType
  <2>7. Rank[k] = Cardinality(AboveIn(r, k))
    OBVIOUS
  <2> HIDE DEF Rank, size
  <2> QED BY <1>1, <2>1, <2>2, <2>3, <2>5, <2>6, <2>7
<1>3. ASSUME NEW j \in D, NEW k \in D, j \in AboveIn(r, k)
      PROVE  Rank[j] < Rank[k]
  <2>1. AboveIn(r, j) \in SUBSET AboveIn(r, k) /\ AboveIn(r, j) # AboveIn(r, k)
    <3>1. DOMAIN r = D /\ \A i \in D : r[i] \in Int /\ i \in Int
      OBVIOUS
    <3>2. r[j] > r[k] \/ (r[j] = r[k] /\ j < k)
      BY <1>3 DEF AboveIn
    <3>3. ASSUME NEW i \in AboveIn(r, j) PROVE i \in AboveIn(r, k)
      <4>1. i \in D /\ (r[i] > r[j] \/ (r[i] = r[j] /\ i < j))
        BY <3>1, <3>3 DEF AboveIn
      <4>2. r[i] > r[k] \/ (r[i] = r[k] /\ i < k)
        BY <3>1, <3>2, <4>1
      <4> QED BY <3>1, <4>1, <4>2 DEF AboveIn
    <3>4. j \notin AboveIn(r, j)
      BY <1>2
    <3> QED BY <1>3, <3>3, <3>4
  <2>2. IsFiniteSet(AboveIn(r, k))
    BY <1>2
  <2>3. Cardinality(AboveIn(r, j)) < Cardinality(AboveIn(r, k))
    <3>1. PICK A, B : A = AboveIn(r, j) /\ B = AboveIn(r, k)
      OBVIOUS
    <3>2. A \in SUBSET B /\ A # B /\ IsFiniteSet(A) /\ IsFiniteSet(B)
      BY <1>2, <2>1, <2>2, <3>1
    <3>3. Cardinality(A) <= Cardinality(B) /\ (Cardinality(A) = Cardinality(B) => A = B)
      BY <3>2, FS_Subset
    <3>4. Cardinality(A) \in Nat /\ Cardinality(B) \in Nat
      BY <3>2, FS_CardinalityType
    <3> QED BY <3>1, <3>2, <3>3, <3>4
  <2> QED BY <2>3
<1>4. ASSUME NEW j \in D, NEW k \in D, j # k
      PROVE  Rank[j] # Rank[k]
  <2>1. j \in AboveIn(r, k) \/ k \in AboveIn(r, j)
    BY <1>4 DEF AboveIn
  <2>2. Rank[j] \in Nat /\ Rank[k] \in Nat
    BY <1>2
  <2> HIDE DEF Rank
  <2> QED BY <1>3, <2>1, <2>2
<1>5. Low \in SUBSET D /\ High \in SUBSET D /\ IsFiniteSet(Low) /\ IsFiniteSet(High)
  BY FS_Subset
<1>6. Cardinality(Low) + Cardinality(High) = size
  <2>1. Low \cap High = {} /\ Low \cup High = D
    OBVIOUS
  <2> HIDE DEF Low, High
  <2>2. Cardinality(Low \cup High) = Cardinality(Low) + Cardinality(High) - Cardinality(Low \cap High)
    BY <1>5, FS_Union
  <2>3. Cardinality(Low) \in Nat /\ Cardinality(High) \in Nat /\ Cardinality(Low \cap High) = 0
    BY <1>5, <2>1, FS_EmptySet, FS_CardinalityType
  <2> QED BY <2>1, <2>2, <2>3
<1>7. Cardinality(Low) <= n
  <2> DEFINE f == [k \in Low |-> Rank[k]]
  <2>0. 0 \in Int /\ n - 1 \in Int /\ (IF 0 > n - 1 THEN 0 ELSE n - 1 - 0 + 1) = n
    OBVIOUS
  <2>1. IsFiniteSet(0..(n - 1)) /\ Cardinality(0..(n - 1)) = n
    BY <2>0, FS_Interval
  <2>2. ASSUME NEW k \in Low PROVE f[k] \in 0..(n - 1)
    <3>1. Rank[k] \in Nat /\ Rank[k] < n /\ f[k] = Rank[k]
      BY <1>2
    <3> HIDE DEF f, Rank
    <3> QED BY <3>1
  <2>3. \A j, k \in Low : f[j] = f[k] => j = k
    BY <1>4
  <2>4. f \in Injection(Low, 0..(n - 1))
    <3>1. DOMAIN f = Low /\ f = [k \in Low |-> f[k]]
      OBVIOUS
    <3> HIDE DEF f, Low
    <3>2. f \in [Low -> 0..(n - 1)]
      BY ONLY <2>2, <3>1
    <3> QED BY <2>3, <3>1, <3>2 DEF Injection, IsInjective
  <2> HIDE DEF f, Low
  <2> QED BY <2>1, <2>4, FS_Injection
<1>8. Cardinality(High) <= size - n
  <2> DEFINE f == [k \in High |-> Rank[k]]
  <2> HIDE DEF size
  <2>0. n \in Int /\ size - 1 \in Int /\ (IF n > size - 1 THEN 0 ELSE size - 1 - n + 1) = size - n
    BY <1>1, n <= size DEF size
  <2>1. IsFiniteSet(n..(size - 1)) /\ Cardinality(n..(size - 1)) = size - n
    BY <2>0, FS_Interval
  <2>2. ASSUME NEW k \in High PROVE f[k] \in n..(size - 1)
    <3>1. Rank[k] \in Nat /\ ~(Rank[k] < n) /\ Rank[k] < size /\ f[k] = Rank[k]
      BY <1>2
    <3> HIDE DEF f, Rank
    <3> QED BY <1>1, <3>1
  <2>3. \A j, k \in High : f[j] = f[k] => j = k
    BY <1>4
  <2>4. f \in Injection(High, n..(size - 1))
    <3>1. DOMAIN f = High /\ f = [k \in High |-> f[k]]
      OBVIOUS
    <3> HIDE DEF f, High
    <3>2. f \in [High -> n..(size - 1)]
      BY ONLY <2>2, <3>1
    <3> QED BY <2>3, <3>1, <3>2 DEF Injection, IsInjective
  <2> HIDE DEF f, High
  <2> QED BY <2>1, <2>4, FS_Injection
<1>9. Cardinality(Low) \in Nat /\ Cardinality(High) \in Nat
  BY <1>5, FS_CardinalityType
<1>10. Low = {k \in D : Cardinality(AboveIn(r, k)) < n}
  OBVIOUS
<1> HIDE DEF Low, High, size
<1>11. Cardinality(Low) = n
  BY <1>1, <1>6, <1>7, <1>8, <1>9
<1> QED BY <1>10, <1>11

(* Quotient and remainder. *)
LEMMA DivIs ==
  ASSUME NEW x \in Int, NEW b \in Int, b > 0
  PROVE  x = b * (x \div b) + (x % b)
BY Z3T(20)

(* The quotient of naturals is one, and the remainder is less than the divisor. *)
LEMMA DivMod ==
  ASSUME NEW x \in Nat, NEW b \in Nat, b > 0
  PROVE  /\ x \div b \in Nat /\ x % b \in Nat /\ x % b < b
         /\ x = b * (x \div b) + (x % b)
<1>1. x % b \in 0..(b - 1) /\ x \div b \in Int
  OBVIOUS
<1>2. x = b * (x \div b) + (x % b)
  BY DivIs
<1>3. x \div b >= 0
  BY <1>1, <1>2
<1> QED BY <1>1, <1>2, <1>3

(* Shares s of n by the weights w, rounded down, their remainders r, and    *)
(* one more for the first in rank.                                          *)
SharesOf(D, w, b, n, s, r, up) ==
    /\ D \subseteq Int /\ IsFiniteSet(D)
    /\ DOMAIN w = D /\ \A k \in D : w[k] \in Nat
    /\ b \in Nat /\ b = Total(w) /\ b > 0 /\ n \in Nat
    /\ DOMAIN s = D /\ \A k \in D : s[k] = (n * w[k]) \div b
    /\ DOMAIN r = D /\ \A k \in D : r[k] = (n * w[k]) % b
    /\ DOMAIN up = D
    /\ \A k \in D : up[k] = IF Cardinality(AboveIn(r, k)) < n - Total(s) THEN 1 ELSE 0

(* Together they are the whole, and nothing goes where there is no weight. *)
Whole(D, w, n, s, up) ==
    /\ \A k \in D : s[k] \in Nat /\ up[k] \in {0, 1} /\ (w[k] = 0 => s[k] = 0 /\ up[k] = 0)
    /\ Total(s) + Total(up) = n

LEMMA SharesSum ==
  ASSUME NEW D, NEW w, NEW b, NEW n, NEW s, NEW r, NEW up,
         SharesOf(D, w, b, n, s, r, up)
  PROVE  Whole(D, w, n, s, up)
<1>0. /\ D \subseteq Int /\ IsFiniteSet(D)
      /\ DOMAIN w = D /\ \A k \in D : w[k] \in Nat
      /\ b \in Nat /\ b = Total(w) /\ b > 0 /\ n \in Nat
      /\ DOMAIN s = D /\ \A k \in D : s[k] = (n * w[k]) \div b
      /\ DOMAIN r = D /\ \A k \in D : r[k] = (n * w[k]) % b
      /\ DOMAIN up = D
      /\ \A k \in D : up[k] = IF Cardinality(AboveIn(r, k)) < n - Total(s) THEN 1 ELSE 0
  BY DEF SharesOf
<1> USE <1>0
<1>1. \A x, y \in Nat : x * y \in Nat
  OBVIOUS
<1>2. ASSUME NEW k \in D
      PROVE  /\ n * w[k] \in Nat /\ s[k] \in Nat /\ r[k] \in Nat /\ r[k] < b
             /\ n * w[k] = b * s[k] + r[k]
  <2>1. PICK x \in Nat : x = n * w[k]
    BY <1>1
  <2>2. s[k] = x \div b /\ r[k] = x % b
    BY <2>1
  <2>3. /\ x \div b \in Nat /\ x % b \in Nat /\ x % b < b
        /\ x = b * (x \div b) + (x % b)
    BY DivMod
  <2> QED BY <2>1, <2>2, <2>3, Zenon
<1>3. PICK nw : nw = [k \in D |-> n * w[k]]
  OBVIOUS
<1>4. PICK bs : bs = [k \in D |-> b * s[k]]
  OBVIOUS
<1>5. \A k \in D : b * s[k] \in Nat
  BY <1>1, <1>2
<1>6. DOMAIN nw = D /\ DOMAIN bs = D /\ DOMAIN w = D
      /\ \A k \in D : /\ nw[k] = n * w[k] /\ w[k] \in Int /\ bs[k] = b * s[k] /\ s[k] \in Int
                     /\ bs[k] \in Int /\ r[k] \in Int /\ nw[k] = bs[k] + r[k]
  BY <1>2, <1>3, <1>4, <1>5
<1>7. Total(nw) = n * b
  <2>1. DOMAIN nw = D /\ DOMAIN w = D /\ n \in Int /\ \A k \in D : w[k] \in Int /\ nw[k] = n * w[k]
    BY <1>6
  <2> QED BY ONLY <2>1, IsFiniteSet(D), b = Total(w), TotalScale
<1>8. Total(bs) = b * Total(s)
  <2>1. DOMAIN bs = D /\ DOMAIN s = D /\ b \in Int /\ \A k \in D : s[k] \in Int /\ bs[k] = b * s[k]
    BY <1>6
  <2> QED BY ONLY <2>1, IsFiniteSet(D), TotalScale
<1>9. Total(nw) = Total(bs) + Total(r)
  <2>1. DOMAIN nw = D /\ DOMAIN bs = D /\ DOMAIN r = D
        /\ \A k \in D : bs[k] \in Int /\ r[k] \in Int /\ nw[k] = bs[k] + r[k]
    BY <1>6
  <2> QED BY ONLY <2>1, IsFiniteSet(D), TotalAdd
<1>10. Total(s) \in Int /\ Total(r) \in Int
  BY <1>6, PartInt
<1> DEFINE steps == n - Total(s)
<1>11. steps \in Int /\ Total(r) = b * steps
  <2>1. PICK t \in Int, u \in Int : t = Total(s) /\ u = Total(r)
    BY <1>10
  <2>2. n * b = b * t + u
    BY <1>7, <1>8, <1>9, <2>1
  <2>3. u = b * (n - t)
    BY ONLY <1>0, <2>2, t \in Int, u \in Int
  <2> QED BY <2>1, <2>3
<1> DEFINE Pos == {k \in D : r[k] > 0}
<1>12. PICK one : one = [k \in D |-> IF k \in Pos THEN 1 ELSE 0]
  OBVIOUS
<1>13. PICK bo : bo = [k \in D |-> b * one[k]]
  OBVIOUS
<1>14. /\ DOMAIN one = D /\ DOMAIN bo = D
       /\ \A k \in D : /\ one[k] = (IF k \in Pos THEN 1 ELSE 0) /\ one[k] \in Int
                      /\ bo[k] = b * one[k] /\ bo[k] \in Int /\ r[k] <= bo[k]
  <2>1. DOMAIN one = D /\ DOMAIN bo = D
        /\ \A k \in D : one[k] = (IF k \in Pos THEN 1 ELSE 0) /\ bo[k] = b * one[k]
    BY <1>12, <1>13
  <2>2. ASSUME NEW k \in D PROVE one[k] \in Int /\ bo[k] \in Int /\ r[k] <= bo[k]
    <3>0. one[k] = (IF k \in Pos THEN 1 ELSE 0) /\ bo[k] = b * one[k] /\ r[k] \in Nat /\ r[k] < b
          /\ (k \in Pos <=> r[k] > 0)
      BY <1>2, <2>1
    <3>1. CASE r[k] > 0
      <4>1. one[k] = 1 /\ bo[k] = b * 1
        BY ONLY <3>0, <3>1
      <4> QED BY ONLY <3>0, <4>1, b \in Nat
    <3>2. CASE ~(r[k] > 0)
      <4>1. one[k] = 0 /\ bo[k] = b * 0
        BY ONLY <3>0, <3>2
      <4> QED BY ONLY <3>0, <3>2, <4>1, b \in Nat
    <3> QED BY <3>1, <3>2
  <2> QED BY <2>1, <2>2
<1>15. Pos \in SUBSET D /\ IsFiniteSet(Pos) /\ Cardinality(Pos) \in Nat /\ Cardinality(Pos) <= Cardinality(D)
       /\ Cardinality(D) \in Nat
  <2>1. Pos \in SUBSET D
    OBVIOUS
  <2> HIDE DEF Pos
  <2> QED BY <2>1, FS_Subset, FS_CardinalityType
<1>16. Total(one) = Cardinality(Pos)
  <2> HIDE DEF Pos
  <2>1. DOMAIN one = D /\ \A k \in D : one[k] = IF k \in Pos THEN 1 ELSE 0
    BY <1>14
  <2> QED BY ONLY <1>15, <2>1, IsFiniteSet(D), TotalCount
<1>17. Total(bo) = b * Cardinality(Pos)
  <2> HIDE DEF Pos
  <2>1. DOMAIN bo = D /\ DOMAIN one = D /\ b \in Int /\ \A k \in D : one[k] \in Int /\ bo[k] = b * one[k]
    BY <1>14
  <2> QED BY ONLY <1>16, <2>1, IsFiniteSet(D), TotalScale
<1>18. Total(r) <= Total(bo)
  <2> HIDE DEF Pos
  <2>1. DOMAIN r = D /\ DOMAIN bo = D /\ \A k \in D : r[k] \in Int /\ bo[k] \in Int /\ r[k] <= bo[k]
    BY <1>6, <1>14
  <2> QED BY ONLY <2>1, IsFiniteSet(D), TotalLe
<1>19. Total(r) \in Nat
  <2>1. 0 \in Nat /\ \A x, y \in Nat : x + y \in Nat
    OBVIOUS
  <2> QED BY <1>2, <2>1, TotalClosed
<1> HIDE DEF Pos
<1>20. steps \in Nat /\ steps <= Cardinality(Pos)
  <2>1. PICK t \in Int, c \in Nat : t = steps /\ c = Cardinality(Pos)
    BY <1>11, <1>15
  <2>2. 0 <= b * t /\ b * t <= b * c
    BY <1>11, <1>17, <1>18, <1>19, <2>1
  <2>3. 0 <= t /\ t <= c
    BY ONLY <2>2, t \in Int, c \in Nat, b \in Nat, b > 0, Z3T(20)
  <2> QED BY <2>1, <2>3
<1> DEFINE First == {k \in D : Cardinality(AboveIn(r, k)) < steps}
<1>21. Cardinality(First) = steps
  <2>0. steps <= Cardinality(D)
    BY <1>15, <1>20
  <2>1. \A k \in D : r[k] \in Int
    BY <1>6
  <2>2. PICK m \in Nat : m = steps
    BY <1>20
  <2>3. Cardinality({k \in D : Cardinality(AboveIn(r, k)) < m}) = m
    <3>1. D \subseteq Int /\ IsFiniteSet(D) /\ DOMAIN r = D /\ m <= Cardinality(D)
      BY <2>0, <2>2
    <3> QED BY ONLY <2>1, <3>1, m \in Nat, RanksCount
  <2> QED BY <2>2, <2>3
<1>22. \A k \in D : up[k] = IF k \in First THEN 1 ELSE 0
  OBVIOUS
<1>23. Total(up) = steps
  <2>1. First \in SUBSET D
    OBVIOUS
  <2> HIDE DEF First
  <2> QED BY ONLY <1>21, <1>22, <2>1, DOMAIN up = D, IsFiniteSet(D), TotalCount
<1>24. ASSUME NEW k \in D, w[k] = 0
       PROVE  s[k] = 0 /\ up[k] = 0
  <2>1. b * s[k] + r[k] = 0
    BY <1>2, <1>24
  <2>2. s[k] = 0 /\ r[k] = 0
    <3>1. PICK x \in Nat, y \in Nat : x = s[k] /\ y = r[k]
      BY <1>2
    <3>2. x = 0 /\ y = 0
      <4>1. b * x + y = 0 /\ x \in Int /\ y \in Int /\ b \in Int /\ x >= 0 /\ y >= 0 /\ b > 0
        BY <2>1, <3>1
      <4> QED BY ONLY <4>1, Z3T(20)
    <3> QED BY <3>1, <3>2
  <2>3. Pos \in SUBSET AboveIn(r, k)
    BY <1>2, <2>2 DEF Pos, AboveIn
  <2>4. AboveIn(r, k) \in SUBSET D
    BY DEF AboveIn
  <2>5. IsFiniteSet(AboveIn(r, k))
    BY <2>4, FS_Subset
  <2>6. Cardinality(Pos) <= Cardinality(AboveIn(r, k)) /\ Cardinality(AboveIn(r, k)) \in Nat
    BY <2>3, <2>5, FS_Subset, FS_CardinalityType
  <2>7. ~(Cardinality(AboveIn(r, k)) < steps)
    BY <1>15, <1>20, <2>6
  <2> QED BY <2>2, <2>7
<1>25. \A k \in D : s[k] \in Nat /\ up[k] \in {0, 1}
  BY <1>2
<1>26. Total(s) + Total(up) = n
  BY <1>10, <1>23
<1> QED BY <1>24, <1>25, <1>26 DEF Whole

(* Sum is Total. *)
LEMMA SumIsTotal == \A f : Sum(f) = Total(f)
BY DEF Sum, Total

(* apportion hands out all of the total in whole units, none of it where    *)
(* there is no weight, and takes from nobody when it gives.                 *)
LEMMA ApportionSums ==
  ASSUME NEW w, DOMAIN w = Hotel, \A h \in Hotel : w[h] \in Nat, NEW total \in Int, Sum(w) > 0
  PROVE  /\ DOMAIN apportion(total, w) = Hotel
         /\ \A h \in Hotel : /\ apportion(total, w)[h] \in Int
                             /\ (total >= 0 => apportion(total, w)[h] >= 0)
                             /\ (w[h] = 0 => apportion(total, w)[h] = 0)
         /\ Sum(apportion(total, w)) = total
<1>1. Hotel \subseteq Int /\ IsFiniteSet(Hotel)
  BY FS_Interval, PayRunConstants DEF Hotel
<1>2. PICK b : b = Sum(w)
  OBVIOUS
<1>3. b = Total(w) /\ b > 0
  BY <1>2, SumIsTotal
<1>4. b \in Nat
  <2>1. \A h \in Hotel : w[h] \in Int
    OBVIOUS
  <2>2. b \in Int
    BY ONLY <1>1, <1>3, <2>1, DOMAIN w = Hotel, PartInt
  <2> QED BY <1>3, <2>2
<1>5. PICK n : n = IF total < 0 THEN -total ELSE total
  OBVIOUS
<1>6. n \in Nat
  BY <1>5
<1>7. PICK s : s = [k \in Hotel |-> (n * w[k]) \div b]
  OBVIOUS
<1>8. PICK r : r = [k \in Hotel |-> (n * w[k]) % b]
  OBVIOUS
<1>9. PICK up : up = [k \in Hotel |-> IF Cardinality(AboveIn(r, k)) < n - Total(s) THEN 1 ELSE 0]
  OBVIOUS
<1>10. /\ \A k \in Hotel : s[k] \in Nat /\ up[k] \in {0, 1} /\ (w[k] = 0 => s[k] = 0 /\ up[k] = 0)
       /\ Total(s) + Total(up) = n
  <2>1. /\ DOMAIN s = Hotel /\ \A k \in Hotel : s[k] = (n * w[k]) \div b
        /\ DOMAIN r = Hotel /\ \A k \in Hotel : r[k] = (n * w[k]) % b
        /\ DOMAIN up = Hotel
        /\ \A k \in Hotel : up[k] = IF Cardinality(AboveIn(r, k)) < n - Total(s) THEN 1 ELSE 0
    BY <1>7, <1>8, <1>9
  <2>2. SharesOf(Hotel, w, b, n, s, r, up)
    BY <1>1, <1>3, <1>4, <1>6, <2>1 DEF SharesOf
  <2>3. Whole(Hotel, w, n, s, up)
    BY ONLY <2>2, SharesSum, Zenon
  <2> QED BY <2>3 DEF Whole
<1> DEFINE sign == IF total < 0 THEN -1 ELSE 1
<1>11. CASE total = 0
  <2>1. apportion(total, w) = [k \in Hotel |-> 0]
    BY <1>11 DEF apportion
  <2>2. PICK z : z = [k \in Hotel |-> 0]
    OBVIOUS
  <2>3. DOMAIN z = Hotel /\ \A h \in Hotel : z[h] = 0 /\ z[h] \in {0}
    BY <2>2
  <2>4. 0 \in {0} /\ \A x, y \in {0} : x + y \in {0}
    OBVIOUS
  <2>5. Total(z) \in {0}
    BY ONLY <1>1, <2>3, <2>4, TotalClosed
  <2> QED BY <1>11, <2>1, <2>2, <2>3, <2>5, SumIsTotal
<1>12. CASE total # 0
  <2>1. PICK f : f = apportion(total, w)
    OBVIOUS
  <2>2. f = [k \in Hotel |-> sign * (s[k] + up[k])]
    <3>1. \A k \in Hotel : Cardinality(AboveIn(r, k)) =
             Cardinality({j \in Hotel : (n * w[j]) % b > (n * w[k]) % b
                                        \/ ((n * w[j]) % b = (n * w[k]) % b /\ j < k)})
      BY <1>8 DEF AboveIn
    <3>2. Total(s) = Sum([k \in Hotel |-> (n * w[k]) \div b])
      BY <1>7, SumIsTotal
    <3>3. f = [k \in DOMAIN w |->
                 (IF total < 0 THEN -1 ELSE 1)
                   * (((n * w[k]) \div b)
                        + (IF Cardinality({j \in DOMAIN w : (n * w[j]) % b > (n * w[k]) % b
                                             \/ ((n * w[j]) % b = (n * w[k]) % b /\ j < k)})
                                < n - Sum([j \in DOMAIN w |-> (n * w[j]) \div b])
                           THEN 1 ELSE 0))]
      <4>1. ~(b <= 0 \/ total = 0)
        BY <1>3, <1>4, <1>12
      <4> QED BY <1>2, <1>5, <2>1, <4>1, Zenon DEF apportion
    <3>4. \A k \in Hotel : f[k] = sign * (s[k] + up[k])
      BY <1>7, <1>9, <3>1, <3>2, <3>3
    <3>5. f = [k \in Hotel |-> f[k]]
      BY <3>3
    <3> QED BY <3>4, <3>5
  <2>3. PICK g : g = [k \in Hotel |-> s[k] + up[k]]
    OBVIOUS
  <2>4. sign \in Int /\ (total >= 0 => sign = 1) /\ sign * n = total
    BY <1>5
  <2>5. PICK c : c = sign
    OBVIOUS
  <2>6. c \in Int /\ (total >= 0 => c = 1) /\ c * n = total
    BY <2>4, <2>5
  <2> HIDE DEF sign
  <2>7. /\ DOMAIN g = Hotel /\ DOMAIN f = Hotel
        /\ \A k \in Hotel : g[k] = s[k] + up[k] /\ s[k] \in Int /\ up[k] \in Int /\ f[k] = c * g[k]
    BY <1>10, <2>2, <2>3, <2>5
  <2>8. DOMAIN s = Hotel /\ DOMAIN up = Hotel
    BY <1>7, <1>9
  <2>9. Total(g) = Total(s) + Total(up)
    <3>1. DOMAIN g = Hotel /\ \A k \in Hotel : s[k] \in Int /\ up[k] \in Int /\ g[k] = s[k] + up[k]
      BY <2>7
    <3>2. IsFiniteSet(Hotel)
      BY <1>1
    <3> QED BY ONLY <2>8, <3>1, <3>2, TotalAdd
  <2>10. \A k \in Hotel : g[k] \in Int /\ g[k] >= 0 /\ (w[k] = 0 => g[k] = 0)
    BY <1>10, <2>7
  <2>11. Total(f) = c * Total(g)
    <3>1. DOMAIN f = Hotel /\ DOMAIN g = Hotel /\ c \in Int
          /\ \A k \in Hotel : g[k] \in Int /\ f[k] = c * g[k]
      BY <2>6, <2>7, <2>10
    <3>2. IsFiniteSet(Hotel)
      BY <1>1
    <3> QED BY ONLY <3>1, <3>2, TotalScale
  <2>12. Total(f) = total
    BY <1>10, <2>6, <2>9, <2>11
  <2>13. ASSUME NEW k \in Hotel
         PROVE  f[k] \in Int /\ (total >= 0 => f[k] >= 0) /\ (w[k] = 0 => f[k] = 0)
    <3>1. PICK x \in Int : x = g[k] /\ x >= 0 /\ (w[k] = 0 => x = 0) /\ f[k] = c * x
      BY <2>7, <2>10
    <3>2. c * x \in Int /\ c * 0 = 0 /\ 1 * x = x
      BY <2>6
    <3> QED BY <2>6, <3>1, <3>2
  <2> QED BY <2>1, <2>7, <2>12, <2>13, SumIsTotal
<1> QED BY <1>11, <1>12

-----------------------------------------------------------------------------
(* The invariant *)

Card == [status : {"none", "open", "approved"}, hours : [Hotel -> Nat], stray : [Hotel -> Nat]]

(* The cards, the sick ledger, the vault and the settlements; a card that   *)
(* does not exist shows no hours, an approved one no more than its peak.    *)
LedgersOK ==
    /\ card \in [Employee -> [Period -> Card]]
    /\ sick \in [Employee -> [Period -> Nat]]
    /\ \A e \in Employee, p \in Period : sick[e][p] <= MaxSick[p]
    /\ peak \in [Employee -> [Period -> Nat]]
    /\ vault \in [Employee -> 1..MaxVersion]
    /\ settled \in [Period -> [Employee -> Nat]]
    /\ \A e \in Employee, p \in Period :
         /\ card[e][p].status = "none" => card[e][p].hours = NoHours
         /\ card[e][p].status = "approved" => Worked(e, p) <= peak[e][p]

(* A reference is to a copy of its employee, and a fingerprint that matches *)
(* the vault was stored after that version was delivered.                   *)
RefOK(x, e) ==
    \/ x = NoRef
    \/ /\ x.id \in 1..Len(people)
       /\ people[x.id].emp = e
       /\ x.fp \in Nat /\ x.fp <= vault[e]
       /\ x.fp = vault[e] => people[x.id].version = vault[e]

RefsOK ==
    /\ \E S : people \in Seq(S)
    /\ DOMAIN ref = Employee
    /\ \A e \in Employee : RefOK(ref[e], e)
    /\ tx.pc # "idle" => DOMAIN tx.refs = Employee /\ \A e \in Employee : RefOK(tx.refs[e], e)

LinesOK(lines) ==
    /\ DOMAIN lines \subseteq Employee
    /\ \A e \in DOMAIN lines : lines[e].worked \in Nat /\ lines[e].sick \in Nat

(* The run under way is for a period nothing was submitted for, and once    *)
(* its payroll is booked it knows which one that is.                        *)
TxOK ==
    /\ tx.pc \in {"idle", "sync", "submit", "submitted"}
    /\ tx.pc # "idle" => tx.period \in Period /\ ~Submitted(tx.period) /\ LinesOK(tx.report)
    /\ tx.pc = "sync" => DOMAIN tx = {"pc", "period", "report", "todo", "refs"}
    /\ tx.pc = "submitted" =>
         /\ tx.remote \in DOMAIN payrolls
         /\ payrolls[tx.remote].period = tx.period
         /\ payrolls[tx.remote].entries = tx.report

RunFields == {"status", "remote", "lines", "census"}

RunsOK ==
    /\ \E S : payrolls \in Seq(S)
    /\ \A i \in DOMAIN payrolls : DOMAIN payrolls[i] = {"period", "entries", "gross"}
    /\ lost \in [Period -> Nat]
    /\ DOMAIN run = Period
    /\ \A p \in Period :
         /\ DOMAIN run[p] = RunFields
         /\ run[p].status \in {"none", "failed", "submitted", "processed"}
         /\ run[p].remote \in 0..Len(payrolls)
         /\ LinesOK(run[p].lines)

(* Only submitted lines are settled, one clerk at a line; what a clerk is   *)
(* about to add was owed when the line was locked.                          *)
ActsOK ==
    /\ DOMAIN act = Clerk
    /\ \A p \in Period, e \in Employee : settled[p][e] > 0 => Submitted(p)
    /\ \A k \in Clerk : act[k] # Idle =>
         /\ act[k].period \in Period /\ act[k].emp \in Employee /\ act[k].hours \in Nat
         /\ Submitted(act[k].period)
         /\ Line(act[k].period, act[k].emp).worked + settled[act[k].period][act[k].emp]
              + act[k].hours <= peak[act[k].emp][act[k].period]
    /\ \A k, j \in Clerk : act[k] # Idle /\ act[j] # Idle /\ act[k].period = act[j].period
                             /\ act[k].emp = act[j].emp => k = j

PrInv == LedgersOK /\ RefsOK /\ TxOK /\ RunsOK /\ ActsOK /\ PayrollsAccounted /\ SettledWasOwed

(* The hours of a card are a number. *)
LEMMA CardSums ==
  ASSUME LedgersOK, NEW e \in Employee, NEW p \in Period
  PROVE  Worked(e, p) \in Nat /\ Stray(e, p) \in Nat
<1>1. card[e][p] \in Card
  BY DEF LedgersOK
<1>2. card[e][p].hours \in [Hotel -> Nat] /\ card[e][p].stray \in [Hotel -> Nat]
  BY <1>1 DEF Card
<1> QED BY <1>2, SumOfHours DEF Worked, Stray

(* No card, no run, nobody at the provider. *)
LEMMA PrInitInv == ASSUME PrInit PROVE PrInv
<1> USE PayRunConstants
<1>1. LedgersOK
  <2>1. NoCard \in Card /\ NoCard.status = "none" /\ NoCard.hours = NoHours
    BY DEF NoCard, Card, NoHours
  <2>2. card \in [Employee -> [Period -> Card]] /\ \A e \in Employee, p \in Period : card[e][p] = NoCard
    BY <2>1 DEF PrInit
  <2>3. /\ sick \in [Employee -> [Period -> Nat]]
        /\ \A e \in Employee, p \in Period : sick[e][p] <= MaxSick[p]
    BY DEF PrInit, Period
  <2>4. /\ peak \in [Employee -> [Period -> Nat]]
        /\ vault \in [Employee -> 1..MaxVersion]
        /\ settled \in [Period -> [Employee -> Nat]]
    BY DEF PrInit
  <2> QED BY <2>1, <2>2, <2>3, <2>4 DEF LedgersOK
<1>2. tx.pc = "idle" /\ people = <<>> /\ payrolls = <<>> /\ DOMAIN payrolls = {}
  BY DEF PrInit, Idle
<1>3. RefsOK
  <2>1. people \in Seq({})
    BY <1>2
  <2> QED BY <1>2, <2>1 DEF RefsOK, RefOK, PrInit
<1>4. TxOK
  BY <1>2 DEF TxOK
<1>5. \A p \in Period : /\ run[p].status = "none" /\ run[p].remote = 0 /\ DOMAIN run[p].lines = {}
                        /\ DOMAIN run[p] = RunFields
  BY DEF PrInit, NoRun, RunFields
<1>6. RunsOK
  <2>1. payrolls \in Seq({})
    BY <1>2
  <2>2. lost \in [Period -> Nat] /\ DOMAIN run = Period
    BY DEF PrInit
  <2>3. Len(payrolls) = 0
    BY <1>2
  <2> QED BY <1>2, <1>5, <2>1, <2>2, <2>3 DEF RunsOK, LinesOK
<1>7. \A p \in Period : ~Submitted(p)
  BY <1>5 DEF Submitted
<1>8. ActsOK /\ SettledWasOwed
  BY DEF PrInit, ActsOK, SettledWasOwed
<1>9. PayrollsAccounted
  <2> SUFFICES ASSUME NEW p \in Period
               PROVE  Cardinality({i \in DOMAIN payrolls : payrolls[i].period = p}) = lost[p]
    BY <1>2, <1>7 DEF PayrollsAccounted, PrInit
  <2> QED BY <1>2, FS_EmptySet DEF PrInit
<1> QED BY <1>1, <1>3, <1>4, <1>6, <1>8, <1>9 DEF PrInv

(* The types of the tables follow. *)
LEMMA PrInvType == ASSUME PrInv PROVE PrTypeOK
<1> USE DEF PrInv
<1>1. ASSUME NEW e \in Employee, NEW p \in Period
      PROVE  /\ card[e][p].status \in {"none", "open", "approved"}
             /\ card[e][p].hours \in [Hotel -> Nat] /\ card[e][p].stray \in [Hotel -> Nat]
             /\ sick[e][p] \in 0..MaxSick[p] /\ peak[e][p] \in Nat /\ settled[p][e] \in Nat
  <2>1. card[e][p] \in Card
    BY DEF LedgersOK
  <2>2. sick[e][p] \in 0..MaxSick[p]
    <3>1. MaxSick[p] \in Nat
      BY PayRunConstants DEF Period
    <3>2. sick[e][p] \in Nat /\ sick[e][p] <= MaxSick[p]
      BY DEF LedgersOK
    <3> QED BY <3>1, <3>2
  <2> QED BY <2>1, <2>2 DEF LedgersOK, Card
<1>2. \A e \in Employee : vault[e] \in 1..MaxVersion
  BY DEF LedgersOK
<1>3. Len(people) \in Nat
  BY DEF RefsOK
<1>4. \A e \in Employee : ref[e].id \in 0..Len(people)
  BY <1>3 DEF RefsOK, RefOK, NoRef
<1>5. \A p \in Period : /\ run[p].status \in {"none", "failed", "submitted", "processed"}
                        /\ run[p].remote \in 0..Len(payrolls) /\ lost[p] \in Nat
  BY DEF RunsOK
<1> QED BY <1>1, <1>2, <1>4, <1>5 DEF PrTypeOK, TxOK

(* The preflight names what is unpaid: the case that needs the invariant    *)
(* is a paid line whose card is gone, which then shows no hours at all.     *)
LEMMA PrInvNames == ASSUME PrInv PROVE UnpaidIsNamed
<1> SUFFICES ASSUME NEW p \in Period, NEW e \in Employee, NEW q \in Period,
                    Submitted(p), p < q,
                    \/ e \in Paid(p) /\ Worked(e, p) + Stray(e, p) > Line(p, e).worked + settled[p][e]
                    \/ Stray(e, p) > 0
                    \/ sick[e][p] > Line(p, e).sick
             PROVE  Problems(q) # {}
  BY DEF UnpaidIsNamed
<1> DEFINE x == <<e, p>>
<1>1. x \in Employee \X (1..(q - 1)) /\ x \in Employee \X (1..q) /\ x[1] = e /\ x[2] = p
  BY PayRunConstants DEF Period
<1>2. Worked(e, p) \in Nat /\ Stray(e, p) \in Nat /\ settled[p][e] \in Nat
  BY CardSums DEF PrInv, LedgersOK
<1> HIDE DEF x
<1>3. CASE Stray(e, p) > 0
  <2>1. x \in _late_worked_problems(q)
    BY <1>1, <1>3 DEF _late_worked_problems
  <2> QED BY <2>1 DEF Problems
<1>4. CASE sick[e][p] > Line(p, e).sick
  <2>1. x \in _late_sick_problems(q)
    BY <1>1, <1>4 DEF _late_sick_problems
  <2> QED BY <2>1 DEF Problems
<1>5. CASE ~(Stray(e, p) > 0) /\ ~(sick[e][p] > Line(p, e).sick)
  <2>1. e \in Paid(p) /\ Worked(e, p) > Line(p, e).worked + settled[p][e]
    BY <1>2, <1>5
  <2>2. Line(p, e).worked \in Nat
    BY <2>1 DEF PrInv, RunsOK, LinesOK, Line, Paid
  <2>3. Delta(e, p) > 0
    BY <1>2, <2>1, <2>2 DEF Delta
  <2>4. card[e][p].status # "none"
    BY <1>2, <2>1, <2>2, SumOfNone DEF PrInv, LedgersOK, Worked
  <2>5. card[e][p].status \in {"open", "approved"}
    BY <2>4, PrInvType DEF PrTypeOK
  <2>6. x \in _paid_worked_problems(q)
    BY <1>1, <2>1, <2>3, <2>5 DEF _paid_worked_problems
  <2> QED BY <2>6 DEF Problems
<1> QED BY <1>3, <1>4, <1>5

(* What the parts of the invariant say together are the properties. *)
LEMMA PrInvSafe ==
  ASSUME PrInv
  PROVE  NobodyIsPaidTwice /\ UnpaidIsNamed /\ FreshRefIsDelivered
<1>1. NobodyIsPaidTwice
  BY PrInvType DEF NobodyIsPaidTwice, PrInv
<1>2. FreshRefIsDelivered
  BY DEF PrInv, RefsOK, RefOK, FreshRefIsDelivered
<1> QED BY <1>1, <1>2, PrInvNames

-----------------------------------------------------------------------------
(* Steps that touch neither runs nor the provider *)

(* The runs and the references stand when only ledgers and clerks move. *)
LEMMA RunsKept ==
  ASSUME PrInv, UNCHANGED <<ref, run, people, payrolls, lost, tx>>,
         \A e \in Employee : vault'[e] = vault[e]
  PROVE  RefsOK' /\ TxOK' /\ RunsOK' /\ PayrollsAccounted'
<1>1. RefsOK'
  BY DEF PrInv, RefsOK, RefOK
<1>2. TxOK' /\ RunsOK'
  BY DEF PrInv, TxOK, RunsOK, LinesOK, Submitted
<1>3. PayrollsAccounted'
  BY DEF PrInv, PayrollsAccounted, Submitted
<1> QED BY <1>1, <1>2, <1>3

(* The clerks stand when the lines do and the peaks only rise. *)
LEMMA ActsKept ==
  ASSUME PrInv, UNCHANGED <<run, settled, act>>, LedgersOK',
         \A e \in Employee, p \in Period : peak[e][p] <= peak'[e][p]
  PROVE  ActsOK' /\ SettledWasOwed'
<1>1. ASSUME NEW p \in Period, NEW e \in Employee
      PROVE  /\ Line(p, e).worked \in Nat /\ Line(p, e)' = Line(p, e)
             /\ settled[p][e] \in Nat /\ peak[e][p] \in Nat /\ peak'[e][p] \in Nat
  BY DEF PrInv, LedgersOK, RunsOK, LinesOK, Line, Paid, NoLine
<1>2. \A p \in Period : Submitted(p)' = Submitted(p)
  BY DEF Submitted
<1>3. SettledWasOwed'
  BY <1>1 DEF PrInv, SettledWasOwed
<1>4. ActsOK'
  <2>1. ASSUME NEW k \in Clerk, act[k] # Idle
        PROVE  /\ act[k].period \in Period /\ act[k].emp \in Employee /\ act[k].hours \in Nat
               /\ Submitted(act[k].period)'
               /\ Line(act[k].period, act[k].emp)'.worked
                    + settled[act[k].period][act[k].emp]
                    + act[k].hours <= peak'[act[k].emp][act[k].period]
    <3>1. /\ act[k].period \in Period /\ act[k].emp \in Employee /\ act[k].hours \in Nat
          /\ Submitted(act[k].period)
          /\ Line(act[k].period, act[k].emp).worked + settled[act[k].period][act[k].emp]
               + act[k].hours <= peak[act[k].emp][act[k].period]
      BY <2>1 DEF PrInv, ActsOK
    <3>2. PICK p \in Period, e \in Employee, h \in Nat :
             p = act[k].period /\ e = act[k].emp /\ h = act[k].hours
      BY <3>1
    <3>3. Line(p, e).worked + settled[p][e] + h <= peak'[e][p]
      BY <1>1, <3>1, <3>2
    <3>4. act'[k] = act[k] /\ Line(act[k].period, act[k].emp)' = Line(p, e)
      BY <1>1, <3>2
    <3> QED BY <1>2, <3>1, <3>2, <3>3, <3>4
  <2> QED BY <1>2, <2>1 DEF PrInv, ActsOK
<1> QED BY <1>3, <1>4

(* A card becomes c, and its peak at least the hours an approved c shows. *)
LEMMA CardBecomes ==
  ASSUME PrInv, NEW e \in Employee, NEW p \in Period, NEW c \in Card, NEW n \in Nat,
         card' = [card EXCEPT ![e][p] = c],
         peak' = [peak EXCEPT ![e][p] = n],
         peak[e][p] <= n,
         c.status = "none" => c.hours = NoHours,
         c.status = "approved" => Sum(c.hours) <= n,
         UNCHANGED <<sick, vault, ref, run, settled, people, payrolls, lost, tx, act>>
  PROVE  PrInv'
<1>1. LedgersOK
  BY DEF PrInv
<1>2. card' \in [Employee -> [Period -> Card]] /\ peak' \in [Employee -> [Period -> Nat]]
  BY <1>1 DEF LedgersOK
<1>3. \A x \in Employee, y \in Period :
         /\ card'[x][y] = IF x = e /\ y = p THEN c ELSE card[x][y]
         /\ peak'[x][y] = IF x = e /\ y = p THEN n ELSE peak[x][y]
  BY <1>1 DEF LedgersOK
<1>4. LedgersOK'
  BY <1>1, <1>2, <1>3 DEF LedgersOK, Worked
<1>5. \A x \in Employee, y \in Period : peak[x][y] <= peak'[x][y]
  BY <1>1, <1>3 DEF LedgersOK
<1> QED BY <1>4, <1>5, RunsKept, ActsKept DEF PrInv

(* The same for a card whose peak stays. *)
LEMMA CardMoves ==
  ASSUME PrInv, NEW e \in Employee, NEW p \in Period, NEW c \in Card,
         card' = [card EXCEPT ![e][p] = c],
         c.status = "none" => c.hours = NoHours,
         c.status = "approved" => Sum(c.hours) <= peak[e][p],
         UNCHANGED <<peak, sick, vault, ref, run, settled, people, payrolls, lost, tx, act>>
  PROVE  PrInv'
<1>1. PICK n \in Nat : n = peak[e][p]
  BY DEF PrInv, LedgersOK
<1>2. peak' = [peak EXCEPT ![e][p] = n]
  BY <1>1 DEF PrInv, LedgersOK
<1>3. peak[e][p] <= n /\ (c.status = "approved" => Sum(c.hours) <= n)
  BY <1>1
<1> QED BY <1>2, <1>3, CardBecomes

(* The larger of two hours. *)
LEMMA MaxOfTwo ==
  ASSUME NEW a \in Nat, NEW b \in Nat
  PROVE  Max({a, b}) \in Nat /\ a <= Max({a, b}) /\ b <= Max({a, b})
<1>1. \E x \in {a, b} : \A y \in {a, b} : x >= y
  OBVIOUS
<1> QED BY <1>1 DEF Max

(* Timecards move under the runs. *)
LEMMA CardStep ==
  ASSUME PrInv, NEW e \in Employee, NEW p \in Period,
         \/ approve_timecard(e, p) \/ reopen_timecard(e, p)
         \/ \E h \in Hotel : punch(e, p, h) \/ add_adjustment(e, p, h)
  PROVE  PrInv'
<1> USE DEF cards, remote
<1> DEFINE c == card[e][p]
<1>1. LedgersOK /\ c \in Card /\ peak[e][p] \in Nat /\ Worked(e, p) \in Nat
  BY CardSums DEF PrInv, LedgersOK
<1>2. c.status \in {"none", "open", "approved"}
      /\ c.hours \in [Hotel -> Nat] /\ c.stray \in [Hotel -> Nat]
  BY <1>1 DEF Card
<1>4. c.status = "approved" => Sum(c.hours) <= peak[e][p]
  BY <1>1 DEF LedgersOK, Worked
<1>5. CASE approve_timecard(e, p)
  <2> DEFINE n == Max({peak[e][p], Worked(e, p)})
             d == [c EXCEPT !.status = "approved"]
  <2>1. n \in Nat /\ peak[e][p] <= n /\ Worked(e, p) <= n
    BY <1>1, MaxOfTwo
  <2>2. card' = [card EXCEPT ![e][p] = d] /\ peak' = [peak EXCEPT ![e][p] = n]
    BY <1>1, <1>5 DEF approve_timecard, LedgersOK
  <2>3. d \in Card /\ d.status = "approved" /\ d.hours = c.hours
    BY <1>1 DEF Card
  <2>4. Sum(d.hours) <= n
    BY <2>1, <2>3 DEF Worked
  <2> HIDE DEF c, d, n
  <2> QED BY <1>5, <2>1, <2>2, <2>3, <2>4, CardBecomes DEF approve_timecard
<1>6. CASE reopen_timecard(e, p)
  <2> DEFINE d == [status |-> "open", hours |-> [h \in Hotel |-> c.hours[h] + c.stray[h]],
                   stray |-> NoHours]
  <2>1. card' = [card EXCEPT ![e][p] = d]
    BY <1>1, <1>6 DEF reopen_timecard, LedgersOK
  <2>2. d \in Card /\ d.status = "open"
    BY <1>2 DEF Card, NoHours
  <2> HIDE DEF c, d
  <2> QED BY <1>6, <2>1, <2>2, CardMoves DEF reopen_timecard
<1>7. ASSUME NEW h \in Hotel, punch(e, p, h)
      PROVE  PrInv'
  <2>0. UNCHANGED <<peak, sick, vault, ref, run, settled, people, payrolls, lost, tx, act>>
    BY <1>7 DEF punch
  <2>1. CASE c.status = "approved"
    <3> DEFINE d == [c EXCEPT !.stray[h] = @ + 1]
    <3>1. card' = [card EXCEPT ![e][p] = d]
      BY <1>1, <1>2, <1>7, <2>1 DEF punch, LedgersOK
    <3>2. d \in Card /\ d.status = "approved" /\ d.hours = c.hours
      BY <1>1, <1>2, <2>1 DEF Card
    <3> HIDE DEF d
    <3>3. Sum(d.hours) <= peak[e][p]
      BY <1>4, <2>1, <3>2
    <3> HIDE DEF c
    <3> QED BY <2>0, <3>1, <3>2, <3>3, CardMoves
  <2>2. CASE c.status # "approved"
    <3> DEFINE d == [c EXCEPT !.status = "open", !.hours[h] = @ + 1]
    <3>1. card' = [card EXCEPT ![e][p] = d]
      BY <1>1, <1>2, <1>7, <2>2 DEF punch, LedgersOK
    <3>2. d \in Card /\ d.status = "open"
      <4> DEFINE hs == [c.hours EXCEPT ![h] = @ + 1]
      <4>1. hs \in [Hotel -> Nat]
        BY <1>2
      <4>2. d = [c EXCEPT !.status = "open", !.hours = hs]
        BY <1>1 DEF Card
      <4> HIDE DEF c, d, hs
      <4> QED BY <1>1, <4>1, <4>2 DEF Card
    <3> HIDE DEF c, d
    <3> QED BY <2>0, <3>1, <3>2, CardMoves
  <2> QED BY <2>1, <2>2
<1>8. ASSUME NEW h \in Hotel, add_adjustment(e, p, h)
      PROVE  PrInv'
  <2> DEFINE d == [c EXCEPT !.hours[h] = @ - 1]
  <2>1. card' = [card EXCEPT ![e][p] = d]
    BY <1>1, <1>8 DEF add_adjustment, LedgersOK
  <2>2. c.status = "open" /\ c.hours[h] - 1 \in Nat
    BY <1>2, <1>8 DEF add_adjustment
  <2>3. d \in Card /\ d.status = "open"
    BY <1>1, <1>2, <2>2 DEF Card
  <2>4. UNCHANGED <<peak, sick, vault, ref, run, settled, people, payrolls, lost, tx, act>>
    BY <1>8 DEF add_adjustment
  <2> HIDE DEF c, d
  <2> QED BY <2>4, <2>1, <2>3, CardMoves
<1> QED BY <1>5, <1>6, <1>7, <1>8

(* The sick ledger moves under the runs. *)
LEMMA SickStep ==
  ASSUME PrInv, NEW e \in Employee, NEW p \in Period, NEW h \in 0..MaxSick[p],
         record_sick(e, p, h)
  PROVE  PrInv'
<1> USE DEF cards, remote
<1>1. MaxSick[p] \in Nat /\ h \in Nat /\ h <= MaxSick[p]
  BY PayRunConstants DEF Period
<1>2. /\ sick' = [sick EXCEPT ![e][p] = h]
      /\ UNCHANGED <<card, peak, vault, ref, run, settled, people, payrolls, lost, tx, act>>
  BY DEF record_sick
<1>3. LedgersOK'
  BY <1>1, <1>2 DEF PrInv, LedgersOK, Worked
<1>4. \A x \in Employee, y \in Period : peak[x][y] <= peak'[x][y]
  BY <1>2 DEF PrInv, LedgersOK
<1> QED BY <1>2, <1>3, <1>4, RunsKept, ActsKept DEF PrInv

(* An edit of the payload makes every fingerprint on file stale. *)
LEMMA VaultStep ==
  ASSUME PrInv, NEW e \in Employee, edit_payload(e)
  PROVE  PrInv'
<1> USE DEF cards, remote
<1>1. /\ vault' = [vault EXCEPT ![e] = vault[e] + 1] /\ vault[e] < MaxVersion
      /\ UNCHANGED <<card, peak, sick, ref, run, settled, people, payrolls, lost, tx, act>>
  BY DEF edit_payload
<1>2. LedgersOK /\ vault \in [Employee -> 1..MaxVersion] /\ vault[e] + 1 \in 1..MaxVersion
  BY <1>1, PayRunConstants DEF PrInv, LedgersOK
<1>3. LedgersOK'
  BY <1>1, <1>2 DEF LedgersOK, Worked
<1>4. ASSUME NEW x \in Employee, NEW r, RefOK(r, x)
      PROVE  RefOK(r, x)'
  BY <1>1, <1>2, <1>4 DEF RefOK
<1>5. RefsOK'
  BY <1>1, <1>4 DEF PrInv, RefsOK
<1>6. TxOK' /\ RunsOK' /\ PayrollsAccounted'
  <2>1. TxOK' /\ RunsOK'
    BY <1>1 DEF PrInv, TxOK, RunsOK, LinesOK, Submitted
  <2>2. PayrollsAccounted'
    BY <1>1 DEF PrInv, PayrollsAccounted, Submitted
  <2> QED BY <2>1, <2>2
<1>7. \A x \in Employee, y \in Period : peak[x][y] <= peak'[x][y]
  BY <1>1 DEF PrInv, LedgersOK
<1> QED BY <1>1, <1>3, <1>5, <1>6, <1>7, ActsKept DEF PrInv

(* A clerk locks a line, and adds what it was owed then, or gives up. *)
LEMMA ClerkStep ==
  ASSUME PrInv, NEW k \in Clerk,
         \/ \E p \in Period, e \in Employee : settle_worked_hours(k, p, e)
         \/ SettleCommit(k) \/ SettleAbort(k)
  PROVE  PrInv'
<1> USE DEF cards, remote
<1>1. /\ UNCHANGED <<card, peak, sick, vault, ref, run, people, payrolls, lost, tx>>
      /\ DOMAIN act = Clerk /\ DOMAIN act' = Clerk
      /\ \A j \in Clerk \ {k} : act'[j] = act[j]
  BY DEF settle_worked_hours, SettleCommit, SettleAbort, PrInv, ActsOK
<1>2. RefsOK' /\ TxOK' /\ RunsOK' /\ PayrollsAccounted'
  BY <1>1, RunsKept
<1>3. LedgersOK /\ ActsOK /\ SettledWasOwed
  BY DEF PrInv
<1>4. ASSUME NEW p \in Period, NEW e \in Employee
      PROVE  /\ Line(p, e).worked \in Nat /\ Line(p, e)' = Line(p, e)
             /\ settled[p][e] \in Nat /\ peak[e][p] \in Nat /\ Submitted(p)' = Submitted(p)
  BY <1>1, SMTT(30) DEF PrInv, LedgersOK, RunsOK, LinesOK, Line, Paid, NoLine, Submitted
<1>5. ASSUME NEW p \in Period, NEW e \in Employee, settle_worked_hours(k, p, e)
      PROVE  PrInv'
  <2>1. /\ settled' = settled
        /\ act'[k].period = p /\ act'[k].emp = e /\ act'[k].hours = Delta(e, p)
        /\ Submitted(p) /\ LineFree(p, e)
        /\ card[e][p].status = "approved" /\ Delta(e, p) > 0
    BY <1>1, <1>5 DEF settle_worked_hours
  <2>2. LedgersOK'
    BY <1>1, <1>3, <2>1 DEF LedgersOK, Worked
  <2>3. Worked(e, p) \in Nat /\ Worked(e, p) <= peak[e][p]
    BY <1>3, <2>1, CardSums DEF LedgersOK
  <2>4. Delta(e, p) \in Nat /\ Line(p, e).worked + settled[p][e] + Delta(e, p) <= peak[e][p]
    BY <1>4, <2>1, <2>3 DEF Delta
  <2>5. SettledWasOwed'
    BY <1>1, <1>3, <1>4, <2>1 DEF SettledWasOwed
  <2>6. \A j \in Clerk \ {k} : act[j] # Idle => ~(act[j].period = p /\ act[j].emp = e)
    BY <2>1 DEF LineFree
  <2>7. ActsOK'
    <3>1. ASSUME NEW j \in Clerk \ {k}, act[j] # Idle
          PROVE  /\ act[j].period \in Period /\ act[j].emp \in Employee /\ act[j].hours \in Nat
                 /\ Submitted(act[j].period)'
                 /\ Line(act[j].period, act[j].emp)'.worked
                      + settled[act[j].period][act[j].emp]
                      + act[j].hours <= peak[act[j].emp][act[j].period]
      BY <1>1, <1>3, <3>1 DEF ActsOK, Submitted, Line, Paid
    <3>2. /\ act'[k].period \in Period /\ act'[k].emp \in Employee /\ act'[k].hours \in Nat
          /\ Submitted(act[k].period)'
          /\ Line(act[k].period, act[k].emp)'.worked + settled'[act'[k].period][act'[k].emp]
               + act'[k].hours <= peak'[act'[k].emp][act'[k].period]
      <4>1. Submitted(p)' /\ Line(p, e)'.worked + settled'[p][e] + Delta(e, p) <= peak'[e][p]
        BY <1>1, <1>4, <2>1, <2>4
      <4>2. Submitted(act[k].period)' = Submitted(p)'
            /\ Line(act[k].period, act[k].emp)' = Line(p, e)'
        BY <2>1
      <4> QED BY <2>1, <2>4, <4>1, <4>2
    <3>3. \A i, j \in Clerk : act'[i] # Idle /\ act'[j] # Idle /\ act'[i].period = act'[j].period
                              /\ act'[i].emp = act'[j].emp => i = j
      BY <1>1, <1>3, <2>1, <2>6 DEF ActsOK
    <3>4. \A q \in Period, x \in Employee : settled'[q][x] > 0 => Submitted(q)'
      BY <1>3, <1>4, <2>1 DEF ActsOK
    <3>5. ASSUME NEW j \in Clerk, act'[j] # Idle
          PROVE  /\ act'[j].period \in Period /\ act'[j].emp \in Employee /\ act'[j].hours \in Nat
                 /\ Submitted(act[j].period)'
                 /\ Line(act[j].period, act[j].emp)'.worked + settled'[act'[j].period][act'[j].emp]
                      + act'[j].hours <= peak'[act'[j].emp][act'[j].period]
      <4>1. CASE j = k
        BY <3>2, <4>1
      <4>2. CASE j # k
        <5>1. act'[j] = act[j]
          BY <1>1, <4>2
        <5> QED BY <1>1, <2>1, <3>1, <3>5, <4>2, <5>1
      <4> QED BY <4>1, <4>2
    <3> QED BY <1>1, <3>3, <3>4, <3>5 DEF ActsOK
  <2> QED BY <1>2, <2>2, <2>5, <2>7 DEF PrInv
<1>6. CASE SettleAbort(k)
  <2>1. settled' = settled /\ act'[k] = Idle
    BY <1>1, <1>6 DEF SettleAbort
  <2>2. LedgersOK'
    BY <1>1, <1>3, <2>1 DEF LedgersOK, Worked
  <2>3. SettledWasOwed'
    BY <1>1, <1>3, <1>4, <2>1 DEF SettledWasOwed
  <2>4. ActsOK'
    BY <1>1, <1>3, <2>1 DEF ActsOK, Submitted, Line, Paid
  <2> QED BY <1>2, <2>2, <2>3, <2>4 DEF PrInv
<1>7. CASE SettleCommit(k)
  <2>1. act[k] # Idle /\ act'[k] = Idle
    BY <1>1, <1>7 DEF SettleCommit
  <2>2. PICK p \in Period, e \in Employee, h \in Nat :
            p = act[k].period /\ e = act[k].emp /\ h = act[k].hours
    BY <1>3, <2>1 DEF ActsOK
  <2>3. /\ settled' = [settled EXCEPT ![p][e] = settled[p][e] + h]
        /\ Submitted(p) /\ Line(p, e).worked + settled[p][e] + h <= peak[e][p]
    BY <1>3, <1>7, <2>1, <2>2 DEF SettleCommit, ActsOK
  <2>4. /\ settled' \in [Period -> [Employee -> Nat]]
        /\ \A x \in Period, y \in Employee :
             settled'[x][y] = IF x = p /\ y = e THEN settled[p][e] + h ELSE settled[x][y]
    BY <1>3, <2>3 DEF LedgersOK
  <2>5. LedgersOK'
    BY <1>1, <1>3, <2>4 DEF LedgersOK, Worked
  <2>6. SettledWasOwed'
    BY <1>1, <1>3, <1>4, <2>3, <2>4 DEF SettledWasOwed
  <2>7. ASSUME NEW j \in Clerk \ {k}, act[j] # Idle
        PROVE  /\ act[j].period \in Period /\ act[j].emp \in Employee /\ act[j].hours \in Nat
               /\ Submitted(act[j].period)
               /\ settled'[act[j].period][act[j].emp] = settled[act[j].period][act[j].emp]
               /\ Line(act[j].period, act[j].emp).worked
                    + settled[act[j].period][act[j].emp]
                    + act[j].hours <= peak[act[j].emp][act[j].period]
    BY <1>3, <2>1, <2>2, <2>4, <2>7 DEF ActsOK
  <2>8. ActsOK'
    <3>1. \A x \in Period, y \in Employee : settled'[x][y] > 0 => Submitted(x)'
      BY <1>1, <1>3, <1>4, <2>3, <2>4 DEF ActsOK, Submitted
    <3>2. ASSUME NEW j \in Clerk \ {k}, act[j] # Idle
          PROVE  /\ Submitted(act[j].period)'
                 /\ Line(act[j].period, act[j].emp)'.worked
                      + settled'[act[j].period][act[j].emp]
                      + act[j].hours <= peak[act[j].emp][act[j].period]
      BY <1>1, <2>7, <3>2 DEF Submitted, Line, Paid
    <3> QED BY <1>1, <1>3, <2>1, <2>7, <3>1, <3>2 DEF ActsOK
  <2> QED BY <1>2, <2>5, <2>6, <2>8 DEF PrInv
<1> QED BY <1>5, <1>6, <1>7

-----------------------------------------------------------------------------
(* Steps of a run *)

(* One more record at the provider. *)
LEMMA Appended ==
  ASSUME NEW S, NEW q \in Seq(S), NEW x
  PROVE  /\ Append(q, x) \in Seq(S \cup {x})
         /\ Len(q) \in Nat /\ DOMAIN q = 1..Len(q)
         /\ Len(Append(q, x)) = Len(q) + 1 /\ DOMAIN Append(q, x) = 1..(Len(q) + 1)
         /\ \A i \in 1..Len(q) : Append(q, x)[i] = q[i]
         /\ Append(q, x)[Len(q) + 1] = x
<1>1. q \in Seq(S \cup {x}) /\ x \in S \cup {x}
  OBVIOUS
<1> QED BY <1>1

(* A record at the provider replaced. *)
LEMMA Replaced ==
  ASSUME NEW S, NEW q \in Seq(S), NEW i \in 1..Len(q), NEW x
  PROVE  /\ [q EXCEPT ![i] = x] \in Seq(S \cup {x})
         /\ Len([q EXCEPT ![i] = x]) = Len(q)
         /\ Len(q) \in Nat /\ DOMAIN q = 1..Len(q) /\ DOMAIN [q EXCEPT ![i] = x] = 1..Len(q)
         /\ \A j \in 1..Len(q) : [q EXCEPT ![i] = x][j] = IF j = i THEN x ELSE q[j]
<1>1. q \in Seq(S \cup {x}) /\ x \in S \cup {x}
  OBVIOUS
<1> QED BY <1>1

(* The clerks stand when submitted lines stay submitted and as they are. *)
LEMMA LinesStay ==
  ASSUME PrInv, UNCHANGED <<peak, settled, act>>,
         \A p \in Period : Submitted(p) => Submitted(p)' /\ run'[p].lines = run[p].lines
  PROVE  ActsOK' /\ SettledWasOwed'
<1>1. ActsOK /\ SettledWasOwed
  BY DEF PrInv
<1>2. \A p \in Period, e \in Employee : Submitted(p) => Line(p, e)' = Line(p, e)
  BY DEF Line, Paid
<1>3. SettledWasOwed'
  BY <1>1, <1>2 DEF SettledWasOwed, ActsOK
<1>4. ASSUME NEW k \in Clerk, act[k] # Idle
      PROVE  /\ act[k].period \in Period /\ act[k].emp \in Employee /\ act[k].hours \in Nat
             /\ Submitted(act[k].period)'
             /\ Line(act[k].period, act[k].emp)'.worked + settled[act[k].period][act[k].emp]
                  + act[k].hours <= peak[act[k].emp][act[k].period]
  <2>1. PICK p \in Period, e \in Employee : p = act[k].period /\ e = act[k].emp
    BY <1>1, <1>4 DEF ActsOK
  <2>2. Submitted(p) /\ Line(p, e).worked + settled[p][e] + act[k].hours <= peak[e][p]
        /\ act[k].hours \in Nat
    BY <1>1, <1>4, <2>1 DEF ActsOK
  <2>3. Submitted(p)' /\ Line(p, e)' = Line(p, e)
    BY <1>2, <2>2
  <2>4. Submitted(act[k].period)' = Submitted(p)' /\ Line(act[k].period, act[k].emp)' = Line(p, e)'
    BY <2>1
  <2> QED BY <2>1, <2>2, <2>3, <2>4
<1> QED BY <1>1, <1>3, <1>4 DEF ActsOK

(* A delivery puts the payload on file where the reference points, and      *)
(* leaves every other reference right.                                      *)
LEMMA Delivered ==
  ASSUME PrInv, NEW e \in Employee, tx.pc # "idle",
         people' = people \/ people' = PeopleAfter(e),
         UNCHANGED vault
  PROVE  /\ \E S : people' \in Seq(S)
         /\ \A x \in Employee : \A r : RefOK(r, x) => RefOK(r, x)'
         /\ people' = PeopleAfter(e) =>
              /\ tx.refs[e] = NoRef => Len(people') = Len(people) + 1
                                         /\ people'[Len(people) + 1] = [emp |-> e, version |-> vault[e]]
              /\ tx.refs[e] # NoRef => tx.refs[e].id \in 1..Len(people')
                                         /\ people'[tx.refs[e].id] = [emp |-> e, version |-> vault[e]]
<1> DEFINE c == [emp |-> e, version |-> vault[e]]
           t == tx.refs[e]
<1>1. PICK S : people \in Seq(S)
  BY DEF PrInv, RefsOK
<1>2. RefOK(t, e) /\ vault[e] \in Nat /\ c.emp = e /\ c.version = vault[e]
  BY DEF PrInv, RefsOK, LedgersOK
<1>3. CASE people' = people /\ people' # PeopleAfter(e)
  BY <1>1, <1>3 DEF RefOK
<1>4. CASE people' = PeopleAfter(e) /\ t = NoRef
  <2>1. people' = Append(people, c)
    BY <1>4 DEF PeopleAfter, _build_payroll_employee
  <2> HIDE DEF c, t
  <2>2. /\ people' \in Seq(S \cup {c}) /\ Len(people) \in Nat
        /\ Len(people') = Len(people) + 1
        /\ \A i \in 1..Len(people) : people'[i] = people[i]
        /\ people'[Len(people) + 1] = c
    BY <1>1, <2>1, Appended
  <2>3. ASSUME NEW x \in Employee, NEW r, RefOK(r, x)
        PROVE  RefOK(r, x)'
    <3>1. CASE r = NoRef
      BY <3>1 DEF RefOK
    <3>2. CASE r # NoRef
      <4>1. r.id \in 1..Len(people) /\ r.id \in 1..Len(people') /\ people'[r.id] = people[r.id]
        BY <2>2, <2>3, <3>2 DEF RefOK
      <4> QED BY <2>3, <3>2, <4>1 DEF RefOK
    <3> QED BY <3>1, <3>2
  <2> QED BY <1>4, <2>2, <2>3 DEF c, t
<1>5. CASE people' = PeopleAfter(e) /\ t # NoRef
  <2>1. people' = [people EXCEPT ![t.id] = c]
    BY <1>5 DEF PeopleAfter, _build_payroll_employee
  <2>2. t.id \in 1..Len(people) /\ people[t.id].emp = e
    BY <1>2, <1>5 DEF RefOK
  <2> HIDE DEF c, t
  <2>3. /\ people' \in Seq(S \cup {c})
        /\ Len(people') = Len(people)
        /\ \A j \in 1..Len(people) : people'[j] = IF j = t.id THEN c ELSE people[j]
    BY <1>1, <2>1, <2>2, Replaced
  <2>4. ASSUME NEW x \in Employee, NEW r, RefOK(r, x)
        PROVE  RefOK(r, x)'
    <3>1. CASE r = NoRef
      BY <3>1 DEF RefOK
    <3>2. CASE r # NoRef /\ r.id # t.id
      <4>1. r.id \in 1..Len(people') /\ people'[r.id] = people[r.id]
        BY <2>3, <2>4, <3>2 DEF RefOK
      <4> QED BY <2>4, <3>2, <4>1 DEF RefOK
    <3>3. CASE r # NoRef /\ r.id = t.id
      <4>1. r.id \in 1..Len(people') /\ people'[r.id] = c /\ x = e
        BY <2>2, <2>3, <2>4, <3>3 DEF RefOK
      <4> QED BY <1>2, <2>4, <3>3, <4>1 DEF RefOK
    <3> QED BY <3>1, <3>2, <3>3
  <2> QED BY <1>5, <2>2, <2>3, <2>4 DEF c, t
<1> QED BY <1>3, <1>4, <1>5

Sent(p) == {i \in DOMAIN payrolls : payrolls[i].period = p}
Held(p) == Submitted(p) \/ (tx.pc = "submitted" /\ tx.period = p)

(* The accounts stand when neither the payrolls nor what is held changes. *)
LEMMA AccountsKept ==
  ASSUME PrInv, UNCHANGED <<payrolls, lost>>,
         \A p \in Period : Held(p)' = Held(p),
         \A p \in Period : Submitted(p)' => Submitted(p) /\ run'[p].remote = run[p].remote
                                              /\ run'[p].lines = run[p].lines
  PROVE  PayrollsAccounted'
BY DEF PrInv, PayrollsAccounted, Held

(* One payroll more, of one period. *)
LEMMA SentGrows ==
  ASSUME RunsOK, NEW x, NEW p \in Period, x.period = p, payrolls' = Append(payrolls, x)
  PROVE  /\ \E S : payrolls' \in Seq(S)
         /\ Len(payrolls) \in Nat /\ Len(payrolls') = Len(payrolls) + 1
         /\ DOMAIN payrolls' = DOMAIN payrolls \cup {Len(payrolls')}
         /\ \A i \in DOMAIN payrolls : payrolls'[i] = payrolls[i]
         /\ payrolls'[Len(payrolls')] = x
         /\ \A q \in Period : Cardinality(Sent(q)') = Cardinality(Sent(q)) + (IF q = p THEN 1 ELSE 0)
<1>1. PICK S : payrolls \in Seq(S)
  BY DEF RunsOK
<1>2. /\ payrolls' \in Seq(S \cup {x})
      /\ Len(payrolls) \in Nat /\ DOMAIN payrolls = 1..Len(payrolls)
      /\ Len(payrolls') = Len(payrolls) + 1 /\ DOMAIN payrolls' = 1..(Len(payrolls) + 1)
      /\ \A i \in 1..Len(payrolls) : payrolls'[i] = payrolls[i]
      /\ payrolls'[Len(payrolls) + 1] = x
  BY <1>1, Appended
<1>3. PICK n \in Nat : n = Len(payrolls)
  BY <1>2
<1>4. DOMAIN payrolls' = DOMAIN payrolls \cup {Len(payrolls')}
  BY <1>2
<1>5. ASSUME NEW q \in Period
      PROVE  Cardinality(Sent(q)') = Cardinality(Sent(q)) + (IF q = p THEN 1 ELSE 0)
  <2>1. IsFiniteSet(Sent(q))
    <3>1. IsFiniteSet(1..n)
      BY FS_Interval
    <3>2. Sent(q) \subseteq 1..n
      BY <1>2, <1>3 DEF Sent
    <3> QED BY <3>1, <3>2, FS_Subset
  <2>2. n + 1 \notin Sent(q)
    BY <1>2, <1>3 DEF Sent
  <2>3. Cardinality(Sent(q)) \in Nat
    BY <2>1, FS_CardinalityType
  <2>4. CASE q = p
    <3>1. Sent(q)' = Sent(q) \cup {n + 1}
      BY <1>2, <1>3, <2>4 DEF Sent
    <3> QED BY <2>1, <2>2, <2>4, <3>1, FS_AddElement, ZenonT(40)
  <2>5. CASE q # p
    <3>1. Sent(q)' = Sent(q)
      BY <1>2, <1>3, <2>5 DEF Sent
    <3> QED BY <2>3, <2>5, <3>1
  <2> QED BY <2>4, <2>5
<1> QED BY <1>2, <1>4, <1>5

(* The ledgers stand. *)
LEMMA LedgersKept ==
  ASSUME PrInv, UNCHANGED <<card, peak, sick, vault, settled>>
  PROVE  LedgersOK'
BY DEF PrInv, LedgersOK, Worked

(* The lines of a run are the hours of its employees. *)
LEMMA EntriesOK ==
  ASSUME PrInv, NEW p \in Period
  PROVE  LinesOK(Entries(p))
<1>1. \A e \in Employee : Worked(e, p) \in Nat /\ sick[e][p] \in Nat
  BY CardSums DEF PrInv, LedgersOK
<1> QED BY <1>1 DEF LinesOK, Entries

(* A run begins, syncs an employee, or goes on to submit. *)
LEMMA SyncStep ==
  ASSUME PrInv,
         \/ \E p \in Period : create_run(p)
         \/ \E e \in Employee : sync_employees(e)
  PROVE  PrInv'
<1> USE DEF cards, remote
<1>1. /\ UNCHANGED <<card, peak, sick, vault, ref, run, settled, payrolls, lost, act>>
      /\ tx.pc \in {"idle", "sync"}
  <2>1. CASE \E p \in Period : create_run(p)
    BY <2>1 DEF create_run, Idle
  <2>2. CASE \E e \in Employee : sync_employees(e)
    BY <2>2 DEF sync_employees
  <2> QED BY <2>1, <2>2
<1>2. LedgersOK' /\ ActsOK' /\ SettledWasOwed' /\ RunsOK'
  <2>1. RunsOK'
    BY <1>1 DEF PrInv, RunsOK, LinesOK
  <2>2. ActsOK' /\ SettledWasOwed'
    BY <1>1, LinesStay DEF Submitted
  <2> QED BY <1>1, <2>1, <2>2, LedgersKept
<1>3. ASSUME NEW p \in Period, create_run(p)
      PROVE  PrInv'
  <2> DEFINE k == [pc |-> "sync", period |-> p, report |-> Entries(p),
                   todo |-> DOMAIN Entries(p), refs |-> ref]
  <2>1. tx' = k /\ people' = people /\ ~Submitted(p)
    BY <1>3 DEF create_run, Replaceable, Submitted
  <2>2. /\ k.pc = "sync" /\ k.period = p /\ k.report = Entries(p) /\ k.refs = ref
        /\ DOMAIN k = {"pc", "period", "report", "todo", "refs"}
    OBVIOUS
  <2> HIDE DEF k
  <2>3. TxOK'
    <3>1. PICK l : l = Entries(p)
      OBVIOUS
    <3>2. LinesOK(l)
      BY <3>1, EntriesOK
    <3>3. tx'.report = l /\ ~Submitted(p)'
      BY <1>1, <2>1, <2>2, <3>1 DEF Submitted
    <3> QED BY <2>1, <2>2, <3>2, <3>3 DEF TxOK, LinesOK
  <2>4. RefsOK'
    BY <1>1, <2>1, <2>2 DEF PrInv, RefsOK, RefOK
  <2>5. PayrollsAccounted'
    BY <1>1, <2>1, <2>2, AccountsKept DEF Held, Submitted
  <2> QED BY <1>2, <2>3, <2>4, <2>5 DEF PrInv
<1>4. ASSUME NEW e \in Employee, sync_employees(e)
      PROVE  PrInv'
  <2> DEFINE t == tx.refs[e]
             x == [id |-> IF t.id = 0 THEN Len(people) + 1 ELSE t.id, fp |-> vault[e]]
             k == [tx EXCEPT !.todo = @ \ {e}, !.refs[e] = x]
  <2>1. tx.pc = "sync" /\ tx' = k
        /\ people' = IF provider_payload_stale(e) THEN PeopleAfter(e) ELSE people
    BY <1>4 DEF sync_employees
  <2>2. DOMAIN tx.refs = Employee /\ (\A y \in Employee : RefOK(tx.refs[y], y))
        /\ DOMAIN tx = {"pc", "period", "report", "todo", "refs"}
    BY <2>1 DEF PrInv, RefsOK, TxOK
  <2>3. /\ k.pc = "sync" /\ k.period = tx.period /\ k.report = tx.report
        /\ DOMAIN k = {"pc", "period", "report", "todo", "refs"}
        /\ k.refs = [tx.refs EXCEPT ![e] = x]
    BY <2>1, <2>2
  <2>4. x.fp = vault[e] /\ x.id = IF t.id = 0 THEN Len(people) + 1 ELSE t.id
    OBVIOUS
  <2> HIDE DEF k, x
  <2>5. DOMAIN k.refs = Employee /\ k.refs[e] = x
        /\ \A y \in Employee \ {e} : k.refs[y] = tx.refs[y]
    BY <2>2, <2>3
  <2>6. /\ \E S : people' \in Seq(S)
        /\ \A y \in Employee : \A r : RefOK(r, y) => RefOK(r, y)'
        /\ people' = PeopleAfter(e) =>
              /\ tx.refs[e] = NoRef => Len(people') = Len(people) + 1
                                         /\ people'[Len(people) + 1] = [emp |-> e, version |-> vault[e]]
              /\ tx.refs[e] # NoRef => tx.refs[e].id \in 1..Len(people')
                                         /\ people'[tx.refs[e].id] = [emp |-> e, version |-> vault[e]]
    BY <1>1, <2>1, Delivered
  <2>7. \/ people' = PeopleAfter(e)
        \/ people' = people /\ t # NoRef /\ t.fp = vault[e]
    BY <2>1 DEF provider_payload_stale
  <2>8. vault[e] \in Nat /\ Len(people) \in Nat /\ RefOK(t, e)
    BY <2>2 DEF PrInv, LedgersOK, RefsOK
  <2>9. /\ x.id \in 1..Len(people')
        /\ people'[x.id].emp = e
        /\ people'[x.id].version = vault[e]
    <3>1. CASE t = NoRef
      BY <2>4, <2>6, <2>7, <2>8, <3>1 DEF NoRef
    <3>2. CASE t # NoRef
      <4>1. t.id # 0 /\ x.id = t.id
        BY <2>4, <2>8, <3>2 DEF RefOK
      <4> QED BY <2>6, <2>7, <2>8, <3>2, <4>1 DEF RefOK
    <3> QED BY <3>1, <3>2
  <2>10. RefsOK'
    <3>1. PICK y : y = x
      OBVIOUS
    <3>2. RefOK(y, e)'
      BY <1>1, <2>4, <2>8, <2>9, <3>1 DEF RefOK
    <3>3. \A z \in Employee : RefOK(tx.refs[z], z)'
      <4> SUFFICES ASSUME NEW z \in Employee PROVE RefOK(tx.refs[z], z)'
        OBVIOUS
      <4>1. CASE z = e
        BY <2>1, <2>5, <3>1, <3>2, <4>1
      <4>2. CASE z # e
        <5>1. PICK w : w = tx.refs[z]
          OBVIOUS
        <5>2. RefOK(w, z)'
          BY <2>2, <2>6, <5>1
        <5>3. tx'.refs[z] = w
          BY <2>1, <2>5, <4>2, <5>1
        <5> QED BY <5>2, <5>3
      <4> QED BY <4>1, <4>2
    <3>4. \A z \in Employee : RefOK(ref[z], z)'
      <4> SUFFICES ASSUME NEW z \in Employee PROVE RefOK(ref[z], z)'
        OBVIOUS
      <4>1. PICK w : w = ref[z]
        OBVIOUS
      <4>2. RefOK(w, z)'
        BY <2>6, <4>1 DEF PrInv, RefsOK
      <4> QED BY <1>1, <4>1, <4>2
    <3> QED BY <1>1, <2>1, <2>5, <2>6, <3>3, <3>4 DEF PrInv, RefsOK
  <2>11. TxOK'
    BY <1>1, <2>1, <2>3 DEF PrInv, TxOK, LinesOK, Submitted
  <2>12. PayrollsAccounted'
    BY <1>1, <2>1, <2>3, AccountsKept DEF Held, Submitted
  <2> QED BY <1>2, <2>10, <2>11, <2>12 DEF PrInv
<1> QED BY <1>3, <1>4

(* The run is over without a line: failed, with the references made on the  *)
(* way, or rolled back; what was booked unnoticed is lost.                  *)
LEMMA Closes ==
  ASSUME PrInv, tx.pc # "idle",
         UNCHANGED <<card, peak, sick, vault, settled, act>>,
         \E S : people' \in Seq(S),
         \A x \in Employee : \A r : RefOK(r, x) => RefOK(r, x)',
         tx' = Idle,
         \/ run' = [run EXCEPT ![tx.period] = FailedRun] /\ ref' = tx.refs
         \/ UNCHANGED <<run, ref>>,
         RunsOK', PayrollsAccounted'
  PROVE  PrInv'
<1>1. tx.period \in Period /\ ~Submitted(tx.period) /\ DOMAIN run = Period /\ tx'.pc = "idle"
  BY DEF PrInv, TxOK, RunsOK, Idle
<1>2. \A p \in Period : Submitted(p) => Submitted(p)' /\ run'[p].lines = run[p].lines
  BY <1>1 DEF Submitted
<1>3. ActsOK' /\ SettledWasOwed' /\ LedgersOK'
  BY <1>2, LinesStay, LedgersKept
<1>4. TxOK'
  BY <1>1 DEF TxOK
<1>5. RefsOK'
  <2>1. DOMAIN ref' = Employee
    BY DEF PrInv, RefsOK
  <2>2. ASSUME NEW z \in Employee PROVE RefOK(ref[z], z)'
    <3>1. PICK w : w = ref'[z]
      OBVIOUS
    <3>2. RefOK(w, z)
      BY <3>1 DEF PrInv, RefsOK
    <3>3. RefOK(w, z)'
      BY <3>2
    <3> QED BY <3>1, <3>3
  <2> QED BY <1>1, <2>1, <2>2 DEF RefsOK
<1> QED BY <1>3, <1>4, <1>5 DEF PrInv

(* The tables of the runs after such an end. *)
LEMMA FailedRuns ==
  ASSUME PrInv, tx.pc # "idle",
         \/ run' = [run EXCEPT ![tx.period] = FailedRun]
         \/ UNCHANGED run,
         \E S : payrolls' \in Seq(S),
         Len(payrolls) <= Len(payrolls'),
         \A i \in DOMAIN payrolls' : DOMAIN payrolls'[i] = {"period", "entries", "gross"},
         lost' \in [Period -> Nat]
  PROVE  RunsOK'
<1>1. tx.period \in Period /\ DOMAIN run = Period
  BY DEF PrInv, TxOK, RunsOK
<1>2. /\ DOMAIN FailedRun = RunFields /\ FailedRun.status = "failed" /\ FailedRun.remote = 0
      /\ DOMAIN FailedRun.lines = {}
  BY DEF FailedRun, NoRun, RunFields
<1>3. Len(payrolls) \in Nat /\ Len(payrolls') \in Nat
  BY DEF PrInv, RunsOK
<1>4. ASSUME NEW p \in Period
      PROVE  /\ DOMAIN run'[p] = RunFields
             /\ run'[p].status \in {"none", "failed", "submitted", "processed"}
             /\ run'[p].remote \in 0..Len(payrolls')
             /\ LinesOK(run[p].lines)'
  <2>1. run'[p] = run[p] \/ run'[p] = FailedRun
    BY <1>1
  <2>2. CASE run'[p] = run[p]
    BY <1>3, <2>2 DEF PrInv, RunsOK, LinesOK
  <2>3. CASE run'[p] = FailedRun
    BY <1>2, <1>3, <2>3 DEF LinesOK
  <2> QED BY <2>1, <2>2, <2>3
<1> QED BY <1>1, <1>4 DEF RunsOK

(* The second assembly goes on to submit. *)
LEMMA RecheckPasses ==
  ASSUME PrInv, tx.pc = "sync",
         tx' = [pc |-> "submit", period |-> tx.period, report |-> tx.report, refs |-> tx.refs],
         UNCHANGED <<card, peak, sick, vault, ref, run, settled, people, payrolls, lost, act>>
  PROVE  PrInv'
<1>1. /\ tx'.pc = "submit" /\ tx'.period = tx.period /\ tx'.report = tx.report
      /\ tx'.refs = tx.refs
  OBVIOUS
<1>2. RunsOK' /\ TxOK' /\ RefsOK'
  <2>1. RunsOK'
    BY DEF PrInv, RunsOK, LinesOK
  <2>2. TxOK'
    BY <1>1 DEF PrInv, TxOK, LinesOK, Submitted
  <2>3. RefsOK'
    BY <1>1 DEF PrInv, RefsOK, RefOK
  <2> QED BY <2>1, <2>2, <2>3
<1>3. ActsOK' /\ SettledWasOwed'
  BY LinesStay DEF Submitted
<1>4. PayrollsAccounted'
  BY <1>1, AccountsKept DEF Held, Submitted
<1> QED BY <1>2, <1>3, <1>4, LedgersKept DEF PrInv

(* A run that fails or is rolled back before anything is booked. *)
LEMMA EndsUnbooked ==
  ASSUME PrInv, tx.pc \in {"sync", "submit"},
         UNCHANGED <<card, peak, sick, vault, settled, payrolls, lost, act>>,
         \E S : people' \in Seq(S),
         \A x \in Employee : \A r : RefOK(r, x) => RefOK(r, x)',
         Fail \/ RollBack
  PROVE  PrInv'
<1>1. /\ tx' = Idle
      /\ \/ run' = [run EXCEPT ![tx.period] = FailedRun] /\ ref' = tx.refs
         \/ UNCHANGED <<run, ref>>
  BY DEF Fail, RollBack
<1>2. tx.period \in Period /\ ~Submitted(tx.period) /\ DOMAIN run = Period /\ tx'.pc = "idle"
  BY <1>1 DEF PrInv, TxOK, RunsOK, Idle
<1>3. FailedRun.status = "failed"
  BY DEF FailedRun, NoRun
<1>4. RunsOK'
  BY <1>1, FailedRuns DEF PrInv, RunsOK
<1>5. /\ \A p \in Period : Held(p)' = Held(p)
      /\ \A p \in Period : Submitted(p)' => Submitted(p) /\ run'[p].remote = run[p].remote
                                              /\ run'[p].lines = run[p].lines
  BY <1>1, <1>2, <1>3 DEF Held, Submitted
<1>6. PayrollsAccounted'
  BY <1>5, AccountsKept
<1> QED BY <1>1, <1>4, <1>6, Closes

(* The provider refuses to sync, or the second assembly differs. *)
LEMMA BlockedStep ==
  ASSUME PrInv,
         \/ \E e \in Employee, acted \in BOOLEAN : SyncFails(e, acted)
         \/ \E drift \in BOOLEAN : Recheck(drift)
  PROVE  PrInv'
<1> USE DEF cards, remote
<1>1. ASSUME NEW e \in Employee, NEW acted \in BOOLEAN, SyncFails(e, acted)
      PROVE  PrInv'
  <2>1. /\ tx.pc = "sync"
        /\ people' = people \/ people' = PeopleAfter(e)
        /\ Fail \/ RollBack
        /\ UNCHANGED <<card, peak, sick, vault, settled, payrolls, lost, act>>
    BY <1>1 DEF SyncFails, UpdateRefused
  <2>2. /\ \E S : people' \in Seq(S)
        /\ \A x \in Employee : \A r : RefOK(r, x) => RefOK(r, x)'
    BY <2>1, Delivered
  <2> QED BY <2>1, <2>2, EndsUnbooked
<1>2. ASSUME NEW drift \in BOOLEAN, Recheck(drift)
      PROVE  PrInv'
  <2>1. /\ tx.pc = "sync"
        /\ UNCHANGED <<card, peak, sick, vault, settled, people, payrolls, lost, act>>
    BY <1>2 DEF Recheck
  <2>2. /\ \E S : people' \in Seq(S)
        /\ \A x \in Employee : \A r : RefOK(r, x) => RefOK(r, x)'
    BY <2>1 DEF PrInv, RefsOK, RefOK
  <2>3. CASE Fail
    BY <2>1, <2>2, <2>3, EndsUnbooked
  <2>4. CASE ~Fail
    BY <1>2, <2>1, <2>4, RecheckPasses DEF Recheck
  <2> QED BY <2>3, <2>4
<1> QED BY <1>1, <1>2

(* The payroll is booked: one more for the period of the run. *)
LEMMA BookedOnce ==
  ASSUME PrInv, tx.pc = "submit", payrolls' = Booked
  PROVE  /\ \E S : payrolls' \in Seq(S)
         /\ Len(payrolls) \in Nat /\ Len(payrolls') = Len(payrolls) + 1
         /\ DOMAIN payrolls' = DOMAIN payrolls \cup {Len(payrolls')}
         /\ \A i \in DOMAIN payrolls : payrolls'[i] = payrolls[i]
         /\ payrolls'[Len(payrolls')].period = tx.period
         /\ payrolls'[Len(payrolls')].entries = tx.report
         /\ payrolls'[Len(payrolls')].gross = <<>>
         /\ \A i \in DOMAIN payrolls' : DOMAIN payrolls'[i] = {"period", "entries", "gross"}
         /\ \A q \in Period : Cardinality(Sent(q)') =
                                Cardinality(Sent(q)) + (IF q = tx.period THEN 1 ELSE 0)
<1> DEFINE x == [period |-> tx.period, entries |-> tx.report, gross |-> <<>>]
<1>1. /\ x.period = tx.period /\ x.entries = tx.report /\ x.gross = <<>> /\ DOMAIN x = {"period", "entries", "gross"}
      /\ payrolls' = Append(payrolls, x)
  BY DEF Booked
<1>2. PICK p \in Period : p = tx.period
  BY DEF PrInv, TxOK
<1> HIDE DEF x
<1>3. RunsOK
  BY DEF PrInv
<1>4. /\ \E S : payrolls' \in Seq(S)
      /\ Len(payrolls) \in Nat /\ Len(payrolls') = Len(payrolls) + 1
      /\ DOMAIN payrolls' = DOMAIN payrolls \cup {Len(payrolls')}
      /\ \A i \in DOMAIN payrolls : payrolls'[i] = payrolls[i]
      /\ payrolls'[Len(payrolls')] = x
      /\ \A q \in Period : Cardinality(Sent(q)') = Cardinality(Sent(q)) + (IF q = p THEN 1 ELSE 0)
  BY <1>1, <1>2, <1>3, SentGrows
<1> QED BY <1>1, <1>2, <1>3, <1>4 DEF RunsOK

(* The run is submitted, or its submission fails one way or the other. *)
LEMMA SubmitStep ==
  ASSUME PrInv, submit_pay_run \/ \E acted \in BOOLEAN : SubmitFails(acted)
  PROVE  PrInv'
<1> USE DEF cards, remote
<1>1. /\ tx.pc = "submit"
      /\ UNCHANGED <<card, peak, sick, vault, settled, people, act>>
  BY DEF submit_pay_run, SubmitFails
<1>2. /\ \E S : people' \in Seq(S)
      /\ \A x \in Employee : \A r : RefOK(r, x) => RefOK(r, x)'
  BY <1>1 DEF PrInv, RefsOK, RefOK
<1>3. PICK p \in Period : p = tx.period
  BY <1>1 DEF PrInv, TxOK
<1>4. ~Submitted(p) /\ DOMAIN run = Period /\ lost \in [Period -> Nat] /\ LinesOK(tx.report)
  BY <1>1, <1>3 DEF PrInv, TxOK, RunsOK
<1>5. /\ \A q \in Period : Cardinality(Sent(q)) = lost[q] + (IF Submitted(q) THEN 1 ELSE 0)
      /\ \A q \in Period : Submitted(q) => /\ run[q].remote \in Sent(q)
                                           /\ payrolls[run[q].remote].entries = run[q].lines
  BY <1>1 DEF PrInv, PayrollsAccounted, Sent
<1>6. CASE submit_pay_run
  <2>1. /\ payrolls' = Booked /\ UNCHANGED <<ref, run, lost>>
        /\ tx'.pc = "submitted" /\ tx'.period = p /\ tx'.report = tx.report /\ tx'.refs = tx.refs
        /\ tx'.remote = Len(payrolls) + 1
    BY <1>3, <1>6 DEF submit_pay_run
  <2>2. /\ \E S : payrolls' \in Seq(S)
        /\ Len(payrolls) \in Nat /\ Len(payrolls') = Len(payrolls) + 1
        /\ DOMAIN payrolls' = DOMAIN payrolls \cup {Len(payrolls')}
        /\ \A i \in DOMAIN payrolls : payrolls'[i] = payrolls[i]
        /\ payrolls'[Len(payrolls')].period = p
        /\ payrolls'[Len(payrolls')].entries = tx.report
        /\ \A i \in DOMAIN payrolls' : DOMAIN payrolls'[i] = {"period", "entries", "gross"}
        /\ \A q \in Period : Cardinality(Sent(q)') = Cardinality(Sent(q)) + (IF q = p THEN 1 ELSE 0)
    BY <1>1, <1>3, <2>1, BookedOnce
  <2>3. RunsOK'
    <3>1. \A q \in Period : run'[q].remote \in 0..Len(payrolls')
      BY <2>1, <2>2 DEF PrInv, RunsOK
    <3> QED BY <2>1, <2>2, <3>1 DEF PrInv, RunsOK, LinesOK
  <2>4. TxOK'
    BY <1>3, <1>4, <2>1, <2>2 DEF TxOK, LinesOK, Submitted
  <2>5. RefsOK'
    BY <1>1, <2>1 DEF PrInv, RefsOK, RefOK
  <2>6. PayrollsAccounted'
    <3> SUFFICES ASSUME NEW q \in Period
                 PROVE  /\ Cardinality(Sent(q)') = lost[q] + (IF Held(q)' THEN 1 ELSE 0)
                        /\ Submitted(q) => /\ run[q].remote \in Sent(q)'
                                           /\ payrolls'[run[q].remote].entries = run[q].lines
      BY <2>1 DEF PayrollsAccounted, Sent, Held, Submitted
    <3>1. Held(q)' <=> Submitted(q) \/ q = p
      BY <2>1 DEF Held, Submitted
    <3>2. Cardinality(Sent(q)') = lost[q] + (IF Held(q)' THEN 1 ELSE 0)
      <4>1. lost[q] \in Nat
        BY <1>4
      <4>2. CASE q = p
        <5>1. Cardinality(Sent(q)) = lost[q] /\ Held(q)'
          BY <1>4, <1>5, <3>1, <4>1, <4>2
        <5> QED BY <2>2, <4>2, <5>1
      <4>3. CASE q # p
        <5>1. Cardinality(Sent(q)') = Cardinality(Sent(q)) /\ (Held(q)' <=> Submitted(q))
          BY <1>5, <2>2, <3>1, <4>1, <4>3
        <5> QED BY <1>5, <5>1
      <4> QED BY <4>2, <4>3
    <3>3. Submitted(q) => run[q].remote \in Sent(q)' /\ payrolls'[run[q].remote].entries = run[q].lines
      BY <1>5, <2>2 DEF Sent
    <3> QED BY <3>2, <3>3
  <2>7. ActsOK' /\ SettledWasOwed'
    BY <1>1, <2>1, LinesStay DEF Submitted
  <2> QED BY <1>1, <2>3, <2>4, <2>5, <2>6, <2>7, LedgersKept DEF PrInv
<1>7. ASSUME SubmitFails(FALSE) PROVE PrInv'
  <2>1. UNCHANGED <<payrolls, lost>> /\ Fail
    BY <1>7 DEF SubmitFails
  <2> QED BY <1>1, <1>2, <2>1, EndsUnbooked
<1>8. ASSUME SubmitFails(TRUE) PROVE PrInv'
  <2>1. /\ payrolls' = Booked /\ lost' = [lost EXCEPT ![p] = lost[p] + 1]
        /\ run' = [run EXCEPT ![p] = FailedRun] /\ ref' = tx.refs /\ tx' = Idle
    BY <1>3, <1>8 DEF SubmitFails, Fail
  <2>2. /\ \E S : payrolls' \in Seq(S)
        /\ Len(payrolls) \in Nat /\ Len(payrolls') = Len(payrolls) + 1
        /\ DOMAIN payrolls' = DOMAIN payrolls \cup {Len(payrolls')}
        /\ \A i \in DOMAIN payrolls : payrolls'[i] = payrolls[i]
        /\ \A i \in DOMAIN payrolls' : DOMAIN payrolls'[i] = {"period", "entries", "gross"}
        /\ \A q \in Period : Cardinality(Sent(q)') = Cardinality(Sent(q)) + (IF q = p THEN 1 ELSE 0)
    BY <1>1, <1>3, <2>1, BookedOnce
  <2>3. lost' \in [Period -> Nat] /\ \A q \in Period : lost'[q] = lost[q] + (IF q = p THEN 1 ELSE 0)
    BY <1>4, <2>1
  <2>4. RunsOK'
    BY <1>1, <1>3, <2>1, <2>2, <2>3, FailedRuns
  <2>5. /\ FailedRun.status = "failed" /\ tx'.pc = "idle"
        /\ \A q \in Period : run'[q] = IF q = p THEN FailedRun ELSE run[q]
    BY <1>4, <2>1 DEF FailedRun, NoRun, Idle
  <2>6. \A q \in Period : Submitted(q)' = Submitted(q) /\ (Submitted(q) => run'[q] = run[q])
    BY <1>4, <2>5 DEF Submitted
  <2>7. PayrollsAccounted'
    <3> SUFFICES ASSUME NEW q \in Period
                 PROVE  /\ Cardinality(Sent(q)') = lost'[q] + (IF Submitted(q) THEN 1 ELSE 0)
                        /\ Submitted(q) => /\ run[q].remote \in Sent(q)'
                                           /\ payrolls'[run[q].remote].entries = run[q].lines
      BY <2>5, <2>6 DEF PayrollsAccounted, Sent
    <3>1. lost[q] \in Nat
      BY <1>4
    <3>2. Cardinality(Sent(q)') = lost'[q] + (IF Submitted(q) THEN 1 ELSE 0)
      BY <1>5, <2>2, <2>3, <3>1
    <3>3. Submitted(q) => run[q].remote \in Sent(q)' /\ payrolls'[run[q].remote].entries = run[q].lines
      BY <1>5, <2>2 DEF Sent
    <3> QED BY <3>2, <3>3
  <2> QED BY <1>1, <1>2, <1>3, <2>1, <2>4, <2>7, Closes
<1> QED BY <1>6, <1>7, <1>8

(* The answer becomes the run's row, or the process dies before it does. *)
LEMMA CommitStep ==
  ASSUME PrInv, SubmitCommit \/ Crash
  PROVE  PrInv'
<1> USE DEF cards, remote
<1>1. UNCHANGED <<card, peak, sick, vault, settled, people, payrolls, act>>
      /\ tx' = Idle /\ tx'.pc = "idle"
  BY DEF SubmitCommit, Crash, RollBack, Idle
<1>2. /\ \E S : people' \in Seq(S)
      /\ \A x \in Employee : \A r : RefOK(r, x) => RefOK(r, x)'
  BY <1>1 DEF PrInv, RefsOK, RefOK
<1>3. /\ \A q \in Period : Cardinality(Sent(q)) = lost[q] + (IF Held(q) THEN 1 ELSE 0)
      /\ \A q \in Period : Submitted(q) => /\ run[q].remote \in Sent(q)
                                           /\ payrolls[run[q].remote].entries = run[q].lines
  BY DEF PrInv, PayrollsAccounted, Sent, Held
<1>4. Len(payrolls) \in Nat /\ DOMAIN payrolls = 1..Len(payrolls)
  BY DEF PrInv, RunsOK
<1>5. CASE SubmitCommit
  <2> DEFINE row == [status |-> "submitted", remote |-> tx.remote, lines |-> tx.report,
                     census |-> Census(tx.period, tx.report)]
  <2>1. PICK p \in Period : p = tx.period
    BY <1>5 DEF PrInv, TxOK, SubmitCommit
  <2>2. /\ tx.pc = "submitted" /\ ~Submitted(p) /\ LinesOK(tx.report)
        /\ tx.remote \in DOMAIN payrolls /\ payrolls[tx.remote].period = p
        /\ payrolls[tx.remote].entries = tx.report
    BY <1>5, <2>1 DEF SubmitCommit, PrInv, TxOK
  <2>3. /\ run' = [run EXCEPT ![p] = row]
        /\ ref' = tx.refs /\ lost' = lost
    BY <1>5, <2>1 DEF SubmitCommit
  <2>4. /\ row.status = "submitted" /\ row.remote = tx.remote /\ row.lines = tx.report
        /\ DOMAIN row = RunFields
    BY DEF RunFields
  <2> HIDE DEF row
  <2>5. DOMAIN run' = Period /\ \A q \in Period : run'[q] = IF q = p THEN row ELSE run[q]
    BY <2>3 DEF PrInv, RunsOK
  <2>6. RunsOK'
    <3>1. ASSUME NEW q \in Period
          PROVE  /\ DOMAIN run'[q] = RunFields
                 /\ run'[q].status \in {"none", "failed", "submitted", "processed"}
                 /\ run'[q].remote \in 0..Len(payrolls)
                 /\ LinesOK(run[q].lines)'
      <4>1. CASE q = p
        BY <1>4, <2>2, <2>4, <2>5, <4>1 DEF LinesOK
      <4>2. CASE q # p
        BY <2>5, <4>2 DEF PrInv, RunsOK, LinesOK
      <4> QED BY <4>1, <4>2
    <3> QED BY <1>1, <2>3, <2>5, <3>1 DEF PrInv, RunsOK
  <2>7. \A q \in Period : /\ Submitted(q)' <=> Submitted(q) \/ q = p
                          /\ q # p => run'[q] = run[q]
    BY <2>4, <2>5 DEF Submitted
  <2>8. \A q \in Period : Held(q) <=> Submitted(q)'
    BY <2>1, <2>2, <2>7 DEF Held
  <2>9. PayrollsAccounted'
    <3> SUFFICES ASSUME NEW q \in Period
                 PROVE  /\ Cardinality(Sent(q)) = lost[q] + (IF Submitted(q)' THEN 1 ELSE 0)
                        /\ Submitted(q)' => /\ run'[q].remote \in Sent(q)
                                            /\ payrolls[run'[q].remote].entries = run'[q].lines
      BY <1>1, <2>3 DEF PayrollsAccounted, Sent
    <3>1. Cardinality(Sent(q)) = lost[q] + (IF Submitted(q)' THEN 1 ELSE 0)
      BY <1>3, <2>8
    <3>2. CASE q = p
      BY <2>2, <2>4, <2>5, <3>1, <3>2 DEF Sent
    <3>3. CASE q # p
      BY <1>3, <2>7, <3>1, <3>3
    <3> QED BY <3>2, <3>3
  <2>10. \A q \in Period : Submitted(q) => Submitted(q)' /\ run'[q].lines = run[q].lines
    BY <2>2, <2>7
  <2>11. ActsOK' /\ SettledWasOwed' /\ LedgersOK'
    BY <1>1, <2>10, LinesStay, LedgersKept
  <2>12. TxOK'
    BY <1>1 DEF TxOK
  <2>13. RefsOK'
    <3>1. tx.pc # "idle"
      BY <2>2
    <3> QED BY <1>1, <2>3, <3>1 DEF PrInv, RefsOK, RefOK
  <2> QED BY <2>6, <2>9, <2>11, <2>12, <2>13 DEF PrInv
<1>6. CASE Crash /\ tx.pc = "submitted"
  <2>1. PICK p \in Period : p = tx.period
    BY <1>6 DEF PrInv, TxOK
  <2>2. UNCHANGED <<run, ref>> /\ lost' = [lost EXCEPT ![p] = lost[p] + 1]
    BY <1>6, <2>1 DEF Crash, RollBack
  <2>3. /\ lost \in [Period -> Nat] /\ lost' \in [Period -> Nat]
        /\ \A q \in Period : lost'[q] = lost[q] + (IF q = p THEN 1 ELSE 0)
    BY <2>2 DEF PrInv, RunsOK
  <2>4. RunsOK'
    BY <1>1, <2>2, <2>3 DEF PrInv, RunsOK, LinesOK
  <2>5. \A q \in Period : (Held(q) <=> Submitted(q) \/ q = p) /\ ~Submitted(p)
    BY <1>6, <2>1 DEF Held, PrInv, TxOK
  <2>6. PayrollsAccounted'
    <3> SUFFICES ASSUME NEW q \in Period
                 PROVE  /\ Cardinality(Sent(q)) = lost'[q] + (IF Submitted(q) THEN 1 ELSE 0)
                        /\ Submitted(q) => /\ run[q].remote \in Sent(q)
                                           /\ payrolls[run[q].remote].entries = run[q].lines
      BY <1>1, <2>2 DEF PayrollsAccounted, Sent, Submitted
    <3>1. CASE q = p
      <4>1. Cardinality(Sent(q)) = lost[q] + 1 /\ ~Submitted(q) /\ lost'[q] = lost[q] + 1
        BY <1>3, <2>3, <2>5, <3>1
      <4>2. lost[q] \in Nat
        BY <2>3
      <4> QED BY <4>1, <4>2
    <3>2. CASE q # p
      <4>1. (Held(q) <=> Submitted(q)) /\ lost'[q] = lost[q] /\ lost[q] \in Nat
        BY <2>3, <2>5, <3>2
      <4> QED BY <1>3, <4>1
    <3> QED BY <3>1, <3>2
  <2> QED BY <1>1, <1>2, <1>6, <2>2, <2>4, <2>6, Closes
<1>7. CASE Crash /\ tx.pc # "submitted" /\ tx.pc # "idle"
  <2>1. lost' = lost /\ RollBack /\ tx.pc \in {"sync", "submit"}
    BY <1>7 DEF Crash, PrInv, TxOK
  <2> QED BY <1>1, <1>2, <2>1, EndsUnbooked
<1>8. CASE Crash /\ tx.pc = "idle"
  <2>1. UNCHANGED <<run, ref, lost>>
    BY <1>8 DEF Crash, RollBack
  <2>2. RunsOK' /\ TxOK' /\ RefsOK'
    BY <1>1, <1>8, <2>1 DEF PrInv, RunsOK, LinesOK, TxOK, RefsOK, RefOK
  <2>3. ActsOK' /\ SettledWasOwed'
    BY <1>1, <2>1, LinesStay DEF Submitted
  <2>4. PayrollsAccounted'
    BY <1>1, <1>8, <2>1, AccountsKept DEF Held, Submitted
  <2> QED BY <1>1, <2>2, <2>3, <2>4, LedgersKept DEF PrInv
<1> QED BY <1>5, <1>6, <1>7, <1>8

(* The provider prices a payroll; the results are fetched. *)
LEMMA ResultStep ==
  ASSUME PrInv,
         \/ \E i \in DOMAIN payrolls, g \in Gross : Process(i, g)
         \/ \E p \in Period : fetch_results(p)
  PROVE  PrInv'
<1> USE DEF cards, remote
<1>1. /\ UNCHANGED <<card, peak, sick, vault, ref, settled, people, lost, tx, act>>
  BY DEF Process, fetch_results
<1>2. LedgersOK' /\ RefsOK'
  <2>1. RefsOK'
    BY <1>1 DEF PrInv, RefsOK, RefOK
  <2> QED BY <1>1, <2>1, LedgersKept
<1>3. ASSUME NEW i \in DOMAIN payrolls, NEW g \in Gross, Process(i, g)
      PROVE  PrInv'
  <2> DEFINE x == [payrolls[i] EXCEPT !.gross = [e \in DOMAIN payrolls[i].entries |-> g]]
  <2>1. payrolls' = [payrolls EXCEPT ![i] = x] /\ run' = run
    BY <1>3 DEF Process
  <2>2. /\ DOMAIN x = {"period", "entries", "gross"}
        /\ x.period = payrolls[i].period /\ x.entries = payrolls[i].entries
    BY DEF PrInv, RunsOK
  <2> HIDE DEF x
  <2>3. PICK S : payrolls \in Seq(S)
    BY DEF PrInv, RunsOK
  <2>4. /\ payrolls' \in Seq(S \cup {x}) /\ Len(payrolls') = Len(payrolls)
        /\ DOMAIN payrolls = 1..Len(payrolls) /\ DOMAIN payrolls' = 1..Len(payrolls)
        /\ \A j \in 1..Len(payrolls) : payrolls'[j] = IF j = i THEN x ELSE payrolls[j]
    <3>1. i \in 1..Len(payrolls)
      BY <2>3
    <3> QED BY <2>1, <2>3, <3>1, Replaced
  <2>5. /\ DOMAIN payrolls' = DOMAIN payrolls
        /\ \A j \in DOMAIN payrolls : /\ payrolls'[j].period = payrolls[j].period
                                      /\ payrolls'[j].entries = payrolls[j].entries
                                      /\ DOMAIN payrolls'[j] = {"period", "entries", "gross"}
    BY <2>2, <2>4 DEF PrInv, RunsOK
  <2>6. RunsOK'
    BY <1>1, <2>1, <2>4, <2>5 DEF PrInv, RunsOK, LinesOK
  <2>7. TxOK'
    BY <1>1, <2>1, <2>5 DEF PrInv, TxOK, LinesOK, Submitted
  <2>8. PayrollsAccounted'
    <3>1. \A q \in Period : Sent(q)' = Sent(q)
      BY <2>5 DEF Sent
    <3> SUFFICES ASSUME NEW q \in Period
                 PROVE  /\ Cardinality(Sent(q)) = lost[q] + (IF Held(q) THEN 1 ELSE 0)
                        /\ Submitted(q) => /\ run[q].remote \in Sent(q)
                                           /\ payrolls'[run[q].remote].entries = run[q].lines
      BY <1>1, <2>1, <3>1 DEF PayrollsAccounted, Sent, Held, Submitted
    <3>2. /\ Cardinality(Sent(q)) = lost[q] + (IF Held(q) THEN 1 ELSE 0)
          /\ Submitted(q) => /\ run[q].remote \in Sent(q)
                             /\ payrolls[run[q].remote].entries = run[q].lines
      BY DEF PrInv, PayrollsAccounted, Sent, Held
    <3> QED BY <2>5, <3>2 DEF Sent
  <2>9. ActsOK' /\ SettledWasOwed'
    BY <1>1, <2>1, LinesStay DEF Submitted
  <2> QED BY <1>2, <2>6, <2>7, <2>8, <2>9 DEF PrInv
<1>4. ASSUME NEW p \in Period, fetch_results(p)
      PROVE  PrInv'
  <2> DEFINE row == [run[p] EXCEPT !.status = "processed"]
  <2>1. run' = [run EXCEPT ![p] = row] /\ payrolls' = payrolls /\ Submitted(p)
    BY <1>4 DEF fetch_results
  <2>2. /\ DOMAIN row = RunFields /\ row.status = "processed"
        /\ row.remote = run[p].remote /\ row.lines = run[p].lines
    BY DEF PrInv, RunsOK, RunFields
  <2> HIDE DEF row
  <2>3. DOMAIN run' = Period /\ \A q \in Period : run'[q] = IF q = p THEN row ELSE run[q]
    BY <2>1 DEF PrInv, RunsOK
  <2>4. \A q \in Period : /\ Submitted(q)' <=> Submitted(q)
                          /\ run'[q].lines = run[q].lines /\ run'[q].remote = run[q].remote
                          /\ DOMAIN run'[q] = DOMAIN run[q]
    BY <2>1, <2>2, <2>3 DEF Submitted, PrInv, RunsOK
  <2>5. RunsOK'
    <3>1. \A q \in Period : run'[q].status \in {"none", "failed", "submitted", "processed"}
      BY <2>2, <2>3 DEF PrInv, RunsOK
    <3> QED BY <1>1, <2>1, <2>3, <2>4, <3>1 DEF PrInv, RunsOK, LinesOK
  <2>6. TxOK'
    <3>1. tx.pc # "idle" => tx.period \in Period /\ ~Submitted(tx.period)'
      BY <1>1, <2>4 DEF PrInv, TxOK, Submitted
    <3> QED BY <1>1, <2>1, <3>1 DEF PrInv, TxOK, LinesOK
  <2>7. \A q \in Period : Held(q)' = Held(q)
    BY <1>1, <2>4 DEF Held
  <2>8. PayrollsAccounted'
    BY <1>1, <2>1, <2>4, <2>7, AccountsKept
  <2>9. ActsOK' /\ SettledWasOwed'
    BY <1>1, <2>4, LinesStay
  <2> QED BY <1>2, <2>5, <2>6, <2>8, <2>9 DEF PrInv
<1> QED BY <1>3, <1>4

(* Every step keeps the invariant. *)
LEMMA PrInvStep == ASSUME PrInv, [PrNext]_prVars PROVE PrInv'
<1>1. CASE PrNext
  BY <1>1, CardStep, SickStep, VaultStep, ClerkStep, SyncStep, BlockedStep, SubmitStep,
     CommitStep, ResultStep DEF PrNext
<1>2. CASE UNCHANGED prVars
  <2>1. UNCHANGED <<card, sick, vault, ref, run, settled, people, payrolls, lost, peak, tx, act>>
    BY <1>2 DEF prVars
  <2>2. LedgersOK'
    BY <2>1, LedgersKept
  <2>3. RefsOK' /\ TxOK' /\ RunsOK' /\ PayrollsAccounted'
    BY <2>1, RunsKept
  <2>4. ActsOK' /\ SettledWasOwed'
    BY <2>1, LinesStay DEF Submitted
  <2> QED BY <2>2, <2>3, <2>4 DEF PrInv
<1> QED BY <1>1, <1>2

(* NobodyIsPaidTwice (execute_pay_run, settle_worked_hours): the provider   *)
(* holds one payroll per period beyond those whose answer was lost, the run *)
(* names it, and settlements never exceed what an approved card once        *)
(* showed; for any employees, hotels, periods and concurrent clerks.        *)
THEOREM PaidOnce == PrSpec => []NobodyIsPaidTwice
<1>1. PrInit => PrInv
  BY PrInitInv
<1>2. PrInv /\ [PrNext]_prVars => PrInv'
  BY PrInvStep
<1>3. PrInv => NobodyIsPaidTwice
  BY PrInvSafe
<1> QED BY <1>1, <1>2, <1>3, PTL DEF PrSpec

(* UnpaidIsNamed (_late_sick_problems, _late_worked_problems,               *)
(* _paid_worked_problems): whatever a submitted period left unpaid blocks   *)
(* every later run.                                                         *)
THEOREM UnpaidBlocks == PrSpec => []UnpaidIsNamed
<1>1. PrInit => PrInv
  BY PrInitInv
<1>2. PrInv /\ [PrNext]_prVars => PrInv'
  BY PrInvStep
<1>3. PrInv => UnpaidIsNamed
  BY PrInvSafe
<1> QED BY <1>1, <1>2, <1>3, PTL DEF PrSpec

(* FreshRefIsDelivered (sync_employees, provider_payload_stale): a          *)
(* reference that does not read stale describes the copy the provider       *)
(* holds, whichever call failed or was cut off.                             *)
THEOREM FreshIsDelivered == PrSpec => []FreshRefIsDelivered
<1>1. PrInit => PrInv
  BY PrInitInv
<1>2. PrInv /\ [PrNext]_prVars => PrInv'
  BY PrInvStep
<1>3. PrInv => FreshRefIsDelivered
  BY PrInvSafe
<1> QED BY <1>1, <1>2, <1>3, PTL DEF PrSpec
-----------------------------------------------------------------------------
(* The books *)

(* The census of a line is its hours, all of them, by hotel. *)
CensusOK(c, lines) ==
    /\ DOMAIN c = DOMAIN lines
    /\ \A e \in DOMAIN lines :
         /\ DOMAIN c[e] = Hotel /\ \A h \in Hotel : c[e][h] \in Nat
         /\ Sum(c[e]) = lines[e].worked + lines[e].sick
         /\ Sum(c[e]) > 0

(* What the provider prices is money of the lines it was sent. *)
GrossOK(x) ==
    \/ x.gross = <<>>
    \/ DOMAIN x.gross = DOMAIN x.entries /\ \A e \in DOMAIN x.entries : x.gross[e] \in Int

(* The facts of a fetched run are those another fetch would find. *)
FactsOK(p) ==
    run[p].status = "processed" =>
        payrolls[run[p].remote].gross # <<>> /\ facts[p] = fetch_pay_run_results(p)

BooksOK ==
    /\ tx.pc # "idle" => \A e \in DOMAIN tx.report : tx.report[e].worked + tx.report[e].sick > 0
    /\ DOMAIN facts = Period
    /\ \A i \in DOMAIN payrolls : GrossOK(payrolls[i])
    /\ \A p \in Period : (Submitted(p) => CensusOK(run[p].census, run[p].lines)) /\ FactsOK(p)

(* Submitted runs name a payroll there is. *)
LEMMA RemoteThere ==
  ASSUME PrInv, NEW p \in Period, Submitted(p)
  PROVE  run[p].remote \in DOMAIN payrolls /\ payrolls[run[p].remote].entries = run[p].lines
BY DEF PrInv, PayrollsAccounted

(* What a fetch finds, of the gross g, the census c and the lines of P. *)
Fetched(g, c, P) ==
    [hours |-> [h \in Hotel |-> Sum([e \in P |-> c[e][h]])],
     gross |-> [h \in Hotel |-> Sum([e \in P |-> apportion(g[e], c[e])[h]])]]

(* A fetch finds the same while these three are the same. *)
LEMMA FetchStays ==
  ASSUME NEW p \in Period,
         payrolls'[run'[p].remote].gross = payrolls[run[p].remote].gross,
         run'[p].census = run[p].census, run'[p].lines = run[p].lines
  PROVE  fetch_pay_run_results(p)' = fetch_pay_run_results(p)
<1>1. fetch_pay_run_results(p) = Fetched(payrolls[run[p].remote].gross, run[p].census, DOMAIN run[p].lines)
  BY Zenon DEF fetch_pay_run_results, BookedHours, Paid, Fetched
<1>2. fetch_pay_run_results(p)' = Fetched(payrolls'[run'[p].remote].gross, run'[p].census, DOMAIN run'[p].lines)
  BY Zenon DEF fetch_pay_run_results, BookedHours, Paid, Fetched
<1> QED BY <1>1, <1>2, Zenon

(* The books stand when no run is submitted, priced or fetched. *)
LEMMA BooksStay ==
  ASSUME PrInv, BooksOK, facts' = facts,
         tx'.pc # "idle" => tx.pc # "idle" /\ tx'.report = tx.report,
         \A p \in Period : Submitted(p)' => Submitted(p) /\ run'[p] = run[p],
         \A i \in DOMAIN payrolls : i \in DOMAIN payrolls' /\ payrolls'[i] = payrolls[i],
         \A i \in DOMAIN payrolls' : i \notin DOMAIN payrolls => payrolls'[i].gross = <<>>
  PROVE  BooksOK'
<1>1. tx'.pc # "idle" => \A e \in DOMAIN tx'.report : tx'.report[e].worked + tx'.report[e].sick > 0
  BY DEF BooksOK
<1>2. \A i \in DOMAIN payrolls' : GrossOK(payrolls'[i])
  BY DEF BooksOK, GrossOK
<1>3. ASSUME NEW p \in Period
      PROVE  /\ Submitted(p)' => CensusOK(run'[p].census, run'[p].lines)
             /\ FactsOK(p)'
  <2>1. CASE ~Submitted(p)'
    BY <2>1 DEF Submitted, FactsOK
  <2>2. CASE Submitted(p)'
    <3>1. Submitted(p) /\ run'[p] = run[p]
      BY <2>2
    <3>2. payrolls'[run'[p].remote] = payrolls[run[p].remote]
      BY <3>1, RemoteThere
    <3>3. fetch_pay_run_results(p)' = fetch_pay_run_results(p)
      BY <3>1, <3>2, FetchStays
    <3> QED BY <3>1, <3>2, <3>3 DEF BooksOK, FactsOK
  <2> QED BY <2>1, <2>2
<1> QED BY <1>1, <1>2, <1>3 DEF BooksOK

(* A card's weights are hours, and not all of them none. *)
LEMMA WeightsOK ==
  ASSUME PrInv, NEW e \in Employee, NEW p \in Period, NEW line, line.sick \in Nat
  PROVE  /\ DOMAIN _line_weights(e, p, line) = Hotel
         /\ \A h \in Hotel : _line_weights(e, p, line)[h] \in Nat
         /\ Sum(_line_weights(e, p, line)) > 0
<1> DEFINE w == [card[e][p].hours EXCEPT ![Home] = @ + line.sick]
           one == [NoHours EXCEPT ![Home] = 1]
<1>1. card[e][p].hours \in [Hotel -> Nat]
  <2>1. card[e][p] \in Card
    BY DEF PrInv, LedgersOK
  <2> QED BY <2>1 DEF Card
<1>2. Home \in Hotel
  BY PayRunConstants DEF Home, Hotel
<1>3. DOMAIN w = Hotel /\ \A h \in Hotel : w[h] \in Nat
  BY <1>1, <1>2
<1>4. DOMAIN one = Hotel /\ (\A h \in Hotel : one[h] \in Nat) /\ one[Home] = 1
  BY <1>2 DEF NoHours
<1>5. _line_weights(e, p, line) = IF Sum(w) > 0 THEN w ELSE one
  BY DEF _line_weights
<1>6. Sum(one) > 0
  <2>1. PICK f : f = one
    OBVIOUS
  <2>2. IsFiniteSet(Hotel)
    BY FS_Interval, PayRunConstants DEF Hotel
  <2>3. IsFiniteSet(DOMAIN f) /\ (\A k \in DOMAIN f : f[k] \in Nat) /\ Home \in DOMAIN f /\ f[Home] = 1
    BY <1>2, <1>4, <2>1, <2>2
  <2>4. f[Home] <= Total(f)
    BY ONLY <2>3, TotalOfOne
  <2>5. Total(f) \in Int
    <3>1. \A k \in DOMAIN f : f[k] \in Int
      BY <2>3
    <3> QED BY ONLY <2>3, <3>1, PartInt
  <2> QED BY <2>1, <2>3, <2>4, <2>5, SumIsTotal
<1> HIDE DEF w, one
<1> QED BY <1>3, <1>4, <1>5, <1>6

(* The census hands out the hours of each line. *)
LEMMA CensusSums ==
  ASSUME PrInv, NEW p \in Period, NEW lines, LinesOK(lines),
         \A e \in DOMAIN lines : lines[e].worked + lines[e].sick > 0
  PROVE  CensusOK(Census(p, lines), lines)
<1>1. DOMAIN Census(p, lines) = DOMAIN lines
  BY DEF Census
<1>2. ASSUME NEW e \in DOMAIN lines
      PROVE  /\ DOMAIN Census(p, lines)[e] = Hotel
             /\ \A h \in Hotel : Census(p, lines)[e][h] \in Nat
             /\ Sum(Census(p, lines)[e]) = lines[e].worked + lines[e].sick
             /\ Sum(Census(p, lines)[e]) > 0
  <2>1. e \in Employee /\ lines[e].worked \in Nat /\ lines[e].sick \in Nat
    BY DEF LinesOK
  <2>2. PICK w, t : w = _line_weights(e, p, lines[e]) /\ t = lines[e].worked + lines[e].sick
    OBVIOUS
  <2>3. /\ DOMAIN w = Hotel /\ (\A h \in Hotel : w[h] \in Nat) /\ Sum(w) > 0
        /\ t \in Int /\ t > 0
    BY <2>1, <2>2, WeightsOK
  <2>4. PICK a : a = apportion(t, w)
    OBVIOUS
  <2>5. /\ DOMAIN a = Hotel /\ Sum(a) = t
        /\ \A h \in Hotel : a[h] \in Int /\ (t >= 0 => a[h] >= 0)
    BY ONLY <2>3, <2>4, ApportionSums
  <2>6. Census(p, lines)[e] = a
    BY <2>2, <2>4 DEF Census
  <2>7. \A h \in Hotel : a[h] \in Nat
    BY <2>3, <2>5
  <2> QED BY <2>2, <2>3, <2>5, <2>6, <2>7
<1> QED BY <1>1, <1>2 DEF CensusOK

(* Nothing is priced or fetched yet. *)
LEMMA BooksInit == ASSUME PrInit PROVE BooksOK
<1>1. tx.pc = "idle" /\ DOMAIN payrolls = {} /\ DOMAIN facts = Period
  BY DEF PrInit, Idle
<1>2. \A p \in Period : run[p].status = "none"
  BY DEF PrInit, NoRun
<1> QED BY <1>1, <1>2 DEF BooksOK, Submitted, FactsOK

(* Ledgers and clerks move beside the books. *)
LEMMA BooksBeside ==
  ASSUME PrInv, BooksOK, UNCHANGED <<facts, tx, run, payrolls>>
  PROVE  BooksOK'
BY BooksStay DEF Submitted

(* A line of a new run has hours: a card without any, and without sick      *)
(* hours beside it, is named by the preflight.                              *)
LEMMA CreateBooks ==
  ASSUME PrInv, BooksOK, NEW p \in Period, create_run(p)
  PROVE  BooksOK'
<1>1. /\ UNCHANGED <<run, payrolls, facts>> /\ Problems(p) = {}
      /\ tx'.report = Entries(p)
  BY DEF create_run, remote, Ok
<1>2. ASSUME NEW e \in DOMAIN Entries(p)
      PROVE  Entries(p)[e].worked + Entries(p)[e].sick > 0
  <2>1. e \in Employee /\ (HasCard(e, p) \/ sick[e][p] > 0)
        /\ Entries(p)[e].worked = Worked(e, p) /\ Entries(p)[e].sick = sick[e][p]
    BY DEF Entries
  <2>2. Worked(e, p) \in Nat /\ sick[e][p] \in Nat
    BY <2>1, CardSums DEF PrInv, LedgersOK
  <2>3. CASE sick[e][p] > 0
    BY <2>1, <2>2, <2>3
  <2>4. CASE HasCard(e, p)
    <3>1. card[e][p].status \in {"open", "approved"}
      BY <2>1, <2>4, PrInvType DEF HasCard, PrTypeOK
    <3>2. <<e, p>> \notin Unpayable(p)
      BY <1>1 DEF Problems
    <3>3. Worked(e, p) + sick[e][p] # 0
      BY <2>1, <3>1, <3>2 DEF Unpayable
    <3> QED BY <2>1, <2>2, <3>3
  <2> QED BY <2>1, <2>3, <2>4
<1>3. \A e \in DOMAIN tx'.report : tx'.report[e].worked + tx'.report[e].sick > 0
  <2>1. PICK l : l = Entries(p)
    OBVIOUS
  <2>2. \A e \in DOMAIN l : l[e].worked + l[e].sick > 0
    BY <1>2, <2>1
  <2> QED BY <1>1, <2>1, <2>2
<1>4. \A q \in Period : (FactsOK(q) => FactsOK(q)') /\ Submitted(q)' = Submitted(q)
  BY <1>1, FetchStays DEF FactsOK, Submitted
<1> QED BY <1>1, <1>3, <1>4 DEF BooksOK

(* A death leaves runs, payrolls and facts as they are. *)
LEMMA CrashBooks ==
  ASSUME PrInv, BooksOK, Crash
  PROVE  BooksOK'
<1>1. tx'.pc = "idle" /\ UNCHANGED <<run, payrolls, facts>>
  BY DEF Crash, RollBack, Idle
<1> QED BY <1>1, BooksStay DEF Submitted

(* A sync, a refusal, and a submission that is not answered. *)
LEMMA RunBooks ==
  ASSUME PrInv, BooksOK,
         \/ \E e \in Employee : sync_employees(e)
         \/ \E e \in Employee, acted \in BOOLEAN : SyncFails(e, acted)
         \/ \E drift \in BOOLEAN : Recheck(drift)
         \/ submit_pay_run \/ \E acted \in BOOLEAN : SubmitFails(acted)
  PROVE  BooksOK'
<1>1. facts' = facts
  BY DEF sync_employees, SyncFails, Recheck, submit_pay_run, SubmitFails
<1>2. tx.pc # "idle"
  BY DEF sync_employees, SyncFails, Recheck, submit_pay_run, SubmitFails, Idle, PrInv, TxOK
<1>3. tx.period \in Period /\ ~Submitted(tx.period) /\ DOMAIN run = Period
  BY <1>2 DEF PrInv, TxOK, RunsOK
<1>4. \/ tx'.pc = "idle"
      \/ tx'.report = tx.report
  <2>1. CASE \E e \in Employee : sync_employees(e)
    <3>1. PICK e \in Employee : sync_employees(e)
      BY <2>1
    <3>2. DOMAIN tx = {"pc", "period", "report", "todo", "refs"}
      BY <3>1 DEF sync_employees, PrInv, TxOK
    <3> QED BY <3>1, <3>2 DEF sync_employees
  <2>2. CASE ~\E e \in Employee : sync_employees(e)
    BY <2>2 DEF SyncFails, UpdateRefused, Recheck, submit_pay_run, SubmitFails, Fail, RollBack, Idle
  <2> QED BY <2>1, <2>2
<1>5. run' = run \/ run' = [run EXCEPT ![tx.period] = FailedRun]
  BY DEF sync_employees, SyncFails, UpdateRefused, Recheck, submit_pay_run, SubmitFails, Fail, RollBack
<1>6. \A p \in Period : Submitted(p)' => Submitted(p) /\ run'[p] = run[p]
  <2>1. FailedRun.status = "failed"
    BY DEF FailedRun, NoRun
  <2> QED BY <1>3, <1>5, <2>1 DEF Submitted
<1>7. payrolls' = payrolls \/ (tx.pc = "submit" /\ payrolls' = Booked)
  BY DEF sync_employees, SyncFails, Recheck, submit_pay_run, SubmitFails, remote
<1>8. /\ \A i \in DOMAIN payrolls : i \in DOMAIN payrolls' /\ payrolls'[i] = payrolls[i]
      /\ \A i \in DOMAIN payrolls' : i \notin DOMAIN payrolls => payrolls'[i].gross = <<>>
  <2>1. CASE payrolls' = payrolls
    BY <2>1
  <2>2. CASE tx.pc = "submit" /\ payrolls' = Booked
    BY <2>2, BookedOnce
  <2> QED BY <1>7, <2>1, <2>2
<1> QED BY <1>1, <1>2, <1>4, <1>6, <1>8, BooksStay

(* The census is stored with the lines. *)
LEMMA CommitBooks ==
  ASSUME PrInv, BooksOK, SubmitCommit
  PROVE  BooksOK'
<1>1. PICK p \in Period : p = tx.period
  BY DEF PrInv, TxOK, SubmitCommit
<1>2. /\ LinesOK(tx.report) /\ ~Submitted(p)
      /\ \A e \in DOMAIN tx.report : tx.report[e].worked + tx.report[e].sick > 0
  BY <1>1 DEF PrInv, TxOK, SubmitCommit, BooksOK
<1> DEFINE row == [status |-> "submitted", remote |-> tx.remote, lines |-> tx.report,
                   census |-> Census(tx.period, tx.report)]
<1>3. run' = [run EXCEPT ![p] = row] /\ tx'.pc = "idle" /\ UNCHANGED <<facts, payrolls>>
  BY <1>1 DEF SubmitCommit, remote, Idle
<1>4. row.status = "submitted" /\ row.lines = tx.report /\ row.census = Census(p, tx.report)
  BY <1>1
<1> HIDE DEF row
<1>5. CensusOK(row.census, row.lines)
  BY <1>2, <1>4, CensusSums
<1>6. \A q \in Period : run'[q] = IF q = p THEN row ELSE run[q]
  BY <1>3 DEF PrInv, RunsOK
<1>7. ASSUME NEW q \in Period
      PROVE  (Submitted(q)' => CensusOK(run'[q].census, run'[q].lines)) /\ FactsOK(q)'
  <2>1. CASE q = p
    BY <1>4, <1>5, <1>6, <2>1 DEF FactsOK
  <2>2. CASE q # p
    <3>1. run'[q] = run[q]
      BY <1>6, <2>2
    <3>2. fetch_pay_run_results(q)' = fetch_pay_run_results(q)
      BY <1>3, <3>1, FetchStays
    <3> QED BY <1>3, <3>1, <3>2 DEF BooksOK, FactsOK, Submitted
  <2> QED BY <2>1, <2>2
<1> QED BY <1>3, <1>7 DEF BooksOK

(* A payroll is priced once, before it is fetched. *)
LEMMA PricedBooks ==
  ASSUME PrInv, BooksOK, NEW i \in DOMAIN payrolls, NEW g \in Gross, Process(i, g)
  PROVE  BooksOK'
<1> DEFINE x == [payrolls[i] EXCEPT !.gross = [e \in DOMAIN payrolls[i].entries |-> g]]
<1>1. /\ payrolls' = [payrolls EXCEPT ![i] = x] /\ payrolls[i].gross = <<>>
      /\ UNCHANGED <<run, facts, tx>>
  BY DEF Process
<1>2. DOMAIN payrolls[i] = {"period", "entries", "gross"}
  BY DEF PrInv, RunsOK
<1>3. x.entries = payrolls[i].entries /\ x.gross = [e \in DOMAIN payrolls[i].entries |-> g]
  BY <1>2
<1> HIDE DEF x
<1>4. GrossOK(x)
  <2>1. g \in Int
    BY PayRunConstants
  <2> QED BY <1>3, <2>1 DEF GrossOK
<1>5. DOMAIN payrolls' = DOMAIN payrolls /\ \A j \in DOMAIN payrolls : payrolls'[j] = IF j = i THEN x ELSE payrolls[j]
  <2>1. PICK S : payrolls \in Seq(S)
    BY DEF PrInv, RunsOK
  <2>2. i \in 1..Len(payrolls)
    BY <2>1
  <2> QED BY <1>1, <2>1, <2>2, Replaced
<1>6. \A j \in DOMAIN payrolls' : GrossOK(payrolls'[j])
  BY <1>4, <1>5 DEF BooksOK
<1>7. ASSUME NEW q \in Period
      PROVE  (Submitted(q)' => CensusOK(run'[q].census, run'[q].lines)) /\ FactsOK(q)'
  <2>1. Submitted(q)' = Submitted(q) /\ run'[q] = run[q] /\ facts'[q] = facts[q]
    BY <1>1 DEF Submitted
  <2>2. CASE run[q].status # "processed"
    BY <2>1, <2>2 DEF BooksOK, FactsOK
  <2>3. CASE run[q].status = "processed"
    <3>1. run[q].remote \in DOMAIN payrolls /\ payrolls[run[q].remote].gross # <<>>
      BY <2>3, RemoteThere DEF Submitted, BooksOK, FactsOK
    <3>2. payrolls'[run[q].remote] = payrolls[run[q].remote]
      BY <1>1, <1>5, <3>1
    <3>3. fetch_pay_run_results(q)' = fetch_pay_run_results(q)
      BY <1>1, <3>2, FetchStays
    <3> QED BY <2>1, <3>1, <3>2, <3>3 DEF BooksOK, FactsOK
  <2> QED BY <2>2, <2>3
<1> QED BY <1>1, <1>6, <1>7 DEF BooksOK

(* The results are fetched: the facts are what the fetch found. *)
LEMMA FetchedBooks ==
  ASSUME PrInv, BooksOK, NEW p \in Period, fetch_results(p)
  PROVE  BooksOK'
<1> DEFINE row == [run[p] EXCEPT !.status = "processed"]
<1>1. /\ facts' = [facts EXCEPT ![p] = fetch_pay_run_results(p)]
      /\ run' = [run EXCEPT ![p] = row] /\ Submitted(p)
      /\ payrolls[run[p].remote].gross # <<>>
      /\ UNCHANGED <<payrolls, tx>>
  BY DEF fetch_results, remote
<1>2. /\ row.remote = run[p].remote /\ row.lines = run[p].lines /\ row.census = run[p].census
  BY DEF PrInv, RunsOK, RunFields
<1> HIDE DEF row
<1>3. \A q \in Period : run'[q] = IF q = p THEN row ELSE run[q]
  BY <1>1 DEF PrInv, RunsOK
<1>4. DOMAIN facts' = Period
      /\ \A q \in Period : facts'[q] = IF q = p THEN fetch_pay_run_results(p) ELSE facts[q]
  BY <1>1 DEF BooksOK
<1>5. ASSUME NEW q \in Period
      PROVE  (Submitted(q)' => CensusOK(run'[q].census, run'[q].lines)) /\ FactsOK(q)'
  <2>1. run'[q].remote = run[q].remote /\ run'[q].lines = run[q].lines /\ run'[q].census = run[q].census
    BY <1>2, <1>3
  <2>2. fetch_pay_run_results(q)' = fetch_pay_run_results(q)
    BY <1>1, <2>1, FetchStays
  <2>3. CASE q = p
    BY <1>1, <1>4, <2>1, <2>2, <2>3 DEF BooksOK, FactsOK
  <2>4. CASE q # p
    <3>1. run'[q] = run[q] /\ facts'[q] = facts[q]
      BY <1>3, <1>4, <2>4
    <3> QED BY <1>1, <2>2, <3>1 DEF BooksOK, FactsOK, Submitted
  <2> QED BY <2>3, <2>4
<1> QED BY <1>1, <1>4, <1>5 DEF BooksOK

(* Every step keeps the books. *)
LEMMA BooksStep == ASSUME PrInv, BooksOK, [PrNext]_prVars PROVE BooksOK'
<1>1. CASE UNCHANGED prVars
  BY <1>1, BooksBeside DEF prVars
<1>2. ASSUME NEW e \in Employee, NEW p \in Period,
             \/ approve_timecard(e, p) \/ reopen_timecard(e, p)
             \/ \E h \in 0..MaxSick[p] : record_sick(e, p, h)
             \/ \E h \in Hotel : punch(e, p, h) \/ add_adjustment(e, p, h)
             \/ \E k \in Clerk : settle_worked_hours(k, p, e)
      PROVE  BooksOK'
  BY <1>2, BooksBeside DEF approve_timecard, reopen_timecard, record_sick, punch, add_adjustment,
     settle_worked_hours, cards, remote
<1>3. ASSUME NEW e \in Employee, edit_payload(e) PROVE BooksOK'
  BY <1>3, BooksBeside DEF edit_payload, remote
<1>4. ASSUME NEW k \in Clerk, SettleCommit(k) \/ SettleAbort(k) PROVE BooksOK'
  BY <1>4, BooksBeside DEF SettleCommit, SettleAbort, remote
<1>5. CASE PrNext
  BY <1>2, <1>3, <1>4, <1>5, CreateBooks, RunBooks, CrashBooks, CommitBooks, PricedBooks, FetchedBooks DEF PrNext
<1> QED BY <1>1, <1>5

(* A property group has finitely many hotels. *)
LEMMA HotelFinite == IsFiniteSet(Hotel)
BY FS_Interval, PayRunConstants DEF Hotel

(* What a fetch makes of one hotel is the sum of its lines' shares, and all *)
(* hotels together have all of every line: t is what each line has.         *)
LEMMA SharesCross ==
  ASSUME NEW P, IsFiniteSet(P),
         NEW m, DOMAIN m = P, \A e \in P : DOMAIN m[e] = Hotel,
         \A e \in P, h \in Hotel : m[e][h] \in Int,
         NEW t, DOMAIN t = P, \A e \in P : t[e] = Sum(m[e]),
         NEW f, DOMAIN f = Hotel, \A h \in Hotel : f[h] = Sum([e \in P |-> m[e][h]])
  PROVE  Sum(f) = Sum(t)
<1>1. IsFiniteSet(Hotel)
  BY ONLY HotelFinite
<1>2. PICK c : c = [h \in Hotel |-> [e \in P |-> m[e][h]]]
  OBVIOUS
<1>3. DOMAIN c = Hotel /\ (\A h \in Hotel : DOMAIN c[h] = P)
      /\ \A e \in P, h \in Hotel : c[h][e] = m[e][h]
  BY <1>2
<1>4. \A h \in Hotel : f[h] = Total(c[h])
  <2>1. \A h \in Hotel : c[h] = [e \in P |-> m[e][h]]
    BY <1>2
  <2> QED BY <2>1, SumIsTotal, Zenon
<1>5. \A e \in P : t[e] = Total(m[e])
  BY SumIsTotal
<1>6. /\ DOMAIN m = P /\ (\A e \in P : DOMAIN m[e] = Hotel)
      /\ (\A e \in P, h \in Hotel : m[e][h] \in Int)
      /\ DOMAIN t = P /\ DOMAIN f = Hotel /\ IsFiniteSet(P)
  OBVIOUS
<1>7. Total(t) = Total(f)
  BY ONLY <1>1, <1>3, <1>4, <1>5, <1>6, TotalCross
<1> QED BY <1>7, SumIsTotal

(* A sum of nothing but zeros, and a sum of naturals that is zero. *)
LEMMA ZeroSums ==
  ASSUME NEW f, IsFiniteSet(DOMAIN f)
  PROVE  /\ (\A k \in DOMAIN f : f[k] = 0) => Sum(f) = 0
         /\ (\A k \in DOMAIN f : f[k] \in Nat) /\ Sum(f) = 0 => \A k \in DOMAIN f : f[k] = 0
<1>1. ASSUME \A k \in DOMAIN f : f[k] = 0 PROVE Sum(f) = 0
  <2>1. \A k \in DOMAIN f : f[k] \in {0}
    BY <1>1
  <2>2. 0 \in {0} /\ \A x, y \in {0} : x + y \in {0}
    OBVIOUS
  <2>3. Total(f) \in {0}
    BY ONLY <2>1, <2>2, IsFiniteSet(DOMAIN f), TotalClosed
  <2> QED BY <2>3, SumIsTotal
<1>2. ASSUME \A k \in DOMAIN f : f[k] \in Nat, Sum(f) = 0, NEW k \in DOMAIN f PROVE f[k] = 0
  <2>1. f[k] <= Total(f)
    BY ONLY <1>2, IsFiniteSet(DOMAIN f), TotalOfOne
  <2> QED BY <1>2, <2>1, SumIsTotal
<1> QED BY <1>1, <1>2

(* The facts of a fetched run are its payroll. *)
LEMMA BooksMatch == ASSUME PrInv, BooksOK PROVE BooksMatchPayroll
<1> SUFFICES ASSUME NEW p \in Period, run[p].status = "processed"
             PROVE  /\ Sum(facts[p].gross) = Sum(payrolls[run[p].remote].gross)
                    /\ Sum(facts[p].hours) =
                         Sum([e \in Paid(p) |-> payrolls[run[p].remote].entries[e].worked
                                                  + payrolls[run[p].remote].entries[e].sick])
                    /\ \A h \in Hotel : facts[p].hours[h] = 0 => facts[p].gross[h] = 0
  BY DEF BooksMatchPayroll
<1> DEFINE P == Paid(p)
<1>1. PICK pay, c : pay = payrolls[run[p].remote] /\ c = run[p].census
  OBVIOUS
<1>2. run[p].remote \in DOMAIN payrolls /\ pay.entries = run[p].lines
  BY <1>1, RemoteThere DEF Submitted
<1>3. pay.gross # <<>> /\ facts[p] = fetch_pay_run_results(p)
  BY <1>1 DEF BooksOK, FactsOK
<1>4. DOMAIN pay.gross = P /\ \A e \in P : pay.gross[e] \in Int
  BY <1>1, <1>2, <1>3 DEF BooksOK, GrossOK, Paid
<1>5. /\ DOMAIN c = P
      /\ \A e \in P : /\ DOMAIN c[e] = Hotel /\ (\A h \in Hotel : c[e][h] \in Nat)
                      /\ Sum(c[e]) = pay.entries[e].worked + pay.entries[e].sick
                      /\ Sum(c[e]) > 0
  BY <1>1, <1>2 DEF BooksOK, CensusOK, Submitted, Paid
<1>6. IsFiniteSet(P)
  <2>1. P \subseteq Employee
    BY DEF PrInv, RunsOK, LinesOK, Paid
  <2> QED BY <2>1, FS_Subset, PayRunConstants
<1>7. PICK m : m = [e \in P |-> apportion(pay.gross[e], c[e])]
  OBVIOUS
<1>8. ASSUME NEW e \in P
      PROVE  /\ DOMAIN m[e] = Hotel /\ Sum(m[e]) = pay.gross[e]
             /\ \A h \in Hotel : m[e][h] \in Int /\ (c[e][h] = 0 => m[e][h] = 0)
  <2>1. PICK w, t : w = c[e] /\ t = pay.gross[e]
    OBVIOUS
  <2>2. DOMAIN w = Hotel /\ (\A h \in Hotel : w[h] \in Nat) /\ Sum(w) > 0 /\ t \in Int
    BY <1>4, <1>5, <2>1
  <2>3. PICK a : a = apportion(t, w)
    OBVIOUS
  <2>4. /\ DOMAIN a = Hotel /\ Sum(a) = t
        /\ \A h \in Hotel : a[h] \in Int /\ (w[h] = 0 => a[h] = 0)
    BY ONLY <2>2, <2>3, ApportionSums
  <2>5. m[e] = a
    BY <1>7, <2>1, <2>3
  <2> QED BY <2>1, <2>4, <2>5
<1>9. /\ DOMAIN facts[p].hours = Hotel /\ DOMAIN facts[p].gross = Hotel
      /\ \A h \in Hotel : /\ facts[p].hours[h] = Sum([e \in P |-> c[e][h]])
                          /\ facts[p].gross[h] = Sum([e \in P |-> m[e][h]])
  <2>1. facts[p] = [hours |-> [h \in Hotel |-> Sum([e \in P |-> c[e][h]])],
                    gross |-> [h \in Hotel |-> Sum([e \in P |-> apportion(pay.gross[e], c[e])[h]])]]
    BY <1>1, <1>3 DEF fetch_pay_run_results, BookedHours
  <2>2. \A h \in Hotel : [e \in P |-> m[e][h]] = [e \in P |-> apportion(pay.gross[e], c[e])[h]]
    BY <1>7
  <2> QED BY <2>1, <2>2
<1> HIDE DEF P
<1>10. Sum(facts[p].gross) = Sum(pay.gross)
  <2>1. PICK f, t : f = facts[p].gross /\ t = pay.gross
    OBVIOUS
  <2>2. /\ DOMAIN m = P /\ (\A e \in P : DOMAIN m[e] = Hotel)
        /\ (\A e \in P, h \in Hotel : m[e][h] \in Int)
        /\ DOMAIN t = P /\ (\A e \in P : t[e] = Sum(m[e]))
        /\ DOMAIN f = Hotel /\ (\A h \in Hotel : f[h] = Sum([e \in P |-> m[e][h]]))
    BY <1>4, <1>7, <1>8, <1>9, <2>1
  <2>3. Sum(f) = Sum(t)
    BY ONLY <1>6, <2>2, SharesCross
  <2> QED BY <2>1, <2>3
<1>11. Sum(facts[p].hours) = Sum([e \in P |-> pay.entries[e].worked + pay.entries[e].sick])
  <2>1. PICK f, t : f = facts[p].hours /\ t = [e \in P |-> pay.entries[e].worked + pay.entries[e].sick]
    OBVIOUS
  <2>2. /\ DOMAIN c = P /\ (\A e \in P : DOMAIN c[e] = Hotel)
        /\ (\A e \in P, h \in Hotel : c[e][h] \in Int)
        /\ DOMAIN t = P /\ (\A e \in P : t[e] = Sum(c[e]))
        /\ DOMAIN f = Hotel /\ (\A h \in Hotel : f[h] = Sum([e \in P |-> c[e][h]]))
    <3>1. DOMAIN c = P /\ (\A e \in P : DOMAIN c[e] = Hotel)
          /\ \A e \in P, h \in Hotel : c[e][h] \in Int
      BY <1>5
    <3>2. DOMAIN t = P
      BY <2>1
    <3>3. ASSUME NEW e \in P PROVE t[e] = Sum(c[e])
      <4>1. t[e] = pay.entries[e].worked + pay.entries[e].sick
        BY <2>1
      <4> QED BY <1>5, <4>1, Zenon
    <3>4. DOMAIN f = Hotel
      BY <1>9, <2>1, Zenon
    <3>5. ASSUME NEW h \in Hotel PROVE f[h] = Sum([e \in P |-> c[e][h]])
      BY <1>9, <2>1, Zenon
    <3> QED BY <3>1, <3>2, <3>3, <3>4, <3>5, Zenon
  <2>3. Sum(f) = Sum(t)
    BY ONLY <1>6, <2>2, SharesCross
  <2> QED BY <2>1, <2>3
<1>12. ASSUME NEW h \in Hotel, facts[p].hours[h] = 0
       PROVE  facts[p].gross[h] = 0
  <2>1. PICK u, v : u = [e \in P |-> c[e][h]] /\ v = [e \in P |-> m[e][h]]
    OBVIOUS
  <2>2. DOMAIN u = P /\ DOMAIN v = P /\ Sum(u) = 0
        /\ \A e \in P : u[e] = c[e][h] /\ u[e] \in Nat /\ v[e] = m[e][h]
    BY <1>5, <1>9, <1>12, <2>1
  <2>3. \A e \in P : u[e] = 0
    BY <1>6, <2>2, ZeroSums
  <2>4. \A e \in P : v[e] = 0
    BY <1>8, <2>2, <2>3
  <2>5. Sum(v) = 0
    BY <1>6, <2>2, <2>4, ZeroSums
  <2> QED BY <1>9, <2>1, <2>5
<1> QED BY <1>1, <1>10, <1>11, <1>12 DEF P

(* BooksMatchPayroll (apportion, _line_weights, fetch_pay_run_results): the *)
(* facts of a fetched run add up to the provider's gross and the hours that *)
(* were sent, to the unit, however the cards moved since, and no hotel has  *)
(* money without hours; for any amounts, hours, employees and hotels.       *)
THEOREM BooksAgree == PrSpec => []BooksMatchPayroll
<1>1. PrInit => PrInv /\ BooksOK
  BY PrInitInv, BooksInit
<1>2. PrInv /\ BooksOK /\ [PrNext]_prVars => (PrInv /\ BooksOK)'
  BY PrInvStep, BooksStep
<1>3. PrInv /\ BooksOK => BooksMatchPayroll
  BY BooksMatch
<1> QED BY <1>1, <1>2, <1>3, PTL DEF PrSpec

-----------------------------------------------------------------------------
(* Journal entries and what they do to an account *)

On(f, a) == IF a \in DOMAIN f THEN f[a] ELSE 0

(* Lines on known accounts that balance. *)
Balanced(lines) ==
    DOMAIN lines \subseteq Accounts /\ (\A a \in DOMAIN lines : lines[a] \in Int) /\ Total(lines) = 0

JournalOK(p) ==
    /\ \E S : p \in Seq(S)
    /\ \A i \in DOMAIN p : p[i].day \in BookDays /\ Balanced(p[i].lines)

Within(w, d) == w[1] <= d /\ d <= w[2]

(* The change of an account by the entries dated in a window. *)
NetIn(p, w, a) == Total([i \in DOMAIN p |-> IF Within(w, p[i].day) THEN On(p[i].lines, a) ELSE 0])

(* The entries of a day come to what the standing one says. *)
StandsFor(p, s) ==
    /\ DOMAIN s = BookDays
    /\ \A d \in BookDays : s[d] # 0 => s[d] \in DOMAIN p /\ p[s[d]].day = d
    /\ \A d \in BookDays, a \in Accounts :
          NetIn(p, <<d, d>>, a) = IF s[d] = 0 THEN 0 ELSE On(p[s[d]].lines, a)

LandedOK ==
    /\ IsFiniteSet(DOMAIN landed) /\ DOMAIN landed \subseteq FactRow
    /\ \A r \in DOMAIN landed : landed[r] \in Int

StInv ==
    /\ LandedOK
    /\ measured \subseteq BookDays
    /\ notice => DOMAIN landed = {}
    /\ JournalOK(posted)
    /\ StandsFor(posted, stands)

(* The chart is finite. *)
LEMMA AccountsFinite == IsFiniteSet(Accounts)
<1> DEFINE f == [c \in Code |-> Class[c].account]
           T == {f[c] : c \in DOMAIN f}
<1>1. IsFiniteSet(DOMAIN f)
  BY StatementsConstants
<1> HIDE DEF f
<1>2. IsFiniteSet(T)
  BY <1>1, ImageFinite
<1> USE DEF f
<1>3. Accounts \in SUBSET (T \cup {Clearing})
  BY DEF Accounts
<1>4. IsFiniteSet(T \cup {Clearing})
  <2> HIDE DEF T, f
  <2> QED BY <1>2, FS_AddElement
<1> HIDE DEF T, f
<1> QED BY <1>3, <1>4, FS_Subset

(* The model's sum is the sum the lemmas are about. *)
LEMMA AddedIsTotal == \A f : Added(f) = Total(f)
BY Zenon DEF Added, Total

(* A sequence by its length. *)
LEMMA Indices ==
  ASSUME NEW p, JournalOK(p)
  PROVE  Len(p) \in Nat /\ DOMAIN p = 1..Len(p) /\ IsFiniteSet(DOMAIN p)
<1>1. Len(p) \in Nat /\ DOMAIN p = 1..Len(p)
  BY DEF JournalOK
<1>2. PICK n : n = Len(p) /\ n \in Nat /\ 1 \in Int
  BY <1>1
<1>3. IsFiniteSet(1..n)
  BY ONLY <1>2, FS_Interval
<1> QED BY <1>1, <1>2, <1>3

LEMMA AtInt ==
  ASSUME NEW l, Balanced(l), NEW a
  PROVE  On(l, a) \in Int
BY DEF On, Balanced

(* What an entry puts on an account is a number. *)
LEMMA NetTerms ==
  ASSUME NEW p, JournalOK(p), NEW w, NEW a
  PROVE  \A i \in DOMAIN p : (IF Within(w, p[i].day) THEN On(p[i].lines, a) ELSE 0) \in Int
BY AtInt DEF JournalOK

LEMMA NetInt ==
  ASSUME NEW p, JournalOK(p), NEW w, NEW a
  PROVE  NetIn(p, w, a) \in Int
<1>1. PICK f : f = [i \in DOMAIN p |-> IF Within(w, p[i].day) THEN On(p[i].lines, a) ELSE 0]
  OBVIOUS
<1>2. DOMAIN f = DOMAIN p /\ \A i \in DOMAIN f : f[i] \in Int
  BY <1>1, NetTerms
<1>3. IsFiniteSet(DOMAIN f)
  BY <1>2, Indices
<1>4. Total(f) \in Int
  BY ONLY <1>2, <1>3, PartInt
<1> QED BY <1>1, <1>4 DEF NetIn

(* One entry more. *)
Longer(p, e, q) ==
    /\ JournalOK(q) /\ Len(q) = Len(p) + 1 /\ q[Len(q)] = e
    /\ \A i \in DOMAIN p : i \in DOMAIN q /\ q[i] = p[i]
    /\ \A w, a : NetIn(q, w, a) = NetIn(p, w, a) + (IF Within(w, e.day) THEN On(e.lines, a) ELSE 0)

LEMMA OneMore ==
  ASSUME NEW p, JournalOK(p), NEW e, e.day \in BookDays, Balanced(e.lines), NEW q, q = Append(p, e)
  PROVE  Longer(p, e, q)
<1>1. PICK n : n = Len(p) /\ n \in Nat /\ DOMAIN p = 1..n /\ IsFiniteSet(DOMAIN p)
  BY Indices
<1>2. PICK S : p \in Seq(S)
  BY DEF JournalOK
<1>3. p \in Seq(S \cup {e}) /\ e \in S \cup {e}
  BY <1>2
<1>4. /\ q \in Seq(S \cup {e}) /\ Len(q) = n + 1 /\ DOMAIN q = 1..(n + 1) /\ q[n + 1] = e
      /\ \A i \in 1..n : q[i] = p[i]
  BY <1>1, <1>3
<1>5. \A i \in DOMAIN p : i \in DOMAIN q /\ q[i] = p[i]
  BY <1>1, <1>4
<1>6. JournalOK(q)
  <2>1. ASSUME NEW i \in DOMAIN q PROVE q[i] = e \/ (i \in DOMAIN p /\ q[i] = p[i])
    <3>1. i \in 1..(n + 1)
      BY <1>4, <2>1
    <3>2. i = n + 1 \/ i \in 1..n
      BY ONLY <1>1, <3>1
    <3> QED BY <1>1, <1>4, <3>2
  <2> QED BY <1>4, <2>1 DEF JournalOK
<1>7. ASSUME NEW w, NEW a
      PROVE  NetIn(q, w, a) = NetIn(p, w, a) + (IF Within(w, e.day) THEN On(e.lines, a) ELSE 0)
  <2>1. PICK f, h : /\ f = [i \in DOMAIN q |-> IF Within(w, q[i].day) THEN On(q[i].lines, a) ELSE 0]
                    /\ h = [i \in DOMAIN p |-> IF Within(w, p[i].day) THEN On(p[i].lines, a) ELSE 0]
    OBVIOUS
  <2>2. DOMAIN f = DOMAIN q /\ \A i \in DOMAIN f : f[i] \in Int
    BY <1>6, <2>1, NetTerms
  <2>3. IsFiniteSet(DOMAIN f)
    BY <1>6, <2>2, Indices
  <2>4. n + 1 \in DOMAIN f /\ DOMAIN h = DOMAIN f \ {n + 1} /\ \A i \in DOMAIN h : h[i] = f[i]
    BY <1>1, <1>4, <2>1, <2>2
  <2>5. Total(f) = f[n + 1] + Total(h)
    BY ONLY <2>2, <2>3, <2>4, TotalGrows
  <2>6. f[n + 1] = IF Within(w, e.day) THEN On(e.lines, a) ELSE 0
    BY <1>4, <2>1, <2>2, <2>4
  <2>7. Total(h) \in Int /\ f[n + 1] \in Int
    <3>1. NetIn(p, w, a) \in Int
      BY NetInt
    <3> QED BY <2>1, <2>2, <2>4, <3>1 DEF NetIn
  <2>8. f[n + 1] + Total(h) = Total(h) + f[n + 1]
    BY <2>7
  <2> QED BY <2>1, <2>5, <2>6, <2>8 DEF NetIn
<1> QED BY <1>1, <1>4, <1>5, <1>6, <1>7 DEF Longer

-----------------------------------------------------------------------------
(* Sums of facts *)

LEMMA RowsSum ==
  ASSUME LandedOK, NEW S \in SUBSET DOMAIN landed
  PROVE  /\ IsFiniteSet(S) /\ SumOf(S) \in Int /\ SumOf(S) = Total([r \in S |-> landed[r] * r.amount])
         /\ \A r \in S : landed[r] * r.amount \in Int
<1>1. IsFiniteSet(S)
  BY FS_Subset DEF LandedOK
<1>2. \A r \in S : landed[r] \in Int /\ r.amount \in Int
  BY StatementsConstants DEF LandedOK, FactRow
<1>3. \A r \in S : landed[r] * r.amount \in Int
  BY <1>2
<1>4. PICK f : f = [r \in S |-> landed[r] * r.amount]
  OBVIOUS
<1>5. DOMAIN f = S /\ \A r \in DOMAIN f : f[r] \in Int
  BY <1>3, <1>4
<1>6. Total(f) \in Int
  BY ONLY <1>1, <1>5, PartInt
<1>7. SumOf(S) = Total(f)
  BY <1>4, AddedIsTotal DEF SumOf
<1> QED BY <1>1, <1>3, <1>4, <1>6, <1>7

(* Facts summed group by group. *)
LEMMA RowsGrouped ==
  ASSUME LandedOK, NEW S \in SUBSET DOMAIN landed, NEW K, IsFiniteSet(K),
         NEW key, \A r \in S : key[r] \in K,
         NEW g, DOMAIN g = K, \A k \in K : g[k] = SumOf({r \in S : key[r] = k})
  PROVE  Total(g) = SumOf(S)
<1>1. PICK f : f = [r \in S |-> landed[r] * r.amount]
  OBVIOUS
<1>2. IsFiniteSet(DOMAIN f) /\ DOMAIN f = S /\ (\A r \in DOMAIN f : f[r] \in Int) /\ SumOf(S) = Total(f)
  BY <1>1, RowsSum
<1>3. ASSUME NEW k \in K
      PROVE  g[k] = Total([r \in {y \in DOMAIN f : key[y] = k} |-> f[r]])
  <2>1. PICK T : T = {r \in S : key[r] = k}
    OBVIOUS
  <2>2. T \in SUBSET DOMAIN landed /\ T \in SUBSET S
    BY <2>1
  <2>3. SumOf(T) = Total([r \in T |-> landed[r] * r.amount])
    BY <2>2, RowsSum
  <2>4. [r \in T |-> landed[r] * r.amount] = [r \in T |-> f[r]]
    BY <1>1, <2>2
  <2>5. {y \in DOMAIN f : key[y] = k} = T
    BY <1>2, <2>1
  <2>6. g[k] = SumOf(T)
    BY <2>1
  <2> QED BY <2>3, <2>4, <2>5, <2>6
<1>4. \A r \in DOMAIN f : key[r] \in K
  BY <1>2
<1> QED BY ONLY <1>2, <1>3, <1>4, DOMAIN g = K, IsFiniteSet(K), TotalGrouped

(* Facts summed in two parts. *)
LEMMA RowsSplit ==
  ASSUME LandedOK, NEW S \in SUBSET DOMAIN landed, NEW A \in SUBSET S
  PROVE  SumOf(S) = SumOf(A) + SumOf(S \ A)
<1>1. PICK f, g, h : /\ f = [r \in S |-> landed[r] * r.amount]
                     /\ g = [r \in A |-> landed[r] * r.amount]
                     /\ h = [r \in S \ A |-> landed[r] * r.amount]
  OBVIOUS
<1>2. A \in SUBSET DOMAIN landed /\ S \ A \in SUBSET DOMAIN landed
  OBVIOUS
<1>3. SumOf(S) = Total(f) /\ SumOf(A) = Total(g) /\ SumOf(S \ A) = Total(h)
  BY <1>1, <1>2, RowsSum
<1>4. /\ IsFiniteSet(DOMAIN f) /\ (\A r \in DOMAIN f : f[r] \in Int) /\ A \in SUBSET DOMAIN f
      /\ DOMAIN g = A /\ (\A r \in A : g[r] = f[r])
      /\ DOMAIN h = DOMAIN f \ A /\ \A r \in DOMAIN f \ A : h[r] = f[r]
  BY <1>1, RowsSum
<1>5. Total(f) = Total(g) + Total(h)
  BY ONLY <1>4, TotalSplit
<1> QED BY <1>3, <1>5

(* No facts come to nothing. *)
LEMMA NoRows == ASSUME LandedOK PROVE SumOf({}) = 0
<1>1. PICK none : none = {}
  OBVIOUS
<1>2. none \in SUBSET DOMAIN landed /\ none \in SUBSET none /\ none \ none = none
  BY <1>1
<1>3. SumOf(none) \in Int
  BY <1>2, RowsSum
<1>4. SumOf(none) = SumOf(none) + SumOf(none)
  BY <1>2, RowsSplit
<1>5. PICK x : x = SumOf(none)
  OBVIOUS
<1>6. x \in Int
  BY ONLY <1>3, <1>5
<1>7. x = x + x
  BY ONLY <1>4, <1>5
<1>8. x = 0
  BY ONLY <1>6, <1>7
<1> QED BY <1>1, <1>5, <1>8

(* Facts summed account by account (_group_by_gl). *)
GroupsOf(S, g) ==
    /\ DOMAIN g = {account(r) : r \in S} /\ IsFiniteSet(DOMAIN g)
    /\ \A a \in DOMAIN g : g[a] \in Int
    /\ \A a : On(g, a) = SumOf({r \in S : account(r) = a})

LEMMA GroupIs ==
  ASSUME LandedOK, NEW S \in SUBSET DOMAIN landed, NEW g, g = _group_by_gl(S)
  PROVE  GroupsOf(S, g)
<1>1. /\ DOMAIN g = {account(r) : r \in S}
      /\ \A a \in DOMAIN g : g[a] = SumOf({r \in S : account(r) = a})
  BY DEF _group_by_gl
<1>2. \A a : {r \in S : account(r) = a} \in SUBSET DOMAIN landed
  OBVIOUS
<1>3. \A a \in DOMAIN g : g[a] \in Int
  BY <1>1, <1>2, RowsSum
<1>4. PICK key : key = [r \in S |-> account(r)]
  OBVIOUS
<1>5. DOMAIN key = S /\ IsFiniteSet(DOMAIN key)
  BY <1>4, RowsSum
<1>6. IsFiniteSet(DOMAIN g)
  <2>1. DOMAIN g = {key[r] : r \in DOMAIN key}
    BY <1>1, <1>4, <1>5
  <2>2. PICK T : T = DOMAIN g
    OBVIOUS
  <2>3. IsFiniteSet(T)
    BY ONLY <1>5, <2>1, <2>2, ImageFinite
  <2> QED BY <2>2, <2>3
<1>7. ASSUME NEW a PROVE On(g, a) = SumOf({r \in S : account(r) = a})
  <2>1. CASE a \in DOMAIN g
    BY <1>1, <2>1 DEF On
  <2>2. CASE a \notin DOMAIN g
    <3>1. {r \in S : account(r) = a} = {}
      BY <1>1, <2>2
    <3> QED BY <2>2, <3>1, NoRows DEF On
  <2> QED BY <2>1, <2>2
<1> QED BY <1>1, <1>3, <1>6, <1>7 DEF GroupsOf

LEMMA FactsIn == ASSUME NEW w PROVE Facts(w) \in SUBSET DOMAIN landed
BY DEF Facts

(* No fact is of the clearing account. *)
LEMMA OfNoClearing ==
  ASSUME LandedOK, NEW r \in DOMAIN landed
  PROVE  /\ account(r) # Clearing /\ r.code \in Code /\ r.day \in BookDays
         /\ account(r) # NoAccount => account(r) \in Accounts
<1>1. r.code \in Code /\ r.day \in BookDays
  BY DEF LandedOK, FactRow
<1> QED BY <1>1, DictionaryInvariant DEF account, Accounts

(* What a day is posted as. *)
LEMMA PlanIs ==
  ASSUME LandedOK, NEW d \in BookDays, NEW plan, plan = build_pms_daily_plan(d)
  PROVE  /\ \A a : a # Clearing => On(plan, a) = SumOf({r \in Facts(<<d, d>>) : account(r) = a})
         /\ Plannable(d) => Balanced(plan)
<1>1. PICK S, g : S = Facts(<<d, d>>) /\ g = _group_by_gl(S)
  OBVIOUS
<1>2. S \in SUBSET DOMAIN landed
  BY <1>1, FactsIn
<1>3. /\ DOMAIN g = {account(r) : r \in S} /\ IsFiniteSet(DOMAIN g)
      /\ \A a \in DOMAIN g : g[a] \in Int
      /\ \A a : On(g, a) = SumOf({r \in S : account(r) = a})
  <2>1. GroupsOf(S, g)
    BY <1>1, <1>2, GroupIs
  <2> QED BY <2>1 DEF GroupsOf
<1>4. PICK moved, rest : moved = {a \in DOMAIN g : g[a] # 0} /\ rest = -Added(g)
  OBVIOUS
<1>5. Total(g) \in Int /\ rest = -Total(g) /\ rest \in Int
  <2>1. Total(g) \in Int
    BY ONLY <1>3, PartInt
  <2> QED BY <1>4, <2>1, AddedIsTotal
<1>6. plan = [a \in moved \cup (IF rest # 0 THEN {Clearing} ELSE {}) |-> IF a = Clearing THEN rest ELSE g[a]]
  BY <1>1, <1>4 DEF build_pms_daily_plan
<1>7. Clearing \notin DOMAIN g
  BY <1>2, <1>3, OfNoClearing
<1>8. ASSUME NEW a, a # Clearing
      PROVE  On(plan, a) = SumOf({r \in S : account(r) = a})
  <2>1. On(plan, a) = On(g, a)
    BY <1>4, <1>6, <1>8 DEF On
  <2> QED BY <1>3, <2>1
<1>9. ASSUME Plannable(d)
      PROVE  Balanced(plan)
  <2>1. DOMAIN plan \subseteq Accounts
    <3>1. \A r \in S : account(r) # NoAccount
      BY <1>1, <1>9 DEF Plannable
    <3>2. DOMAIN g \subseteq Accounts
      BY <1>2, <1>3, <3>1, OfNoClearing
    <3>3. Clearing \in Accounts
      BY DEF Accounts
    <3> QED BY <1>4, <1>6, <3>2, <3>3
  <2>2. \A a \in DOMAIN plan : plan[a] \in Int
    BY <1>3, <1>4, <1>5, <1>6
  <2>3. PICK mv : mv = [a \in moved |-> g[a]]
    OBVIOUS
  <2>4. DOMAIN mv = moved /\ (\A a \in moved : mv[a] = g[a] /\ mv[a] \in Int) /\ moved \in SUBSET DOMAIN g
    BY <1>3, <1>4, <2>3
  <2>5. Total(g) = Total(mv)
    <3>1. /\ IsFiniteSet(DOMAIN g) /\ DOMAIN mv \subseteq DOMAIN g
          /\ \A a \in DOMAIN mv : mv[a] \in Int /\ g[a] = mv[a]
          /\ \A a \in DOMAIN g \ DOMAIN mv : g[a] = 0
      BY <1>3, <1>4, <2>4
    <3> QED BY ONLY <3>1, TotalPadded
  <2>6. CASE rest = 0
    <3>1. plan = mv
      BY <1>4, <1>6, <1>7, <2>3, <2>6
    <3>2. Total(plan) = 0
      BY <1>5, <2>5, <2>6, <3>1
    <3> QED BY <2>1, <2>2, <3>2 DEF Balanced
  <2>7. CASE rest # 0
    <3>1. /\ DOMAIN plan = DOMAIN mv \cup {Clearing}
          /\ \A a \in DOMAIN plan :
               plan[a] = (IF a \in DOMAIN mv THEN mv[a] ELSE 0) + (IF a = Clearing THEN rest ELSE 0)
      <4>1. DOMAIN plan = moved \cup {Clearing}
        BY <1>6, <2>7
      <4>2. Clearing \notin moved
        BY <1>7, <2>4
      <4>3. plan[Clearing] = 0 + rest
        BY <1>5, <1>6, <2>7
      <4>4. \A a \in moved : plan[a] = mv[a] + 0
        BY <1>6, <2>4, <4>2
      <4> QED BY <2>4, <4>1, <4>2, <4>3, <4>4
    <3>2. IsFiniteSet(DOMAIN mv) /\ \A a \in DOMAIN mv : mv[a] \in Int
      BY <1>3, <2>4, FS_Subset
    <3>3. Total(plan) = Total(mv) + rest
      BY ONLY <1>5, <3>1, <3>2, TotalRaised
    <3>4. Total(plan) = 0
      BY <1>5, <2>5, <3>3
    <3> QED BY <2>1, <2>2, <3>4 DEF Balanced
  <2> QED BY <2>6, <2>7
<1> QED BY <1>1, <1>8, <1>9

-----------------------------------------------------------------------------
(* The invariant is kept *)

LEMMA NoEntries ==
  ASSUME NEW p, p = <<>>
  PROVE  JournalOK(p) /\ \A w, a : NetIn(p, w, a) = 0
<1>1. p \in Seq({}) /\ DOMAIN p = {}
  OBVIOUS
<1>2. JournalOK(p)
  BY <1>1 DEF JournalOK
<1>3. ASSUME NEW w, NEW a PROVE NetIn(p, w, a) = 0
  <2>1. PICK f, D : f = [i \in DOMAIN p |-> IF Within(w, p[i].day) THEN On(p[i].lines, a) ELSE 0] /\ D = {}
    OBVIOUS
  <2>2. /\ IsFiniteSet(D) /\ DOMAIN f = D /\ D \in SUBSET D
        /\ \A k \in D : f[k] = IF k \in D THEN 1 ELSE 0
    BY <1>1, <2>1, FS_EmptySet
  <2>3. Total(f) = Cardinality(D)
    BY ONLY <2>2, TotalCount
  <2> QED BY <2>1, <2>3, FS_EmptySet DEF NetIn
<1> QED BY <1>2, <1>3

LEMMA StInitInv == ASSUME StInit PROVE StInv
<1>1. /\ landed = NoFact /\ measured = {} /\ posted = <<>> /\ stands = [d \in BookDays |-> 0]
  BY DEF StInit
<1>2. DOMAIN landed = {} /\ IsFiniteSet(DOMAIN landed)
  BY <1>1, FS_EmptySet DEF NoFact
<1>3. LandedOK
  BY <1>2 DEF LandedOK
<1>4. JournalOK(posted) /\ \A w, a : NetIn(posted, w, a) = 0
  BY <1>1, NoEntries
<1>5. StandsFor(posted, stands)
  BY <1>1, <1>4 DEF StandsFor
<1> QED BY <1>1, <1>2, <1>3, <1>4, <1>5 DEF StInv

(* The reversal of lines that balance balances, and undoes them. *)
LEMMA NegatedBalance ==
  ASSUME NEW l, Balanced(l)
  PROVE  Balanced(Flipped(l)) /\ \A a : On(Flipped(l), a) = -On(l, a)
<1>1. PICK m, D : m = Flipped(l) /\ D = DOMAIN l
  OBVIOUS
<1>2. DOMAIN m = D /\ D \subseteq Accounts /\ \A a \in D : l[a] \in Int /\ m[a] = -l[a] /\ m[a] \in Int
  BY <1>1 DEF Flipped, Balanced
<1>3. IsFiniteSet(D)
  <2>1. D \in SUBSET Accounts
    BY <1>2
  <2> QED BY <2>1, AccountsFinite, FS_Subset
<1>4. PICK c : c = -1 /\ c \in Int
  OBVIOUS
<1>5. \A a \in D : l[a] \in Int /\ m[a] = c * l[a]
  BY <1>2, <1>4
<1>6. DOMAIN m = D /\ DOMAIN l = D
  BY <1>1, <1>2
<1>7. Total(m) = c * Total(l)
  BY ONLY <1>3, <1>4, <1>5, <1>6, TotalScale
<1>8. Total(m) = 0
  BY <1>4, <1>7 DEF Balanced
<1> QED BY <1>1, <1>2, <1>8 DEF Balanced, On

(* A day posted again: the standing entry undone, and the new one. *)
LEMMA PostedAgain ==
  ASSUME StInv, NEW d \in BookDays, post_and_record(d)
  PROVE  JournalOK(posted') /\ StandsFor(posted', stands')
<1>1. PICK plan, undo : /\ plan = build_pms_daily_plan(d)
                        /\ undo = IF stands[d] = 0 THEN <<>>
                                  ELSE <<[day |-> d, lines |-> Flipped(posted[stands[d]].lines)]>>
  OBVIOUS
<1>2. /\ Plannable(d) /\ posted' = posted \o undo \o <<[day |-> d, lines |-> plan]>>
      /\ stands' = [stands EXCEPT ![d] = Len(posted')]
  BY <1>1 DEF post_and_record
<1>3. Balanced(plan)
  BY <1>1, <1>2, PlanIs DEF StInv
<1>0. PICK e : e = [day |-> d, lines |-> plan]
  OBVIOUS
<1>4. e = [day |-> d, lines |-> plan] /\ e.day = d /\ e.lines = plan
  BY <1>0
<1>5. JournalOK(posted) /\ StandsFor(posted, stands)
  BY DEF StInv
<1>6. PICK q : q = posted \o undo
  OBVIOUS
<1>7. PICK S : posted \in Seq(S)
  BY <1>5 DEF JournalOK
<1>8. /\ JournalOK(q) /\ \A i \in DOMAIN posted : i \in DOMAIN q /\ q[i] = posted[i]
      /\ \A x \in BookDays, a \in Accounts :
            NetIn(q, <<x, x>>, a) = IF x = d THEN 0 ELSE NetIn(posted, <<x, x>>, a)
  <2>1. CASE stands[d] = 0
    <3>1. q = posted
      BY <1>1, <1>6, <1>7, <2>1
    <3> QED BY <1>5, <2>1, <3>1 DEF StandsFor
  <2>2. CASE stands[d] # 0
    <3>1. PICK s, u : s = posted[stands[d]] /\ u = [day |-> d, lines |-> Flipped(s.lines)]
      OBVIOUS
    <3>2. Balanced(s.lines) /\ s.day = d
      BY <1>5, <2>2, <3>1 DEF StandsFor, JournalOK
    <3>3. u.day = d /\ Balanced(u.lines) /\ \A a : On(u.lines, a) = -On(s.lines, a)
      BY <3>1, <3>2, NegatedBalance
    <3>4. q = Append(posted, u)
      BY <1>1, <1>6, <1>7, <2>2, <3>1
    <3>5. /\ JournalOK(q) /\ \A i \in DOMAIN posted : i \in DOMAIN q /\ q[i] = posted[i]
          /\ \A w, a : NetIn(q, w, a) = NetIn(posted, w, a) + (IF Within(w, u.day) THEN On(u.lines, a) ELSE 0)
      <4>1. JournalOK(posted) /\ u.day \in BookDays /\ Balanced(u.lines)
        BY <1>5, <3>3
      <4>2. Longer(posted, u, q)
        BY ONLY <4>1, <3>4, OneMore
      <4> QED BY <4>2 DEF Longer
    <3>6. ASSUME NEW x \in BookDays, NEW a \in Accounts
          PROVE  NetIn(q, <<x, x>>, a) = IF x = d THEN 0 ELSE NetIn(posted, <<x, x>>, a)
      <4>1. PICK n, m, l : n = NetIn(posted, <<x, x>>, a) /\ m = NetIn(q, <<x, x>>, a) /\ l = On(s.lines, a)
        OBVIOUS
      <4>2. n \in Int /\ l \in Int
        BY <1>5, <3>2, <4>1, NetInt, AtInt
      <4>3. x \in Int /\ d \in Int /\ (Within(<<x, x>>, d) <=> x = d)
        BY StatementsConstants DEF BookDays, Within
      <4>4. m = n + (IF x = d THEN -l ELSE 0)
        BY <3>3, <3>5, <4>1, <4>3
      <4>5. x = d => n = l
        BY <1>5, <2>2, <3>1, <4>1 DEF StandsFor
      <4> QED BY <4>1, <4>2, <4>4, <4>5
    <3> QED BY <3>5, <3>6
  <2> QED BY <2>1, <2>2
<1>9. posted' = Append(q, e)
  <2>1. PICK T : q \in Seq(T)
    BY <1>8 DEF JournalOK
  <2> QED BY <1>2, <1>4, <1>6, <2>1
<1>10. PICK p2 : p2 = posted'
  OBVIOUS
<1>11. /\ JournalOK(p2) /\ Len(p2) = Len(q) + 1 /\ p2[Len(p2)] = e
       /\ \A i \in DOMAIN q : i \in DOMAIN p2 /\ p2[i] = q[i]
       /\ \A w, a : NetIn(p2, w, a) = NetIn(q, w, a) + (IF Within(w, e.day) THEN On(e.lines, a) ELSE 0)
  <2>1. e.day \in BookDays /\ Balanced(e.lines) /\ p2 = Append(q, e)
    BY <1>3, <1>4, <1>9, <1>10
  <2>2. JournalOK(q)
    BY <1>8
  <2>3. Longer(q, e, p2)
    BY ONLY <2>1, <2>2, OneMore
  <2> QED BY <2>3 DEF Longer
<1>12. PICK n : n = Len(p2) /\ n \in Nat /\ n # 0 /\ n \in DOMAIN p2
  <2>1. Len(p2) \in Nat /\ Len(q) \in Nat /\ DOMAIN p2 = 1..Len(p2)
    BY <1>8, <1>11, Indices
  <2> QED BY <1>11, <2>1
<1>13. DOMAIN stands = BookDays /\ \A x \in BookDays : stands'[x] = IF x = d THEN n ELSE stands[x]
  BY <1>2, <1>5, <1>10, <1>12 DEF StandsFor
<1>14. \A x \in BookDays : stands'[x] # 0 => stands'[x] \in DOMAIN p2 /\ p2[stands'[x]].day = x
  <2> SUFFICES ASSUME NEW x \in BookDays, stands'[x] # 0
               PROVE  stands'[x] \in DOMAIN p2 /\ p2[stands'[x]].day = x
    OBVIOUS
  <2>1. CASE x = d
    BY <1>4, <1>11, <1>12, <1>13, <2>1
  <2>2. CASE x # d
    <3>1. stands[x] # 0 /\ stands[x] \in DOMAIN posted /\ posted[stands[x]].day = x
      BY <1>5, <1>13, <2>2 DEF StandsFor
    <3> QED BY <1>8, <1>11, <1>13, <2>2, <3>1
  <2> QED BY <2>1, <2>2
<1>15. ASSUME NEW x \in BookDays, NEW a \in Accounts
       PROVE  NetIn(p2, <<x, x>>, a) = IF stands'[x] = 0 THEN 0 ELSE On(p2[stands'[x]].lines, a)
  <2>1. x \in Int /\ d \in Int /\ (Within(<<x, x>>, d) <=> x = d)
    BY StatementsConstants DEF BookDays, Within
  <2>2. CASE x = d
    <3>1. NetIn(q, <<x, x>>, a) = 0 /\ On(plan, a) \in Int
      BY <1>3, <1>8, <2>2, AtInt
    <3>2. NetIn(p2, <<x, x>>, a) = 0 + On(plan, a)
      BY <1>4, <1>11, <2>1, <2>2, <3>1
    <3>3. stands'[x] = n /\ p2[n].lines = plan
      BY <1>4, <1>11, <1>12, <1>13, <2>2
    <3> QED BY <1>12, <3>1, <3>2, <3>3
  <2>3. CASE x # d
    <3>1. NetIn(q, <<x, x>>, a) = NetIn(posted, <<x, x>>, a) /\ NetIn(posted, <<x, x>>, a) \in Int
      BY <1>5, <1>8, <2>3, NetInt
    <3>2. NetIn(p2, <<x, x>>, a) = NetIn(posted, <<x, x>>, a) + 0
      BY <1>4, <1>11, <2>1, <2>3, <3>1
    <3>3. stands'[x] = stands[x]
      BY <1>13, <2>3
    <3>4. stands[x] # 0 => p2[stands[x]] = posted[stands[x]]
      BY <1>5, <1>8, <1>11 DEF StandsFor
    <3>5. NetIn(posted, <<x, x>>, a) = IF stands[x] = 0 THEN 0 ELSE On(posted[stands[x]].lines, a)
      BY <1>5 DEF StandsFor
    <3> QED BY <3>1, <3>2, <3>3, <3>4, <3>5
  <2> QED BY <2>2, <2>3
<1>16. StandsFor(p2, stands')
  <2>1. DOMAIN stands' = BookDays
    BY <1>2, <1>13
  <2> QED BY <1>14, <1>15, <2>1 DEF StandsFor
<1> QED BY <1>10, <1>11, <1>16

(* Every step keeps the invariant. *)
LEMMA StInvStep == ASSUME StInv, [StNext]_stVars PROVE StInv'
<1>1. ASSUME NEW r \in FactRow, transform(r) PROVE StInv'
  <2>1. /\ ~notice /\ UNCHANGED <<measured, posted, stands, notice>>
        /\ landed' = IF r \in DOMAIN landed THEN [landed EXCEPT ![r] = @ + 1]
                     ELSE [x \in DOMAIN landed \cup {r} |-> IF x = r THEN 1 ELSE landed[x]]
    BY <1>1 DEF transform
  <2>2. DOMAIN landed' = DOMAIN landed \cup {r}
    BY <2>1
  <2>3. \A x \in DOMAIN landed' : landed'[x] \in Int
    BY <2>1 DEF StInv, LandedOK
  <2>4. IsFiniteSet(DOMAIN landed')
    BY <2>2, FS_AddElement DEF StInv, LandedOK
  <2>5. LandedOK'
    BY <2>2, <2>3, <2>4 DEF StInv, LandedOK
  <2> QED BY <2>1, <2>5 DEF StInv
<1>2. ASSUME NEW d \in BookDays, transform_statistics(d) PROVE StInv'
  BY <1>2 DEF transform_statistics, StInv, LandedOK
<1>3. ASSUME NEW d \in BookDays, post_and_record(d) PROVE StInv'
  <2>1. UNCHANGED <<landed, measured, notice>>
    BY <1>3 DEF post_and_record
  <2> QED BY <1>3, <2>1, PostedAgain DEF StInv, LandedOK
<1>4. CASE UNCHANGED <<landed, measured, posted, stands, notice>>
  BY <1>4 DEF StInv, LandedOK
<1> QED
  BY <1>1, <1>2, <1>3, <1>4 DEF StNext, stVars, put_account, seed_chart, fill_usali

-----------------------------------------------------------------------------
(* The statement of the facts *)

LinesOf(S, g) ==
    /\ DOMAIN g = {LineOf(r) : r \in S} /\ IsFiniteSet(DOMAIN g)
    /\ \A k \in DOMAIN g : g[k] = SumOf({r \in S : LineOf(r) = k})
    /\ Added(g) = SumOf(S)

LEMMA LinesAre ==
  ASSUME LandedOK, NEW S \in SUBSET DOMAIN landed, NEW g, g = _grouped_lines(S)
  PROVE  LinesOf(S, g)
<1>1. /\ DOMAIN g = {LineOf(r) : r \in S}
      /\ \A k \in DOMAIN g : g[k] = SumOf({r \in S : LineOf(r) = k})
  BY DEF _grouped_lines
<1>2. PICK key, K : key = [r \in S |-> LineOf(r)] /\ K = DOMAIN g
  OBVIOUS
<1>3. DOMAIN key = S /\ IsFiniteSet(DOMAIN key) /\ \A r \in S : key[r] = LineOf(r)
  BY <1>2, RowsSum
<1>4. IsFiniteSet(K)
  <2>1. K = {key[r] : r \in DOMAIN key}
    BY <1>1, <1>2, <1>3
  <2> QED BY ONLY <1>3, <2>1, ImageFinite
<1>5. \A k \in K : g[k] = SumOf({r \in S : key[r] = k})
  <2> SUFFICES ASSUME NEW k \in K PROVE g[k] = SumOf({r \in S : key[r] = k})
    OBVIOUS
  <2>1. {r \in S : key[r] = k} = {r \in S : LineOf(r) = k}
    BY <1>3
  <2> QED BY <1>1, <1>2, <2>1
<1>6. \A r \in S : key[r] \in K
  BY <1>1, <1>2, <1>3
<1>7. Total(g) = SumOf(S)
  BY <1>2, <1>4, <1>5, <1>6, RowsGrouped
<1> QED BY <1>1, <1>2, <1>4, <1>7, AddedIsTotal DEF LinesOf

(* A department is what its facts come to. *)
SectionOf(S, dep, s) ==
    /\ s \in DOMAIN dep <=> \E r \in S : Class[r.code].sub = s
    /\ s \in DOMAIN dep => dep[s] = SumOf({r \in S : Class[r.code].sub = s})

LEMMA SectionIs ==
  ASSUME LandedOK, NEW S \in SUBSET DOMAIN landed, NEW dep, dep = _dept_sections(_grouped_lines(S)), NEW s
  PROVE  SectionOf(S, dep, s)
<1>1. PICK g : g = _grouped_lines(S)
  OBVIOUS
<1>2. DOMAIN g = {LineOf(r) : r \in S} /\ \A k \in DOMAIN g : g[k] = SumOf({r \in S : LineOf(r) = k})
  BY <1>1, LinesAre DEF LinesOf
<1>3. \A r \in S : LineOf(r).sub = Class[r.code].sub
  BY DEF LineOf
<1>4. /\ DOMAIN dep = {k.sub : k \in DOMAIN g}
      /\ s \in DOMAIN dep => dep[s] = Added(Restrict(g, {k \in DOMAIN g : k.sub = s}))
  BY <1>1 DEF _dept_sections
<1>5. s \in DOMAIN dep <=> \E r \in S : Class[r.code].sub = s
  BY <1>2, <1>3, <1>4
<1>6. PICK T, h : T = {r \in S : Class[r.code].sub = s} /\ h = _grouped_lines(T)
  OBVIOUS
<1>7. T \in SUBSET DOMAIN landed
  BY <1>6
<1>8. DOMAIN h = {LineOf(r) : r \in T} /\ (\A k \in DOMAIN h : h[k] = SumOf({r \in T : LineOf(r) = k}))
      /\ Added(h) = SumOf(T)
  <2>1. LandedOK /\ h = _grouped_lines(T)
    BY <1>6
  <2>2. LinesOf(T, h)
    BY ONLY <1>7, <2>1, LinesAre
  <2> QED BY <2>2 DEF LinesOf
<1>9. Restrict(g, {k \in DOMAIN g : k.sub = s}) = h
  <2>1. DOMAIN h = {k \in DOMAIN g : k.sub = s}
    <3>1. ASSUME NEW k \in DOMAIN h PROVE k \in DOMAIN g /\ k.sub = s
      <4>1. PICK r \in T : k = LineOf(r)
        BY <1>8, <3>1
      <4>2. r \in S /\ Class[r.code].sub = s
        BY <1>6, <4>1
      <4> QED BY <1>2, <1>3, <4>1, <4>2
    <3>2. ASSUME NEW k \in DOMAIN g, k.sub = s PROVE k \in DOMAIN h
      <4>1. PICK r \in S : k = LineOf(r)
        BY <1>2, <3>2
      <4>2. r \in T
        BY <1>3, <1>6, <3>2, <4>1
      <4> QED BY <1>8, <4>1, <4>2
    <3> QED BY <3>1, <3>2
  <2>2. ASSUME NEW k \in DOMAIN h PROVE h[k] = g[k]
    <3>1. k \in DOMAIN g /\ k.sub = s
      BY <2>1, <2>2
    <3>2. {r \in T : LineOf(r) = k} = {r \in S : LineOf(r) = k}
      BY <1>3, <1>6, <3>1
    <3> QED BY <1>2, <1>8, <2>2, <3>1, <3>2
  <2>3. h = [k \in DOMAIN h |-> h[k]]
    BY <1>6 DEF _grouped_lines
  <2>4. [k \in DOMAIN h |-> h[k]] = [k \in DOMAIN h |-> g[k]]
    BY <2>2
  <2> QED BY <2>1, <2>3, <2>4 DEF Restrict
<1> QED BY <1>4, <1>5, <1>6, <1>8, <1>9 DEF SectionOf

(* Revenue, taxes, settlements and the rest hold every fact once. *)
LEMMA PartsHoldAll ==
  ASSUME LandedOK, NEW R \in SUBSET DOMAIN landed
  PROVE  SumOf(R) = SumOf({r \in R : schedule(r) # 0}) + SumOf(Taxes(R)) + SumOf(Settlements(R)) + SumOf(Other(R))
<1>1. PICK A, T, S, O : /\ A = {r \in R : schedule(r) # 0} /\ T = Taxes(R)
                        /\ S = Settlements(R) /\ O = Other(R)
  OBVIOUS
<1>2. PICK Z, Y : Z = R \ A /\ Y = Z \ T
  OBVIOUS
<1>3. /\ A \in SUBSET R /\ Z \in SUBSET DOMAIN landed /\ T \in SUBSET Z
      /\ Y \in SUBSET DOMAIN landed /\ S \in SUBSET Y /\ O = Y \ S
  BY <1>1, <1>2 DEF Taxes, Settlements, Other
<1>4. SumOf(R) = SumOf(A) + SumOf(Z)
  BY <1>2, <1>3, RowsSplit
<1>5. SumOf(Z) = SumOf(T) + SumOf(Y)
  BY <1>2, <1>3, RowsSplit
<1>6. SumOf(Y) = SumOf(S) + SumOf(O)
  BY <1>3, RowsSplit
<1>7. SumOf(A) \in Int /\ SumOf(T) \in Int /\ SumOf(S) \in Int /\ SumOf(O) \in Int
  <2>1. A \in SUBSET DOMAIN landed /\ T \in SUBSET DOMAIN landed /\ S \in SUBSET DOMAIN landed /\ O \in SUBSET DOMAIN landed
    BY <1>3
  <2> QED BY <2>1, RowsSum
<1>8. PICK a, t, s, o : a = SumOf(A) /\ t = SumOf(T) /\ s = SumOf(S) /\ o = SumOf(O)
  OBVIOUS
<1>9. SumOf(R) = a + t + s + o
  BY <1>4, <1>5, <1>6, <1>7, <1>8
<1> QED BY <1>1, <1>8, <1>9

(* A window's revenue is its days'. *)
LEMMA DaysSum ==
  ASSUME LandedOK, NEW w \in Spans
  PROVE  Added([d \in w[1]..w[2] |-> _revenue_by_day(d)]) = SumOf({r \in Facts(w) : schedule(r) # 0})
<1>1. PICK lo, hi : lo = w[1] /\ hi = w[2]
  OBVIOUS
<1>2. lo \in Int /\ hi \in Int
  BY <1>1, StatementsConstants DEF Spans, BookDays
<1>3. PICK K, S, key, g : /\ K = lo..hi /\ S = {r \in Facts(w) : schedule(r) # 0}
                          /\ key = [r \in S |-> r.day] /\ g = [d \in K |-> _revenue_by_day(d)]
  OBVIOUS
<1>4. S \in SUBSET DOMAIN landed /\ \A r \in S : r.day \in Int /\ lo <= r.day /\ r.day <= hi
  BY <1>1, <1>3, StatementsConstants DEF Facts, LandedOK, FactRow, BookDays
<1>5. IsFiniteSet(K)
  BY ONLY <1>2, <1>3, FS_Interval
<1>6. \A r \in S : key[r] \in K
  BY <1>2, <1>3, <1>4
<1>7. DOMAIN g = K
  BY <1>3
<1>8. ASSUME NEW d \in K PROVE g[d] = SumOf({r \in S : key[r] = d})
  <2>1. d \in Int /\ lo <= d /\ d <= hi
    BY <1>2, <1>3
  <2>2. \A r \in DOMAIN landed : r.day \in Int
    BY StatementsConstants DEF LandedOK, FactRow, BookDays
  <2>3. {r \in Facts(<<d, d>>) : schedule(r) # 0} = {r \in S : key[r] = d}
    <3>1. ASSUME NEW r PROVE r \in {x \in Facts(<<d, d>>) : schedule(x) # 0} <=> r \in {x \in S : key[x] = d}
      <4>1. r \in Facts(<<d, d>>) <=> r \in DOMAIN landed /\ r.day = d
        BY <2>1, <2>2 DEF Facts
      <4>2. r \in S <=> r \in DOMAIN landed /\ lo <= r.day /\ r.day <= hi /\ schedule(r) # 0
        BY <1>1, <1>3 DEF Facts
      <4>3. r \in S => key[r] = r.day
        BY <1>3
      <4> QED BY <2>1, <4>1, <4>2, <4>3
    <3> QED BY <3>1
  <2> QED BY <1>3, <2>3 DEF _revenue_by_day
<1>9. Total(g) = SumOf(S)
  BY <1>4, <1>5, <1>6, <1>7, <1>8, RowsGrouped
<1> QED BY <1>1, <1>3, <1>9, AddedIsTotal

(* Each total of the statement is a sum of facts. *)
ReportOf(R, rep) ==
    /\ rep.total_operating_revenue = SumOf({r \in R : schedule(r) # 0})
    /\ rep.misc_income_total = SumOf(Misc(R))
    /\ rep.taxes_total = SumOf(Taxes(R))
    /\ rep.settlements_total = SumOf(Settlements(R))
    /\ rep.other_total = SumOf(Other(R))
    /\ \A s : Section(rep, s) = SumOf({r \in Operated(R) : Class[r.code].sub = s})

LEMMA ReportIs ==
  ASSUME LandedOK, NEW w, NEW rep, rep = summary_operating_statement(w)
  PROVE  ReportOf(Facts(w), rep)
<1>1. PICK R, M, T, S, O, P :
         /\ R = Facts(w) /\ M = Misc(R) /\ T = Taxes(R) /\ S = Settlements(R) /\ O = Other(R) /\ P = Operated(R)
  OBVIOUS
<1>2. R \in SUBSET DOMAIN landed
  BY <1>1, FactsIn
<1>3. /\ M \in SUBSET DOMAIN landed /\ T \in SUBSET DOMAIN landed /\ S \in SUBSET DOMAIN landed
      /\ O \in SUBSET DOMAIN landed /\ P \in SUBSET DOMAIN landed
  BY <1>1, <1>2 DEF Misc, Taxes, Settlements, Other, Operated
<1>4. /\ rep.operated_departments = _dept_sections(_grouped_lines(P))
      /\ rep.misc_income_total = Added(_grouped_lines(M))
      /\ rep.total_operating_revenue = SumOf({r \in R : schedule(r) # 0})
      /\ rep.taxes_total = Added(_grouped_lines(T))
      /\ rep.settlements_total = Added(_grouped_lines(S))
      /\ rep.other_total = Added(_grouped_lines(O))
  BY <1>1 DEF summary_operating_statement
<1>5. ASSUME NEW X \in SUBSET DOMAIN landed PROVE Added(_grouped_lines(X)) = SumOf(X)
  BY LinesAre DEF LinesOf
<1>6. PICK dep : dep = _dept_sections(_grouped_lines(P))
  OBVIOUS
<1>7. ASSUME NEW s
      PROVE  /\ s \in DOMAIN dep <=> \E r \in P : Class[r.code].sub = s
             /\ (IF s \in DOMAIN dep THEN dep[s] ELSE 0) = SumOf({r \in P : Class[r.code].sub = s})
  <2>1. /\ s \in DOMAIN dep <=> \E r \in P : Class[r.code].sub = s
        /\ s \in DOMAIN dep => dep[s] = SumOf({r \in P : Class[r.code].sub = s})
    <3>1. P \in SUBSET DOMAIN landed
      BY <1>3
    <3>2. SectionOf(P, dep, s)
      BY <1>6, <3>1, SectionIs
    <3> QED BY <3>2 DEF SectionOf
  <2>2. CASE s \notin DOMAIN dep
    <3>1. {r \in P : Class[r.code].sub = s} = {}
      BY <2>1, <2>2
    <3> QED BY <2>1, <2>2, <3>1, NoRows
  <2> QED BY <2>1, <2>2
<1>8. rep.operated_departments = dep
  BY <1>4, <1>6
<1>9. \A s : /\ s \in DOMAIN rep.operated_departments <=> \E r \in P : Class[r.code].sub = s
             /\ Section(rep, s) = SumOf({r \in P : Class[r.code].sub = s})
  BY <1>7, <1>8 DEF Section
<1>10. /\ rep.misc_income_total = SumOf(M) /\ rep.taxes_total = SumOf(T)
       /\ rep.settlements_total = SumOf(S) /\ rep.other_total = SumOf(O)
  BY <1>3, <1>4, <1>5
<1> QED BY <1>1, <1>4, <1>9, <1>10 DEF ReportOf

(* What StatementsTie says of a window. *)
Ties(w, report, pack, lines) ==
    /\ SumOf(Facts(w)) = report.total_operating_revenue + report.taxes_total
                          + report.settlements_total + report.other_total
    /\ report.total_operating_revenue = Added([d \in w[1]..w[2] |-> _revenue_by_day(d)])
    /\ ~CpaRefused(w)
    /\ pack.sales.total_operating_revenue = report.total_operating_revenue
    /\ pack.taxes.taxes_total = report.taxes_total
    /\ pack.taxes.room_revenue_base = Section(report, "rooms")
    /\ \A k \in DOMAIN lines : SumOf(line_transactions(w, k)) = lines[k]

LEMMA StatementTies ==
  ASSUME StInv, NEW w \in Spans, SosRefusal(w) = "",
         NEW report, report = summary_operating_statement(w),
         NEW pack, pack = cpa_pack(w), NEW lines, lines = _grouped_lines(Facts(w))
  PROVE  Ties(w, report, pack, lines)
<1>1. PICK R : R = Facts(w)
  OBVIOUS
<1>2. R \in SUBSET DOMAIN landed /\ LandedOK
  BY <1>1, FactsIn DEF StInv
<1>3. /\ report.total_operating_revenue = SumOf({r \in R : schedule(r) # 0})
      /\ report.taxes_total = SumOf(Taxes(R))
      /\ report.settlements_total = SumOf(Settlements(R))
      /\ report.other_total = SumOf(Other(R))
      /\ Section(report, "rooms") = SumOf({r \in Operated(R) : Class[r.code].sub = "rooms"})
  <2>1. ReportOf(Facts(w), report)
    BY <1>2, ReportIs
  <2> QED BY <1>1, <2>1 DEF ReportOf
<1>4. SumOf(R) = SumOf({r \in R : schedule(r) # 0}) + SumOf(Taxes(R)) + SumOf(Settlements(R)) + SumOf(Other(R))
  BY <1>2, PartsHoldAll
<1>5. Added([d \in w[1]..w[2] |-> _revenue_by_day(d)]) = SumOf({r \in R : schedule(r) # 0})
  BY <1>1, <1>2, DaysSum
<1>6. ~CpaRefused(w)
  <2>1. R # {} /\ Cardinality({Class[r.code].source : r \in R}) = 1
    BY <1>1 DEF SosRefusal
  <2>2. {Class[r.code].source : r \in R} # {}
    BY <2>1
  <2> QED BY <1>1, <2>1, <2>2 DEF CpaRefused
<1>7. /\ pack.sales.total_operating_revenue = SumOf({r \in R : schedule(r) # 0})
      /\ pack.taxes.taxes_total = SumOf(Taxes(R))
      /\ pack.taxes.room_revenue_base = SumOf({r \in Operated(R) : Class[r.code].sub = "rooms"})
  BY <1>1 DEF cpa_pack, _sales_report, _tax_report
<1>8. \A k \in DOMAIN lines : SumOf(line_transactions(w, k)) = lines[k]
  <2>1. LandedOK /\ lines = _grouped_lines(R)
    BY <1>1, <1>2
  <2>2. \A k \in DOMAIN lines : lines[k] = SumOf({r \in R : LineOf(r) = k})
    <3>1. LinesOf(R, lines)
      BY <1>2, <2>1, LinesAre
    <3> QED BY <3>1 DEF LinesOf
  <2> QED BY <1>1, <2>2 DEF line_transactions
<1> QED BY <1>1, <1>3, <1>4, <1>5, <1>6, <1>7, <1>8 DEF Ties

(* The window the property list offers holds everything there is. *)
LEMMA ListHoldsAll ==
  ASSUME StInv, list_properties # <<>>
  PROVE  /\ Facts(list_properties) = DOMAIN landed
         /\ notice => sos_answers(<<list_properties[2], list_properties[2]>>)
<1>1. PICK days : days = measured \cup {r.day : r \in DOMAIN landed}
  OBVIOUS
<1>2. days \in SUBSET BookDays
  BY <1>1 DEF StInv, LandedOK, FactRow
<1>3. IsFiniteSet(BookDays)
  <2>1. 1 \in Int /\ Posted \in Int /\ BookDays = 1..Posted
    BY StatementsConstants DEF BookDays
  <2> QED BY ONLY <2>1, FS_Interval
<1>4. IsFiniteSet(days) /\ days \subseteq Int
  <2>1. IsFiniteSet(days)
    BY ONLY <1>2, <1>3, FS_Subset
  <2> QED BY <1>2, <2>1, StatementsConstants DEF BookDays
<1>5. days # {} /\ list_properties = <<Min(days), Max(days)>>
  BY <1>1 DEF list_properties
<1>6. PICK lo, hi : lo = Min(days) /\ hi = Max(days)
  OBVIOUS
<1>7. lo \in days /\ hi \in days /\ \A y \in days : lo <= y /\ y <= hi
  BY <1>4, <1>5, <1>6, MaxOf
<1>8. Facts(<<lo, hi>>) = DOMAIN landed
  BY <1>1, <1>7 DEF Facts
<1>9. ASSUME notice PROVE sos_answers(<<hi, hi>>)
  <2>1. days = measured
    BY <1>1, <1>9 DEF StInv
  <2>2. hi \in measured /\ hi <= hi
    BY <1>4, <1>7, <2>1
  <2>3. hi \in _statistics(<<hi, hi>>)
    BY <2>2 DEF _statistics
  <2> QED BY <1>9, <2>3 DEF sos_answers
<1> QED BY <1>5, <1>6, <1>8, <1>9

LEMMA AllTie == ASSUME StInv PROVE StatementsTie
<1>1. ASSUME NEW w \in Spans, SosRefusal(w) = ""
      PROVE  Ties(w, summary_operating_statement(w), cpa_pack(w), _grouped_lines(Facts(w)))
  BY <1>1, StatementTies
<1> QED BY <1>1, ListHoldsAll DEF StatementsTie, Ties

-----------------------------------------------------------------------------
(* The trial balance *)

LEMMA TotalOfZeros ==
  ASSUME NEW f, IsFiniteSet(DOMAIN f), \A k \in DOMAIN f : f[k] = 0
  PROVE  Total(f) = 0
<1>1. PICK D, none : D = DOMAIN f /\ none = {}
  OBVIOUS
<1>2. /\ IsFiniteSet(D) /\ DOMAIN f = D /\ none \in SUBSET D
      /\ \A k \in D : f[k] = IF k \in none THEN 1 ELSE 0
  BY <1>1
<1>3. Total(f) = Cardinality(none)
  BY ONLY <1>2, TotalCount
<1> QED BY <1>1, <1>3, FS_EmptySet

(* The positive part of an amount. *)
LEMMA OfZero ==
  ASSUME NEW x \in Int
  PROVE  /\ Max({0, x}) = (IF x > 0 THEN x ELSE 0)
         /\ Max({0, x}) \in Int
<1>1. PICK S, T, u : S = {0, x} /\ T = {0} /\ u = x
  OBVIOUS
<1>2. IsFiniteSet(T)
  BY <1>1, FS_Singleton
<1>3. IsFiniteSet(T \cup {u})
  BY <1>2, FS_AddElement
<1>4. S = T \cup {u} /\ S \subseteq Int /\ S # {}
  BY <1>1
<1>5. IsFiniteSet(S)
  BY <1>3, <1>4
<1>6. Max(S) \in S /\ \A y \in S : y <= Max(S)
  BY <1>4, <1>5, MaxOf
<1>7. PICK m : m = Max(S)
  OBVIOUS
<1>8. (m = 0 \/ m = x) /\ 0 <= m /\ x <= m /\ m \in Int
  BY <1>1, <1>6, <1>7
<1> QED BY <1>1, <1>7, <1>8

(* Over the entries of the window alone. *)
SumsTo(S, f, n) == IsFiniteSet(S) /\ (\A i \in S : f[i] \in Int) /\ n = Total(f)

LEMMA NetOver ==
  ASSUME JournalOK(posted), NEW w, NEW a, NEW S, S = EntriesIn(w),
         NEW f, f = [i \in S |-> On(posted[i].lines, a)]
  PROVE  SumsTo(S, f, NetIn(posted, w, a))
<1>1. PICK g : g = [i \in DOMAIN posted |-> IF Within(w, posted[i].day) THEN On(posted[i].lines, a) ELSE 0]
  OBVIOUS
<1>2. IsFiniteSet(DOMAIN posted)
  BY Indices
<1>3. S \in SUBSET DOMAIN posted /\ \A i \in DOMAIN posted : i \in S <=> Within(w, posted[i].day)
  BY DEF EntriesIn, Within
<1>4. \A i \in S : f[i] \in Int
  BY <1>3, AtInt DEF JournalOK
<1>5. /\ IsFiniteSet(DOMAIN g) /\ DOMAIN f \subseteq DOMAIN g
      /\ \A k \in DOMAIN f : f[k] \in Int /\ g[k] = f[k]
      /\ \A k \in DOMAIN g \ DOMAIN f : g[k] = 0
  BY <1>1, <1>2, <1>3, <1>4
<1>6. Total(g) = Total(f)
  BY ONLY <1>5, TotalPadded
<1>7. IsFiniteSet(S)
  BY ONLY <1>2, <1>3, FS_Subset
<1> QED BY <1>1, <1>4, <1>6, <1>7 DEF NetIn, SumsTo

(* The entries that touch the account. *)
LEMMA NetTouched ==
  ASSUME JournalOK(posted), NEW w, NEW a, NEW J, J = journal_entries(w, a),
         NEW f, f = [i \in J |-> posted[i].lines[a]]
  PROVE  /\ IsFiniteSet(J) /\ \A i \in J : f[i] \in Int
         /\ NetIn(posted, w, a) = Total(f)
<1>1. PICK S, g : S = EntriesIn(w) /\ g = [i \in S |-> On(posted[i].lines, a)]
  OBVIOUS
<1>0. SumsTo(S, g, NetIn(posted, w, a))
  BY <1>1, NetOver
<1>2. IsFiniteSet(S) /\ (\A i \in S : g[i] \in Int) /\ NetIn(posted, w, a) = Total(g)
  BY <1>0 DEF SumsTo
<1>3. J \in SUBSET S /\ \A i \in S : i \in J <=> a \in DOMAIN posted[i].lines
  BY <1>1 DEF journal_entries
<1>4. /\ IsFiniteSet(DOMAIN g) /\ DOMAIN f \subseteq DOMAIN g
      /\ \A k \in DOMAIN f : f[k] \in Int /\ g[k] = f[k]
      /\ \A k \in DOMAIN g \ DOMAIN f : g[k] = 0
  BY <1>1, <1>2, <1>3 DEF On
<1>5. Total(g) = Total(f)
  BY ONLY <1>4, TotalPadded
<1>6. IsFiniteSet(J)
  BY ONLY <1>2, <1>3, FS_Subset
<1> QED BY <1>2, <1>4, <1>5, <1>6

(* What the journal nets to, account by account. *)
NetsAre(nets, w) ==
    /\ DOMAIN nets \in SUBSET (Accounts \ {Clearing})
    /\ \A a \in DOMAIN nets : nets[a] \in Int
    /\ \A a : a # Clearing => On(nets, a) = NetIn(posted, w, a)

LEMMA JournalNets ==
  ASSUME JournalOK(posted), NEW w, NEW nets, nets = _journal_nets(w)
  PROVE  NetsAre(nets, w)
<1>1. PICK S : S = EntriesIn(w)
  OBVIOUS
<1>10. \A a : a \in Touched(S) <=> \E i \in S : a \in DOMAIN posted[i].lines
  BY Zenon DEF Touched
<1>11. nets = [a \in Touched(S) \ {Clearing} |->
                Added([i \in {i \in S : a \in DOMAIN posted[i].lines} |-> posted[i].lines[a]])]
  BY <1>1 DEF _journal_nets, NetsOver
<1>2. /\ DOMAIN nets = Touched(S) \ {Clearing}
      /\ \A a \in DOMAIN nets :
           nets[a] = Added([i \in {i \in S : a \in DOMAIN posted[i].lines} |-> posted[i].lines[a]])
  BY <1>11
<1>3. S \in SUBSET DOMAIN posted /\ \A i \in S : DOMAIN posted[i].lines \subseteq Accounts
  BY <1>1 DEF EntriesIn, JournalOK, Balanced
<1>0. \A a : a \in DOMAIN nets <=> a # Clearing /\ \E i \in S : a \in DOMAIN posted[i].lines
  BY <1>2, <1>10
<1>4. DOMAIN nets \in SUBSET (Accounts \ {Clearing})
  BY <1>0, <1>3
<1>5. \A a : journal_entries(w, a) = {i \in S : a \in DOMAIN posted[i].lines}
  BY <1>1 DEF journal_entries
<1>6. ASSUME NEW a \in DOMAIN nets PROVE nets[a] = NetIn(posted, w, a) /\ nets[a] \in Int
  <2>1. PICK J, f : J = journal_entries(w, a) /\ f = [i \in J |-> posted[i].lines[a]]
    OBVIOUS
  <2>2. NetIn(posted, w, a) = Total(f)
    BY <2>1, NetTouched
  <2>3. nets[a] = Added(f)
    BY <1>2, <1>5, <2>1
  <2>4. NetIn(posted, w, a) \in Int
    BY NetInt
  <2> QED BY <2>2, <2>3, <2>4, AddedIsTotal
<1>7. ASSUME NEW a, a # Clearing, a \notin DOMAIN nets PROVE NetIn(posted, w, a) = 0
  <2>1. PICK J, f : J = journal_entries(w, a) /\ f = [i \in J |-> posted[i].lines[a]]
    OBVIOUS
  <2>2. NetIn(posted, w, a) = Total(f) /\ IsFiniteSet(J)
    BY <2>1, NetTouched
  <2>3. J = {}
    BY <1>0, <1>5, <1>7, <2>1
  <2>4. IsFiniteSet(DOMAIN f) /\ \A k \in DOMAIN f : f[k] = 0
    BY <2>1, <2>2, <2>3
  <2> QED BY <2>2, <2>4, TotalOfZeros
<1> QED BY <1>4, <1>6, <1>7 DEF NetsAre, On

(* Every entry balances, so a window does. *)
LEMMA WindowBalances ==
  ASSUME JournalOK(posted), NEW w, NEW r, r = [a \in Accounts |-> NetIn(posted, w, a)]
  PROVE  Total(r) = 0
<1>1. PICK D, E : D = Accounts /\ E = DOMAIN posted
  OBVIOUS
<1>2. IsFiniteSet(D) /\ IsFiniteSet(E)
  BY <1>1, AccountsFinite, Indices
<1>3. PICK t : t = [a \in D |-> [i \in E |-> IF Within(w, posted[i].day) THEN On(posted[i].lines, a) ELSE 0]]
  OBVIOUS
<1>4. DOMAIN t = D /\ (\A a \in D : DOMAIN t[a] = E) /\ \A a \in D, i \in E : t[a][i] \in Int
  BY <1>1, <1>3, NetTerms
<1>5. PICK c : c = [i \in E |-> [a \in D |-> t[a][i]]]
  OBVIOUS
<1>6. DOMAIN c = E /\ (\A i \in E : DOMAIN c[i] = D) /\ \A a \in D, i \in E : c[i][a] = t[a][i]
  BY <1>5
<1>7. PICK k : k = [i \in E |-> Total(c[i])]
  OBVIOUS
<1>8. DOMAIN k = E /\ \A i \in E : k[i] = Total(c[i])
  BY <1>7
<1>9. DOMAIN r = D /\ \A a \in D : r[a] = Total(t[a])
  BY <1>1, <1>3 DEF NetIn
<1>10. Total(r) = Total(k)
  BY ONLY <1>2, <1>4, <1>6, <1>8, <1>9, TotalCross, Z3T(60)
<1>11. ASSUME NEW i \in E PROVE k[i] = 0
  <2>1. PICK x, l : x = c[i] /\ l = posted[i].lines
    OBVIOUS
  <2>2. DOMAIN x = D /\ IsFiniteSet(DOMAIN x)
        /\ \A a \in D : x[a] = IF Within(w, posted[i].day) THEN On(l, a) ELSE 0
    BY <1>2, <1>3, <1>6, <2>1
  <2>3. Balanced(l)
    BY <1>1, <1>11, <2>1 DEF JournalOK
  <2>4. CASE ~Within(w, posted[i].day)
    <3>1. \A a \in DOMAIN x : x[a] = 0
      BY <2>2, <2>4
    <3> QED BY <1>8, <2>1, <2>2, <3>1, TotalOfZeros
  <2>5. CASE Within(w, posted[i].day)
    <3>1. /\ IsFiniteSet(DOMAIN x) /\ DOMAIN l \subseteq DOMAIN x
          /\ \A a \in DOMAIN l : l[a] \in Int /\ x[a] = l[a]
          /\ \A a \in DOMAIN x \ DOMAIN l : x[a] = 0
      BY <1>1, <2>2, <2>3, <2>5 DEF Balanced, On
    <3>2. Total(x) = Total(l)
      BY ONLY <3>1, TotalPadded
    <3> QED BY <1>8, <2>1, <2>3, <3>2 DEF Balanced
  <2> QED BY <2>4, <2>5
<1>12. IsFiniteSet(DOMAIN k) /\ \A i \in DOMAIN k : k[i] = 0
  BY <1>2, <1>8, <1>11
<1>13. Total(k) = 0
  BY ONLY <1>12, TotalOfZeros
<1> QED BY <1>10, <1>13

(* A side of an account. *)
Side(w, sign, a) == Added([i \in journal_entries(w, a) |-> Max({0, sign * posted[i].lines[a]})])

(* Credits exceed debits by the net. *)
LEMMA SidesAre ==
  ASSUME JournalOK(posted), NEW w, NEW a
  PROVE  /\ Side(w, -1, a) \in Int
         /\ Side(w, 1, a) = Side(w, -1, a) + NetIn(posted, w, a)
<1>1. PICK J, f : J = journal_entries(w, a) /\ f = [i \in J |-> posted[i].lines[a]]
  OBVIOUS
<1>2. IsFiniteSet(J) /\ (\A i \in J : f[i] \in Int) /\ NetIn(posted, w, a) = Total(f)
  BY <1>1, NetTouched
<1>3. PICK p, q : /\ p = [i \in J |-> Max({0, 1 * posted[i].lines[a]})]
                  /\ q = [i \in J |-> Max({0, (-1) * posted[i].lines[a]})]
  OBVIOUS
<1>4. ASSUME NEW i \in J PROVE q[i] \in Int /\ p[i] = q[i] + f[i]
  <2>1. PICK x, y : x = posted[i].lines[a] /\ y = (-1) * x
    OBVIOUS
  <2>2. x \in Int /\ f[i] = x
    BY <1>1, <1>2, <2>1
  <2>3. y \in Int /\ y = -x /\ 1 * x = x
    BY <2>1, <2>2
  <2>4. p[i] = Max({0, x}) /\ q[i] = Max({0, y})
    BY <1>3, <2>1, <2>3
  <2>5. Max({0, x}) = (IF x > 0 THEN x ELSE 0) /\ Max({0, y}) = (IF y > 0 THEN y ELSE 0)
    BY <2>2, <2>3, OfZero
  <2>6. p[i] = (IF x > 0 THEN x ELSE 0) /\ q[i] = (IF y > 0 THEN y ELSE 0)
    BY <2>4, <2>5
  <2> QED BY ONLY <2>2, <2>3, <2>6
<1>5. /\ DOMAIN p = J /\ DOMAIN q = J /\ DOMAIN f = J
      /\ \A i \in J : q[i] \in Int /\ f[i] \in Int /\ p[i] = q[i] + f[i]
  BY <1>1, <1>2, <1>3, <1>4
<1>6. Total(p) = Total(q) + Total(f)
  BY ONLY <1>2, <1>5, TotalAdd
<1>7. IsFiniteSet(DOMAIN q) /\ \A i \in DOMAIN q : q[i] \in Int
  BY <1>2, <1>5
<1>8. Total(q) \in Int
  BY ONLY <1>7, PartInt
<1>9. Side(w, 1, a) = Total(p) /\ Side(w, -1, a) = Total(q)
  BY <1>1, <1>3, AddedIsTotal DEF Side
<1> QED BY <1>2, <1>6, <1>8, <1>9

BooksTie(books, nets) ==
    /\ books.total_debits = books.total_credits
    /\ \A a \in DOMAIN nets : nets[a] = books.lines[a].credits - books.lines[a].debits

(* The trial balance balances and shows every net. *)
LEMMA BooksBalance ==
  ASSUME JournalOK(posted), NEW w, NEW books, books = trial_balance(w), NEW nets, nets = _journal_nets(w)
  PROVE  BooksTie(books, nets)
<1>1. PICK d, c, r : /\ d = [a \in Accounts |-> Side(w, -1, a)] /\ c = [a \in Accounts |-> Side(w, 1, a)]
                     /\ r = [a \in Accounts |-> NetIn(posted, w, a)]
  OBVIOUS
<1>2. PICK D : D = Accounts
  OBVIOUS
<1>3. /\ IsFiniteSet(D) /\ DOMAIN d = D /\ DOMAIN c = D /\ DOMAIN r = D
      /\ \A a \in D : d[a] \in Int /\ r[a] \in Int /\ c[a] = d[a] + r[a]
  BY <1>1, <1>2, AccountsFinite, SidesAre, NetInt
<1>4. Total(c) = Total(d) + Total(r)
  BY ONLY <1>3, TotalAdd
<1>5. Total(r) = 0
  BY <1>1, WindowBalances
<1>6. Total(d) \in Int
  <2>1. IsFiniteSet(DOMAIN d) /\ \A a \in DOMAIN d : d[a] \in Int
    BY <1>3
  <2> QED BY ONLY <2>1, PartInt
<1>7. /\ books.total_debits = Added(d) /\ books.total_credits = Added(c)
      /\ \A a \in Accounts : books.lines[a].debits = d[a] /\ books.lines[a].credits = c[a]
  BY <1>1 DEF trial_balance, Side
<1>8. books.total_debits = books.total_credits
  BY <1>4, <1>5, <1>6, <1>7, AddedIsTotal
<1>9. ASSUME NEW a \in DOMAIN nets PROVE nets[a] = books.lines[a].credits - books.lines[a].debits
  <2>1. NetsAre(nets, w)
    BY JournalNets
  <2>2. a \in Accounts /\ nets[a] = NetIn(posted, w, a)
    BY <2>1 DEF NetsAre, On
  <2>3. nets[a] = r[a] /\ d[a] \in Int /\ r[a] \in Int /\ c[a] = d[a] + r[a]
    BY <1>1, <1>2, <1>3, <2>2
  <2>4. PICK x, y, z : x = nets[a] /\ y = c[a] /\ z = d[a]
    OBVIOUS
  <2>5. x \in Int /\ z \in Int /\ y = z + x
    BY <2>3, <2>4
  <2>6. x = y - z
    BY ONLY <2>5
  <2> QED BY <1>7, <2>2, <2>4, <2>6
<1> QED BY <1>8, <1>9 DEF BooksTie

-----------------------------------------------------------------------------
(* The parity gate *)

(* What the facts of a window come to on an account. *)
FactsOn(w, a) == SumOf({r \in Facts(w) : account(r) = a})

(* The days of a window. *)
LEMMA SpanIs ==
  ASSUME NEW w \in Spans, NEW lo, lo = w[1], NEW hi, hi = w[2], NEW K, K = lo..hi
  PROVE  /\ lo \in Int /\ hi \in Int /\ IsFiniteSet(K) /\ K \subseteq BookDays
         /\ \A d : d \in K <=> d \in Int /\ lo <= d /\ d <= hi
<1>1. lo \in 1..Posted /\ hi \in 1..Posted /\ Posted \in Nat
  BY StatementsConstants DEF Spans, BookDays
<1>2. lo \in Int /\ hi \in Int
  BY <1>1
<1>3. IsFiniteSet(K)
  BY ONLY <1>2, K = lo..hi, FS_Interval
<1>4. \A d : d \in K <=> d \in Int /\ lo <= d /\ d <= hi
  BY <1>2
<1>5. K \subseteq BookDays
  BY <1>1, <1>4 DEF BookDays
<1> QED BY <1>2, <1>3, <1>4, <1>5

(* A window whose days stand as they would be posted now is in the books to the cent. *)
LEMMA WindowStands ==
  ASSUME StInv, NEW w \in Spans, NEW a \in Accounts, a # Clearing,
         \A d \in w[1]..w[2] : stands[d] # 0 /\ posted[stands[d]].lines = build_pms_daily_plan(d)
  PROVE  NetIn(posted, w, a) = FactsOn(w, a)
<1>1. PICK lo, hi, K : lo = w[1] /\ hi = w[2] /\ K = lo..hi
  OBVIOUS
<1>2. /\ lo \in Int /\ hi \in Int /\ IsFiniteSet(K) /\ K \subseteq BookDays
      /\ \A d : d \in K <=> d \in Int /\ lo <= d /\ d <= hi
  BY <1>1, SpanIs
<1>3. PICK S, f, key, g : /\ S = EntriesIn(w) /\ f = [i \in S |-> On(posted[i].lines, a)]
                          /\ key = [i \in S |-> posted[i].day]
                          /\ g = [d \in K |-> NetIn(posted, <<d, d>>, a)]
  OBVIOUS
<1>4. JournalOK(posted) /\ StandsFor(posted, stands) /\ LandedOK
  BY DEF StInv
<1>5. \A i \in DOMAIN posted : posted[i].day \in Int
  BY <1>4, StatementsConstants DEF JournalOK, BookDays
<1>6. SumsTo(S, f, NetIn(posted, w, a))
  BY <1>3, <1>4, NetOver
<1>7. DOMAIN f = S /\ IsFiniteSet(DOMAIN f) /\ (\A i \in DOMAIN f : f[i] \in Int) /\ NetIn(posted, w, a) = Total(f)
  BY <1>3, <1>6 DEF SumsTo
<1>8. \A i : i \in S <=> i \in DOMAIN posted /\ lo <= posted[i].day /\ posted[i].day <= hi
  BY <1>1, <1>3 DEF EntriesIn
<1>9. \A i \in DOMAIN f : key[i] \in K
  BY <1>2, <1>3, <1>5, <1>7, <1>8
<1>10. ASSUME NEW d \in K
       PROVE  g[d] = Total([i \in {y \in DOMAIN f : key[y] = d} |-> f[i]])
  <2>1. PICK T, h : T = EntriesIn(<<d, d>>) /\ h = [i \in T |-> On(posted[i].lines, a)]
    OBVIOUS
  <2>2. SumsTo(T, h, NetIn(posted, <<d, d>>, a))
    BY <1>4, <2>1, NetOver
  <2>3. \A i : i \in T <=> i \in DOMAIN posted /\ posted[i].day = d
    BY <1>2, <1>5, <2>1 DEF EntriesIn
  <2>4. \A i : i \in T <=> i \in S /\ key[i] = d
    BY <1>2, <1>3, <1>8, <2>3
  <2>5. {y \in DOMAIN f : key[y] = d} = T
    BY <1>7, <2>4
  <2>6. [i \in T |-> f[i]] = h
    BY <1>3, <2>1, <2>4
  <2> QED BY <1>3, <2>2, <2>5, <2>6 DEF SumsTo
<1>11. DOMAIN g = K
  BY <1>3
<1>12. Total(g) = Total(f)
  BY ONLY <1>2, <1>7, <1>9, <1>10, <1>11, TotalGrouped
<1>13. PICK Q, q : Q = {r \in Facts(w) : account(r) = a} /\ q = [r \in Q |-> r.day]
  OBVIOUS
<1>14. \A r \in DOMAIN landed : r.day \in Int
  BY <1>4, StatementsConstants DEF LandedOK, FactRow, BookDays
<1>15. Q \in SUBSET DOMAIN landed /\ \A r \in Q : q[r] \in K
  BY <1>1, <1>2, <1>13, <1>14 DEF Facts
<1>16. ASSUME NEW d \in K PROVE g[d] = SumOf({r \in Q : q[r] = d})
  <2>1. d \in BookDays
    BY <1>2
  <2>2. PICK plan, s : plan = build_pms_daily_plan(d) /\ s = stands[d]
    OBVIOUS
  <2>3. s # 0 /\ posted[s].lines = plan
    BY <1>1, <2>2
  <2>4. On(plan, a) = SumOf({r \in Facts(<<d, d>>) : account(r) = a})
    BY <1>4, <2>1, <2>2, PlanIs
  <2>5. NetIn(posted, <<d, d>>, a) = On(plan, a)
    BY <1>4, <2>1, <2>2, <2>3 DEF StandsFor
  <2>6. {r \in Facts(<<d, d>>) : account(r) = a} = {r \in Q : q[r] = d}
    <3>1. ASSUME NEW r PROVE r \in {x \in Facts(<<d, d>>) : account(x) = a} <=> r \in {x \in Q : q[x] = d}
      <4>1. r \in Facts(<<d, d>>) <=> r \in DOMAIN landed /\ r.day = d
        BY <1>2, <1>14 DEF Facts
      <4>2. r \in Q <=> r \in DOMAIN landed /\ lo <= r.day /\ r.day <= hi /\ account(r) = a
        BY <1>1, <1>13 DEF Facts
      <4>3. r \in Q => q[r] = r.day
        BY <1>13
      <4> QED BY <1>2, <4>1, <4>2, <4>3
    <3> QED BY <3>1
  <2> QED BY <1>3, <2>4, <2>5, <2>6
<1>17. Total(g) = SumOf(Q)
  BY <1>2, <1>4, <1>11, <1>15, <1>16, RowsGrouped
<1> QED BY <1>7, <1>12, <1>13, <1>17 DEF FactsOn

(* The two sides the gate compares. *)
LEMMA ParityIs ==
  ASSUME StInv, NEW w
  PROVE  /\ \A a \in sos_journal_parity(w) :
              a \in Accounts /\ a # Clearing /\ NetIn(posted, w, a) # FactsOn(w, a)
         /\ sos_journal_parity(w) = {} =>
              \A a \in Accounts : a # Clearing => NetIn(posted, w, a) = FactsOn(w, a)
<1>1. PICK nets, R, g : /\ nets = _journal_nets(w)
                        /\ R = {r \in Facts(w) : account(r) # NoAccount} /\ g = _group_by_gl(R)
  OBVIOUS
<1>2. LandedOK /\ JournalOK(posted) /\ R \in SUBSET DOMAIN landed
  BY <1>1, FactsIn DEF StInv
<1>3. sos_journal_parity(w) = {a \in DOMAIN nets \cup DOMAIN g : On(nets, a) # On(g, a)}
  BY <1>1 DEF sos_journal_parity, On
<1>4. NetsAre(nets, w)
  BY <1>1, <1>2, JournalNets
<1>5. DOMAIN g = {account(r) : r \in R} /\ \A a : On(g, a) = SumOf({r \in R : account(r) = a})
  <2>1. g = _group_by_gl(R)
    BY <1>1
  <2>2. LandedOK
    BY <1>2
  <2>3. GroupsOf(R, g)
    BY ONLY <1>2, <2>1, <2>2, GroupIs
  <2> QED BY <2>3 DEF GroupsOf
<1>6. DOMAIN g \subseteq Accounts /\ Clearing \notin DOMAIN g
  BY <1>1, <1>2, <1>5, OfNoClearing
<1>7. NoAccount \notin Accounts
  BY StatementsConstants DEF Accounts
<1>8. ASSUME NEW a \in Accounts PROVE On(g, a) = FactsOn(w, a)
  <2>1. {r \in R : account(r) = a} = {r \in Facts(w) : account(r) = a}
    BY <1>1, <1>7
  <2> QED BY <1>5, <2>1 DEF FactsOn
<1>9. ASSUME NEW a \in Accounts, a # Clearing
      PROVE  /\ On(nets, a) = NetIn(posted, w, a)
             /\ a \notin DOMAIN nets \cup DOMAIN g => On(nets, a) = On(g, a)
  BY <1>4, <1>9 DEF NetsAre, On
<1>10. DOMAIN nets \subseteq Accounts \ {Clearing}
  BY <1>4 DEF NetsAre
<1>11. ASSUME NEW a \in sos_journal_parity(w)
       PROVE  a \in Accounts /\ a # Clearing /\ NetIn(posted, w, a) # FactsOn(w, a)
  <2>1. a \in Accounts /\ a # Clearing /\ On(nets, a) # On(g, a)
    BY <1>3, <1>6, <1>10, <1>11
  <2> QED BY <1>8, <1>9, <2>1
<1>12. ASSUME sos_journal_parity(w) = {}, NEW a \in Accounts, a # Clearing
       PROVE  NetIn(posted, w, a) = FactsOn(w, a)
  <2>1. On(nets, a) = On(g, a)
    BY <1>3, <1>9, <1>12
  <2> QED BY <1>8, <1>9, <1>12, <2>1
<1> QED BY <1>11, <1>12

(* Such a window passes the gate. *)
LEMMA GateIsGreen ==
  ASSUME StInv, NEW w \in Spans,
         \A d \in w[1]..w[2] : stands[d] # 0 /\ posted[stands[d]].lines = build_pms_daily_plan(d)
  PROVE  sos_journal_parity(w) = {}
<1>1. ASSUME NEW a \in sos_journal_parity(w) PROVE FALSE
  <2>1. a \in Accounts /\ a # Clearing /\ NetIn(posted, w, a) # FactsOn(w, a)
    BY ParityIs
  <2>2. NetIn(posted, w, a) = FactsOn(w, a)
    BY <2>1, WindowStands
  <2> QED BY <2>1, <2>2
<1> QED BY <1>1

-----------------------------------------------------------------------------
(* The journal's statement under a green gate *)

(* Every fact has an account, every net a class, and the two sides agree. *)
Agreed(w, nets) ==
    /\ w \in Spans /\ nets = _journal_nets(w)
    /\ JournalRefusal(w) = ""
    /\ \A r \in Facts(w) : account(r) # NoAccount
    /\ \A a \in DOMAIN nets : accounts[a] = "classed"
    /\ sos_journal_parity(w) = {}

Net(nets, S) == Added([a \in S |-> nets[a]])

(* The accounts but the clearing one. *)
Books == Accounts \ {Clearing}

(* The nets of any accounts are the facts on them. *)
LEMMA PartNet ==
  ASSUME StInv, NEW w, NEW nets, Agreed(w, nets), NEW P \in SUBSET Books,
         NEW S, S = {a \in DOMAIN nets : a \in P}
  PROVE  Net(nets, S) = SumOf({r \in Facts(w) : account(r) \in P})
<1>1. LandedOK /\ JournalOK(posted)
  BY DEF StInv
<1>2. NetsAre(nets, w)
  BY <1>1, JournalNets DEF Agreed
<1>3. \A a \in Books : NetIn(posted, w, a) = FactsOn(w, a)
  BY ParityIs DEF Agreed, Books
<1>4. PICK f, g : f = [a \in P |-> FactsOn(w, a)] /\ g = [a \in S |-> nets[a]]
  OBVIOUS
<1>5. IsFiniteSet(P)
  <2>1. P \in SUBSET Accounts
    BY DEF Books
  <2> QED BY <2>1, AccountsFinite, FS_Subset
<1>6. \A a \in P : On(nets, a) = FactsOn(w, a)
  BY <1>2, <1>3 DEF NetsAre, Books
<1>7. /\ IsFiniteSet(DOMAIN f) /\ DOMAIN g \subseteq DOMAIN f
      /\ \A a \in DOMAIN g : g[a] \in Int /\ f[a] = g[a]
      /\ \A a \in DOMAIN f \ DOMAIN g : f[a] = 0
  BY <1>2, <1>4, <1>5, <1>6 DEF NetsAre, On
<1>8. Total(f) = Total(g)
  BY ONLY <1>7, TotalPadded
<1>9. PICK Q, key : Q = {r \in Facts(w) : account(r) \in P} /\ key = [r \in Q |-> account(r)]
  OBVIOUS
<1>10. Q \in SUBSET DOMAIN landed /\ \A r \in Q : key[r] \in P
  BY <1>9, FactsIn
<1>11. ASSUME NEW a \in P PROVE f[a] = SumOf({r \in Q : key[r] = a})
  <2>1. {r \in Q : key[r] = a} = {r \in Facts(w) : account(r) = a}
    BY <1>9
  <2> QED BY <1>4, <2>1 DEF FactsOn
<1>12. DOMAIN f = P
  BY <1>4
<1>13. Total(f) = SumOf(Q)
  BY <1>1, <1>5, <1>10, <1>11, <1>12, RowsGrouped
<1> QED BY <1>4, <1>8, <1>9, <1>13, AddedIsTotal DEF Net

(* The class every code of an account has. *)
CodeOf(a) == CHOOSE c \in Code : Class[c].account = a
ClassOf(a) == [schedule |-> Class[CodeOf(a)].schedule, major |-> Class[CodeOf(a)].major]

(* The chart gives an account the class of its facts. *)
LEMMA ChartIs ==
  ASSUME StInv, NEW w, NEW nets, Agreed(w, nets)
  PROVE  /\ DOMAIN nets \subseteq Books
         /\ \A a \in DOMAIN nets : chart(a) = ClassOf(a)
         /\ \A r \in Facts(w) : /\ account(r) \in Books
                                /\ schedule(r) = ClassOf(account(r)).schedule
                                /\ major(r) = ClassOf(account(r)).major
<1>1. LandedOK /\ JournalOK(posted)
  BY DEF StInv
<1>2. DOMAIN nets \subseteq Books
  BY <1>1, JournalNets DEF Agreed, NetsAre, Books
<1>3. \A a \in DOMAIN nets : chart(a) = ClassOf(a)
  BY DEF Agreed, chart, ClassOf, CodeOf
<1>4. ASSUME NEW r \in Facts(w)
      PROVE  /\ account(r) \in Books /\ schedule(r) = ClassOf(account(r)).schedule
             /\ major(r) = ClassOf(account(r)).major
  <2>1. r \in DOMAIN landed /\ account(r) # NoAccount
    BY FactsIn DEF Agreed
  <2>2. r.code \in Code /\ account(r) \in Books
    BY <1>1, <2>1, OfNoClearing DEF Books
  <2>3. PICK c : c = CodeOf(account(r))
    OBVIOUS
  <2>4. c \in Code /\ Class[c].account = account(r)
    BY <2>2, <2>3 DEF account, CodeOf
  <2>5. Class[c].schedule = Class[r.code].schedule /\ Class[c].major = Class[r.code].major
    BY <2>1, <2>2, <2>4, DictionaryInvariant DEF account
  <2> QED BY <2>2, <2>3, <2>5 DEF ClassOf, schedule, major
<1> QED BY <1>2, <1>3, <1>4

Scheduled(nets, X) == {a \in DOMAIN nets : chart(a).schedule \in X}
Unscheduled(nets, M) == {a \in DOMAIN nets : chart(a).schedule = 0 /\ chart(a).major \in M}

(* The nets by schedule, and those of no schedule by major category. *)
LEMMA ScheduledNet ==
  ASSUME StInv, NEW w, NEW nets, Agreed(w, nets), NEW X
  PROVE  Net(nets, Scheduled(nets, X)) = SumOf({r \in Facts(w) : schedule(r) \in X})
<1>1. PICK P : P = {a \in Books : ClassOf(a).schedule \in X}
  OBVIOUS
<1>2. P \in SUBSET Books
  BY <1>1
<1>3. Scheduled(nets, X) = {a \in DOMAIN nets : a \in P}
  BY <1>1, ChartIs DEF Scheduled
<1>4. {r \in Facts(w) : schedule(r) \in X} = {r \in Facts(w) : account(r) \in P}
  BY <1>1, ChartIs
<1> QED BY <1>2, <1>3, <1>4, PartNet

LEMMA UnscheduledNet ==
  ASSUME StInv, NEW w, NEW nets, Agreed(w, nets), NEW M
  PROVE  Net(nets, Unscheduled(nets, M)) = SumOf({r \in Facts(w) : schedule(r) = 0 /\ major(r) \in M})
<1>1. PICK P : P = {a \in Books : ClassOf(a).schedule = 0 /\ ClassOf(a).major \in M}
  OBVIOUS
<1>2. P \in SUBSET Books
  BY <1>1
<1>3. Unscheduled(nets, M) = {a \in DOMAIN nets : a \in P}
  BY <1>1, ChartIs DEF Unscheduled
<1>4. {r \in Facts(w) : schedule(r) = 0 /\ major(r) \in M} = {r \in Facts(w) : account(r) \in P}
  BY <1>1, ChartIs
<1> QED BY <1>2, <1>3, <1>4, PartNet

LEMMA OtherNet ==
  ASSUME StInv, NEW w, NEW nets, Agreed(w, nets), NEW M,
         NEW S, S = {a \in DOMAIN nets : chart(a).schedule = 0} \ Unscheduled(nets, M)
  PROVE  Net(nets, S) = SumOf({r \in Facts(w) : schedule(r) = 0 /\ major(r) \notin M})
<1>1. PICK P : P = {a \in Books : ClassOf(a).schedule = 0 /\ ClassOf(a).major \notin M}
  OBVIOUS
<1>2. P \in SUBSET Books
  BY <1>1
<1>3. S = {a \in DOMAIN nets : a \in P}
  BY <1>1, ChartIs DEF Unscheduled
<1>4. {r \in Facts(w) : schedule(r) = 0 /\ major(r) \notin M} = {r \in Facts(w) : account(r) \in P}
  BY <1>1, ChartIs
<1> QED BY <1>2, <1>3, <1>4, PartNet

(* A set of at most one holds no two. *)
LEMMA AtMostOne ==
  ASSUME NEW S, IsFiniteSet(S), Cardinality(S) <= 1, NEW x \in S, NEW y \in S
  PROVE  x = y
<1> SUFFICES ASSUME x # y PROVE FALSE
  OBVIOUS
<1>1. PICK T, U : T = {x} /\ U = T \cup {y}
  OBVIOUS
<1>2. IsFiniteSet(T) /\ Cardinality(T) = 1
  BY <1>1, FS_Singleton
<1>3. Cardinality(T \cup {y}) = Cardinality(T) + 1
  BY <1>1, <1>2, FS_AddElement
<1>4. Cardinality(U) = 2
  BY <1>1, <1>2, <1>3
<1>5. U \in SUBSET S
  BY <1>1
<1>6. Cardinality(U) <= Cardinality(S)
  BY ONLY <1>5, IsFiniteSet(S), FS_Subset
<1>7. Cardinality(S) \in Nat
  BY FS_CardinalityType
<1> QED BY <1>4, <1>6, <1>7

(* The operated schedules a department is part of. *)
HeldBy(w, s) == {x \in _OPERATED_SCHEDULES : s \in subs_of(w, x)}

(* Where no schedule fans out, a department is the schedules that hold it. *)
LEMMA SectionNet ==
  ASSUME StInv, NEW w, NEW nets, Agreed(w, nets), NEW s
  PROVE  Net(nets, Scheduled(nets, HeldBy(w, s))) = SumOf({r \in Operated(Facts(w)) : Class[r.code].sub = s})
<1>0. PICK X : X = HeldBy(w, s)
  OBVIOUS
<1>1. Net(nets, Scheduled(nets, X)) = SumOf({r \in Facts(w) : schedule(r) \in X})
  BY ScheduledNet
<1>2. \A x \in _OPERATED_SCHEDULES : ~(Cardinality(subs_of(w, x)) > 1)
  BY DEF Agreed, JournalRefusal
<1>3. \A x, r : r \in Facts(w) /\ schedule(r) = x => Class[r.code].sub \in subs_of(w, x)
  BY DEF subs_of
<1>4. ASSUME NEW x, NEW u \in subs_of(w, x) PROVE \E r \in Facts(w) : schedule(r) = x /\ Class[r.code].sub = u
  BY <1>4 DEF subs_of
<1>5. ASSUME NEW x \in _OPERATED_SCHEDULES, NEW u \in subs_of(w, x), NEW v \in subs_of(w, x) PROVE u = v
  <2>1. PICK R, S, f : /\ R = {r \in Facts(w) : schedule(r) = x} /\ S = subs_of(w, x)
                       /\ f = [r \in R |-> Class[r.code].sub]
    OBVIOUS
  <2>2. R \in SUBSET DOMAIN landed /\ LandedOK
    BY <2>1, FactsIn DEF StInv
  <2>3. DOMAIN f = R /\ IsFiniteSet(DOMAIN f)
    BY <2>1, <2>2, RowsSum
  <2>4. S = {f[r] : r \in DOMAIN f}
    BY <2>1, <2>3 DEF subs_of
  <2>5. IsFiniteSet(S)
    BY ONLY <2>3, <2>4, ImageFinite
  <2>6. Cardinality(S) \in Nat
    BY <2>5, FS_CardinalityType
  <2>7. Cardinality(S) <= 1
    <3>1. ~(Cardinality(S) > 1)
      BY <1>2, <2>1
    <3> QED BY <2>6, <3>1
  <2> QED BY <2>1, <2>5, <2>7, <1>5, AtMostOne
<1>6. ASSUME NEW r \in Facts(w)
      PROVE  schedule(r) \in X <=> schedule(r) \in _OPERATED_SCHEDULES /\ Class[r.code].sub = s
  <2>1. Class[r.code].sub \in subs_of(w, schedule(r))
    BY <1>3
  <2>2. schedule(r) \in X <=> schedule(r) \in _OPERATED_SCHEDULES /\ s \in subs_of(w, schedule(r))
    BY <1>0 DEF HeldBy
  <2>3. PICK x, u : x = schedule(r) /\ u = Class[r.code].sub
    OBVIOUS
  <2>4. x \in _OPERATED_SCHEDULES /\ s \in subs_of(w, x) => s = u
    BY <1>5, <2>1, <2>3
  <2> QED BY <2>1, <2>2, <2>3, <2>4
<1>7. {r \in Facts(w) : schedule(r) \in X} = {r \in Operated(Facts(w)) : Class[r.code].sub = s}
  BY <1>6 DEF Operated
<1> QED BY <1>0, <1>1, <1>7

(* So the two statements are one. *)
LEMMA SameStatement ==
  ASSUME StInv, NEW w, NEW nets, Agreed(w, nets)
  PROVE  summary_operating_statement_from_journal(w) = summary_operating_statement(w)
<1>1. PICK rep, jou : /\ rep = summary_operating_statement(w)
                      /\ jou = summary_operating_statement_from_journal(w)
  OBVIOUS
<1>2. PICK R, D : R = Facts(w) /\ D = DOMAIN rep.operated_departments
  OBVIOUS
<1>3. LandedOK
  BY DEF StInv
<1>4. /\ rep.total_operating_revenue = SumOf({r \in R : schedule(r) # 0})
      /\ rep.misc_income_total = SumOf(Misc(R)) /\ rep.taxes_total = SumOf(Taxes(R))
      /\ rep.settlements_total = SumOf(Settlements(R)) /\ rep.other_total = SumOf(Other(R))
      /\ \A s : Section(rep, s) = SumOf({r \in Operated(R) : Class[r.code].sub = s})
  <2>1. ReportOf(Facts(w), rep)
    BY <1>1, <1>3, ReportIs
  <2> QED BY <1>2, <2>1 DEF ReportOf
<1>5. jou = [operated_departments |->
               [s \in D |-> Net(nets, Scheduled(nets, HeldBy(w, s)))],
             misc_income_total |-> Net(nets, Scheduled(nets, {_MISC_INCOME_SCHEDULE})),
             total_operating_revenue |-> Net(nets, Scheduled(nets, _ALLOWED_SCHEDULES)),
             taxes_total |-> Net(nets, Unscheduled(nets, {"taxes"})),
             settlements_total |-> Net(nets, Unscheduled(nets, {"settlements"})),
             other_total |-> Net(nets, {a \in DOMAIN nets : chart(a).schedule = 0}
                                         \ Unscheduled(nets, {"taxes", "settlements"}))]
  BY <1>1, <1>2 DEF summary_operating_statement_from_journal, Net, Scheduled, Unscheduled, HeldBy, Agreed
<1>6. Net(nets, Scheduled(nets, {_MISC_INCOME_SCHEDULE})) = SumOf(Misc(R))
  <2>1. {r \in R : schedule(r) \in {_MISC_INCOME_SCHEDULE}} = Misc(R)
    BY DEF Misc
  <2> QED BY <1>2, <2>1, ScheduledNet
<1>7. Net(nets, Scheduled(nets, _ALLOWED_SCHEDULES)) = SumOf({r \in R : schedule(r) # 0})
  <2>1. \A r \in R : schedule(r) \in _ALLOWED_SCHEDULES \cup {0}
    BY <1>2 DEF Agreed, JournalRefusal, SosRefusal
  <2>2. 0 \notin _ALLOWED_SCHEDULES
    BY DEF _ALLOWED_SCHEDULES, _OPERATED_SCHEDULES, _MISC_INCOME_SCHEDULE
  <2>3. {r \in R : schedule(r) \in _ALLOWED_SCHEDULES} = {r \in R : schedule(r) # 0}
    BY <2>1, <2>2
  <2> QED BY <1>2, <2>3, ScheduledNet
<1>8. Net(nets, Unscheduled(nets, {"taxes"})) = SumOf(Taxes(R))
  <2>1. {r \in R : schedule(r) = 0 /\ major(r) \in {"taxes"}} = Taxes(R)
    BY DEF Taxes
  <2> QED BY <1>2, <2>1, UnscheduledNet
<1>9. Net(nets, Unscheduled(nets, {"settlements"})) = SumOf(Settlements(R))
  <2>1. {r \in R : schedule(r) = 0 /\ major(r) \in {"settlements"}} = Settlements(R)
    BY DEF Settlements
  <2> QED BY <1>2, <2>1, UnscheduledNet
<1>10. Net(nets, {a \in DOMAIN nets : chart(a).schedule = 0} \ Unscheduled(nets, {"taxes", "settlements"}))
       = SumOf(Other(R))
  <2>1. {r \in R : schedule(r) = 0 /\ major(r) \notin {"taxes", "settlements"}} = Other(R)
    BY DEF Other
  <2> QED BY <1>2, <2>1, OtherNet
<1>11. PICK dep : dep = rep.operated_departments
  OBVIOUS
<1>12. \A s \in D : dep[s] = Net(nets, Scheduled(nets, HeldBy(w, s)))
  <2> SUFFICES ASSUME NEW s \in D
               PROVE  dep[s] = Net(nets, Scheduled(nets, HeldBy(w, s)))
    OBVIOUS
  <2>1. dep[s] = SumOf({r \in Operated(R) : Class[r.code].sub = s})
    BY <1>2, <1>4, <1>11 DEF Section
  <2>2. Net(nets, Scheduled(nets, HeldBy(w, s))) = SumOf({r \in Operated(Facts(w)) : Class[r.code].sub = s})
    BY SectionNet
  <2> QED BY <1>2, <2>1, <2>2
<1>13. dep = [s \in D |-> dep[s]]
  BY <1>1, <1>2, <1>11 DEF summary_operating_statement, _dept_sections
<1>14. dep = [s \in D |-> Net(nets, Scheduled(nets, HeldBy(w, s)))]
  BY <1>12, <1>13
<1>15. rep = [operated_departments |-> dep,
              misc_income_total |-> SumOf(Misc(R)), total_operating_revenue |-> SumOf({r \in R : schedule(r) # 0}),
              taxes_total |-> SumOf(Taxes(R)), settlements_total |-> SumOf(Settlements(R)),
              other_total |-> SumOf(Other(R))]
  BY <1>1, <1>4, <1>11 DEF summary_operating_statement
<1>16. jou = rep
  BY ONLY <1>5, <1>6, <1>7, <1>8, <1>9, <1>10, <1>14, <1>15
<1> QED BY <1>1, <1>16

LEMMA JournalTies == ASSUME StInv PROVE JournalStatementTies
<1>1. ASSUME NEW w \in Spans PROVE BooksTie(trial_balance(w), _journal_nets(w))
  BY BooksBalance DEF StInv
<1>2. ASSUME NEW w \in Spans,
             JournalRefusal(w) = "", \A r \in Facts(w) : account(r) # NoAccount,
             \A a \in DOMAIN _journal_nets(w) : accounts[a] = "classed", sos_journal_parity(w) = {}
      PROVE  summary_operating_statement_from_journal(w) = summary_operating_statement(w)
  <2>1. Agreed(w, _journal_nets(w))
    BY <1>2 DEF Agreed
  <2> QED BY <2>1, SameStatement
<1> QED BY <1>1, <1>2, GateIsGreen DEF JournalStatementTies, BooksTie

(* The two statements tie (reporting.py): every read of the facts agrees with *)
(* every other, the trial balance balances whatever was posted, and over      *)
(* mapped facts and a classified chart a green parity gate means that the     *)
(* journal's statement is the facts' statement, section by section.           *)
THEOREM StatementsAgree == StSpec => []StatementsHold
<1>1. StInit => StInv
  BY StInitInv
<1>2. StInv /\ [StNext]_stVars => StInv'
  BY StInvStep
<1>3. StInv => StatementsHold
  BY AllTie, JournalTies DEF StatementsHold
<1> QED BY <1>1, <1>2, <1>3, PTL DEF StSpec

-----------------------------------------------------------------------------
(* Performance *)

(* A day's statistics are of the calendar, and its revenue is its rate over *)
(* the rooms sold.                                                          *)
PfInv ==
    /\ DOMAIN inventory \subseteq Calendar /\ DOMAIN stats \subseteq Calendar
    /\ \A d \in DOMAIN stats :
         /\ stats[d].sold \in Int /\ stats[d].rate \in Int
         /\ stats[d].revenue = stats[d].rate * stats[d].sold

(* Every step keeps it. *)
LEMMA PfInvStep == ASSUME PfInv, [PfNext]_pfVars PROVE PfInv'
<1>1. Max(Rooms) \in Nat
  <2>1. Rooms \subseteq Int /\ IsFiniteSet(Rooms) /\ Rooms # {} /\ Rooms \subseteq Nat
    BY PerformanceConstants
  <2>2. Max(Rooms) \in Rooms
    BY ONLY <2>1, MaxOf
  <2> QED BY <2>1, <2>2
<1>2. ASSUME NEW d \in Calendar, NEW n \in Rooms, set_inventory(d, n) PROVE PfInv'
  <2>1. inventory' = Put(inventory, d, n) /\ stats' = stats
    BY <1>2 DEF set_inventory
  <2>2. DOMAIN inventory' = DOMAIN inventory \cup {d}
    BY <2>1 DEF Put
  <2> QED BY <2>1, <2>2 DEF PfInv
<1>3. ASSUME NEW d \in Calendar, NEW sold \in 0..Max(Rooms), NEW rate \in Rate, LandStatistics(d, sold, rate)
      PROVE  PfInv'
  <2>1. PICK row : row = [sold |-> sold, rate |-> rate, revenue |-> rate * sold]
    OBVIOUS
  <2>2. sold \in Int /\ rate \in Int
    BY <1>1, PerformanceConstants
  <2>3. row.sold \in Int /\ row.rate \in Int /\ row.revenue = row.rate * row.sold
    BY <2>1, <2>2
  <2>4. stats' = Put(stats, d, row) /\ UNCHANGED inventory
    BY <1>3, <2>1 DEF LandStatistics
  <2>5. DOMAIN stats' = DOMAIN stats \cup {d} /\ \A x \in DOMAIN stats' : (stats'[x] = row \/ (x \in DOMAIN stats /\ stats'[x] = stats[x]))
    <3>1. stats' = [x \in DOMAIN stats \cup {d} |-> IF x = d THEN row ELSE stats[x]]
      BY <2>4 DEF Put
    <3>2. DOMAIN stats' = DOMAIN stats \cup {d}
      BY <3>1
    <3>3. ASSUME NEW x \in DOMAIN stats' PROVE stats'[x] = IF x = d THEN row ELSE stats[x]
      BY ONLY <3>1, <3>3
    <3>4. ASSUME NEW x \in DOMAIN stats' PROVE stats'[x] = row \/ (x \in DOMAIN stats /\ stats'[x] = stats[x])
      BY <3>2, <3>3, <3>4
    <3> QED BY <3>2, <3>4
  <2>6. DOMAIN stats' \subseteq Calendar /\ DOMAIN inventory' \subseteq Calendar
    BY <2>4, <2>5 DEF PfInv
  <2>7. ASSUME NEW x \in DOMAIN stats'
        PROVE  stats'[x].sold \in Int /\ stats'[x].rate \in Int /\ stats'[x].revenue = stats'[x].rate * stats'[x].sold
    <3>1. CASE stats'[x] = row
      BY <2>3, <3>1
    <3>2. CASE x \in DOMAIN stats /\ stats'[x] = stats[x]
      BY <3>2 DEF PfInv
    <3> QED BY <2>5, <3>1, <3>2
  <2> QED BY <2>6, <2>7 DEF PfInv
<1>4. CASE UNCHANGED <<inventory, stats>>
  BY <1>4 DEF PfInv
<1> QED
  BY <1>2, <1>3, <1>4 DEF PfNext, pfVars, add_ooo, remove_ooo, set_stat_config, LandSegments

(* What a window raises when a day of it is oversubscribed. *)
LEMMA Raised ==
  ASSUME PfInv, NEW start \in Int, NEW end \in Int
  PROVE  /\ InventoryError(start, end) \in {"none", "InventoryInconsistent", "InventoryNotConfigured"}
         /\ InventoryError(start, end) = "InventoryInconsistent" =>
              \E d \in start..end : Oversubscribed(d)
         /\ \A b : AdrError(start, end, b) \in {"none", "AdrBasisUnavailable", "SegmentInconsistent"}
<1>1. PICK bad : bad = {d \in start..end : ~Counted(d) \/ Oversubscribed(d)}
  OBVIOUS
<1>2. InventoryError(start, end) =
        IF bad = {} THEN "none"
        ELSE IF Counted(Min(bad)) THEN "InventoryInconsistent" ELSE "InventoryNotConfigured"
  BY <1>1 DEF InventoryError
<1>3. bad # {} => Min(bad) \in bad
  <2>1. bad \in SUBSET (start..end) /\ bad \subseteq Int
    BY <1>1
  <2>2. IsFiniteSet(bad)
    BY <2>1, FS_Interval, FS_Subset
  <2> QED BY <2>1, <2>2, MaxOf
<1>4. InventoryError(start, end) = "InventoryInconsistent" => \E d \in start..end : Oversubscribed(d)
  BY <1>1, <1>2, <1>3
<1> QED BY <1>2, <1>4 DEF AdrError

(* An oversubscribed day has a room count before it, so it is of the calendar. *)
LEMMA OversubscribedDay ==
  ASSUME PfInv, NEW d \in Int, NEW last \in Calendar, d <= last, Oversubscribed(d)
  PROVE  d \in Calendar
BY PerformanceConstants DEF PfInv, Oversubscribed, Counted, Calendar

(* A comparison or a trend fails on an oversubscribed day alone. *)
LEMMA GapsNeverFail == ASSUME PfInv PROVE PastGapsNeverFail
<1> SUFFICES ASSUME NEW w \in Windows, ErrorOf(w[1], w[2], basis) = "none",
                    get_performance(w[1], w[2]) # "none"
             PROVE  \E d \in Calendar : d <= w[2] /\ Oversubscribed(d)
  BY DEF PastGapsNeverFail
<1>1. PICK s, e : s = w[1] /\ e = w[2]
  OBVIOUS
<1>2. s \in Calendar /\ e \in Calendar /\ s \in Int /\ e \in Int /\ s <= e
  BY <1>1, PerformanceConstants DEF Windows, Calendar
<1>3. ASSUME NEW a \in Int, NEW z \in Int, z <= e, _prior_core_metrics(a, z) # "none"
      PROVE  \E d \in Calendar : d <= e /\ Oversubscribed(d)
  <2>1. ErrorOf(a, z, basis) # "none" /\ ~Degrades(ErrorOf(a, z, basis))
    BY <1>3 DEF _prior_core_metrics
  <2>2. InventoryError(a, z) = "InventoryInconsistent"
    BY <2>1, Raised DEF ErrorOf, Degrades
  <2>3. PICK d \in a..z : Oversubscribed(d)
    BY <2>2, Raised
  <2>4. d \in Int /\ d <= e
    BY <1>2, <1>3
  <2> QED BY <1>2, <2>3, <2>4, OversubscribedDay
<1>4. ASSUME trends(e) # "none"
      PROVE  \E d \in Calendar : d <= e /\ Oversubscribed(d)
  <2>1. PICK d \in SeriesDays(e) : Oversubscribed(d)
    BY <1>4 DEF trends
  <2>2. d \in Int /\ d <= e
    BY <1>2, <2>1, PerformanceConstants DEF SeriesDays, complete_days, Landed
  <2> QED BY <1>2, <2>1, <2>2, OversubscribedDay
<1>5. PICK n : n = e - s + 1 /\ n \in Nat /\ n > 0
  BY <1>2
<1>6. Year \in Nat
  BY PerformanceConstants
<1>7. \/ _prior_core_metrics(s - n, e - n) # "none"
      \/ _prior_core_metrics(s - Year, s - Year + n - 1) # "none"
      \/ trends(e) # "none"
  BY <1>1, <1>5 DEF get_performance, compare
<1>8. s - n \in Int /\ e - n \in Int /\ e - n <= e /\ s - Year \in Int /\ s - Year + n - 1 \in Int /\ s - Year + n - 1 <= e
  BY <1>2, <1>5, <1>6
<1> QED BY <1>1, <1>3, <1>4, <1>7, <1>8

(* Where revenue is rate times rooms sold the two means are one ratio. *)
LEMMA DaysReconcile == ASSUME PfInv PROVE TrueDaysReconcile
<1> SUFFICES ASSUME basis = "as_reported", NEW w \in Windows
             PROVE  reconciliation(w[1], w[2]) # "diverges"
  BY DEF TrueDaysReconcile
<1>1. PICK D : D = Landed(w[1], w[2])
  OBVIOUS
<1>2. D \subseteq DOMAIN stats /\ D \in SUBSET Calendar
  BY <1>1 DEF Landed, PfInv
<1>3. IsFiniteSet(D)
  <2>1. IsFiniteSet(Calendar)
    BY PerformanceConstants, FS_Interval DEF Calendar
  <2> QED BY <1>2, <2>1, FS_Subset
<1>4. PICK f, g, h : /\ f = [d \in D |-> stats[d].revenue] /\ g = [d \in D |-> stats[d].rate * stats[d].sold]
                     /\ h = [d \in D |-> stats[d].sold]
  OBVIOUS
<1>5. f = g
  BY <1>2, <1>4 DEF PfInv
<1>6. \A k : Summed(k) = Total(k)
  BY Zenon DEF Summed, Total
<1>7. Revenue(w[1], w[2]) = Total(f) /\ Sold(w[1], w[2]) = Total(h)
  BY <1>1, <1>4, <1>6 DEF Revenue, Sold
<1>8. _weighted_mean(Landed(w[1], w[2])) = _ratio(Total(f), Total(h))
  BY <1>1, <1>4, <1>5, <1>6 DEF _weighted_mean
<1>9. core_metrics(w[1], w[2], basis).adr = _ratio(Total(f), Total(h))
  BY <1>7 DEF core_metrics, adr_rooms_sold
<1>10. Total(f) \in Int /\ Total(h) \in Int
  <2>1. /\ DOMAIN f = D /\ DOMAIN h = D
        /\ \A d \in D : f[d] \in Int /\ h[d] \in Int
    BY <1>2, <1>4 DEF PfInv
  <2> QED BY ONLY <1>3, <2>1, PartInt
<1>11. PICK a, b : a = Total(f) /\ b = Total(h) /\ a \in Int /\ b \in Int
  BY <1>10
<1>12. CASE b <= 0
  BY <1>8, <1>9, <1>11, <1>12 DEF reconciliation, _recon_line, _ratio
<1>13. CASE b > 0
  <2>1. PICK r : r = <<a, b>>
    OBVIOUS
  <2>2. reconciliation(w[1], w[2]) = _recon_line(r, r)
    BY <1>8, <1>9, <1>11, <1>13, <2>1 DEF reconciliation, _ratio
  <2>3. PICK x, y : x = a * b /\ y = b * b /\ x \in Int /\ y \in Int
    BY <1>11
  <2>4. y >= 0
    BY ONLY <1>11, <1>13, <2>3, Z3T(20)
  <2>5. 2 * (x - x) \in (-y)..y
    BY ONLY <2>3, <2>4
  <2>6. 2 * (r[1] * r[2] - r[1] * r[2]) \in (-(r[2] * r[2]))..(r[2] * r[2])
    BY <2>1, <2>3, <2>5
  <2> QED BY <2>2, <2>6 DEF _recon_line
<1> QED BY <1>11, <1>12, <1>13

(* A gap in the past never fails a request, and days whose revenue is rate    *)
(* times rooms sold reconcile (performance.py core_metrics, reconciliation).  *)
THEOREM PastAndTruthHold == PfSpec => []PerformanceHolds
<1>1. PfInit => PfInv
  BY DEF PfInit, PfInv, Nothing
<1>2. PfInv /\ [PfNext]_pfVars => PfInv'
  BY PfInvStep
<1>3. PfInv => PerformanceHolds
  BY GapsNeverFail, DaysReconcile DEF PerformanceHolds
<1> QED BY <1>1, <1>2, <1>3, PTL DEF PfSpec
=============================================================================
