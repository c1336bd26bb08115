------------------------- MODULE TypicalPodsProofs -------------------------
(***************************************************************************)
(* What the two builders of typical pods promise, for every workload.      *)
(*                                                                         *)
(* Chained says that the shapes built so far are those of the first        *)
(* levels, which grow; Stratified how many pods the strata so far have     *)
(* taken, that none of them is larger than one that is left, and where     *)
(* each shape stands.                                                      *)
(***************************************************************************)
EXTENDS TypicalPods, Lemmas

\* The levels are in order, within 0 and the whole.
LEMMA LevelsGrow ==
  ASSUME NEW levels \in {CpuLevels, GpuLevels}
  PROVE  /\ \A k \in 1 .. NShapes : levels[k] \in 1 .. UNIT
         /\ \A k, l \in 1 .. NShapes : k < l => levels[k] < levels[l]
BY DEF CpuLevels, GpuLevels, NShapes, UNIT

\* Numbers of which none is smaller than one before it.
Grows(ranked, n) ==
  /\ \A k \in 1 .. n : ranked[k] \in Nat
  /\ \A k, l \in 1 .. n : k <= l => ranked[k] <= ranked[l]

\* The values of a list, sorted (fragmentation.py:33, 47-49).
LEMMA RankedIs ==
  ASSUME NEW values \in Seq(Nat)
  PROVE  /\ Len(values) \in Nat /\ DOMAIN values = 1 .. Len(values)
         /\ Grows(Ranked(values), Len(values))
         /\ \A k \in 1 .. Len(values) : \E i \in 1 .. Len(values) : Ranked(values)[k] = values[i]
<1> DEFINE n == Len(values)
           ranked == Ranked(values)
<1>1. n \in Nat /\ DOMAIN values = 1 .. n /\ \A i \in 1 .. n : values[i] \in Nat
  OBVIOUS
<1>2. SortsTo(ranked, values, n, values)
  <2> HIDE DEF n
  <2>1. SortsTo(SortedBy(values, values), values, n, values)
    BY <1>1, SortedByIs
  <2> QED
    BY <2>1 DEF Ranked
<1> HIDE DEF n, ranked
<1>3. PICK place : Sorts(place, n, values) /\ ranked = [k \in 1 .. n |-> values[place[k]]]
  BY <1>2 DEF SortsTo
<1>4. \A k \in 1 .. n : place[k] \in 1 .. n /\ ranked[k] = values[place[k]]
  BY <1>3 DEF Sorts
<1>5. ranked \in [1 .. n -> Nat]
  BY <1>1, <1>3, <1>4
<1>6. \A k, l \in 1 .. n : k < l => ranked[k] <= ranked[l]
  <2>1. \A k, l \in 1 .. n : k < l => values[place[k]] < values[place[l]] \/ values[place[k]] = values[place[l]]
    BY <1>3 DEF Sorts
  <2>2. \A k \in 1 .. n : ranked[k] \in Nat /\ ranked[k] = values[place[k]]
    BY <1>4, <1>5
  <2>3. \A x, y \in Nat : x < y \/ x = y => x <= y
    OBVIOUS
  <2> QED
    BY <2>1, <2>2, <2>3
<1>7. \A k, l \in 1 .. n : k <= l => ranked[k] <= ranked[l]
  BY <1>1, <1>5, <1>6
<1>8. \A k \in 1 .. n : \E i \in 1 .. n : ranked[k] = values[i]
  BY <1>4
<1>9. Grows(ranked, n)
  BY <1>5, <1>7 DEF Grows
<1> QED
  BY <1>1, <1>8, <1>9 DEF n, ranked

\* Between two of the values, low and high, r parts of UNIT behind the first.
Between(low, high, r) == low * UNIT + (high - low) * r

\* It lies between the two, and grows from one to the other.
LEMMA BetweenBoth ==
  ASSUME NEW low \in Nat, NEW high \in Nat, low <= high, NEW r \in 0 .. UNIT - 1
  PROVE  /\ Between(low, high, r) \in Nat
         /\ low * UNIT <= Between(low, high, r)
         /\ Between(low, high, r) <= high * UNIT
         /\ r = 0 \/ low = high <=> Between(low, high, r) = low * UNIT
         /\ low < high => Between(low, high, r) < high * UNIT
         /\ \A s \in 0 .. UNIT - 1 : r < s =>
              /\ Between(low, high, r) <= Between(low, high, s)
              /\ low < high => Between(low, high, r) < Between(low, high, s)
<1>1. PICK d \in Nat : high = low + d
  <2>1. high - low \in Nat /\ high = low + (high - low)
    OBVIOUS
  <2> QED
    BY <2>1
<1>2. \A i, j \in Nat : i * j \in Nat
  BY Z3
<1>3. \A i, j, m \in Nat : j <= m => i * j <= i * m
  BY Z3T(30)
<1>4. \A i, j, m \in Nat : j < m /\ 0 < i => i * j < i * m
  BY Z3T(30)
<1>5. \A s \in 0 .. UNIT - 1 : s \in Nat /\ s < 20
  BY DEF UNIT
<1>6. \A s \in 0 .. UNIT - 1 : Between(low, high, s) = low * 20 + d * s
  BY <1>1 DEF Between, UNIT
<1>7. d * 0 = 0 /\ \A s \in Nat : 0 * s = 0
  OBVIOUS
<1>8. \A s \in 0 .. UNIT - 1 : /\ d * s \in Nat /\ d * s <= d * 20
                               /\ 0 < d => d * s < d * 20
                               /\ 0 < d /\ 0 < s => 0 < d * s
  BY <1>2, <1>3, <1>4, <1>5, <1>7
<1>9. \A s \in 0 .. UNIT - 1 : r < s => d * r <= d * s /\ (0 < d => d * r < d * s)
  BY <1>3, <1>4, <1>5
<1>10. PICK x \in Nat : x = d * r
  BY <1>8
<1>11. x <= d * 20 /\ (0 < d => x < d * 20) /\ (0 < d /\ 0 < r => 0 < x)
  BY <1>8, <1>10
<1>12. r = 0 \/ d = 0 => x = 0
  BY <1>5, <1>7, <1>10
<1>13. Between(low, high, r) = low * 20 + x
  BY <1>6, <1>10
<1>14. /\ Between(low, high, r) \in Nat
       /\ low * 20 <= Between(low, high, r)
       /\ Between(low, high, r) <= high * 20
       /\ r = 0 \/ low = high <=> Between(low, high, r) = low * 20
       /\ low < high => Between(low, high, r) < high * 20
  BY <1>1, <1>5, <1>11, <1>12, <1>13
<1>15. ASSUME NEW s \in 0 .. UNIT - 1, r < s
       PROVE  /\ Between(low, high, r) <= Between(low, high, s)
              /\ low < high => Between(low, high, r) < Between(low, high, s)
  <2>1. PICK y \in Nat : y = d * s
    BY <1>8
  <2>2. x <= y /\ (0 < d => x < y)
    BY <1>9, <1>10, <1>15, <2>1
  <2>3. Between(low, high, s) = low * 20 + y
    BY <1>6, <2>1
  <2> QED
    BY <1>1, <1>13, <2>2, <2>3
<1> QED
  BY <1>14, <1>15 DEF UNIT

\* The value v that is p parts of UNIT behind the first of n values: r parts
\* behind the k-th, between it and the next one, if there is one.
Stands(ranked, n, p, k, r, l, v) ==
  /\ k \in 1 .. n /\ l \in 1 .. n /\ r \in 0 .. UNIT - 1
  /\ (k - 1) * UNIT + r = p
  /\ l = IF k < n THEN k + 1 ELSE k
  /\ v = Between(ranked[k], ranked[l], r)

\* Where the quantile of level q stands, and when it is exact.
StandsAt(values, q, k, r, l) ==
  /\ Stands(Ranked(values), Len(values), q * (Len(values) - 1), k, r, l, Quantile(values, q))
  /\ Below(values, q) = Ranked(values)[k] /\ Above(values, q) = Ranked(values)[l]
  /\ Exact(values, q) <=> r = 0 \/ Ranked(values)[k] = Ranked(values)[l] \/ 2 * q = UNIT

\* A quantile stands somewhere between two neighbours of the sorted list.
LEMMA QuantileIs ==
  ASSUME NEW values \in Seq(Nat), values # <<>>, NEW q \in 1 .. UNIT
  PROVE  /\ Len(values) \in Nat \ {0}
         /\ q * (Len(values) - 1) \in Nat
         /\ \E k, r, l : StandsAt(values, q, k, r, l)
<1> DEFINE n == Len(values)
           p == q * (n - 1)
           k == (p \div UNIT) + 1
           r == p % UNIT
           l == IF k < n THEN k + 1 ELSE k
<1>1. n \in Nat \ {0}
  OBVIOUS
<1>2. p \in Nat /\ p <= UNIT * (n - 1)
  <2>1. \A i, j, m \in Nat : i * m \in Nat /\ (i <= j => i * m <= j * m)
    BY Z3T(30)
  <2>2. q \in Nat /\ n - 1 \in Nat /\ UNIT \in Nat /\ q <= UNIT
    BY <1>1 DEF UNIT
  <2> HIDE DEF n
  <2> QED
    BY <2>1, <2>2
<1>3. Below(values, q) = Ranked(values)[k]
  BY DEF Below
<1>4. Above(values, q) = Ranked(values)[Min({k + 1, n})]
  <2>1. \A x \in Int : x + 1 + 1 = x + 2
    OBVIOUS
  <2>2. p \div UNIT \in Int
    BY <1>2 DEF UNIT
  <2>3. (p \div UNIT) + 2 = k + 1
    BY <2>1, <2>2
  <2> QED
    BY <2>3 DEF Above
<1>5. Quantile(values, q) = Between(Below(values, q), Above(values, q), r)
  BY DEF Quantile, Between
<1> HIDE DEF n, p
<1>6. p \div 20 \in Nat /\ p % 20 \in 0 .. 19 /\ p = 20 * (p \div 20) + (p % 20)
  <2>1. \A b \in Nat, c \in Nat \ {0} :
          b \div c \in Nat /\ b % c \in 0 .. c - 1 /\ b = c * (b \div c) + (b % c)
    BY Division, Zenon
  <2>2. 20 \in Nat \ {0} /\ 20 - 1 = 19
    OBVIOUS
  <2> QED
    BY <1>2, <2>1, <2>2
<1>7. PICK a \in Nat, b \in 0 .. 19 : a = p \div 20 /\ b = p % 20 /\ p = 20 * a + b
  BY <1>6
<1>8. k = a + 1 /\ r = b
  BY <1>7 DEF UNIT
<1>9. k \in 1 .. n /\ r \in 0 .. UNIT - 1 /\ (k - 1) * UNIT + r = p
  <2> HIDE DEF k, r
  <2> QED
    BY <1>1, <1>2, <1>7, <1>8 DEF UNIT
<1>10. Min({k + 1, n}) = l
  <2> HIDE DEF k
  <2>1. k + 1 \in Int /\ n \in Int /\ k <= n
    BY <1>1, <1>9
  <2>2. l \in {k + 1, n} /\ \A y \in {k + 1, n} : l <= y
    BY <1>9, <2>1
  <2>3. Min({k + 1, n}) = CHOOSE x \in {k + 1, n} : \A y \in {k + 1, n} : x <= y
    BY DEF Min
  <2>4. \A x \in {k + 1, n} : (\A y \in {k + 1, n} : x <= y) => x = l
    BY <2>1, <2>2
  <2> HIDE DEF l
  <2> QED
    BY <2>2, <2>3, <2>4
<1>11. l \in 1 .. n
  <2> HIDE DEF k
  <2> QED
    BY <1>1, <1>9
<1>12. Exact(values, q) <=> r = 0 \/ Below(values, q) = Above(values, q) \/ 2 * q = UNIT
  BY DEF Exact, p, n
<1> HIDE DEF k, r
<1>13. Stands(Ranked(values), n, p, k, r, l, Quantile(values, q))
  BY <1>3, <1>4, <1>5, <1>9, <1>10, <1>11 DEF Stands
<1>14. /\ Below(values, q) = Ranked(values)[k] /\ Above(values, q) = Ranked(values)[l]
       /\ Exact(values, q) <=> r = 0 \/ Ranked(values)[k] = Ranked(values)[l] \/ 2 * q = UNIT
  BY <1>3, <1>4, <1>10, <1>12
<1> HIDE DEF l
<1>15. StandsAt(values, q, k, r, l)
  BY <1>13, <1>14 DEF StandsAt, n, p
<1> QED
  BY <1>1, <1>2, <1>15 DEF n, p

\* A quantile is between its neighbours, and exact if it is the lower one.
LEMMA QuantileWithin ==
  ASSUME NEW values \in Seq(Nat), values # <<>>, NEW q \in 1 .. UNIT
  PROVE  /\ Quantile(values, q) \in Nat
         /\ \E i, j \in DOMAIN values :
              /\ values[i] * UNIT <= Quantile(values, q)
              /\ Quantile(values, q) <= values[j] * UNIT
              /\ Quantile(values, q) = values[i] * UNIT => Exact(values, q)
<1> DEFINE n == Len(values)
           ranked == Ranked(values)
           v == Quantile(values, q)
<1>1. PICK k, r, l : StandsAt(values, q, k, r, l)
  BY QuantileIs
<1>2. /\ n \in Nat /\ DOMAIN values = 1 .. n /\ Grows(ranked, n)
      /\ \A i \in 1 .. n : \E j \in 1 .. n : ranked[i] = values[j]
  BY RankedIs
<1>3. /\ Stands(ranked, n, q * (n - 1), k, r, l, v)
      /\ r = 0 \/ ranked[k] = ranked[l] => Exact(values, q)
  BY <1>1 DEF StandsAt
<1> HIDE DEF n, ranked, v
<1>4. /\ k \in 1 .. n /\ l \in 1 .. n /\ r \in 0 .. UNIT - 1 /\ k <= l
      /\ v = Between(ranked[k], ranked[l], r)
  BY <1>2, <1>3 DEF Stands
<1>5. ranked[k] \in Nat /\ ranked[l] \in Nat /\ ranked[k] <= ranked[l]
  BY <1>2, <1>4 DEF Grows
<1>6. /\ v \in Nat /\ ranked[k] * UNIT <= v /\ v <= ranked[l] * UNIT
      /\ v = ranked[k] * UNIT => r = 0 \/ ranked[k] = ranked[l]
  <2>1. PICK low \in Nat, high \in Nat : low = ranked[k] /\ high = ranked[l] /\ low <= high
    BY <1>5
  <2>2. /\ Between(low, high, r) \in Nat
        /\ low * UNIT <= Between(low, high, r) /\ Between(low, high, r) <= high * UNIT
        /\ Between(low, high, r) = low * UNIT => r = 0 \/ low = high
    <3>1. r \in 0 .. UNIT - 1 /\ low <= high
      BY <1>4, <2>1
    <3> QED
      BY <3>1, BetweenBoth
  <2> QED
    BY <1>4, <2>1, <2>2
<1>7. PICK i \in 1 .. n, j \in 1 .. n : ranked[k] = values[i] /\ ranked[l] = values[j]
  BY <1>2, <1>4
<1>8. values[i] * UNIT <= v /\ v <= values[j] * UNIT /\ (v = values[i] * UNIT => Exact(values, q))
  BY <1>3, <1>6, <1>7
<1> QED
  BY <1>2, <1>6, <1>8 DEF v

\* Of two places between the values the later has no smaller value, and an equal
\* one only if both are the values of places they stand at.
LEMMA BetweenGrows ==
  ASSUME NEW n \in Nat \ {0}, NEW ranked,
         Grows(ranked, n),
         NEW p1 \in Nat, NEW p2 \in Nat, p1 < p2 \/ (n = 1 /\ p1 = 0 /\ p2 = 0),
         NEW k1, NEW r1, NEW l1, NEW v1, Stands(ranked, n, p1, k1, r1, l1, v1),
         NEW k2, NEW r2, NEW l2, NEW v2, Stands(ranked, n, p2, k2, r2, l2, v2)
  PROVE  \/ v1 < v2
         \/ /\ v1 = v2
            /\ r1 = 0 \/ ranked[k1] = ranked[l1]
            /\ r2 = 0 \/ ranked[k2] = ranked[l2]
<1>1. /\ k1 \in 1 .. n /\ l1 \in 1 .. n /\ r1 \in 0 .. UNIT - 1 /\ r1 \in 0 .. 19
      /\ k2 \in 1 .. n /\ l2 \in 1 .. n /\ r2 \in 0 .. UNIT - 1 /\ r2 \in 0 .. 19
      /\ (k1 - 1) * 20 + r1 = p1 /\ (k2 - 1) * 20 + r2 = p2
      /\ l1 = IF k1 < n THEN k1 + 1 ELSE k1
      /\ l2 = IF k2 < n THEN k2 + 1 ELSE k2
      /\ v1 = Between(ranked[k1], ranked[l1], r1) /\ v2 = Between(ranked[k2], ranked[l2], r2)
  BY DEF Stands, UNIT
<1>2. k1 <= l1 /\ k2 <= l2
  BY <1>1
<1>3. PICK a1 \in Nat, b1 \in Nat, a2 \in Nat, b2 \in Nat :
        /\ a1 = ranked[k1] /\ b1 = ranked[l1] /\ a2 = ranked[k2] /\ b2 = ranked[l2]
        /\ a1 <= b1 /\ a2 <= b2
        /\ v1 = Between(a1, b1, r1) /\ v2 = Between(a2, b2, r2)
  BY <1>1, <1>2 DEF Grows
<1>4. r1 \in 0 .. UNIT - 1 /\ r2 \in 0 .. UNIT - 1 /\ a1 <= b1 /\ a2 <= b2
  BY <1>1, <1>3
<1>5. /\ Between(a1, b1, r1) \in Nat
      /\ a1 * UNIT <= Between(a1, b1, r1) /\ Between(a1, b1, r1) <= b1 * UNIT
      /\ r1 = 0 \/ a1 = b1 <=> Between(a1, b1, r1) = a1 * UNIT
      /\ a1 < b1 => Between(a1, b1, r1) < b1 * UNIT
      /\ r1 < r2 => /\ Between(a1, b1, r1) <= Between(a1, b1, r2)
                    /\ a1 < b1 => Between(a1, b1, r1) < Between(a1, b1, r2)
  BY <1>4, BetweenBoth
<1>6. /\ Between(a2, b2, r2) \in Nat
      /\ a2 * UNIT <= Between(a2, b2, r2) /\ Between(a2, b2, r2) <= b2 * UNIT
      /\ r2 = 0 \/ a2 = b2 <=> Between(a2, b2, r2) = a2 * UNIT
  BY <1>4, BetweenBoth
<1>7. /\ v1 \in Nat /\ a1 * 20 <= v1 /\ v1 <= b1 * 20
      /\ r1 = 0 \/ a1 = b1 <=> v1 = a1 * 20
      /\ a1 < b1 => v1 < b1 * 20
  BY <1>3, <1>5 DEF UNIT
<1>8. /\ v2 \in Nat /\ a2 * 20 <= v2 /\ v2 <= b2 * 20
      /\ r2 = 0 \/ a2 = b2 <=> v2 = a2 * 20
  BY <1>3, <1>6 DEF UNIT
<1>9. CASE k1 = k2 /\ p1 < p2
  <2>1. r1 < r2 /\ l1 = l2
    BY <1>1, <1>9
  <2>2. a1 = a2 /\ b1 = b2
    BY <1>3, <1>9, <2>1
  <2>3. v1 <= v2 /\ (a1 < b1 => v1 < v2)
    BY <1>3, <1>5, <2>1, <2>2
  <2> QED
    BY <1>3, <1>7, <1>8, <2>2, <2>3
<1>10. CASE n = 1 /\ p1 = 0 /\ p2 = 0
  <2>1. k1 = 1 /\ k2 = 1 /\ r1 = 0 /\ r2 = 0
    BY <1>1, <1>10
  <2>2. a1 = a2
    BY <1>3, <2>1
  <2> QED
    BY <1>7, <1>8, <2>1, <2>2
<1>11. CASE k1 < k2
  <2>1. l1 <= k2
    BY <1>1, <1>11
  <2>2. b1 <= a2
    BY <1>1, <1>3, <2>1 DEF Grows
  <2> QED
    BY <1>3, <1>7, <1>8, <2>2
<1>12. k1 < k2 \/ (k1 = k2 /\ p1 < p2) \/ (n = 1 /\ p1 = 0 /\ p2 = 0)
  BY <1>1
<1> QED
  BY <1>9, <1>10, <1>11, <1>12

\* A higher level has no lower quantile, and no equal one unless both are exact.
LEMMA QuantilesGrow ==
  ASSUME NEW values \in Seq(Nat), values # <<>>,
         NEW q1 \in 1 .. UNIT, NEW q2 \in 1 .. UNIT, q1 < q2
  PROVE  \/ Quantile(values, q1) < Quantile(values, q2)
         \/ /\ Quantile(values, q1) = Quantile(values, q2)
            /\ Exact(values, q1) /\ Exact(values, q2)
<1> DEFINE n == Len(values)
           ranked == Ranked(values)
<1>1. n \in Nat \ {0}
  BY QuantileIs
<1>2. PICK k1, r1, l1 : StandsAt(values, q1, k1, r1, l1)
  BY QuantileIs
<1>3. PICK k2, r2, l2 : StandsAt(values, q2, k2, r2, l2)
  BY QuantileIs
<1>4. Grows(ranked, n)
  BY RankedIs
<1>5. PICK p1 \in Nat, p2 \in Nat : p1 = q1 * (n - 1) /\ p2 = q2 * (n - 1)
  BY QuantileIs
<1>6. p1 < p2 \/ (n = 1 /\ p1 = 0 /\ p2 = 0)
  <2>1. \A a, b, c \in Nat : a < b /\ 0 < c => a * c < b * c
    BY Z3T(30)
  <2>2. n - 1 \in Nat /\ q1 \in Nat /\ q2 \in Nat
    BY <1>1 DEF UNIT
  <2> HIDE DEF n
  <2>3. n = 1 => q1 * (n - 1) = 0 /\ q2 * (n - 1) = 0
    BY <2>2
  <2> QED
    BY <1>1, <1>5, <2>1, <2>2, <2>3
<1>7. /\ Stands(ranked, n, p1, k1, r1, l1, Quantile(values, q1))
      /\ Stands(ranked, n, p2, k2, r2, l2, Quantile(values, q2))
  BY <1>2, <1>3, <1>5 DEF StandsAt
<1>8. /\ r1 = 0 \/ ranked[k1] = ranked[l1] => Exact(values, q1)
      /\ r2 = 0 \/ ranked[k2] = ranked[l2] => Exact(values, q2)
  BY <1>2, <1>3 DEF StandsAt
<1> HIDE DEF n, ranked
<1>9. \/ Quantile(values, q1) < Quantile(values, q2)
      \/ /\ Quantile(values, q1) = Quantile(values, q2)
         /\ r1 = 0 \/ ranked[k1] = ranked[l1]
         /\ r2 = 0 \/ ranked[k2] = ranked[l2]
  BY <1>1, <1>4, <1>6, <1>7, BetweenGrows
<1> QED
  BY <1>8, <1>9
\* A quantile in units and parts of a unit.
Parts(values, q, d, e) ==
  /\ d \in Nat /\ e \in 0 .. 19
  /\ Quantile(values, q) = 20 * d + e
  /\ Quantile(values, q) \div UNIT = d /\ Quantile(values, q) % UNIT = e

\* It has a whole part and a rest.
LEMMA InParts ==
  ASSUME NEW values \in Seq(Nat), values # <<>>, NEW q \in 1 .. UNIT
  PROVE  \E d, e : Parts(values, q, d, e)
<1>1. \A b \in Nat, c \in Nat \ {0} :
        b \div c \in Nat /\ b % c \in 0 .. c - 1 /\ b = c * (b \div c) + (b % c)
  BY Division, Zenon
<1>2. PICK v \in Nat : v = Quantile(values, q)
  BY QuantileWithin
<1>3. 20 \in Nat \ {0} /\ 20 - 1 = 19
  OBVIOUS
<1>4. v \div 20 \in Nat /\ v % 20 \in 0 .. 19 /\ v = 20 * (v \div 20) + (v % 20)
  BY <1>1, <1>3
<1>5. Parts(values, q, v \div 20, v % 20)
  BY <1>2, <1>4 DEF UNIT, Parts
<1> QED
  BY <1>5

\* What int(..) may make of a quantile.
LEMMA TruncatedIs ==
  ASSUME NEW values, NEW q, NEW d, NEW e, Parts(values, q, d, e), NEW c \in Truncated(values, q)
  PROVE  c = d \/ (c = d - 1 /\ e = 0 /\ ~Exact(values, q))
BY DEF Truncated, Parts

\* And what int(round(..)).
LEMMA RoundedIs ==
  ASSUME NEW values, NEW q, NEW d, NEW e, Parts(values, q, d, e), NEW c \in Rounded(values, q)
  PROVE  /\ c = d \/ c = d + 1
         /\ e < 10 => c = d
         /\ e > 10 => c = d + 1
         /\ e = 10 /\ Exact(values, q) => c = d + (d % 2)
<1> DEFINE v == Quantile(values, q)
<1>1. d \in Nat /\ e \in 0 .. 19 /\ v = 20 * d + e /\ v \div UNIT = d /\ v % UNIT = e
  BY DEF Parts
<1>2. CASE e = 10
  <2>1. d % 2 = 0 \/ d % 2 = 1
    BY <1>1
  <2>2. 2 * (v % UNIT) = UNIT
    BY <1>2, <1>1 DEF UNIT
  <2>3. c = d + (d % 2) \/ (~Exact(values, q) /\ (c = d \/ c = d + 1))
    BY <1>1, <2>2 DEF Rounded
  <2> QED
    BY <1>2, <1>1, <2>1, <2>3
<1>3. CASE e # 10
  <2>1. 2 * (v % UNIT) # UNIT
    BY <1>3, <1>1 DEF UNIT
  <2>2. c = (2 * v + 20) \div 40
    BY <2>1 DEF Rounded, UNIT
  <2>3. 2 * v + 20 = IF e < 10 THEN 40 * d + (2 * e + 20) ELSE 40 * (d + 1) + (2 * e - 20)
    BY <1>1
  <2>4. \A a \in Nat, r \in 0 .. 39 : (40 * a + r) \div 40 = a
    <3>1. \A n \in Nat \ {0}, a \in Nat : \A r \in 0 .. n - 1 : (n * a + r) \div n = a
      BY DivisionIs, Zenon
    <3>2. 40 \in Nat \ {0} /\ 40 - 1 = 39
      OBVIOUS
    <3> QED
      BY <3>1, <3>2
  <2>5. CASE e < 10
    <3>1. 2 * e + 20 \in 0 .. 39 /\ 2 * v + 20 = 40 * d + (2 * e + 20)
      BY <1>1, <2>3, <2>5
    <3>2. c = d
      BY <1>1, <2>2, <2>4, <3>1
    <3> QED
      BY <1>1, <2>5, <3>2
  <2>6. CASE e > 10
    <3>1. 2 * e - 20 \in 0 .. 39 /\ 2 * v + 20 = 40 * (d + 1) + (2 * e - 20) /\ d + 1 \in Nat
      BY <1>1, <2>3, <2>6
    <3>2. c = d + 1
      BY <1>1, <2>2, <2>4, <3>1
    <3> QED
      BY <1>1, <2>6, <3>2
  <2> QED
    BY <1>3, <1>1, <2>5, <2>6
<1> QED
  BY <1>2, <1>3

\* A number of a higher level is no smaller, whichever way the numbers were cut
\* or rounded (fragmentation.py:34-35, 47-49).
LEMMA CutsGrow ==
  ASSUME NEW values \in Seq(Nat), values # <<>>,
         NEW q1 \in 1 .. UNIT, NEW q2 \in 1 .. UNIT, q1 < q2
  PROVE  /\ \A c1 \in Truncated(values, q1), c2 \in Truncated(values, q2) : c1 <= c2
         /\ \A c1 \in Rounded(values, q1), c2 \in Rounded(values, q2) : c1 <= c2
<1>1. PICK v1 \in Nat, v2 \in Nat : v1 = Quantile(values, q1) /\ v2 = Quantile(values, q2)
  BY QuantileWithin
<1>2. v1 < v2 \/ (v1 = v2 /\ Exact(values, q1) /\ Exact(values, q2))
  BY <1>1, QuantilesGrow
<1>3. PICK d1, e1 : Parts(values, q1, d1, e1)
  BY InParts
<1>4. PICK d2, e2 : Parts(values, q2, d2, e2)
  BY InParts
<1>5. /\ d1 \in Nat /\ e1 \in 0 .. 19 /\ v1 = 20 * d1 + e1
      /\ d2 \in Nat /\ e2 \in 0 .. 19 /\ v2 = 20 * d2 + e2
  BY <1>1, <1>3, <1>4 DEF Parts
<1>6. ASSUME NEW c1 \in Truncated(values, q1), NEW c2 \in Truncated(values, q2) PROVE c1 <= c2
  <2>1. c1 = d1 \/ (c1 = d1 - 1 /\ e1 = 0 /\ ~Exact(values, q1))
    BY <1>3, TruncatedIs
  <2>2. c2 = d2 \/ (c2 = d2 - 1 /\ e2 = 0 /\ ~Exact(values, q2))
    BY <1>4, TruncatedIs
  <2> QED
    BY <1>2, <1>5, <2>1, <2>2
<1>7. ASSUME NEW c1 \in Rounded(values, q1), NEW c2 \in Rounded(values, q2) PROVE c1 <= c2
  <2>1. /\ c1 = d1 \/ c1 = d1 + 1
        /\ e1 < 10 => c1 = d1
        /\ e1 > 10 => c1 = d1 + 1
        /\ e1 = 10 /\ Exact(values, q1) => c1 = d1 + (d1 % 2)
    BY <1>3, RoundedIs
  <2>2. /\ c2 = d2 \/ c2 = d2 + 1
        /\ e2 < 10 => c2 = d2
        /\ e2 > 10 => c2 = d2 + 1
        /\ e2 = 10 /\ Exact(values, q2) => c2 = d2 + (d2 % 2)
    BY <1>4, RoundedIs
  <2>3. v1 = v2 => d1 = d2 /\ e1 = e2
    BY <1>5
  <2>4. v1 < v2 => d1 < d2 \/ (d1 = d2 /\ e1 < e2)
    BY <1>5
  <2> QED
    BY <1>2, <1>5, <2>1, <2>2, <2>3, <2>4
<1> QED
  BY <1>6, <1>7

\* None is outside of the values.
LEMMA TruncatedWithin ==
  ASSUME NEW values \in Seq(Nat), values # <<>>, NEW q \in 1 .. UNIT, NEW c \in Truncated(values, q)
  PROVE  /\ c \in Int
         /\ \E i \in DOMAIN values : values[i] <= c
         /\ \E j \in DOMAIN values : c <= values[j]
<1>1. PICK v \in Nat : v = Quantile(values, q)
  BY QuantileWithin
<1>2. PICK i \in DOMAIN values, j \in DOMAIN values :
        /\ values[i] * UNIT <= v /\ v <= values[j] * UNIT
        /\ v = values[i] * UNIT => Exact(values, q)
  BY <1>1, QuantileWithin
<1>3. PICK d, e : Parts(values, q, d, e)
  BY InParts
<1>4. c = d \/ (c = d - 1 /\ e = 0 /\ ~Exact(values, q))
  BY <1>3, TruncatedIs
<1>5. PICK low \in Nat, high \in Nat : low = values[i] /\ high = values[j]
  OBVIOUS
<1>6. /\ low * 20 <= v /\ v <= high * 20
      /\ v = low * 20 => Exact(values, q)
  BY <1>2, <1>5 DEF UNIT
<1>7. c \in Int /\ low <= c /\ c <= high
  BY <1>1, <1>3, <1>4, <1>6 DEF Parts
<1> QED
  BY <1>5, <1>7

\* The levels in use are numbers.
LEMMA RoundedType ==
  ASSUME NEW values \in Seq(Nat), values # <<>>, NEW q \in 1 .. UNIT
  PROVE  Rounded(values, q) \subseteq Int
<1>1. PICK d, e : Parts(values, q, d, e)
  BY InParts
<1>2. \A c \in Rounded(values, q) : c = d \/ c = d + 1
  BY <1>1, RoundedIs
<1> QED
  BY <1>1, <1>2 DEF Parts
-----------------------------------------------------------------------------
(* build_typical_pods.                                                     *)

Given == pods \in PodLists /\ gpu_pods = AskForGpus(pods)

\* The pods that ask for GPUs are pods of the list (fragmentation.py:31).
LEMMA WorkloadIs ==
  ASSUME Given
  PROVE  /\ pods \in Seq(PodResource) /\ gpu_pods \in Seq(PodResource)
         /\ \A i \in DOMAIN gpu_pods : \E j \in DOMAIN pods : gpu_pods[i] = pods[j]
<1> DEFINE S == {i \in DOMAIN pods : pods[i].gpu_number > 0 \/ pods[i].milli_gpu > 0}
           n == Cardinality(S)
           asking == Ascending(S)
<1>1. pods \in Seq(PodResource)
  BY PodListsAssumption DEF Given
<1>2. PICK m \in Nat : DOMAIN pods = 1 .. m /\ \A i \in 1 .. m : pods[i] \in PodResource
  BY <1>1
<1>3. IsFiniteSet(1 .. m)
  BY UpTo, Zenon
<1>4. S \in SUBSET (1 .. m) /\ S \in SUBSET Int
  BY <1>2
<1>5. IsFiniteSet(S)
  <2> HIDE DEF S
  <2> QED
    BY <1>3, <1>4, FS_Subset
<1>6. n \in Nat /\ asking \in [1 .. n -> S]
  <2> HIDE DEF S
  <2> QED
    BY <1>4, <1>5, AscendingIs
<1>7. gpu_pods = [k \in DOMAIN asking |-> pods[asking[k]]]
  BY DEF Given, AskForGpus
<1> HIDE DEF S, n, asking
<1>8. gpu_pods = [k \in 1 .. n |-> pods[asking[k]]] /\ \A k \in 1 .. n : asking[k] \in 1 .. m
  BY <1>4, <1>6, <1>7
<1>9. \A k \in 1 .. n : pods[asking[k]] \in PodResource
  BY <1>2, <1>8
<1>10. gpu_pods \in Seq(PodResource)
  BY <1>6, <1>8, <1>9
<1>11. \A i \in DOMAIN gpu_pods : \E j \in DOMAIN pods : gpu_pods[i] = pods[j]
  BY <1>2, <1>8
<1> QED
  BY <1>1, <1>10, <1>11

\* The values the quantiles are taken of.
AllCpus == IF pods = <<>> THEN <<1000>> ELSE [i \in DOMAIN pods |-> pods[i].milli_cpu]
Cpus == [i \in DOMAIN gpu_pods |-> gpu_pods[i].milli_cpu]
GpuMillis == [i \in DOMAIN gpu_pods |-> GpuMilli(gpu_pods[i])]
GpuNumbers == [i \in DOMAIN gpu_pods |-> Max({gpu_pods[i].gpu_number, 1})]

\* The GPU share of a pod is a natural number.
LEMMA GpuMilliType ==
  ASSUME NEW p \in PodResource
  PROVE  GpuMilli(p) \in Nat
<1>1. \A i \in Nat : i * 1000 \in Nat
  OBVIOUS
<1> QED
  BY <1>1 DEF GpuMilli, PodResource, MILLI

\* The quantiles are of lists of naturals that are not empty.
LEMMA ValuesType ==
  ASSUME Given
  PROVE  /\ AllCpus \in Seq(Nat) /\ AllCpus # <<>>
         /\ Cpus \in Seq(Nat) /\ GpuMillis \in Seq(Nat) /\ GpuNumbers \in Seq(Nat)
         /\ ~CpuOnly => Cpus # <<>> /\ GpuMillis # <<>> /\ GpuNumbers # <<>>
<1>1. pods \in Seq(PodResource) /\ gpu_pods \in Seq(PodResource)
  BY WorkloadIs
<1>2. PICK m \in Nat : DOMAIN pods = 1 .. m /\ \A i \in 1 .. m : pods[i] \in PodResource
  BY <1>1
<1>3. PICK n \in Nat : DOMAIN gpu_pods = 1 .. n /\ \A i \in 1 .. n : gpu_pods[i] \in PodResource
  BY <1>1
<1>4. AllCpus \in Seq(Nat) /\ AllCpus # <<>>
  <2>1. CASE pods = <<>>
    BY <2>1 DEF AllCpus
  <2>2. CASE pods # <<>>
    <3>1. AllCpus = [i \in 1 .. m |-> pods[i].milli_cpu] /\ m # 0
      BY <1>1, <1>2, <2>2 DEF AllCpus
    <3>2. \A i \in 1 .. m : pods[i].milli_cpu \in Nat
      BY <1>2 DEF PodResource
    <3> QED
      BY <3>1, <3>2
  <2> QED
    BY <2>1, <2>2
<1>5. Cpus = [i \in 1 .. n |-> gpu_pods[i].milli_cpu] /\ \A i \in 1 .. n : gpu_pods[i].milli_cpu \in Nat
  BY <1>3 DEF Cpus, PodResource
<1>6. GpuMillis = [i \in 1 .. n |-> GpuMilli(gpu_pods[i])] /\ \A i \in 1 .. n : GpuMilli(gpu_pods[i]) \in Nat
  BY <1>3, GpuMilliType DEF GpuMillis
<1>7. /\ GpuNumbers = [i \in 1 .. n |-> Max({gpu_pods[i].gpu_number, 1})]
      /\ \A i \in 1 .. n : Max({gpu_pods[i].gpu_number, 1}) \in Nat
  <2>1. ASSUME NEW x \in Nat PROVE Max({x, 1}) \in Nat
    <3>1. \E y \in {x, 1} : \A z \in {x, 1} : y >= z
      OBVIOUS
    <3>2. Max({x, 1}) \in {x, 1}
      BY <3>1 DEF Max
    <3> QED
      BY <3>2
  <2>2. \A i \in 1 .. n : gpu_pods[i].gpu_number \in Nat
    BY <1>3 DEF PodResource
  <2> QED
    BY <1>3, <2>1, <2>2 DEF GpuNumbers
<1>8. ~CpuOnly => n # 0
  BY <1>1, <1>3 DEF CpuOnly
<1>9. \A f : (\E e \in [1 .. n -> Nat] : f = e) => f \in Seq(Nat) /\ (n # 0 => f # <<>>)
  OBVIOUS
<1>10. Cpus \in [1 .. n -> Nat] /\ GpuMillis \in [1 .. n -> Nat] /\ GpuNumbers \in [1 .. n -> Nat]
  BY <1>5, <1>6, <1>7
<1> QED
  BY <1>4, <1>8, <1>9, <1>10

\* What a shape of the k-th level may be.
OfLevel(k, shape) ==
  /\ shape.gpu_type = AnyType
  /\ CpuOnly => /\ shape.milli_cpu \in Truncated(AllCpus, CpuLevels[k])
                /\ shape.milli_gpu = 0 /\ shape.gpu_number = 0
  /\ ~CpuOnly => /\ shape.milli_cpu \in Truncated(Cpus, GpuLevels[k])
                 /\ shape.milli_gpu \in Truncated(GpuMillis, GpuLevels[k])
                 /\ shape.gpu_number \in Rounded(GpuNumbers, GpuLevels[k])

AnyShape == [milli_cpu : Int, milli_gpu : Int, gpu_number : Int, gpu_type : {AnyType}]

Chained ==
  /\ Given
  /\ typical \in Seq(AnyShape) /\ Len(typical) <= NShapes
  /\ \A k \in 1 .. Len(typical) : OfLevel(k, typical[k])

\* The levels do not depend on what has been built.
LEMMA LevelsStay ==
  ASSUME UNCHANGED workload
  PROVE  /\ Given' <=> Given
         /\ \A k, shape : OfLevel(k, shape)' <=> OfLevel(k, shape)
BY DEF workload, Given, OfLevel, CpuOnly, AllCpus, Cpus, GpuMillis, GpuNumbers

\* One shape more (fragmentation.py:34-36, 43-51).
LEMMA OneShape ==
  ASSUME Chained, UNCHANGED workload, Len(typical) + 1 <= NShapes,
         NEW c \in Int, NEW g \in Int, NEW n \in Int, OfLevel(Len(typical) + 1, Shape(c, g, n)),
         typical' = Append(typical, Shape(c, g, n))
  PROVE  Chained'
<1>1. Shape(c, g, n) \in AnyShape
  BY DEF Shape, AnyShape
<1>2. /\ typical' \in Seq(AnyShape) /\ Len(typical') = Len(typical) + 1
      /\ \A k \in 1 .. Len(typical) : typical'[k] = typical[k]
      /\ typical'[Len(typical) + 1] = Shape(c, g, n)
  BY <1>1 DEF Chained
<1>3. ASSUME NEW k \in 1 .. Len(typical') PROVE OfLevel(k, typical'[k])
  <2>1. k \in 1 .. Len(typical) \/ k = Len(typical) + 1
    BY <1>2 DEF Chained
  <2> QED
    BY <1>2, <2>1 DEF Chained
<1>4. PICK built : built = typical'
  OBVIOUS
<1>5. \A k \in 1 .. Len(built) : OfLevel(k, built[k])'
  BY <1>3, <1>4, LevelsStay
<1>6. \A k \in 1 .. Len(typical') : OfLevel(k, typical[k])'
  BY <1>4, <1>5 DEF OfLevel
<1> QED
  BY <1>2, <1>6, LevelsStay DEF Chained

\* Every step of the builder keeps the chain.
LEMMA StepChained ==
  ASSUME Chained, [Next]_vars
  PROVE  Chained'
<1>1. CASE CpuQuantile
  <2> DEFINE k == Len(typical) + 1
  <2>1. /\ CpuOnly /\ k <= NShapes /\ UNCHANGED workload
        /\ \E c \in Truncated(AllCpus, CpuLevels[k]) : typical' = Append(typical, Shape(c, 0, 0))
    BY <1>1 DEF CpuQuantile, AllCpus
  <2>2. PICK c \in Truncated(AllCpus, CpuLevels[k]) : typical' = Append(typical, Shape(c, 0, 0))
    BY <2>1
  <2>3. k \in 1 .. NShapes
    BY <2>1 DEF Chained, NShapes
  <2>4. c \in Int
    BY <2>3, ValuesType, LevelsGrow, TruncatedWithin DEF Chained
  <2>5. OfLevel(k, Shape(c, 0, 0))
    BY <2>1 DEF OfLevel, Shape
  <2> QED
    BY <2>1, <2>2, <2>4, <2>5, OneShape
<1>2. CASE GpuQuantile
  <2> DEFINE k == Len(typical) + 1
  <2>1. /\ ~CpuOnly /\ k <= NShapes /\ UNCHANGED workload
        /\ \E c \in Truncated(Cpus, GpuLevels[k]), g \in Truncated(GpuMillis, GpuLevels[k]),
              n \in Rounded(GpuNumbers, GpuLevels[k]) : typical' = Append(typical, Shape(c, g, n))
    BY <1>2 DEF GpuQuantile, Cpus, GpuMillis, GpuNumbers
  <2>2. PICK c \in Truncated(Cpus, GpuLevels[k]), g \in Truncated(GpuMillis, GpuLevels[k]),
             n \in Rounded(GpuNumbers, GpuLevels[k]) : typical' = Append(typical, Shape(c, g, n))
    BY <2>1
  <2>3. k \in 1 .. NShapes
    BY <2>1 DEF Chained, NShapes
  <2>4. c \in Int /\ g \in Int /\ n \in Int
    <3>1. GpuLevels[k] \in 1 .. UNIT
      BY <2>3, LevelsGrow
    <3>2. /\ Cpus \in Seq(Nat) /\ Cpus # <<>> /\ GpuMillis \in Seq(Nat) /\ GpuMillis # <<>>
          /\ GpuNumbers \in Seq(Nat) /\ GpuNumbers # <<>>
      BY <2>1, ValuesType DEF Chained
    <3>3. c \in Int
      BY <3>1, <3>2, TruncatedWithin
    <3>4. g \in Int
      BY <3>1, <3>2, TruncatedWithin
    <3>5. n \in Int
      BY <3>1, <3>2, RoundedType
    <3> QED
      BY <3>3, <3>4, <3>5
  <2>5. OfLevel(k, Shape(c, g, n))
    BY <2>1 DEF OfLevel, Shape
  <2> QED
    BY <2>1, <2>2, <2>4, <2>5, OneShape
<1>3. CASE UNCHANGED <<workload, typical>>
  <2>1. \A k \in 1 .. Len(typical) : OfLevel(k, typical[k])'
    BY <1>3, LevelsStay DEF Chained
  <2> QED
    BY <1>3, <2>1, LevelsStay DEF Chained
<1>4. UniformFallback \/ TakeStratum \/ SkipStratum \/ UNCHANGED vars => UNCHANGED <<workload, typical>>
  BY DEF UniformFallback, TakeStratum, SkipStratum, vars
<1> QED
  BY <1>1, <1>2, <1>3, <1>4 DEF Next

\* The chain holds throughout.
LEMMA AlwaysChained == Spec => []Chained
<1>1. Init => Chained
  BY DEF Init, Chained, Given, NShapes
<1>2. Chained /\ [Next]_vars => Chained'
  BY StepChained
<1> QED
  BY <1>1, <1>2, PTL DEF Spec

\* The shapes of two levels, and the workload around one.
LEMMA LevelsNest ==
  ASSUME Given, NEW k \in 1 .. NShapes, NEW l \in 1 .. NShapes, k < l,
         NEW low, OfLevel(k, low), NEW high, OfLevel(l, high)
  PROVE  AsksNoLess(high, low)
<1>1. /\ CpuLevels[k] \in 1 .. UNIT /\ CpuLevels[l] \in 1 .. UNIT /\ CpuLevels[k] < CpuLevels[l]
      /\ GpuLevels[k] \in 1 .. UNIT /\ GpuLevels[l] \in 1 .. UNIT /\ GpuLevels[k] < GpuLevels[l]
  BY LevelsGrow
<1>2. CASE CpuOnly
  <2>1. AllCpus \in Seq(Nat) /\ AllCpus # <<>>
    BY ValuesType
  <2>2. /\ low.milli_cpu \in Truncated(AllCpus, CpuLevels[k])
        /\ high.milli_cpu \in Truncated(AllCpus, CpuLevels[l])
    BY <1>2 DEF OfLevel
  <2>3. low.milli_cpu \in Int /\ high.milli_cpu \in Int
    BY <1>1, <2>1, <2>2, TruncatedWithin
  <2>4. low.milli_cpu <= high.milli_cpu
    BY <1>1, <2>1, <2>2, CutsGrow
  <2> QED
    BY <1>2, <2>3, <2>4 DEF OfLevel, AsksNoLess
<1>3. CASE ~CpuOnly
  <2>1. /\ Cpus \in Seq(Nat) /\ Cpus # <<>> /\ GpuMillis \in Seq(Nat) /\ GpuMillis # <<>>
        /\ GpuNumbers \in Seq(Nat) /\ GpuNumbers # <<>>
    BY <1>3, ValuesType
  <2>2. /\ low.milli_cpu \in Truncated(Cpus, GpuLevels[k])
        /\ high.milli_cpu \in Truncated(Cpus, GpuLevels[l])
        /\ low.milli_gpu \in Truncated(GpuMillis, GpuLevels[k])
        /\ high.milli_gpu \in Truncated(GpuMillis, GpuLevels[l])
        /\ low.gpu_number \in Rounded(GpuNumbers, GpuLevels[k])
        /\ high.gpu_number \in Rounded(GpuNumbers, GpuLevels[l])
    BY <1>3 DEF OfLevel
  <2>3. low.milli_cpu \in Int /\ high.milli_cpu \in Int /\ low.milli_cpu <= high.milli_cpu
    BY <1>1, <2>1, <2>2, TruncatedWithin, CutsGrow
  <2>4. low.milli_gpu \in Int /\ high.milli_gpu \in Int /\ low.milli_gpu <= high.milli_gpu
    BY <1>1, <2>1, <2>2, TruncatedWithin, CutsGrow
  <2>5. low.gpu_number \in Int /\ high.gpu_number \in Int
    BY <1>1, <2>1, <2>2, RoundedType
  <2>6. low.gpu_number <= high.gpu_number
    BY <1>1, <2>1, <2>2, CutsGrow
  <2> QED
    BY <2>3, <2>4, <2>5, <2>6 DEF OfLevel, AsksNoLess
<1> QED
  BY <1>2, <1>3

Around(shape) ==
  /\ \E i \in DOMAIN pods : pods[i].milli_cpu <= shape.milli_cpu
  /\ \E i \in DOMAIN pods : pods[i].milli_cpu >= shape.milli_cpu
  /\ \E i \in DOMAIN pods : GpuMilli(pods[i]) >= shape.milli_gpu

\* A shape cut at its level is within what the workload asks for.
LEMMA LevelsAround ==
  ASSUME Given, pods # <<>>, NEW k \in 1 .. NShapes, NEW shape, OfLevel(k, shape)
  PROVE  Around(shape)
<1>1. CpuLevels[k] \in 1 .. UNIT /\ GpuLevels[k] \in 1 .. UNIT
  BY LevelsGrow
<1>2. PICK m \in Nat : DOMAIN pods = 1 .. m /\ m # 0 /\ \A i \in 1 .. m : pods[i] \in PodResource
  BY WorkloadIs
<1>3. \A i \in 1 .. m : GpuMilli(pods[i]) \in Nat /\ pods[i].milli_cpu \in Nat
  BY <1>2, GpuMilliType DEF PodResource
<1>4. CASE CpuOnly
  <2>1. AllCpus \in Seq(Nat) /\ AllCpus # <<>> /\ shape.milli_cpu \in Truncated(AllCpus, CpuLevels[k])
    BY <1>4, ValuesType DEF OfLevel
  <2>2. /\ shape.milli_cpu \in Int
        /\ \E i \in DOMAIN AllCpus : AllCpus[i] <= shape.milli_cpu
        /\ \E i \in DOMAIN AllCpus : shape.milli_cpu <= AllCpus[i]
    BY <1>1, <2>1, TruncatedWithin
  <2>3. DOMAIN AllCpus = 1 .. m /\ \A i \in 1 .. m : AllCpus[i] = pods[i].milli_cpu
    BY <1>2 DEF AllCpus
  <2>4. shape.milli_gpu = 0 /\ 1 \in 1 .. m
    BY <1>2, <1>4 DEF OfLevel
  <2>5. \E j \in 1 .. m : pods[j].milli_cpu <= shape.milli_cpu
    BY <2>2, <2>3
  <2>6. \E j \in 1 .. m : pods[j].milli_cpu >= shape.milli_cpu
    BY <1>3, <2>2, <2>3
  <2>7. \E j \in 1 .. m : GpuMilli(pods[j]) >= shape.milli_gpu
    BY <1>3, <2>4
  <2> QED
    BY <1>2, <2>5, <2>6, <2>7 DEF Around
<1>5. CASE ~CpuOnly
  <2>1. /\ Cpus \in Seq(Nat) /\ Cpus # <<>> /\ GpuMillis \in Seq(Nat) /\ GpuMillis # <<>>
        /\ shape.milli_cpu \in Truncated(Cpus, GpuLevels[k])
        /\ shape.milli_gpu \in Truncated(GpuMillis, GpuLevels[k])
    BY <1>5, ValuesType DEF OfLevel
  <2>2. /\ shape.milli_cpu \in Int /\ shape.milli_gpu \in Int
        /\ \E i \in DOMAIN Cpus : Cpus[i] <= shape.milli_cpu
        /\ \E i \in DOMAIN Cpus : shape.milli_cpu <= Cpus[i]
        /\ \E i \in DOMAIN GpuMillis : shape.milli_gpu <= GpuMillis[i]
    BY <1>1, <2>1, TruncatedWithin
  <2>3. \A i \in DOMAIN gpu_pods : \E j \in 1 .. m : gpu_pods[i] = pods[j]
    BY <1>2, WorkloadIs
  <2>4. /\ \A i \in DOMAIN Cpus : \E j \in 1 .. m : Cpus[i] = pods[j].milli_cpu
        /\ \A i \in DOMAIN GpuMillis : \E j \in 1 .. m : GpuMillis[i] = GpuMilli(pods[j])
    BY <2>3 DEF Cpus, GpuMillis
  <2>5. \E j \in 1 .. m : pods[j].milli_cpu <= shape.milli_cpu
    BY <2>2, <2>4
  <2>6. \E j \in 1 .. m : pods[j].milli_cpu >= shape.milli_cpu
    BY <1>3, <2>2, <2>4
  <2>7. \E j \in 1 .. m : GpuMilli(pods[j]) >= shape.milli_gpu
    BY <1>3, <2>2, <2>4
  <2> QED
    BY <1>2, <2>5, <2>6, <2>7 DEF Around
<1> QED
  BY <1>4, <1>5

\* The shapes of build_typical_pods form a chain within what the workload asks
\* for, although every resource is cut from its own quantile and either way
\* (fragmentation.py:41-52).
THEOREM ShapesNest == Spec => []TypicalNested
<1>1. Chained => TypicalNested
  <2> SUFFICES ASSUME Chained PROVE TypicalNested
    OBVIOUS
  <2>1. DOMAIN typical = 1 .. Len(typical) /\ \A k \in DOMAIN typical : k \in 1 .. NShapes
    BY DEF Chained, NShapes
  <2>2. Given /\ \A k \in DOMAIN typical : OfLevel(k, typical[k])
    BY <2>1 DEF Chained
  <2>3. \A k, l \in DOMAIN typical : k < l => AsksNoLess(typical[l], typical[k])
    BY <2>1, <2>2, LevelsNest
  <2>4. \A k \in DOMAIN typical : pods # <<>> => Around(typical[k])
    BY <2>1, <2>2, LevelsAround
  <2> QED
    BY <2>3, <2>4 DEF TypicalNested, Around
<1> QED
  BY <1>1, AlwaysChained, PTL

-----------------------------------------------------------------------------
(* build_typical_pods_weighted.                                            *)

\* How many pods the first k strata hold (fragmentation.py:96).
Taken(k) == k * (N \div NShapes) + (IF k <= N % NShapes THEN k ELSE N % NShapes)

\* The strata are as large as array_split makes them, and use up the pods.
LEMMA TakenIs ==
  ASSUME N \in Nat
  PROVE  /\ Taken(0) = 0 /\ Taken(NShapes) = N
         /\ \A k \in 0 .. NShapes : Taken(k) \in Nat /\ (N <= k => Taken(k) = N)
         /\ \A k \in 1 .. NShapes :
              /\ StratumSize(k) \in Nat /\ Taken(k) = Taken(k - 1) + StratumSize(k)
              /\ StratumSize(k) > 0 <=> k <= N
<1>1. N \div 5 \in Nat /\ N % 5 \in 0 .. 4 /\ N = 5 * (N \div 5) + (N % 5)
  <2>1. \A b \in Nat, c \in Nat \ {0} :
          b \div c \in Nat /\ b % c \in 0 .. c - 1 /\ b = c * (b \div c) + (b % c)
    BY Division, Zenon
  <2>2. 5 \in Nat \ {0} /\ 5 - 1 = 4
    OBVIOUS
  <2> QED
    BY <2>1, <2>2
<1>2. PICK q \in Nat, r \in 0 .. 4, n \in Nat :
        q = N \div 5 /\ r = N % 5 /\ n = N /\ n = 5 * q + r
  BY <1>1
<1>3. \A k : Taken(k) = k * q + (IF k <= r THEN k ELSE r)
  BY <1>2 DEF Taken, NShapes
<1>4. \A k : StratumSize(k) = q + (IF k <= r THEN 1 ELSE 0)
  BY <1>2 DEF StratumSize, NShapes
<1>5. 0 * q = 0 /\ 1 * q = q /\ 2 * q = q + q /\ 3 * q = q + q + q /\ 4 * q = q + q + q + q
      /\ 5 * q = q + q + q + q + q
  OBVIOUS
<1>6. /\ Taken(0) = 0 /\ Taken(5) = n
      /\ \A k \in {0, 1, 2, 3, 4, 5} : Taken(k) \in Nat /\ (n <= k => Taken(k) = n)
  <2>1. /\ Taken(0) = 0
        /\ Taken(1) = q + (IF 1 <= r THEN 1 ELSE r)
        /\ Taken(2) = q + q + (IF 2 <= r THEN 2 ELSE r)
        /\ Taken(3) = q + q + q + (IF 3 <= r THEN 3 ELSE r)
        /\ Taken(4) = q + q + q + q + (IF 4 <= r THEN 4 ELSE r)
        /\ Taken(5) = q + q + q + q + q + (IF 5 <= r THEN 5 ELSE r)
    BY <1>2, <1>3, <1>5
  <2>2. n = q + q + q + q + q + r
    BY <1>2
  <2> QED
    BY <2>1, <2>2
<1>7. \A k \in {1, 2, 3, 4, 5} :
        /\ StratumSize(k) \in Nat /\ Taken(k) = Taken(k - 1) + StratumSize(k)
        /\ StratumSize(k) > 0 <=> k <= n
  BY <1>2, <1>3, <1>4, <1>5
<1>8. 0 .. NShapes = {0, 1, 2, 3, 4, 5} /\ 1 .. NShapes = {1, 2, 3, 4, 5}
  BY DEF NShapes
<1> QED
  BY <1>2, <1>6, <1>7, <1>8 DEF NShapes

\* The magnitudes of the pods, and that of a shape.
Sizes == [i \in DOMAIN gpu_pods |-> Magnitude(i)]
SizeOf(shape) == shape.milli_cpu * MaxGpu + GpuMilli(shape) * MaxCpu

\* Magnitudes are natural numbers, one for each pod.
LEMMA SizesType ==
  ASSUME Given, ~CpuOnly
  PROVE  /\ N \in Nat \ {0} /\ DOMAIN gpu_pods = 1 .. N
         /\ \A i \in 1 .. N : Sizes[i] \in Nat /\ Sizes[i] = Magnitude(i) /\ SizeOf(gpu_pods[i]) = Sizes[i]
<1>1. N \in Nat \ {0} /\ DOMAIN gpu_pods = 1 .. N /\ \A i \in 1 .. N : gpu_pods[i] \in PodResource
  BY WorkloadIs DEF CpuOnly, N
<1> HIDE DEF N
<1>2. IsFiniteSet(1 .. N)
  BY <1>1, UpTo, Zenon
<1>3. MaxCpu \in Nat
  <2> DEFINE cpus == {Cpus[i] : i \in 1 .. N}
  <2>1. \A i \in 1 .. N : Cpus[i] \in Nat
    BY <1>1 DEF Cpus, PodResource
  <2>2. IsFiniteSet(cpus)
    BY <1>2, ImageFinite
  <2>3. MaxCpu = Max(cpus \cup {1})
    <3>1. {1} \cup {gpu_pods[i].milli_cpu : i \in DOMAIN gpu_pods} = cpus \cup {1}
      BY <1>1 DEF Cpus
    <3> QED
      BY <3>1 DEF MaxCpu
  <2>4. \A x \in cpus \cup {1} : x \in Nat
    BY <2>1
  <2> HIDE DEF cpus
  <2>5. IsFiniteSet(cpus \cup {1})
    BY <2>2, FS_AddElement
  <2>6. Max(cpus \cup {1}) \in cpus \cup {1}
    BY <2>4, <2>5, MaxIsGreatest
  <2> QED
    BY <2>3, <2>4, <2>6
<1>4. MaxGpu \in Nat
  <2> DEFINE gpus == {GpuMillis[i] : i \in 1 .. N}
  <2>1. \A i \in 1 .. N : GpuMillis[i] \in Nat
    BY <1>1, GpuMilliType DEF GpuMillis
  <2>2. IsFiniteSet(gpus)
    BY <1>2, ImageFinite
  <2>3. MaxGpu = Max(gpus)
    <3>1. {GpuMilli(gpu_pods[i]) : i \in DOMAIN gpu_pods} = gpus
      BY <1>1 DEF GpuMillis
    <3> QED
      BY <3>1 DEF MaxGpu
  <2>4. gpus # {} /\ \A x \in gpus : x \in Nat
    BY <1>1, <2>1
  <2> HIDE DEF gpus
  <2>5. Max(gpus) \in gpus
    BY <2>2, <2>4, MaxIsGreatest
  <2> QED
    BY <2>3, <2>4, <2>5
<1>5. \A a, b, c, d \in Nat : a * b + c * d \in Nat
  BY Z3
<1>6. \A i \in 1 .. N : gpu_pods[i].milli_cpu \in Nat /\ GpuMilli(gpu_pods[i]) \in Nat
  BY <1>1, GpuMilliType DEF PodResource
<1>7. \A i \in 1 .. N : SizeOf(gpu_pods[i]) \in Nat
  BY <1>3, <1>4, <1>5, <1>6 DEF SizeOf
<1>8. \A i \in 1 .. N : Magnitude(i) = SizeOf(gpu_pods[i])
  BY DEF Magnitude, SizeOf
<1>9. \A i \in 1 .. N : Sizes[i] = Magnitude(i)
  BY <1>1 DEF Sizes
<1> QED
  BY <1>1, <1>7, <1>8, <1>9

\* More than low of the sizes are no larger than size, fewer than high smaller.
Placed(sizes, n, low, high, size) ==
  /\ Cardinality({i \in 1 .. n : sizes[i] <= size}) > low
  /\ Cardinality({i \in 1 .. n : sizes[i] < size}) < high

\* The pods not in rest are no larger than those in it.
Split(sizes, n, rest, taken) ==
  /\ rest \in SUBSET (1 .. n) /\ Cardinality(rest) = n - taken
  /\ \A i \in (1 .. n) \ rest : \A j \in rest : sizes[i] <= sizes[j]

\* A stratum taken of what is left: what is left then, and where one of its
\* pods stands (fragmentation.py:95-111).
LEMMA OneStratum ==
  ASSUME NEW n \in Nat, NEW sizes, \A i \in 1 .. n : sizes[i] \in Nat,
         NEW rest, NEW taken \in Nat, Split(sizes, n, rest, taken),
         NEW S \in SUBSET rest, NEW size \in Nat, Cardinality(S) = size,
         \A i \in S : \A j \in rest \ S : sizes[i] <= sizes[j]
  PROVE  /\ Split(sizes, n, rest \ S, taken + size)
         /\ \A i \in S : Placed(sizes, n, taken, taken + size, sizes[i])
<1> DEFINE D == 1 .. n
<1>1. IsFiniteSet(D) /\ Cardinality(D) = n
  BY UpTo, Zenon
<1>2. /\ rest \in SUBSET D /\ Cardinality(rest) = n - taken
      /\ \A i \in D \ rest : \A j \in rest : sizes[i] <= sizes[j]
  BY DEF Split
<1>3. \A i \in D : sizes[i] \in Nat
  OBVIOUS
<1> HIDE DEF D
<1>4. \A T \in SUBSET D : \A U \in SUBSET T :
        /\ Cardinality(T) \in Nat /\ Cardinality(U) \in Nat
        /\ Cardinality(U) <= Cardinality(T)
        /\ Cardinality(T \ U) = Cardinality(T) - Cardinality(U)
  <2> SUFFICES ASSUME NEW T \in SUBSET D, NEW U \in SUBSET T
               PROVE  /\ Cardinality(T) \in Nat /\ Cardinality(U) \in Nat
                      /\ Cardinality(U) <= Cardinality(T)
                      /\ Cardinality(T \ U) = Cardinality(T) - Cardinality(U)
    OBVIOUS
  <2>1. IsFiniteSet(T) /\ IsFiniteSet(U)
    BY <1>1, FS_Subset
  <2>2. Cardinality(T \ U) = Cardinality(T) - Cardinality(T \cap U)
    BY <2>1, FS_Difference
  <2>3. T \cap U = U
    OBVIOUS
  <2> QED
    BY <2>1, <2>2, <2>3, FS_Subset, FS_CardinalityType
<1>5. Cardinality(rest \ S) = n - (taken + size)
  <2>1. Cardinality(rest \ S) = (n - taken) - size
    BY <1>2, <1>4
  <2> QED
    BY <2>1
<1>6. \A i \in D \ (rest \ S) : \A j \in rest \ S : sizes[i] <= sizes[j]
  BY <1>2
<1>7. Split(sizes, n, rest \ S, taken + size)
  BY <1>2, <1>5, <1>6 DEF Split, D
<1>8. ASSUME NEW i \in S PROVE Placed(sizes, n, taken, taken + size, sizes[i])
  <2> DEFINE T == D \ rest
             atMost == {j \in D : sizes[j] <= sizes[i]}
             below == {j \in D : sizes[j] < sizes[i]}
             upTo == D \ (rest \ S)
  <2>1. i \in D /\ i \in rest /\ i \in upTo /\ i \notin below /\ i \in atMost /\ i \notin T
    BY <1>2, <1>3
  <2>2. T \subseteq atMost \ {i}
    BY <1>2, <2>1
  <2>3. below \subseteq upTo \ {i}
    BY <1>2, <1>3, <2>1
  <2>4. T \in SUBSET D /\ atMost \in SUBSET D /\ upTo \in SUBSET D /\ {i} \in SUBSET D
    BY <2>1
  <2>5. Cardinality(T) = taken /\ Cardinality(upTo) = taken + size
    <3>1. rest \ S \in SUBSET D
      BY <1>2
    <3>2. D \in SUBSET D
      OBVIOUS
    <3>3. Cardinality(T) = Cardinality(D) - Cardinality(rest)
      BY <1>2, <1>4, <3>2
    <3>4. Cardinality(upTo) = Cardinality(D) - Cardinality(rest \ S)
      BY <1>4, <3>1, <3>2
    <3> QED
      BY <1>1, <1>2, <1>5, <3>3, <3>4
  <2> HIDE DEF T, atMost, below, upTo
  <2>6. Cardinality({i}) = 1
    BY FS_Singleton
  <2>7. /\ Cardinality(atMost \ {i}) = Cardinality(atMost) - 1
        /\ Cardinality(upTo \ {i}) = Cardinality(upTo) - 1
    BY <1>4, <2>1, <2>4, <2>6
  <2>8. atMost \ {i} \in SUBSET D /\ upTo \ {i} \in SUBSET D
    BY <2>4
  <2>9. Cardinality(T) <= Cardinality(atMost \ {i}) /\ Cardinality(below) <= Cardinality(upTo \ {i})
    BY <1>4, <2>2, <2>3, <2>8
  <2>10. Cardinality(atMost) \in Nat /\ Cardinality(below) \in Nat
    BY <1>4, <2>3, <2>4, <2>8
  <2>11. Cardinality(atMost) > taken /\ Cardinality(below) < taken + size
    BY <2>5, <2>7, <2>9, <2>10
  <2> QED
    BY <2>11 DEF Placed, atMost, below, D
<1> QED
  BY <1>7, <1>8

\* The strata that are not empty come first.
Filled == IF stratum <= N THEN stratum ELSE N

\* Without GPUs, the shapes are the typical ones; with GPUs, what the strata so
\* far have taken is what is smallest, and every shape is of its own stratum.
Fallback ==
  /\ left = {}
  /\ \/ stratum = 0 /\ shapes = <<>> /\ weights = <<>>
     \/ stratum = NShapes /\ Len(shapes) = NShapes /\ weights = [k \in 1 .. NShapes |-> <<1, NShapes>>]

Cut ==
  /\ shapes \in Seq(PodResource) /\ Len(shapes) = Filled
  /\ weights = [k \in 1 .. Filled |-> <<StratumSize(k), N>>]
  /\ Split(Sizes, N, left, Taken(stratum))
  /\ \A k \in 1 .. Filled : Placed(Sizes, N, Taken(k - 1), Taken(k), SizeOf(shapes[k]))

Stratified ==
  /\ Given
  /\ stratum \in 0 .. NShapes
  /\ CpuOnly => Fallback
  /\ ~CpuOnly => Cut

\* What the workload decides.
LEMMA CountsStay ==
  ASSUME UNCHANGED workload
  PROVE  /\ Given' <=> Given
         /\ CpuOnly' <=> CpuOnly
         /\ N' = N /\ Sizes' = Sizes
         /\ \A k : Taken(k)' = Taken(k) /\ StratumSize(k)' = StratumSize(k)
         /\ \A shape : SizeOf(shape)' = SizeOf(shape)
BY DEF workload, Given, CpuOnly, N, Sizes, Magnitude, MaxGpu, MaxCpu, Taken, StratumSize, SizeOf

\* What the next state of a workload with GPUs must be like.
LEMMA NextCut ==
  ASSUME UNCHANGED workload, NEW m, NEW built, NEW weighed, NEW rest, NEW next,
         stratum' = next, shapes' = built, weights' = weighed, left' = rest,
         m = IF next <= N THEN next ELSE N,
         built \in Seq(PodResource), Len(built) = m,
         weighed = [k \in 1 .. m |-> <<StratumSize(k), N>>],
         Split(Sizes, N, rest, Taken(next)),
         \A k \in 1 .. m : Placed(Sizes, N, Taken(k - 1), Taken(k), SizeOf(built[k]))
  PROVE  Cut'
<1>1. Filled' = m
  BY CountsStay DEF Filled
<1>2. shapes' \in Seq(PodResource) /\ Len(shapes') = Filled'
  BY <1>1
<1>3. weights' = [k \in 1 .. Filled' |-> <<StratumSize(k)', N'>>]
  <2>1. \A k : StratumSize(k)' = StratumSize(k)
    BY CountsStay
  <2> QED
    BY <1>1, <2>1, CountsStay
<1>4. Split(Sizes', N', left', Taken(next)')
  BY CountsStay
<1>5. Split(Sizes', N', left', Taken(stratum)')
  BY <1>4 DEF Taken
<1>6. \A k \in 1 .. m : Placed(Sizes', N', Taken(k - 1)', Taken(k)', SizeOf(built[k])')
  BY CountsStay
<1>7. \A k \in 1 .. Filled' : Placed(Sizes', N', Taken(k - 1)', Taken(k)', SizeOf(shapes[k])')
  BY <1>1, <1>6 DEF SizeOf
<1> QED
  BY <1>2, <1>3, <1>5, <1>7 DEF Cut, Split, Placed

\* No stratum has been taken at the start.
LEMMA StratifiedInit ==
  ASSUME Init
  PROVE  Stratified
<1>1. Given /\ stratum = 0 /\ left = DOMAIN gpu_pods /\ shapes = <<>> /\ weights = <<>>
  BY DEF Init, Given
<1>2. CASE CpuOnly
  <2>1. left = {}
    BY <1>1, <1>2 DEF CpuOnly
  <2> QED
    BY <1>1, <1>2, <2>1 DEF Stratified, Fallback, NShapes
<1>3. CASE ~CpuOnly
  <2>1. N \in Nat \ {0} /\ DOMAIN gpu_pods = 1 .. N
    BY <1>1, <1>3, SizesType
  <2>2. Filled = 0 /\ 1 .. 0 = {}
    BY <1>1, <2>1 DEF Filled
  <2>3. shapes \in Seq(PodResource) /\ Len(shapes) = 0
    BY <1>1
  <2>4. weights = [k \in {} |-> <<StratumSize(k), N>>]
    BY <1>1
  <2>5. Split(Sizes, N, left, Taken(stratum))
    <3>1. Cardinality(1 .. N) = N
      BY <2>1, UpTo, Zenon
    <3>2. Taken(stratum) = 0
      BY <1>1, <2>1, TakenIs
    <3> QED
      BY <1>1, <2>1, <3>1, <3>2 DEF Split
  <2>6. Cut
    BY <2>2, <2>3, <2>4, <2>5 DEF Cut
  <2> QED
    BY <1>1, <1>3, <2>6 DEF Stratified, NShapes
<1> QED
  BY <1>2, <1>3

\* A stratum more (fragmentation.py:97-111).
LEMMA TakeStratumCut ==
  ASSUME Stratified, TakeStratum
  PROVE  Stratified'
<1> DEFINE k == stratum + 1
           size == StratumSize(k)
<1> DEFINE Takes(S, i) == shapes' = Append(shapes, gpu_pods[i]) /\ left' = left \ S
<1>0. PICK S \in Strata(size) : \E i \in Medoids(S) : Takes(S, i)
  BY DEF TakeStratum
<1>1. PICK i \in Medoids(S) :
        /\ ~CpuOnly /\ stratum < NShapes /\ size > 0
        /\ shapes' = Append(shapes, gpu_pods[i])
        /\ weights' = Append(weights, <<size, N>>)
        /\ left' = left \ S
        /\ stratum' = k
        /\ UNCHANGED workload
  BY <1>0 DEF TakeStratum
<1>2. Given /\ stratum \in 0 .. NShapes /\ Cut
  BY <1>1 DEF Stratified
<1>3. /\ N \in Nat \ {0}
      /\ \A j \in 1 .. N : Sizes[j] \in Nat /\ Sizes[j] = Magnitude(j) /\ SizeOf(gpu_pods[j]) = Sizes[j]
      /\ DOMAIN gpu_pods = 1 .. N
  BY <1>1, <1>2, SizesType
<1>4. k \in 1 .. NShapes /\ stratum \in 0 .. NShapes /\ k - 1 = stratum
  BY <1>1, <1>2 DEF NShapes
<1>5. /\ size \in Nat /\ Taken(k) = Taken(stratum) + size /\ k <= N
      /\ Taken(stratum) \in Nat
  BY <1>1, <1>3, <1>4, TakenIs
<1>6. Filled = stratum
  BY <1>2, <1>3, <1>5 DEF Filled, NShapes
<1>7. /\ shapes \in Seq(PodResource) /\ Len(shapes) = stratum
      /\ weights = [j \in 1 .. stratum |-> <<StratumSize(j), N>>]
      /\ Split(Sizes, N, left, Taken(stratum))
      /\ \A j \in 1 .. stratum : Placed(Sizes, N, Taken(j - 1), Taken(j), SizeOf(shapes[j]))
  BY <1>2, <1>6 DEF Cut
<1>8. S \in SUBSET left /\ Cardinality(S) = size /\ i \in S /\ left \in SUBSET (1 .. N)
  BY <1>1, <1>7 DEF Strata, kSubset, Medoids, Split
<1>9. \A a \in S : \A b \in left \ S : Sizes[a] <= Sizes[b]
  BY <1>1, <1>3, <1>8 DEF Strata
<1> HIDE DEF size
<1>10. /\ Split(Sizes, N, left \ S, Taken(k))
       /\ Placed(Sizes, N, Taken(stratum), Taken(k), Sizes[i])
  <2>1. N \in Nat /\ \A j \in 1 .. N : Sizes[j] \in Nat
    BY <1>3
  <2>2. PICK n, sizes, rest, taken : n = N /\ sizes = Sizes /\ rest = left /\ taken = Taken(stratum)
    OBVIOUS
  <2>3. n \in Nat /\ taken \in Nat /\ size \in Nat /\ \A j \in 1 .. n : sizes[j] \in Nat
    BY <1>5, <2>1, <2>2
  <2>4. Split(sizes, n, rest, taken) /\ S \in SUBSET rest /\ Cardinality(S) = size
    BY <1>7, <1>8, <2>2
  <2>5. \A a \in S : \A b \in rest \ S : sizes[a] <= sizes[b]
    BY <1>9, <2>2
  <2>6. /\ Split(sizes, n, rest \ S, taken + size)
        /\ \A a \in S : Placed(sizes, n, taken, taken + size, sizes[a])
    BY <2>3, <2>4, <2>5, OneStratum
  <2>7. taken + size = Taken(k)
    BY <1>5, <2>2
  <2> QED
    BY <1>8, <2>2, <2>6, <2>7
<1>11. i \in 1 .. N /\ gpu_pods[i] \in PodResource
  <2>1. i \in 1 .. N
    BY <1>8
  <2>2. gpu_pods \in Seq(PodResource)
    BY <1>2, WorkloadIs
  <2> QED
    BY <1>3, <2>1, <2>2
<1>12. PICK built, weighed : built = shapes' /\ weighed = weights'
  OBVIOUS
<1>13. /\ built \in Seq(PodResource) /\ Len(built) = k
       /\ built[k] = gpu_pods[i] /\ \A j \in 1 .. stratum : built[j] = shapes[j]
  <2>1. built = Append(shapes, gpu_pods[i])
    BY <1>1, <1>12
  <2>2. shapes \in Seq(PodResource) /\ gpu_pods[i] \in PodResource /\ Len(shapes) = stratum
    BY <1>7, <1>11
  <2>3. \A pod \in PodResource :
          /\ Append(shapes, pod) \in Seq(PodResource) /\ Len(Append(shapes, pod)) = Len(shapes) + 1
          /\ Append(shapes, pod)[Len(shapes) + 1] = pod
          /\ \A j \in 1 .. Len(shapes) : Append(shapes, pod)[j] = shapes[j]
    BY <2>2
  <2> QED
    BY <2>1, <2>2, <2>3
<1>14. weighed = [j \in 1 .. k |-> <<StratumSize(j), N>>]
  <2> DEFINE Fractions == {<<StratumSize(j), N>> : j \in 1 .. k}
  <2>0. k \in 1 .. k /\ \A j \in 1 .. stratum : j \in 1 .. k
    BY <1>4
  <2>2. <<size, N>> \in Fractions /\ \A j \in 1 .. stratum : <<StratumSize(j), N>> \in Fractions
    BY <2>0 DEF size
  <2> HIDE DEF Fractions
  <2>1. weights \in Seq(Fractions) /\ Len(weights) = stratum
    <3>1. weights \in [1 .. stratum -> Fractions] /\ stratum \in Nat
      BY <1>4, <1>7, <2>2
    <3> QED
      BY <3>1
  <2>3. /\ DOMAIN weighed = 1 .. k /\ weighed[k] = <<size, N>>
        /\ \A j \in 1 .. stratum : weighed[j] = weights[j]
    BY <1>1, <1>4, <1>12, <2>1, <2>2
  <2>4. \A j \in 1 .. k : weighed[j] = <<StratumSize(j), N>>
    BY <1>4, <1>7, <2>3 DEF size
  <2>5. weighed = [j \in DOMAIN weighed |-> weighed[j]]
    BY <1>1, <1>12, <2>1, <2>2
  <2> QED
    BY <2>3, <2>4, <2>5
<1>15. \A j \in 1 .. k : Placed(Sizes, N, Taken(j - 1), Taken(j), SizeOf(built[j]))
  <2>1. Placed(Sizes, N, Taken(k - 1), Taken(k), SizeOf(built[k]))
    BY <1>3, <1>4, <1>10, <1>11, <1>13
  <2>2. \A j \in 1 .. stratum : Placed(Sizes, N, Taken(j - 1), Taken(j), SizeOf(built[j]))
    BY <1>7, <1>13
  <2>3. \A j \in 1 .. k : j = k \/ j \in 1 .. stratum
    BY <1>4
  <2> QED
    BY <2>1, <2>2, <2>3
<1>16. Cut'
  <2>1. k = IF k <= N THEN k ELSE N
    BY <1>5
  <2> QED
    BY <1>1, <1>10, <1>12, <1>13, <1>14, <1>15, <2>1, NextCut
<1> QED
  BY <1>1, <1>2, <1>4, <1>16, CountsStay DEF Stratified

\* An empty one (fragmentation.py:98-99).
LEMMA SkipStratumCut ==
  ASSUME Stratified, SkipStratum
  PROVE  Stratified'
<1> DEFINE k == stratum + 1
<1>1. /\ ~CpuOnly /\ stratum < NShapes /\ StratumSize(k) = 0 /\ stratum' = k
      /\ UNCHANGED <<workload, typical, left, shapes, weights>>
  BY DEF SkipStratum
<1>2. Given /\ stratum \in 0 .. NShapes /\ Cut
  BY <1>1 DEF Stratified
<1>3. N \in Nat \ {0}
  BY <1>1, <1>2, SizesType
<1>4. k \in 1 .. NShapes /\ k - 1 = stratum
  BY <1>1, <1>2 DEF NShapes
<1>5. Taken(k) = Taken(stratum) /\ ~(k <= N)
  <2>1. Taken(k) = Taken(stratum) + 0 /\ Taken(stratum) \in Nat
    BY <1>1, <1>2, <1>3, <1>4, TakenIs
  <2>2. ~(k <= N)
    BY <1>1, <1>3, <1>4, TakenIs
  <2> QED
    BY <2>1, <2>2
<1>6. Filled = N
  BY <1>2, <1>3, <1>5 DEF Filled, NShapes
<1>7. PICK built, weighed, rest : built = shapes' /\ weighed = weights' /\ rest = left'
  OBVIOUS
<1>8. /\ built \in Seq(PodResource) /\ Len(built) = N
      /\ weighed = [j \in 1 .. N |-> <<StratumSize(j), N>>]
      /\ Split(Sizes, N, rest, Taken(k))
      /\ \A j \in 1 .. N : Placed(Sizes, N, Taken(j - 1), Taken(j), SizeOf(built[j]))
  BY <1>1, <1>2, <1>5, <1>6, <1>7 DEF Cut
<1>9. N = IF k <= N THEN k ELSE N
  BY <1>5
<1>10. Cut'
  BY <1>1, <1>7, <1>8, <1>9, NextCut
<1> QED
  BY <1>1, <1>2, <1>4, <1>10, CountsStay DEF Stratified

\* The shapes of the other builder instead (fragmentation.py:81-83).
LEMMA UniformFallbackCut ==
  ASSUME Stratified, UniformFallback
  PROVE  Stratified'
<1>1. /\ CpuOnly /\ Len(typical) = NShapes /\ stratum' = NShapes /\ shapes' = typical
      /\ weights' = [k \in 1 .. NShapes |-> <<1, NShapes>>]
      /\ UNCHANGED <<workload, typical, left>>
  BY DEF UniformFallback
<1>2. Given /\ Fallback
  BY <1>1 DEF Stratified
<1>3. Fallback'
  BY <1>1, <1>2 DEF Fallback
<1> QED
  BY <1>1, <1>2, <1>3, CountsStay DEF Stratified, NShapes

\* The counts are right throughout.
LEMMA AlwaysStratified == Spec => []Stratified
<1>1. Stratified /\ [Next]_vars => Stratified'
  <2> SUFFICES ASSUME Stratified, [Next]_vars PROVE Stratified'
    OBVIOUS
  <2>1. CASE UNCHANGED <<workload, weighted>>
    <3>1. UNCHANGED <<pods, gpu_pods, stratum, left, shapes, weights>>
      BY <2>1 DEF workload, weighted
    <3>2. Fallback => Fallback'
      BY <3>1 DEF Fallback
    <3>3. ASSUME Cut PROVE Cut'
      <4>1. PICK m, built, weighed, rest, next :
              m = Filled /\ built = shapes /\ weighed = weights /\ rest = left /\ next = stratum
        OBVIOUS
      <4>2. /\ m = IF next <= N THEN next ELSE N
            /\ built \in Seq(PodResource) /\ Len(built) = m
            /\ weighed = [k \in 1 .. m |-> <<StratumSize(k), N>>]
            /\ Split(Sizes, N, rest, Taken(next))
            /\ \A k \in 1 .. m : Placed(Sizes, N, Taken(k - 1), Taken(k), SizeOf(built[k]))
        BY <3>3, <4>1 DEF Cut, Filled
      <4>3. stratum' = next /\ shapes' = built /\ weights' = weighed /\ left' = rest
        BY <3>1, <4>1
      <4> QED
        BY <2>1, <4>2, <4>3, NextCut
    <3> QED
      BY <2>1, <3>1, <3>2, <3>3, CountsStay DEF Stratified
  <2>2. CpuQuantile \/ GpuQuantile \/ UNCHANGED vars => UNCHANGED <<workload, weighted>>
    BY DEF CpuQuantile, GpuQuantile, vars
  <2> QED
    BY <2>1, <2>2, TakeStratumCut, SkipStratumCut, UniformFallbackCut DEF Next
<1> QED
  BY <1>1, StratifiedInit, PTL DEF Spec

\* The weights up to a shape are what the strata up to it have taken.
LEMMA WeightsAreTaken ==
  ASSUME N \in Nat, NEW m \in 0 .. NShapes, DOMAIN weights = 1 .. m,
         \A k \in 1 .. m : weights[k][1] = StratumSize(k)
  PROVE  \A k \in 0 .. m : Weight(1 .. k) = Taken(k)
<1>1. \A k \in 1 .. m : Numerators[k] = StratumSize(k)
  BY DEF Numerators
<1>2. \A K : Weight(K) = Total(Numerators, K)
  BY DEF Weight, Total
<1>3. \A k \in 1 .. m : /\ k \in 1 .. NShapes /\ StratumSize(k) \in Nat
                        /\ Taken(k) = Taken(k - 1) + StratumSize(k)
  <2>1. \A k \in 1 .. m : k \in 1 .. NShapes
    BY DEF NShapes
  <2> QED
    BY <2>1, TakenIs
<1>4. Total(Numerators, 1 .. 0) = Taken(0)
  <2>1. 1 .. 0 = {}
    OBVIOUS
  <2> QED
    BY <2>1, TotalOfNone, TakenIs
<1>5. ASSUME NEW k \in 1 .. m, Total(Numerators, 1 .. k - 1) = Taken(k - 1)
      PROVE  Total(Numerators, 1 .. k) = Taken(k)
  <2>1. k - 1 \in Nat /\ k \notin 1 .. k - 1 /\ (1 .. k - 1) \cup {k} = 1 .. k
    BY DEF NShapes
  <2>2. IsFiniteSet(1 .. k - 1)
    BY <2>1, UpTo, Zenon
  <2>3. \A j \in (1 .. k - 1) \cup {k} : Numerators[j] \in Int
    BY <1>1, <1>3, <2>1 DEF NShapes
  <2>4. Total(Numerators, (1 .. k - 1) \cup {k}) = Numerators[k] + Total(Numerators, 1 .. k - 1)
    BY <2>1, <2>2, <2>3, TotalAdd
  <2>5. Taken(k - 1) \in Nat
    <3>1. k - 1 \in 0 .. NShapes
      BY DEF NShapes
    <3> QED
      BY <3>1, TakenIs
  <2>6. Numerators[k] = StratumSize(k) /\ StratumSize(k) \in Nat /\ Taken(k) = Taken(k - 1) + StratumSize(k)
    BY <1>1, <1>3
  <2>7. Total(Numerators, 1 .. k) = StratumSize(k) + Taken(k - 1)
    BY <1>5, <2>1, <2>4, <2>6
  <2> QED
    BY <2>5, <2>6, <2>7
<1> DEFINE Right(k) == k <= m => Total(Numerators, 1 .. k) = Taken(k)
<1>6. \A k \in 1 .. NShapes : Right(k - 1) => Right(k)
  <2> SUFFICES ASSUME NEW k \in 1 .. NShapes, Right(k - 1), k <= m PROVE Total(Numerators, 1 .. k) = Taken(k)
    OBVIOUS
  <2>1. k \in 1 .. m /\ k - 1 <= m
    BY DEF NShapes
  <2> QED
    BY <1>5, <2>1
<1> HIDE DEF Right
<1>7. Right(0)
  BY <1>4 DEF Right
<1>8. Right(0) /\ Right(1) /\ Right(2) /\ Right(3) /\ Right(4) /\ Right(5)
  <2>1. \A k \in {1, 2, 3, 4, 5} : Right(k - 1) => Right(k)
    <3>1. \A k \in {1, 2, 3, 4, 5} : k \in 1 .. NShapes
      BY DEF NShapes
    <3> QED
      BY <1>6, <3>1
  <2>2. 1 - 1 = 0 /\ 2 - 1 = 1 /\ 3 - 1 = 2 /\ 4 - 1 = 3 /\ 5 - 1 = 4
    OBVIOUS
  <2>3. Right(1)
    BY <1>7, <2>1, <2>2
  <2>4. Right(2)
    BY <2>1, <2>2, <2>3
  <2>5. Right(3)
    BY <2>1, <2>2, <2>4
  <2>6. Right(4)
    BY <2>1, <2>2, <2>5
  <2>7. Right(5)
    BY <2>1, <2>2, <2>6
  <2> QED
    BY <1>7, <2>3, <2>4, <2>5, <2>6, <2>7
<1>9. ASSUME NEW k \in 0 .. m PROVE Weight(1 .. k) = Taken(k)
  <2>1. k \in {0, 1, 2, 3, 4, 5} /\ k <= m
    BY DEF NShapes
  <2>2. Right(k)
    BY <1>8, <2>1
  <2> QED
    BY <1>2, <2>1, <2>2 DEF Right
<1> QED
  BY <1>9

\* The weights are shares of the workload that sum to 1, the strata use it up
\* (fragmentation.py:79), and a shape stands where the weights put it, whichever
\* order pods of one magnitude are sorted in and whichever medoid is taken
\* (fragmentation.py:96-111).
THEOREM ShapesRanked == Spec => []ShapesAreRanked
<1>1. Stratified => ShapesAreRanked
  <2> SUFFICES ASSUME Stratified PROVE ShapesAreRanked
    OBVIOUS
  <2>1. CASE CpuOnly
    <3>1. Fallback
      BY <2>1 DEF Stratified
    <3>2. ASSUME Built PROVE Len(shapes) = Len(weights) /\ Weight(DOMAIN weights) = NShapes
      <4>1. Len(shapes) = 5 /\ weights = [k \in 1 .. 5 |-> <<1, 5>>]
        BY <3>1, <3>2 DEF Fallback, Built, NShapes
      <4>2. DOMAIN weights = 1 .. 5 /\ Len(weights) = 5
        BY <4>1
      <4>3. \A k \in 1 .. 5 : Numerators[k] = 1
        BY <4>1, <4>2 DEF Numerators
      <4>4. IsFiniteSet(1 .. 5) /\ Cardinality(1 .. 5) = 5
        BY UpTo, Zenon
      <4>5. Total(Numerators, 1 .. 5) = 1 * 5
        BY <4>3, <4>4, TotalOfConstant
      <4>6. Weight(1 .. 5) = Total(Numerators, 1 .. 5)
        BY DEF Weight, Total
      <4> QED
        BY <4>1, <4>2, <4>5, <4>6 DEF NShapes
    <3> QED
      BY <2>1, <3>1, <3>2 DEF ShapesAreRanked, Fallback, Whole
  <2>2. CASE ~CpuOnly
    <3>1. Given /\ stratum \in 0 .. NShapes /\ Cut
      BY <2>2 DEF Stratified
    <3>2. N \in Nat \ {0} /\ DOMAIN gpu_pods = 1 .. N /\ \A i \in 1 .. N : Sizes[i] = Magnitude(i)
      BY <2>2, <3>1, SizesType
    <3>3. Filled \in 0 .. NShapes /\ (Built => Taken(Filled) = N)
      <4>1. Filled \in 0 .. NShapes
        BY <3>1, <3>2 DEF Filled, NShapes
      <4>2. N \in Nat /\ Taken(NShapes) = N /\ (N \in 0 .. NShapes => Taken(N) = N)
        BY <3>2, TakenIs
      <4> QED
        BY <4>1, <4>2 DEF Filled, Built
    <3> DEFINE m == Filled
    <3>4. /\ Len(shapes) = m /\ DOMAIN shapes = 1 .. m
          /\ weights = [k \in 1 .. m |-> <<StratumSize(k), N>>]
          /\ Split(Sizes, N, left, Taken(stratum))
          /\ \A k \in 1 .. m : Placed(Sizes, N, Taken(k - 1), Taken(k), SizeOf(shapes[k]))
      BY <3>1, <3>3 DEF Cut
    <3> HIDE DEF m
    <3>5. m \in 0 .. NShapes /\ m \in Nat
      BY <3>3 DEF m, NShapes
    <3>6. DOMAIN weights = 1 .. m /\ Len(weights) = m /\ \A k \in 1 .. m : weights[k][1] = StratumSize(k)
      BY <3>4, <3>5
    <3>7. \A k \in 0 .. m : Weight(1 .. k) = Taken(k)
      BY <3>2, <3>5, <3>6, WeightsAreTaken
    <3>8. Built => Weight(DOMAIN weights) = N
      BY <3>3, <3>5, <3>6, <3>7 DEF m
    <3>9. Built => left = {}
      <4>1. IsFiniteSet(1 .. N) /\ left \in SUBSET (1 .. N) /\ Cardinality(left) = N - Taken(stratum)
        BY <3>2, <3>4, UpTo, Zenon DEF Split
      <4>2. IsFiniteSet(left)
        BY <4>1, FS_Subset
      <4>3. Built => Cardinality(left) = 0
        BY <3>2, <4>1, TakenIs DEF Built
      <4> QED
        BY <4>2, <4>3, FS_EmptySet
    <3>10. ASSUME NEW k \in DOMAIN shapes
           PROVE  /\ Cardinality({i \in DOMAIN gpu_pods : Magnitude(i) <= SizeOf(shapes[k])}) > Weight(1 .. k - 1)
                  /\ Cardinality({i \in DOMAIN gpu_pods : Magnitude(i) < SizeOf(shapes[k])}) < Weight(1 .. k)
      <4>1. k \in 1 .. m /\ k \in 0 .. m /\ k - 1 \in 0 .. m
        BY <3>4, <3>5
      <4>2. Weight(1 .. k) = Taken(k) /\ Weight(1 .. k - 1) = Taken(k - 1)
        BY <3>7, <4>1
      <4>3. /\ {i \in DOMAIN gpu_pods : Magnitude(i) <= SizeOf(shapes[k])}
                 = {i \in 1 .. N : Sizes[i] <= SizeOf(shapes[k])}
            /\ {i \in DOMAIN gpu_pods : Magnitude(i) < SizeOf(shapes[k])}
                 = {i \in 1 .. N : Sizes[i] < SizeOf(shapes[k])}
        BY <3>2
      <4>4. Placed(Sizes, N, Taken(k - 1), Taken(k), SizeOf(shapes[k]))
        BY <3>4, <4>1
      <4> QED
        BY <4>2, <4>3, <4>4 DEF Placed
    <3> QED
      BY <2>2, <3>4, <3>6, <3>8, <3>9, <3>10 DEF ShapesAreRanked, SizeOf, Whole
  <2> QED
    BY <2>1, <2>2
<1> QED
  BY <1>1, AlwaysStratified, PTL
=============================================================================
