------------------------------- MODULE Lemmas -------------------------------
(***************************************************************************)
(* What the proofs about several components share.                         *)
(*                                                                         *)
(* Sums over finite sets, as MapThenSumSet of FiniteSetsExt computes them: *)
(* what a sum is when a term is added to it or taken away; and products,   *)
(* as FoldFunction computes them.  Both apply a recursive function, about  *)
(* which nothing is known before a function with the recursion's property  *)
(* is shown to exist; that is done here by minimal counterexamples, sets   *)
(* ordered by inclusion.  Then quotients, the greatest of some numbers,    *)
(* what the sorting of Ordering does, and one node with the pods on it.    *)
(***************************************************************************)
EXTENDS Resources, Ordering, FiniteSetTheorems, WellFoundedInduction, TLAPS

\* The sum of the terms f[x], x in S.
Total(f, S) == MapThenSumSet(LAMBDA x : f[x], S)

\* The term the recursion takes next, the recursion, and a function it defines.
First(s) == CHOOSE x \in s : TRUE
Unroll(f, g, s) == IF s = {} THEN 0 ELSE f[First(s)] + g[s \ {First(s)}]
Iterates(f, g, S) == g = [s \in SUBSET S |-> Unroll(f, g, s)]

\* The same of a sum or a product.
Neutral(op) == IF op = "sum" THEN 0 ELSE 1
Apply(op, a, b) == IF op = "sum" THEN a + b ELSE a * b
Recur(op, f, g, s) == IF s = {} THEN Neutral(op) ELSE Apply(op, f[First(s)], g[s \ {First(s)}])
Recurs(op, f, g, S) == g = [s \in SUBSET S |-> Recur(op, f, g, s)]

-----------------------------------------------------------------------------
\* 1 .. n has n elements.
LEMMA UpTo ==
  ASSUME NEW n \in Nat
  PROVE  IsFiniteSet(1 .. n) /\ Cardinality(1 .. n) = n
<1> DEFINE S == 1 .. n
<1>1. /\ IsFiniteSet(S)
      /\ Cardinality(S) = IF 1 > n THEN 0 ELSE (n - 1) + 1
  <2>1. 1 \in Int /\ n \in Int
    OBVIOUS
  <2> QED
    BY <2>1, FS_Interval, Zenon
<1> HIDE DEF S
<1>2. IsFiniteSet(S) /\ Cardinality(S) = n
  BY <1>1
<1> QED
  BY <1>2 DEF S

\* The term taken next is one of those left.
LEMMA FirstIn ==
  ASSUME NEW s, s # {}
  PROVE  First(s) \in s
BY DEF First

\* A sum applies the function the recursion defines.
LEMMA TotalDef ==
  ASSUME NEW f, NEW S
  PROVE  Total(f, S) = (CHOOSE g : Iterates(f, g, S))[S]
BY DEF Total, MapThenSumSet, MapThenFoldSet, Iterates, Unroll, First

\* A set of subsets of a finite set has a minimal member.
LEMMA MinimalSubset ==
  ASSUME NEW S, IsFiniteSet(S), NEW T, T \subseteq SUBSET S, T # {}
  PROVE  \E U \in T : \A V \in T : V \subseteq U => V = U
<1>1. IsWellFoundedOn(StrictSubsetOrdering(S), SUBSET S)
  BY FS_StrictSubsetOrderingWellFounded, FS_FiniteSubsetsOfFinite
<1>2. PICK U \in T : \A V \in T : ~(<<V, U>> \in StrictSubsetOrdering(S))
  BY <1>1, WFMin
<1>3. ASSUME NEW V \in T, V \subseteq U, V # U PROVE FALSE
  <2>1. <<V, U>> \in StrictSubsetOrdering(S)
    BY <1>3 DEF StrictSubsetOrdering
  <2> QED
    BY <1>2, <2>1
<1> QED
  BY <1>3

\* Induction over a finite set, one element more at a time; Good is the set of
\* the subsets of which the claim holds.
LEMMA OneMore ==
  ASSUME NEW S, IsFiniteSet(S), NEW Good, {} \in Good,
         \A U \in SUBSET S : \A x \in S \ U : U \in Good => U \cup {x} \in Good
  PROVE  S \in Good
<1> DEFINE Bad == {U \in SUBSET S : U \notin Good}
<1>1. SUFFICES ASSUME Bad # {} PROVE FALSE
  OBVIOUS
<1>2. Bad \subseteq SUBSET S
  OBVIOUS
<1> HIDE DEF Bad
<1>3. PICK U \in Bad : \A V \in Bad : V \subseteq U => V = U
  BY <1>1, <1>2, MinimalSubset
<1>4. U # {} /\ U \in SUBSET S /\ U \notin Good
  BY <1>3 DEF Bad
<1>5. PICK x \in U : TRUE
  BY <1>4
<1>6. U \ {x} \in SUBSET S /\ x \in S \ (U \ {x}) /\ (U \ {x}) \cup {x} = U
  BY <1>4, <1>5
<1>7. U \ {x} \notin Bad
  BY <1>3, <1>5
<1>8. U \ {x} \in Good
  BY <1>6, <1>7 DEF Bad
<1> QED
  BY <1>4, <1>6, <1>8

\* A function takes finitely many values on a finite set.
LEMMA ImageFinite ==
  ASSUME NEW S, IsFiniteSet(S), NEW f
  PROVE  IsFiniteSet({f[x] : x \in S})
<1> DEFINE Image(U) == {f[x] : x \in U}
           Good == {U \in SUBSET S : IsFiniteSet(Image(U))}
<1>1. {} \in Good
  <2>1. Image({}) = {}
    OBVIOUS
  <2> QED
    BY <2>1, FS_EmptySet
<1>2. ASSUME NEW U \in SUBSET S, NEW x \in S \ U, U \in Good PROVE U \cup {x} \in Good
  <2>1. Image(U \cup {x}) = Image(U) \cup {f[x]}
    OBVIOUS
  <2>2. IsFiniteSet(Image(U))
    BY <1>2
  <2>3. IsFiniteSet(Image(U) \cup {f[x]})
    <3> HIDE DEF Image
    <3> QED
      BY <2>2, FS_AddElement
  <2> QED
    BY <2>1, <2>3
<1> HIDE DEF Good
<1>3. S \in Good
  BY <1>1, <1>2, OneMore
<1> QED
  BY <1>3 DEF Good

\* At most one function has the property.
LEMMA RecursOnce ==
  ASSUME NEW op, NEW f, NEW S, IsFiniteSet(S), NEW g, NEW h, Recurs(op, f, g, S), Recurs(op, f, h, S)
  PROVE  g = h
<1> DEFINE Bad == {s \in SUBSET S : g[s] # h[s]}
<1>1. SUFFICES ASSUME Bad # {} PROVE FALSE
  BY DEF Recurs
<1>2. Bad \subseteq SUBSET S
  OBVIOUS
<1> HIDE DEF Bad
<1>3. PICK U \in Bad : \A V \in Bad : V \subseteq U => V = U
  BY <1>1, <1>2, MinimalSubset
<1> USE DEF Bad
<1>4. g[U] = Recur(op, f, g, U) /\ h[U] = Recur(op, f, h, U)
  BY <1>3 DEF Recurs
<1>5. U # {}
  BY <1>3, <1>4 DEF Recur
<1>6. U \ {First(U)} \in SUBSET S /\ U \ {First(U)} # U
  BY <1>3, <1>5, FirstIn
<1>7. g[U \ {First(U)}] = h[U \ {First(U)}]
  BY <1>3, <1>6
<1> QED
  BY <1>3, <1>4, <1>5, <1>7 DEF Recur

\* The function of a set has the property on every subset too.
LEMMA RecursBelow ==
  ASSUME NEW op, NEW f, NEW S, NEW g, Recurs(op, f, g, S), NEW U \in SUBSET S
  PROVE  Recurs(op, f, [s \in SUBSET U |-> g[s]], U)
<1> DEFINE h == [s \in SUBSET U |-> g[s]]
<1>1. ASSUME NEW s \in SUBSET U PROVE h[s] = Recur(op, f, h, s)
  <2>1. s \in SUBSET S /\ s \ {First(s)} \in SUBSET U
    OBVIOUS
  <2>2. g[s] = Recur(op, f, g, s)
    BY <2>1 DEF Recurs
  <2> QED
    BY <2>1, <2>2 DEF Recur
<1> QED
  BY <1>1 DEF Recurs

Function(op, f, S) == CHOOSE g : Recurs(op, f, g, S)

\* There is such a function.
LEMMA RecursExists ==
  ASSUME NEW op, NEW f, NEW S, IsFiniteSet(S)
  PROVE  Recurs(op, f, Function(op, f, S), S)
<1> DEFINE Bad == {s \in SUBSET S : ~Recurs(op, f, Function(op, f, s), s)}
<1>1. SUFFICES ASSUME Bad # {} PROVE FALSE
  OBVIOUS
<1>2. Bad \subseteq SUBSET S
  OBVIOUS
<1> HIDE DEF Bad
<1>3. PICK U \in Bad : \A V \in Bad : V \subseteq U => V = U
  BY <1>1, <1>2, MinimalSubset
<1> USE DEF Bad
<1> DEFINE V == U \ {First(U)}
           g == [s \in SUBSET U |->
                   IF s # U THEN Function(op, f, s)[s]
                   ELSE IF U = {} THEN Neutral(op) ELSE Apply(op, f[First(U)], Function(op, f, V)[V])]
<1>4. \A s \in SUBSET U : s # U => Recurs(op, f, Function(op, f, s), s)
  BY <1>3
<1>5. U # {} => V \in SUBSET U /\ V # U
  BY FirstIn
<1>6. ASSUME NEW s \in SUBSET U PROVE g[s] = Recur(op, f, g, s)
  <2>1. CASE s = U
    BY <1>5, <2>1 DEF Recur
  <2>2. CASE s # U
    <3> DEFINE t == s \ {First(s)}
    <3>1. g[s] = Function(op, f, s)[s] /\ Function(op, f, s)[s] = Recur(op, f, Function(op, f, s), s)
      BY <1>4, <2>2 DEF Recurs
    <3>2. CASE s = {}
      BY <3>1, <3>2 DEF Recur
    <3>3. CASE s # {}
      <4>1. t \in SUBSET s /\ t # s /\ t \in SUBSET U /\ t # U
        BY <3>3, FirstIn
      <4>2. Recurs(op, f, [r \in SUBSET t |-> Function(op, f, s)[r]], t)
        <5>1. Recurs(op, f, Function(op, f, s), s) /\ t \in SUBSET s
          BY <1>4, <2>2, <4>1
        <5> HIDE DEF t
        <5> QED
          BY <5>1, RecursBelow
      <4>3. IsFiniteSet(t)
        BY <4>1, FS_Subset
      <4>4. [r \in SUBSET t |-> Function(op, f, s)[r]] = Function(op, f, t)
        BY <1>4, <4>1, <4>2, <4>3, RecursOnce
      <4>5. Function(op, f, s)[t] = Function(op, f, t)[t]
        BY <4>4
      <4> QED
        BY <3>1, <3>3, <4>1, <4>5 DEF Recur
    <3> QED
      BY <3>2, <3>3
  <2> QED
    BY <2>1, <2>2
<1>7. Recurs(op, f, g, U)
  BY <1>6 DEF Recurs
<1> HIDE DEF g
<1>8. Recurs(op, f, Function(op, f, U), U)
  BY <1>7 DEF Function
<1> QED
  BY <1>3, <1>8

\* What the function of a set is on the set: the first and the function of the rest.
LEMMA FunctionUnroll ==
  ASSUME NEW op, NEW f, NEW S, IsFiniteSet(S)
  PROVE  Function(op, f, S)[S] =
           IF S = {} THEN Neutral(op)
           ELSE Apply(op, f[First(S)], Function(op, f, S \ {First(S)})[S \ {First(S)}])
<1> DEFINE t == S \ {First(S)}
<1>1. Recurs(op, f, Function(op, f, S), S)
  BY RecursExists
<1>2. Function(op, f, S)[S] = Recur(op, f, Function(op, f, S), S)
  BY <1>1 DEF Recurs
<1>3. ASSUME S # {} PROVE Function(op, f, S)[t] = Function(op, f, t)[t]
  <2>1. t \in SUBSET S /\ IsFiniteSet(t)
    BY FS_Subset
  <2>2. Recurs(op, f, [s \in SUBSET t |-> Function(op, f, S)[s]], t)
    BY <1>1, <2>1, RecursBelow
  <2>3. [s \in SUBSET t |-> Function(op, f, S)[s]] = Function(op, f, t)
    BY <2>1, <2>2, RecursExists, RecursOnce
  <2> QED
    BY <2>3
<1> QED
  BY <1>2, <1>3 DEF Recur

-----------------------------------------------------------------------------
\* So a sum is its first term and the sum of the rest.
LEMMA TotalUnroll ==
  ASSUME NEW f, NEW S, IsFiniteSet(S)
  PROVE  /\ S = {} => Total(f, S) = 0
         /\ S # {} => Total(f, S) = f[First(S)] + Total(f, S \ {First(S)})
<1>1. ASSUME NEW T PROVE Total(f, T) = Function("sum", f, T)[T]
  <2>1. \A g : Iterates(f, g, T) <=> Recurs("sum", f, g, T)
    BY DEF Iterates, Unroll, Recurs, Recur, Neutral, Apply
  <2>2. (CHOOSE g : Iterates(f, g, T)) = (CHOOSE g : Recurs("sum", f, g, T))
    BY <2>1
  <2> QED
    BY <2>2, TotalDef DEF Function
<1>2. Function("sum", f, S)[S] =
        IF S = {} THEN Neutral("sum")
        ELSE Apply("sum", f[First(S)], Function("sum", f, S \ {First(S)})[S \ {First(S)}])
  BY FunctionUnroll
<1> QED
  BY <1>1, <1>2 DEF Neutral, Apply

\* Sums of integers are integers, and sums of natural numbers natural.
LEMMA TotalType ==
  ASSUME NEW f, NEW S, IsFiniteSet(S),
         NEW N, N = Int \/ N = Nat, \A x \in S : f[x] \in N
  PROVE  Total(f, S) \in N
<1> DEFINE Bad == {s \in SUBSET S : Total(f, s) \notin N}
<1>1. SUFFICES ASSUME Bad # {} PROVE FALSE
  OBVIOUS
<1>2. Bad \subseteq SUBSET S
  OBVIOUS
<1> HIDE DEF Bad
<1>3. PICK U \in Bad : \A V \in Bad : V \subseteq U => V = U
  BY <1>1, <1>2, MinimalSubset
<1> USE DEF Bad
<1> DEFINE V == U \ {First(U)}
<1>4. IsFiniteSet(U)
  BY <1>3, FS_Subset
<1>5. /\ U = {} => Total(f, U) = 0
      /\ U # {} => Total(f, U) = f[First(U)] + Total(f, V)
  BY <1>4, TotalUnroll
<1>6. 0 \in N /\ \A a, b \in N : a + b \in N
  OBVIOUS
<1>7. U # {} => First(U) \in S /\ V \in SUBSET S /\ V # U
  BY <1>3, FirstIn
<1>8. U # {} => Total(f, V) \in N
  BY <1>3, <1>7
<1> QED
  BY <1>3, <1>5, <1>6, <1>7, <1>8

\* Terms can be added in any order.
LEMMA TotalAdd ==
  ASSUME NEW f, NEW S, IsFiniteSet(S), NEW x, x \notin S, \A y \in S \cup {x} : f[y] \in Int
  PROVE  Total(f, S \cup {x}) = f[x] + Total(f, S)
<1> DEFINE Bad == {s \in SUBSET S : \E y \in S \cup {x} :
                                      y \notin s /\ Total(f, s \cup {y}) # f[y] + Total(f, s)}
<1>1. SUFFICES ASSUME Bad # {} PROVE FALSE
  OBVIOUS
<1>2. Bad \subseteq SUBSET S
  OBVIOUS
<1> HIDE DEF Bad
<1>3. PICK U \in Bad : \A V \in Bad : V \subseteq U => V = U
  BY <1>1, <1>2, MinimalSubset
<1> USE DEF Bad
<1>4. PICK y \in S \cup {x} : y \notin U /\ Total(f, U \cup {y}) # f[y] + Total(f, U)
  BY <1>3
<1> DEFINE A == U \cup {y}
           c == First(A)
           V == U \ {c}
<1>5. U \in SUBSET S /\ c \in A
  BY <1>3, FirstIn
<1>6. IsFiniteSet(U) /\ IsFiniteSet(A) /\ IsFiniteSet(V)
  BY <1>5, FS_Subset, FS_AddElement
<1>7. Total(f, A) = f[c] + Total(f, A \ {c})
  BY <1>6, TotalUnroll
<1>8. c # y
  <2>1. ASSUME c = y PROVE A \ {c} = U
    BY <1>4, <2>1
  <2> HIDE DEF A, c
  <2> QED
    BY <1>4, <1>7, <2>1 DEF A
<1>9. c \in U /\ A \ {c} = V \cup {y} /\ U = V \cup {c} /\ y \notin V /\ c \notin V
  BY <1>4, <1>5, <1>8
<1>10. V \notin Bad
  BY <1>3, <1>9
<1> HIDE DEF A, c, V
<1>11. V \in SUBSET S /\ c \in S
  BY <1>5, <1>9
<1>12. Total(f, V \cup {y}) = f[y] + Total(f, V) /\ Total(f, V \cup {c}) = f[c] + Total(f, V)
  BY <1>9, <1>10, <1>11
<1>13. Total(f, V) \in Int
  BY <1>6, <1>11, TotalType
<1>14. f[y] \in Int /\ f[c] \in Int
  BY <1>11
<1>15. Total(f, A) = f[y] + Total(f, U)
  <2>1. Total(f, A \ {c}) = f[y] + Total(f, V)
    BY <1>9, <1>12
  <2>2. Total(f, U) = f[c] + Total(f, V)
    BY <1>9, <1>12, Zenon
  <2> QED
    BY <1>7, <1>13, <1>14, <2>1, <2>2
<1> QED
  BY <1>4, <1>15 DEF A

\* A sum without one of its terms.
LEMMA TotalRemove ==
  ASSUME NEW f, NEW S, IsFiniteSet(S), NEW x \in S, \A y \in S : f[y] \in Int
  PROVE  Total(f, S \ {x}) = Total(f, S) - f[x]
<1> DEFINE R == S \ {x}
<1>1. IsFiniteSet(R) /\ R \cup {x} = S /\ x \notin R
  BY FS_RemoveElement
<1> HIDE DEF R
<1>2. Total(f, S) = f[x] + Total(f, R)
  <2>1. Total(f, R \cup {x}) = f[x] + Total(f, R)
    BY <1>1, TotalAdd
  <2> QED
    BY <1>1, <2>1
<1>3. Total(f, R) \in Int /\ f[x] \in Int
  BY <1>1, TotalType
<1> QED
  BY <1>2, <1>3 DEF R

\* A sum of one term.
LEMMA TotalOfOne ==
  ASSUME NEW f, NEW x, f[x] \in Int
  PROVE  Total(f, {x}) = f[x]
<1> DEFINE s == {x}
<1>1. IsFiniteSet(s) /\ s # {} /\ First(s) = x /\ s \ {x} = {}
  BY FS_Singleton, FirstIn
<1>2. Total(f, {}) = 0
  BY TotalUnroll, FS_EmptySet
<1> HIDE DEF s
<1>3. Total(f, s) = f[x] + Total(f, {})
  BY <1>1, TotalUnroll
<1> QED
  BY <1>2, <1>3 DEF s

\* Only the terms in the set matter.
LEMMA TotalOfSame ==
  ASSUME NEW f, NEW g, NEW S, IsFiniteSet(S), \A x \in S : f[x] = g[x]
  PROVE  Total(f, S) = Total(g, S)
<1> DEFINE Bad == {s \in SUBSET S : Total(f, s) # Total(g, s)}
<1>1. SUFFICES ASSUME Bad # {} PROVE FALSE
  OBVIOUS
<1>2. Bad \subseteq SUBSET S
  OBVIOUS
<1> HIDE DEF Bad
<1>3. PICK U \in Bad : \A V \in Bad : V \subseteq U => V = U
  BY <1>1, <1>2, MinimalSubset
<1> USE DEF Bad
<1> DEFINE V == U \ {First(U)}
<1>4. IsFiniteSet(U)
  BY <1>3, FS_Subset
<1>5. /\ U = {} => Total(f, U) = 0 /\ Total(g, U) = 0
      /\ U # {} => /\ Total(f, U) = f[First(U)] + Total(f, V)
                   /\ Total(g, U) = g[First(U)] + Total(g, V)
  BY <1>4, TotalUnroll
<1>6. U # {} => First(U) \in S /\ V \in SUBSET S /\ V # U
  BY <1>3, FirstIn
<1>7. U # {} => Total(f, V) = Total(g, V)
  BY <1>3, <1>6
<1> QED
  BY <1>3, <1>5, <1>6, <1>7

\* A sum of which one term changed.
LEMMA TotalChange ==
  ASSUME NEW f, NEW g, NEW S, IsFiniteSet(S), NEW x \in S,
         \A y \in S : f[y] \in Int /\ g[y] \in Int, \A y \in S \ {x} : f[y] = g[y]
  PROVE  Total(g, S) = Total(f, S) - f[x] + g[x]
<1>1. Total(f, S \ {x}) = Total(f, S) - f[x] /\ Total(g, S \ {x}) = Total(g, S) - g[x]
  BY TotalRemove
<1>2. Total(f, S \ {x}) = Total(g, S \ {x})
  BY FS_RemoveElement, TotalOfSame
<1>3. Total(f, S) \in Int /\ Total(g, S) \in Int
  BY TotalType
<1> QED
  BY <1>1, <1>2, <1>3

\* A sum of which several terms became less, each by c.
LEMMA TotalLess ==
  ASSUME NEW S, IsFiniteSet(S), NEW P \in SUBSET S, NEW c \in Int,
         NEW f, \A x \in S : f[x] \in Int,
         NEW g, \A x \in P : g[x] = f[x] - c, \A x \in S \ P : g[x] = f[x]
  PROVE  Total(g, S) = Total(f, S) - c * Cardinality(P)
<1> DEFINE Bad == {s \in SUBSET S : Total(g, s) # Total(f, s) - c * Cardinality(P \cap s)}
<1>1. SUFFICES ASSUME Bad # {} PROVE FALSE
  <2>1. P \cap S = P
    OBVIOUS
  <2> QED
    BY <2>1
<1>2. Bad \subseteq SUBSET S
  OBVIOUS
<1> HIDE DEF Bad
<1>3. PICK U \in Bad : \A V \in Bad : V \subseteq U => V = U
  BY <1>1, <1>2, MinimalSubset
<1> DEFINE x == First(U)
           V == U \ {x}
<1>4. U \in SUBSET S /\ IsFiniteSet(U)
  BY <1>2, <1>3, FS_Subset
<1>5. U # {}
  <2>1. ASSUME U = {} PROVE FALSE
    <3>1. Total(f, U) = 0 /\ Total(g, U) = 0 /\ Cardinality(P \cap U) = 0
      BY <1>4, <2>1, TotalUnroll, FS_EmptySet
    <3> QED
      BY <1>3, <3>1 DEF Bad
  <2> QED
    BY <2>1
<1>6. x \in U /\ x \in S /\ V \in SUBSET S /\ V # U /\ V \subseteq U
  BY <1>4, <1>5, FirstIn
<1>7. Total(g, V) = Total(f, V) - c * Cardinality(P \cap V)
  BY <1>3, <1>6 DEF Bad
<1>8. Total(f, U) = f[x] + Total(f, V) /\ Total(g, U) = g[x] + Total(g, V)
  BY <1>4, <1>5, TotalUnroll
<1>9. IsFiniteSet(P \cap V) /\ IsFiniteSet(P \cap U)
  BY <1>4, <1>6, FS_Subset, FS_Intersection
<1>10. Cardinality(P \cap U) = IF x \in P THEN Cardinality(P \cap V) + 1 ELSE Cardinality(P \cap V)
  <2>1. CASE x \in P
    <3>1. P \cap U = (P \cap V) \cup {x} /\ x \notin P \cap V
      BY <1>6, <2>1
    <3> HIDE DEF x, V
    <3> QED
      BY <1>9, <2>1, <3>1, FS_AddElement
  <2>2. CASE x \notin P
    <3>1. P \cap U = P \cap V
      BY <2>2
    <3> QED
      BY <2>2, <3>1
  <2> QED
    BY <2>1, <2>2
<1>11. Cardinality(P \cap V) \in Int /\ f[x] \in Int /\ Total(f, V) \in Int
  <2>1. IsFiniteSet(V) /\ \A y \in V : f[y] \in Int
    BY <1>4, <1>6, FS_Subset
  <2> QED
    BY <1>6, <1>9, <2>1, TotalType, FS_CardinalityType
<1>12. g[x] = IF x \in P THEN f[x] - c ELSE f[x]
  BY <1>6
<1> HIDE DEF x, V
<1>13. Total(g, U) = Total(f, U) - c * Cardinality(P \cap U)
  <2>1. c * (Cardinality(P \cap V) + 1) = c * Cardinality(P \cap V) + c /\ c * Cardinality(P \cap V) \in Int
    BY <1>11, Z3
  <2> QED
    BY <1>7, <1>8, <1>10, <1>11, <1>12, <2>1
<1> QED
  BY <1>3, <1>13 DEF Bad

\* The empty sum.
LEMMA TotalOfNone ==
  ASSUME NEW f
  PROVE  Total(f, {}) = 0
BY TotalUnroll, FS_EmptySet

\* The sum of the sums is the sum.
LEMMA TotalPlus ==
  ASSUME NEW S, IsFiniteSet(S), NEW f, NEW g, NEW h,
         \A x \in S : f[x] \in Int /\ g[x] \in Int /\ h[x] = f[x] + g[x]
  PROVE  Total(h, S) = Total(f, S) + Total(g, S)
<1> DEFINE Good == {U \in SUBSET S : Total(h, U) = Total(f, U) + Total(g, U)}
<1>1. {} \in Good
  BY TotalOfNone
<1>2. ASSUME NEW U \in SUBSET S, NEW x \in S \ U, U \in Good PROVE U \cup {x} \in Good
  <2>1. IsFiniteSet(U) /\ \A y \in U \cup {x} : f[y] \in Int /\ g[y] \in Int /\ h[y] \in Int
    BY FS_Subset
  <2>2. /\ Total(f, U \cup {x}) = f[x] + Total(f, U) /\ Total(g, U \cup {x}) = g[x] + Total(g, U)
        /\ Total(h, U \cup {x}) = h[x] + Total(h, U)
    BY <2>1, TotalAdd
  <2>3. Total(f, U) \in Int /\ Total(g, U) \in Int
    BY <2>1, TotalType
  <2>4. Total(h, U) = Total(f, U) + Total(g, U) /\ h[x] = f[x] + g[x] /\ f[x] \in Int /\ g[x] \in Int
    BY <1>2
  <2>5. Total(h, U \cup {x}) = Total(f, U \cup {x}) + Total(g, U \cup {x})
    BY <2>2, <2>3, <2>4
  <2> QED
    BY <2>5
<1> HIDE DEF Good
<1>3. S \in Good
  BY <1>1, <1>2, OneMore
<1> QED
  BY <1>3 DEF Good

\* Every term times c.
LEMMA TotalTimes ==
  ASSUME NEW S, IsFiniteSet(S), NEW c \in Int, NEW f, NEW g,
         \A x \in S : f[x] \in Int /\ g[x] = c * f[x]
  PROVE  Total(g, S) = c * Total(f, S)
<1> DEFINE Good == {U \in SUBSET S : Total(g, U) = c * Total(f, U)}
<1>1. {} \in Good
  BY TotalOfNone
<1>2. ASSUME NEW U \in SUBSET S, NEW x \in S \ U, U \in Good PROVE U \cup {x} \in Good
  <2>1. IsFiniteSet(U) /\ \A y \in U \cup {x} : f[y] \in Int /\ g[y] \in Int
    BY FS_Subset
  <2>2. /\ Total(f, U \cup {x}) = f[x] + Total(f, U) /\ Total(g, U \cup {x}) = g[x] + Total(g, U)
    BY <2>1, TotalAdd
  <2>3. Total(f, U) \in Int /\ f[x] \in Int
    BY <2>1, TotalType
  <2>4. Total(g, U) = c * Total(f, U) /\ g[x] = c * f[x]
    BY <1>2
  <2>5. c * (f[x] + Total(f, U)) = c * f[x] + c * Total(f, U)
    BY <2>3, Z3
  <2>6. Total(g, U \cup {x}) = c * Total(f, U \cup {x})
    BY <2>2, <2>4, <2>5
  <2> QED
    BY <2>6
<1> HIDE DEF Good
<1>3. S \in Good
  BY <1>1, <1>2, OneMore
<1> QED
  BY <1>3 DEF Good

\* As many times c as there are terms.
LEMMA TotalOfConstant ==
  ASSUME NEW S, IsFiniteSet(S), NEW c \in Int, NEW f, \A x \in S : f[x] = c
  PROVE  Total(f, S) = c * Cardinality(S)
<1> DEFINE Good == {U \in SUBSET S : Total(f, U) = c * Cardinality(U)}
<1>1. {} \in Good
  BY TotalOfNone, FS_EmptySet
<1>2. ASSUME NEW U \in SUBSET S, NEW x \in S \ U, U \in Good PROVE U \cup {x} \in Good
  <2>1. IsFiniteSet(U) /\ \A y \in U \cup {x} : f[y] \in Int
    BY FS_Subset
  <2>2. Total(f, U \cup {x}) = c + Total(f, U)
    BY <2>1, TotalAdd
  <2>3. Cardinality(U) \in Int /\ Cardinality(U \cup {x}) = Cardinality(U) + 1
    BY <2>1, FS_AddElement, FS_CardinalityType
  <2>4. Total(f, U) = c * Cardinality(U)
    BY <1>2
  <2>5. c * (Cardinality(U) + 1) = c * Cardinality(U) + c
    BY <2>3, Z3
  <2>6. Total(f, U \cup {x}) = c * Cardinality(U \cup {x})
    BY <2>2, <2>3, <2>4, <2>5, Z3
  <2> QED
    BY <2>6
<1> HIDE DEF Good
<1>3. S \in Good
  BY <1>1, <1>2, OneMore
<1> QED
  BY <1>3 DEF Good

\* No term is larger, so the sum is not; and it is the same only if every term is.
LEMMA TotalAtMost ==
  ASSUME NEW S, IsFiniteSet(S), NEW f, NEW g,
         \A x \in S : f[x] \in Int /\ g[x] \in Int /\ f[x] <= g[x]
  PROVE  /\ Total(f, S) <= Total(g, S)
         /\ Total(f, S) = Total(g, S) <=> \A x \in S : f[x] = g[x]
<1> DEFINE Good == {U \in SUBSET S : /\ Total(f, U) <= Total(g, U)
                                     /\ Total(f, U) = Total(g, U) => \A x \in U : f[x] = g[x]}
<1>1. {} \in Good
  BY TotalOfNone
<1>2. ASSUME NEW U \in SUBSET S, NEW x \in S \ U, U \in Good PROVE U \cup {x} \in Good
  <2>1. IsFiniteSet(U) /\ \A y \in U \cup {x} : f[y] \in Int /\ g[y] \in Int
    BY FS_Subset
  <2>2. /\ Total(f, U \cup {x}) = f[x] + Total(f, U) /\ Total(g, U \cup {x}) = g[x] + Total(g, U)
    BY <2>1, TotalAdd
  <2>3. Total(f, U) \in Int /\ Total(g, U) \in Int
    BY <2>1, TotalType
  <2>4. /\ f[x] \in Int /\ g[x] \in Int /\ f[x] <= g[x] /\ Total(f, U) <= Total(g, U)
        /\ Total(f, U) = Total(g, U) => \A y \in U : f[y] = g[y]
    BY <1>2
  <2>5. /\ Total(f, U \cup {x}) <= Total(g, U \cup {x})
        /\ Total(f, U \cup {x}) = Total(g, U \cup {x}) => Total(f, U) = Total(g, U) /\ f[x] = g[x]
    BY <2>2, <2>3, <2>4
  <2> QED
    BY <2>4, <2>5
<1> HIDE DEF Good
<1>3. S \in Good
  BY <1>1, <1>2, OneMore
<1>4. (\A x \in S : f[x] = g[x]) => Total(f, S) = Total(g, S)
  BY TotalOfSame
<1> QED
  BY <1>3, <1>4 DEF Good

\* No term is above c, so the sum is not above as many times c.
LEMMA TotalBounded ==
  ASSUME NEW S, IsFiniteSet(S), NEW c \in Nat, NEW f, \A x \in S : f[x] \in 0 .. c
  PROVE  Total(f, S) \in Nat /\ Total(f, S) <= c * Cardinality(S)
<1> DEFINE g == [x \in S |-> c]
<1>1. \A x \in S : f[x] \in Nat /\ f[x] \in Int /\ g[x] \in Int /\ f[x] <= g[x] /\ g[x] = c
  OBVIOUS
<1> HIDE DEF g
<1>2. Total(f, S) \in Nat
  BY <1>1, TotalType
<1>3. Total(f, S) <= Total(g, S)
  BY <1>1, TotalAtMost
<1>4. Total(g, S) = c * Cardinality(S)
  <2>1. c \in Int
    OBVIOUS
  <2> QED
    BY <1>1, <2>1, TotalOfConstant
<1> QED
  BY <1>2, <1>3, <1>4

\* The sum over two sets with nothing in common.
LEMMA TotalUnion ==
  ASSUME NEW S, IsFiniteSet(S), NEW T, IsFiniteSet(T), S \cap T = {},
         NEW f, \A x \in S \cup T : f[x] \in Int
  PROVE  Total(f, S \cup T) = Total(f, S) + Total(f, T)
<1> DEFINE Good == {U \in SUBSET T : Total(f, S \cup U) = Total(f, S) + Total(f, U)}
<1>0. Total(f, S) \in Int
  BY TotalType
<1>1. {} \in Good
  <2>1. S \cup {} = S
    OBVIOUS
  <2> QED
    BY <1>0, <2>1, TotalOfNone
<1>2. ASSUME NEW U \in SUBSET T, NEW x \in T \ U, U \in Good PROVE U \cup {x} \in Good
  <2> DEFINE A == S \cup U
  <2>1. IsFiniteSet(U) /\ \A y \in U \cup {x} : f[y] \in Int
    BY FS_Subset
  <2>2. IsFiniteSet(A) /\ x \notin A /\ \A y \in A \cup {x} : f[y] \in Int
    BY <2>1, FS_Union
  <2>3. S \cup (U \cup {x}) = A \cup {x} /\ Total(f, A) = Total(f, S) + Total(f, U)
    BY <1>2
  <2> HIDE DEF A
  <2>4. Total(f, U \cup {x}) = f[x] + Total(f, U) /\ Total(f, A \cup {x}) = f[x] + Total(f, A)
    BY <2>1, <2>2, TotalAdd
  <2>5. Total(f, U) \in Int /\ f[x] \in Int
    BY <2>1, TotalType
  <2>6. Total(f, S \cup (U \cup {x})) = f[x] + (Total(f, S) + Total(f, U))
    BY <2>3, <2>4, Zenon
  <2> DEFINE B == U \cup {x}
  <2> HIDE DEF B
  <2>7. Total(f, S \cup B) = Total(f, S) + Total(f, B)
    <3>1. /\ Total(f, S \cup B) = f[x] + (Total(f, S) + Total(f, U))
          /\ Total(f, B) = f[x] + Total(f, U)
      BY <2>4, <2>6 DEF B
    <3> QED
      BY <1>0, <2>5, <3>1
  <2> QED
    BY <2>7 DEF B
<1> HIDE DEF Good
<1>3. T \in Good
  BY <1>1, <1>2, OneMore
<1> QED
  BY <1>3 DEF Good

\* What counts in a part only, is summed there.
LEMMA TotalOfPart ==
  ASSUME NEW S, IsFiniteSet(S), NEW U \in SUBSET S, NEW f, NEW g,
         \A x \in U : f[x] \in Int /\ g[x] = f[x], \A x \in S \ U : f[x] = 0
  PROVE  Total(f, S) = Total(g, U)
<1>1. IsFiniteSet(U) /\ IsFiniteSet(S \ U) /\ U \cap (S \ U) = {} /\ S = U \cup (S \ U)
  BY FS_Subset
<1>2. Total(f, S) = Total(f, U) + Total(f, S \ U)
  <2>1. \A x \in U \cup (S \ U) : f[x] \in Int
    OBVIOUS
  <2> QED
    BY <1>1, <2>1, TotalUnion
<1>3. Total(f, S \ U) = 0
  <2>1. Total(f, S \ U) = 0 * Cardinality(S \ U)
    BY <1>1, TotalOfConstant
  <2> QED
    BY <1>1, <2>1, FS_CardinalityType
<1>4. Total(f, U) = Total(g, U) /\ Total(f, U) \in Int
  BY <1>1, TotalOfSame, TotalType
<1> QED
  BY <1>2, <1>3, <1>4

\* The class of every x in S is in C, and part[c] is what is of class c.
SplitBy(class, S, C, part) ==
  /\ \A x \in S : class[x] \in C
  /\ \A c \in C : part[c] \in SUBSET S /\ \A x \in S : x \in part[c] <=> class[x] = c

\* What is summed class by class is the sum: every x counts in its class.
LEMMA TotalByClass ==
  ASSUME NEW S, IsFiniteSet(S), NEW f, \A x \in S : f[x] \in Int,
         NEW C, IsFiniteSet(C), NEW class, NEW part, SplitBy(class, S, C, part),
         NEW by, \A c \in C : by[c] = Total(f, part[c])
  PROVE  Total(by, C) = Total(f, S)
<1> USE DEF SplitBy
<1> DEFINE Of(U, c) == {x \in U : class[x] = c}
           By(U) == [c \in C |-> Total(f, Of(U, c))]
           Good == {U \in SUBSET S : Total(By(U), C) = Total(f, U)}
<1>1. {} \in Good
  <2>1. \A c \in C : By({})[c] = 0
    <3>1. \A c \in C : Of({}, c) = {}
      OBVIOUS
    <3> QED
      BY <3>1, TotalOfNone
  <2>2. Total(By({}), C) = 0 * Cardinality(C) /\ Cardinality(C) \in Nat
    <3> HIDE DEF By
    <3> QED
      BY <2>1, TotalOfConstant, FS_CardinalityType
  <2>3. Total(By({}), C) = 0
    BY <2>2, Z3
  <2> QED
    BY <2>3, TotalOfNone
<1>2. ASSUME NEW U \in SUBSET S, NEW x \in S \ U, U \in Good PROVE U \cup {x} \in Good
  <2> DEFINE V == U \cup {x}
             d == class[x]
  <2>1. IsFiniteSet(U) /\ IsFiniteSet(V) /\ V \in SUBSET S
    BY FS_Subset
  <2>2. ASSUME NEW W \in SUBSET S, NEW c \in C
        PROVE  By(W)[c] = Total(f, Of(W, c)) /\ By(W)[c] \in Int
    <3>1. IsFiniteSet(Of(W, c)) /\ \A y \in Of(W, c) : f[y] \in Int
      BY FS_Subset
    <3> QED
      BY <3>1, TotalType
  <2>3. ASSUME NEW c \in C, c # d PROVE By(V)[c] = By(U)[c]
    <3>1. Of(V, c) = Of(U, c)
      BY <2>3
    <3> QED
      BY <3>1
  <2>4. By(V)[d] = f[x] + By(U)[d]
    <3>1. Of(V, d) = Of(U, d) \cup {x} /\ x \notin Of(U, d) /\ d \in C
      OBVIOUS
    <3>2. IsFiniteSet(Of(U, d)) /\ \A y \in Of(U, d) \cup {x} : f[y] \in Int
      BY FS_Subset
    <3> HIDE DEF Of
    <3>3. Total(f, Of(U, d) \cup {x}) = f[x] + Total(f, Of(U, d))
      BY <3>1, <3>2, TotalAdd
    <3> QED
      BY <3>1, <3>3
  <2>5. Total(f, V) = f[x] + Total(f, U)
    BY <2>1, TotalAdd
  <2>6. Total(By(U), C) = Total(f, U) /\ d \in C
    BY <1>2
  <2>7. f[x] \in Int /\ Total(f, U) \in Int
    BY <2>1, TotalType
  <2>8. \A c \in C : By(U)[c] \in Int /\ By(V)[c] \in Int
    BY <2>1, <2>2
  <2> HIDE DEF By, V, d
  <2>9. Total(By(V), C) = Total(By(U), C) - By(U)[d] + By(V)[d]
    BY <2>3, <2>6, <2>8, TotalChange
  <2>10. Total(By(V), C) = Total(f, V)
    BY <2>4, <2>5, <2>6, <2>7, <2>8, <2>9
  <2> QED
    BY <2>1, <2>10 DEF V
<1> HIDE DEF Good
<1>3. S \in Good
  BY <1>1, <1>2, OneMore
<1>4. \A c \in C : by[c] = By(S)[c]
  <2>1. \A c \in C : part[c] = Of(S, c)
    OBVIOUS
  <2> QED
    BY <2>1
<1> HIDE DEF By
<1>5. Total(by, C) = Total(By(S), C)
  BY <1>4, TotalOfSame
<1> QED
  BY <1>3, <1>5 DEF Good

\* What the records P[i] ask for of resource r.
Asks(P, r) == [i \in DOMAIN P |-> P[i][r]]

\* A sum over one field of records is the sum of that field.
LEMMA SumOfAsks ==
  ASSUME NEW P, NEW held \in SUBSET DOMAIN P, NEW r
  PROVE  MapThenSumSet(LAMBDA i : P[i][r], held) = Total(Asks(P, r), held)
<1> DEFINE f == Asks(P, r)
           ByPods(g) == g = [s \in SUBSET held |->
                               IF s = {} THEN 0 ELSE P[First(s)][r] + g[s \ {First(s)}]]
<1>1. \A s \in SUBSET held : s # {} => f[First(s)] = P[First(s)][r]
  BY FirstIn DEF Asks
<1>2. MapThenSumSet(LAMBDA i : P[i][r], held) = (CHOOSE g : ByPods(g))[held]
  BY DEF MapThenSumSet, MapThenFoldSet, First
<1> HIDE DEF f
<1>3. \A g : ByPods(g) <=> Iterates(f, g, held)
  BY <1>1 DEF Iterates, Unroll
<1> HIDE DEF ByPods
<1>4. (CHOOSE g : ByPods(g)) = (CHOOSE g : Iterates(f, g, held))
  BY <1>3
<1> QED
  BY <1>2, <1>4, TotalDef DEF f

-----------------------------------------------------------------------------
(* Products.                                                               *)

\* The product of the factors f[x], x in S.
Product(f, S) == Function("product", f, S)[S]

\* A product of positive numbers is positive, and each of them divides it.
LEMMA ProductDivides ==
  ASSUME NEW S, IsFiniteSet(S), NEW f, \A x \in S : f[x] \in Nat \ {0}
  PROVE  /\ Product(f, S) \in Nat \ {0}
         /\ \A x \in S : \E q \in Nat \ {0} : Product(f, S) = q * f[x]
<1> DEFINE Divides(U) == \A x \in U : \E q \in Nat \ {0} : Product(f, U) = q * f[x]
           Bad == {U \in SUBSET S : ~(Product(f, U) \in Nat \ {0} /\ Divides(U))}
<1>1. SUFFICES ASSUME Bad # {} PROVE FALSE
  OBVIOUS
<1>2. Bad \subseteq SUBSET S
  OBVIOUS
<1> HIDE DEF Bad
<1>3. PICK U \in Bad : \A V \in Bad : V \subseteq U => V = U
  BY <1>1, <1>2, MinimalSubset
<1> DEFINE y == First(U)
           V == U \ {y}
<1>4. U \in SUBSET S /\ IsFiniteSet(U)
  BY <1>2, <1>3, FS_Subset
<1>5. Product(f, U) = IF U = {} THEN 1 ELSE f[y] * Product(f, V)
  BY <1>4, FunctionUnroll DEF Product, Neutral, Apply
<1>6. U # {}
  <2>1. ASSUME U = {} PROVE FALSE
    BY <1>3, <1>4, <1>5, <2>1 DEF Bad
  <2> QED
    BY <2>1
<1>7. y \in U /\ V # U /\ V \subseteq U /\ V \in SUBSET S
  BY <1>4, <1>6, FirstIn
<1>8. Product(f, V) \in Nat \ {0} /\ Divides(V)
  BY <1>3, <1>7 DEF Bad
<1>9. f[y] \in Nat \ {0}
  BY <1>4, <1>7
<1> HIDE DEF y, V
<1>10. \A a, b \in Nat \ {0} : a * b \in Nat \ {0} /\ a * b = b * a
  BY Z3
<1>11. Product(f, U) \in Nat \ {0}
  BY <1>5, <1>6, <1>8, <1>9, <1>10
<1>12. ASSUME NEW x \in U PROVE \E q \in Nat \ {0} : Product(f, U) = q * f[x]
  <2>0. f[x] \in Nat \ {0}
    BY <1>4
  <2>1. CASE x = y
    BY <1>5, <1>6, <1>8, <1>9, <1>10, <2>1
  <2>2. CASE x # y
    <3>1. PICK q \in Nat \ {0} : Product(f, V) = q * f[x]
      BY <1>8, <2>2 DEF V
    <3>2. f[y] * (q * f[x]) = (f[y] * q) * f[x]
      BY <1>9, <2>0, Z3
    <3>3. f[y] * q \in Nat \ {0}
      BY <1>9, <1>10
    <3> QED
      BY <1>5, <1>6, <3>1, <3>2, <3>3
  <2> QED
    BY <2>1, <2>2
<1> QED
  BY <1>3, <1>4, <1>11, <1>12 DEF Bad

-----------------------------------------------------------------------------
(* Sums of squares.                                                        *)

\* The square of a sum is at most as many times the sum of the squares as there
\* are terms; it is as much only if all terms are the same.
LEMMA CauchySchwarz ==
  ASSUME NEW S, IsFiniteSet(S), NEW r, \A x \in S : r[x] \in Int,
         NEW sq, \A x \in S : sq[x] = r[x] * r[x]
  PROVE  /\ Total(r, S) * Total(r, S) <= Cardinality(S) * Total(sq, S)
         /\ Total(r, S) * Total(r, S) = Cardinality(S) * Total(sq, S) <=>
              \A x, y \in S : r[x] = r[y]
<1> DEFINE s == Total(r, S)
           q == Total(sq, S)
           n == Cardinality(S)
           zero == [x \in S |-> 0]
           a == [x \in S |-> (n * n) * sq[x]]
           b == [x \in S |-> (0 - 2 * n * s) * r[x]]
           c == [x \in S |-> s * s]
           ab == [x \in S |-> a[x] + b[x]]
           off == [x \in S |-> ab[x] + c[x]]
<1>1. \A x \in S : r[x] \in Int /\ sq[x] \in Int /\ sq[x] = r[x] * r[x]
  <2>1. \A i \in Int : i * i \in Int
    BY Z3
  <2> QED
    BY <2>1
<1>2. s \in Int /\ q \in Int /\ n \in Nat
  BY <1>1, TotalType, FS_CardinalityType
<1>3. /\ n * n \in Int /\ 0 - 2 * n * s \in Int /\ s * s \in Int
  <2> HIDE DEF n, s
  <2> QED
    BY <1>2, Z3
<1>4. \A i, j \in Int : i * j \in Int
  BY Z3
<1> HIDE DEF s, q, n
<1>5. \A x \in S : a[x] \in Int /\ b[x] \in Int /\ c[x] \in Int /\ ab[x] \in Int /\ off[x] \in Int
  BY <1>1, <1>3, <1>4
<1>6. Total(a, S) = (n * n) * q /\ Total(b, S) = (0 - 2 * n * s) * s
  <2>1. \A x \in S : sq[x] \in Int /\ a[x] = (n * n) * sq[x] /\ r[x] \in Int /\ b[x] = (0 - 2 * n * s) * r[x]
    BY <1>1
  <2>2. PICK nn \in Int : nn = n * n
    BY <1>3
  <2>3. PICK m \in Int : m = 0 - 2 * n * s
    BY <1>3
  <2> HIDE DEF a, b
  <2>4. Total(a, S) = nn * Total(sq, S)
    BY <2>1, <2>2, TotalTimes
  <2>5. Total(b, S) = m * Total(r, S)
    BY <2>1, <2>3, TotalTimes
  <2> QED
    BY <2>2, <2>3, <2>4, <2>5 DEF q, s
<1>7. Total(c, S) = (s * s) * n
  <2>1. \A x \in S : c[x] = s * s
    OBVIOUS
  <2>2. PICK ss \in Int : ss = s * s
    BY <1>3
  <2> HIDE DEF c
  <2>3. Total(c, S) = ss * Cardinality(S)
    BY <2>1, <2>2, TotalOfConstant
  <2> QED
    BY <2>2, <2>3 DEF n
<1>8. Total(off, S) = Total(a, S) + Total(b, S) + Total(c, S)
  <2>1. \A x \in S : ab[x] = a[x] + b[x] /\ off[x] = ab[x] + c[x]
    OBVIOUS
  <2> HIDE DEF a, b, c, ab, off
  <2>2. Total(ab, S) = Total(a, S) + Total(b, S)
    BY <1>5, <2>1, TotalPlus
  <2>3. Total(off, S) = Total(ab, S) + Total(c, S)
    BY <1>5, <2>1, TotalPlus
  <2> QED
    BY <2>2, <2>3
<1>9. \A x \in S : off[x] = (n * r[x] - s) * (n * r[x] - s)
  <2>1. TAKE x \in S
  <2>2. off[x] = (n * n) * (r[x] * r[x]) + (0 - 2 * n * s) * r[x] + s * s
    BY <1>1
  <2>3. r[x] \in Int
    BY <1>1
  <2>4. \A i, m, t \in Int : (m * m) * (i * i) + (0 - 2 * m * t) * i + t * t = (m * i - t) * (m * i - t)
    BY Z3
  <2> QED
    BY <1>2, <2>2, <2>3, <2>4
<1>10. Total(off, S) = n * (n * q - s * s)
  <2>1. Total(off, S) = (n * n) * q + (0 - 2 * n * s) * s + (s * s) * n
    BY <1>6, <1>7, <1>8
  <2>2. \A m, t, u \in Int : (m * m) * u + (0 - 2 * m * t) * t + (t * t) * m = m * (m * u - t * t)
    BY Z3
  <2> QED
    BY <1>2, <2>1, <2>2
<1>11. \A x \in S : 0 <= off[x] /\ (off[x] = 0 <=> n * r[x] = s)
  <2>1. TAKE x \in S
  <2>2. PICK d \in Int : d = n * r[x] - s
    BY <1>1, <1>2, <1>4
  <2>3. 0 <= d * d /\ (d * d = 0 <=> d = 0)
    <3>1. \A i \in Int : i > 0 => i * i > 0
      BY Z3
    <3>2. (0 - d) * (0 - d) = d * d
      BY Z3
    <3>3. d > 0 \/ 0 - d > 0 \/ d = 0
      OBVIOUS
    <3>4. 0 - d \in Int /\ (d = 0 => d * d = 0)
      OBVIOUS
    <3> QED
      BY <1>4, <3>1, <3>2, <3>3, <3>4
  <2>4. n * r[x] \in Int
    BY <1>1, <1>2, <1>4
  <2>5. d = 0 <=> n * r[x] = s
    BY <1>2, <2>2, <2>4
  <2> QED
    BY <1>9, <2>2, <2>3, <2>5
<1>12. /\ 0 <= n * (n * q - s * s)
       /\ 0 = n * (n * q - s * s) <=> \A x \in S : n * r[x] = s
  <2>1. \A x \in S : zero[x] = 0 /\ zero[x] \in Int /\ off[x] \in Int /\ zero[x] <= off[x]
    BY <1>5, <1>11
  <2> HIDE DEF zero, off
  <2>2. Total(zero, S) = 0 * Cardinality(S)
    BY <2>1, TotalOfConstant
  <2>3. Total(zero, S) = 0
    BY <1>2, <2>2, Z3 DEF n
  <2>4. /\ Total(zero, S) <= Total(off, S)
        /\ Total(zero, S) = Total(off, S) <=> \A x \in S : zero[x] = off[x]
    BY <2>1, TotalAtMost
  <2> QED
    BY <1>10, <1>11, <2>1, <2>3, <2>4
<1> HIDE DEF a, b, c, ab, off, zero
<1>13. CASE n = 0
  <2>1. S = {}
    BY <1>13, FS_EmptySet DEF n
  <2>2. s = 0 /\ q = 0
    BY <2>1, TotalOfNone DEF s, q
  <2> QED
    BY <1>13, <2>1, <2>2 DEF s, q, n
<1>14. CASE n # 0
  <2>1. \A m \in Nat \ {0} : \A d \in Int : (0 <= m * d <=> 0 <= d) /\ (0 = m * d <=> 0 = d)
    BY Z3
  <2>2. n * q - s * s \in Int /\ n * q \in Int /\ n \in Nat \ {0}
    BY <1>2, <1>3, <1>4, <1>14
  <2>3. /\ s * s <= n * q
        /\ s * s = n * q <=> \A x \in S : n * r[x] = s
    BY <1>3, <1>12, <2>1, <2>2
  <2>4. ASSUME \A x \in S : n * r[x] = s PROVE \A x, y \in S : r[x] = r[y]
    <3>1. TAKE x, y \in S
    <3>2. n * r[x] = n * r[y] /\ r[x] \in Int /\ r[y] \in Int
      BY <1>1, <2>4
    <3>3. \A m \in Nat \ {0} : \A i, j \in Int : m * i = m * j => i = j
      BY Z3
    <3> QED
      BY <2>2, <3>2, <3>3
  <2>5. ASSUME \A x, y \in S : r[x] = r[y], NEW x \in S PROVE n * r[x] = s
    <3>1. \A y \in S : r[y] = r[x]
      BY <2>5
    <3>2. Total(r, S) = r[x] * Cardinality(S)
      BY <1>1, <3>1, TotalOfConstant
    <3>3. \A i, j \in Int : i * j = j * i
      BY Z3
    <3> QED
      BY <1>1, <1>2, <3>2, <3>3 DEF s, n
  <2> QED
    BY <2>3, <2>4, <2>5 DEF s, q, n
<1> QED
  BY <1>13, <1>14

-----------------------------------------------------------------------------
(* Quotients.                                                              *)

\* Quotient and remainder.
LEMMA Division ==
  ASSUME NEW b \in Nat, NEW c \in Nat \ {0}
  PROVE  b \div c \in Nat /\ b % c \in 0 .. c - 1 /\ b = c * (b \div c) + (b % c)
<1>1. b \div c \in Int /\ b % c \in 0 .. c - 1 /\ b = c * (b \div c) + (b % c)
  BY Z3
<1>2. b \div c >= 0
  BY <1>1, Z3T(30)
<1> QED
  BY <1>1, <1>2

\* They are the only such numbers.
LEMMA DivisionIs ==
  ASSUME NEW c \in Nat \ {0}, NEW q \in Nat, NEW r \in 0 .. c - 1
  PROVE  (c * q + r) \div c = q /\ (c * q + r) % c = r
<1>1. \A i, j \in Nat : i * j \in Nat
  BY Z3
<1>2. c * q + r \in Nat
  BY <1>1
<1>3. PICK p \in Nat, m \in 0 .. c - 1 :
        p = (c * q + r) \div c /\ m = (c * q + r) % c /\ c * q + r = c * p + m
  BY <1>2, Division
<1>4. \A i, j \in Nat : i >= j + 1 => c * i >= c * j + c
  BY Z3T(30)
<1>5. PICK x \in Nat, y \in Nat : x = c * q /\ y = c * p
  BY <1>1
<1>6. p = q
  <2>1. ASSUME p >= q + 1 PROVE FALSE
    <3>1. y >= x + c
      BY <1>4, <1>5, <2>1
    <3> QED
      BY <1>3, <1>5, <3>1
  <2>2. ASSUME q >= p + 1 PROVE FALSE
    <3>1. x >= y + c
      BY <1>4, <1>5, <2>2
    <3> QED
      BY <1>3, <1>5, <3>1
  <2> QED
    BY <2>1, <2>2
<1>7. m = r
  BY <1>3, <1>5, <1>6
<1> QED
  BY <1>3, <1>6, <1>7

-----------------------------------------------------------------------------
(* The greatest of finitely many numbers.                                  *)

\* Max returns a member, and none of the others is greater; the code never
\* takes max() of an empty list (event_runtime.py:113-115).
LEMMA MaxIsGreatest ==
  ASSUME NEW S, IsFiniteSet(S), S # {}, \A x \in S : x \in Int
  PROVE  Max(S) \in S /\ \A x \in S : x <= Max(S)
<1> DEFINE Tops(U) == {m \in U : \A x \in U : m >= x}
           Good == {U \in SUBSET S : U = {} \/ Tops(U) # {}}
<1>1. ASSUME NEW U \in SUBSET S, NEW x \in S \ U, U \in Good
      PROVE  U \cup {x} \in Good
  <2>1. CASE U = {}
    <3>1. x \in Tops(U \cup {x})
      BY <2>1
    <3> QED
      BY <3>1
  <2>2. CASE U # {}
    <3>1. PICK m \in U : \A y \in U : m >= y
      BY <1>1, <2>2
    <3>2. CASE m >= x
      <4>1. m \in Tops(U \cup {x})
        BY <3>1, <3>2
      <4> QED
        BY <4>1
    <3>3. CASE ~(m >= x)
      <4>1. x \in Tops(U \cup {x})
        BY <3>1, <3>3
      <4> QED
        BY <4>1
    <3> QED
      BY <3>2, <3>3
  <2> QED
    BY <2>1, <2>2
<1>2. {} \in Good
  OBVIOUS
<1> HIDE DEF Good
<1>3. S \in Good
  BY <1>1, <1>2, OneMore
<1>4. \E m \in S : \A x \in S : m >= x
  BY <1>3 DEF Good
<1>5. Max(S) \in S /\ \A x \in S : Max(S) >= x
  BY <1>4 DEF Max
<1> QED
  BY <1>5

-----------------------------------------------------------------------------
(* Sorting, as InOrder and SortedBy of Ordering do it.                     *)

\* An order of the elements of S in which no two are alike.
Strict(S, order) ==
  /\ \A i \in S : <<i, i>> \notin order
  /\ \A i, j \in S : i # j => <<i, j>> \in order \/ <<j, i>> \in order
  /\ \A i, j, k \in S : <<i, j>> \in order /\ <<j, k>> \in order => <<i, k>> \in order

\* One element for each of n places, and the earlier places have the earlier
\* ones.
Enumerates(place, n, S, order) ==
  /\ place \in [1 .. n -> S]
  /\ \A j \in S : \E k \in 1 .. n : place[k] = j
  /\ \A k, l \in 1 .. n : k < l => <<place[k], place[l]>> \in order

\* InOrder enumerates a set in the order given.
LEMMA InOrderIs ==
  ASSUME NEW S, IsFiniteSet(S), NEW order, Strict(S, order)
  PROVE  Cardinality(S) \in Nat /\ Enumerates(InOrder(S, order), Cardinality(S), S, order)
<1> DEFINE before == [j \in S |-> {i \in S : <<i, j>> \in order}]
           rank == [j \in S |-> Cardinality(before[j]) + 1]
           n == Cardinality(S)
           place == InOrder(S, order)
<1>1. n \in Nat
  BY FS_CardinalityType
<1>2. \A j \in S : before[j] \in SUBSET S
  OBVIOUS
<1>3. \A j \in S : IsFiniteSet(before[j]) /\ Cardinality(before[j]) \in Nat
  <2> HIDE DEF before
  <2> QED
    BY <1>2, FS_Subset, FS_CardinalityType
<1>4. ASSUME NEW i \in S, NEW j \in S, <<i, j>> \in order PROVE rank[i] < rank[j]
  <2>1. before[i] \in SUBSET before[j]
    BY <1>4 DEF Strict
  <2>2. i \in before[j] /\ i \notin before[i]
    BY <1>4 DEF Strict
  <2>3. rank[i] = Cardinality(before[i]) + 1 /\ rank[j] = Cardinality(before[j]) + 1
    OBVIOUS
  <2> HIDE DEF before, rank
  <2>4. /\ Cardinality(before[i]) <= Cardinality(before[j])
        /\ Cardinality(before[i]) # Cardinality(before[j])
    BY <1>3, <2>1, <2>2, FS_Subset
  <2> QED
    BY <1>3, <2>3, <2>4
<1>5. ASSUME NEW j \in S PROVE rank[j] \in 1 .. n
  <2>1. before[j] \in SUBSET S /\ before[j] # S
    BY DEF Strict
  <2>2. rank[j] = Cardinality(before[j]) + 1
    OBVIOUS
  <2> HIDE DEF before, rank
  <2>3. Cardinality(before[j]) <= n /\ Cardinality(before[j]) # n
    BY <2>1, FS_Subset
  <2> QED
    BY <1>1, <1>3, <2>2, <2>3
<1>6. ASSUME NEW i \in S, NEW j \in S, rank[i] = rank[j] PROVE i = j
  <2> HIDE DEF rank, n
  <2>1. rank[i] \in Int
    BY <1>5, <1>1
  <2>2. <<i, j>> \notin order /\ <<j, i>> \notin order
    BY <1>4, <1>6, <2>1
  <2> QED
    BY <2>2 DEF Strict
<1>7. rank \in Injection(S, 1 .. n)
  BY <1>5, <1>6 DEF Injection, IsInjective
<1>8. IsFiniteSet(1 .. n) /\ Cardinality(1 .. n) = n
  BY <1>1, UpTo, Zenon
<1>9. rank \in Surjection(S, 1 .. n)
  <2> HIDE DEF rank
  <2> QED
    BY <1>7, <1>8, FS_Injection
<1>10. \A k \in 1 .. n : \E j \in S : rank[j] = k
  BY <1>9 DEF Surjection
<1>11. ASSUME NEW k \in 1 .. n PROVE place[k] \in S /\ rank[place[k]] = k
  <2> DEFINE At(j) == Cardinality({i \in S : <<i, j>> \in order}) = k - 1
  <2>1. place[k] = CHOOSE j \in S : At(j)
    BY <1>1 DEF InOrder
  <2>2. \A j \in S : At(j) <=> rank[j] = k
    <3>1. \A j \in S : rank[j] = Cardinality({i \in S : <<i, j>> \in order}) + 1
      OBVIOUS
    <3>2. \A j \in S : Cardinality({i \in S : <<i, j>> \in order}) \in Nat
      BY <1>3
    <3> QED
      BY <1>1, <3>1, <3>2
  <2> HIDE DEF At, rank, place
  <2>3. \E j \in S : At(j)
    BY <1>10, <2>2
  <2> QED
    BY <2>1, <2>2, <2>3
<1>12. place \in [1 .. n -> S]
  <2> DEFINE at(k) == CHOOSE j \in S : Cardinality({i \in S : <<i, j>> \in order}) = k - 1
  <2>1. place = [k \in 1 .. n |-> at(k)]
    BY DEF InOrder
  <2> HIDE DEF place, at
  <2>2. \A k \in 1 .. n : at(k) \in S
    BY <1>11, <2>1
  <2> QED
    BY <2>1, <2>2
<1> HIDE DEF rank, place, n
<1>13. ASSUME NEW j \in S PROVE \E k \in 1 .. n : place[k] = j
  BY <1>5, <1>6, <1>11
<1>14. ASSUME NEW k \in 1 .. n, NEW l \in 1 .. n, k < l PROVE <<place[k], place[l]>> \in order
  <2>1. place[k] # place[l]
    BY <1>1, <1>11, <1>14
  <2>2. <<place[l], place[k]>> \notin order
    BY <1>1, <1>4, <1>11, <1>14
  <2> QED
    BY <1>11, <2>1, <2>2 DEF Strict
<1> QED
  BY <1>1, <1>12, <1>13, <1>14 DEF place, n, Enumerates

\* A number each element has and, among those of one number, their own order
\* tell all elements apart.
LEMMA KeysAreStrict ==
  ASSUME NEW S \in SUBSET Int, NEW key, \A i \in S : key[i] \in Int
  PROVE  Strict(S, ByKey(S, key))
BY DEF Strict, ByKey

\* The elements of a set of numbers, smallest first.
LEMMA AscendingIs ==
  ASSUME NEW S \in SUBSET Int, IsFiniteSet(S)
  PROVE  LET n == Cardinality(S)
         IN  /\ n \in Nat /\ Ascending(S) \in [1 .. n -> S]
             /\ \A j \in S : \E k \in 1 .. n : Ascending(S)[k] = j
             /\ \A k, l \in 1 .. n : k < l => Ascending(S)[k] < Ascending(S)[l]
<1> DEFINE order == {p \in S \X S : p[1] < p[2]}
<1>1. Strict(S, order)
  BY DEF Strict
<1>2. \A i, j : <<i, j>> \in order => i < j
  OBVIOUS
<1>3. Ascending(S) = InOrder(S, order)
  BY DEF Ascending
<1> HIDE DEF order
<1> DEFINE n == Cardinality(S)
           place == InOrder(S, order)
<1>4. n \in Nat /\ Enumerates(place, n, S, order)
  BY <1>1, InOrderIs
<1> HIDE DEF n, place
<1> USE DEF Enumerates
<1>5. \A k, l \in 1 .. n : k < l => place[k] < place[l]
  BY <1>2, <1>4
<1>6. Ascending(S) = place
  BY <1>3 DEF place
<1> QED
  BY <1>4, <1>5, <1>6 DEF n

\* From where in s each element of SortedBy(s, key) comes: a rearrangement of
\* s, sorted, and stable.
Sorts(place, n, key) ==
  /\ place \in [1 .. n -> 1 .. n]
  /\ \A j \in 1 .. n : \E k \in 1 .. n : place[k] = j
  /\ \A k, l \in 1 .. n : k < l =>
       \/ key[place[k]] < key[place[l]]
       \/ key[place[k]] = key[place[l]] /\ place[k] < place[l]

SortsTo(t, s, n, key) ==
  \E place : Sorts(place, n, key) /\ t = [k \in 1 .. n |-> s[place[k]]]

\* SortedBy permutes a list into that order.
LEMMA SortedByIs ==
  ASSUME NEW n \in Nat, NEW s, DOMAIN s = 1 .. n, NEW key, \A i \in 1 .. n : key[i] \in Int
  PROVE  SortsTo(SortedBy(s, key), s, n, key)
<1> DEFINE D == 1 .. n
           order == ByKey(D, key)
           place == InOrder(D, order)
<1>1. IsFiniteSet(D) /\ Cardinality(D) = n
  BY UpTo, Zenon
<1>2. Strict(D, order)
  BY KeysAreStrict
<1>3. SortedBy(s, key) = [k \in D |-> s[place[k]]]
  BY DEF SortedBy
<1>4. \A i, j : <<i, j>> \in order => key[i] < key[j] \/ (key[i] = key[j] /\ i < j)
  BY DEF ByKey
<1> HIDE DEF order, place
<1>5. Enumerates(place, n, D, order)
  <2> HIDE DEF D
  <2> QED
    BY <1>1, <1>2, InOrderIs DEF place
<1>6. Sorts(place, n, key)
  BY <1>4, <1>5 DEF Sorts, Enumerates
<1> QED
  BY <1>3, <1>6 DEF SortsTo

\* No place is left out, and none is filled twice.
LEMMA SortsApart ==
  ASSUME NEW n \in Nat, NEW place, NEW key, Sorts(place, n, key), \A i \in 1 .. n : key[i] \in Int,
         NEW k \in 1 .. n, NEW l \in 1 .. n, place[k] = place[l]
  PROVE  k = l
<1>1. PICK j \in 1 .. n : j = place[k] /\ j = place[l]
  BY DEF Sorts
<1>2. \A a, b \in 1 .. n : a < b => \/ key[place[a]] < key[place[b]]
                                  \/ place[a] < place[b]
  BY DEF Sorts
<1>3. (k < l => key[j] < key[j] \/ j < j) /\ (l < k => key[j] < key[j] \/ j < j)
  BY <1>1, <1>2
<1>4. ~(key[j] < key[j]) /\ ~(j < j)
  BY <1>1
<1> QED
  BY <1>3, <1>4

\* Rearranged terms have the same sum.
LEMMA TotalSorted ==
  ASSUME NEW n \in Nat, NEW place, NEW key, Sorts(place, n, key), \A i \in 1 .. n : key[i] \in Int,
         NEW f, \A i \in 1 .. n : f[i] \in Int,
         NEW g, \A k \in 1 .. n : g[k] = f[place[k]]
  PROVE  Total(g, 1 .. n) = Total(f, 1 .. n)
<1> DEFINE D == 1 .. n
           part == [c \in D |-> {k \in D : place[k] = c}]
<1>1. IsFiniteSet(D)
  BY UpTo, Zenon
<1>2. \A k \in D : place[k] \in D
  BY DEF Sorts
<1>3. SplitBy(place, D, D, part)
  BY <1>2 DEF SplitBy
<1>4. \A k \in D : g[k] \in Int
  BY <1>2
<1>5. \A c \in D : f[c] = Total(g, part[c])
  <2>1. TAKE c \in D
  <2>2. PICK k \in D : place[k] = c
    BY DEF Sorts
  <2>3. part[c] = {k}
    BY <2>2, SortsApart
  <2>4. Total(g, {k}) = g[k]
    BY <1>4, TotalOfOne
  <2> QED
    BY <2>2, <2>3, <2>4
<1> HIDE DEF D, part
<1>6. Total(f, D) = Total(g, D)
  BY <1>1, <1>3, <1>4, <1>5, TotalByClass
<1> QED
  BY <1>6 DEF D

-----------------------------------------------------------------------------
(* Nodes and the pods on them.                                             *)

\* What an empty node has left is a count of each resource (resource.py:63-69).
LEMMA EmptyType ==
  ASSUME NEW node \in NodeResource
  PROVE  Empty(node) \in Remaining
BY DEF Empty, MilliGpuCapacity, MILLI, NodeResource, Remaining

\* add() and remove() keep the counters integers (resource.py:71-92).
LEMMA TakeType ==
  ASSUME NEW left \in Remaining, NEW pod \in PodResource
  PROVE  Take(left, pod) \in Remaining /\ GiveBack(left, pod) \in Remaining
BY DEF Take, GiveBack, PodResource, Remaining

\* A node with room is not overcommitted by the pod.
LEMMA RoomSuffices ==
  ASSUME NEW left \in Remaining, NEW pod \in PodResource, NEW node, FitsIn(pod, node, left)
  PROVE  NotOvercommitted(Take(left, pod))
BY DEF FitsIn, NotOvercommitted, Take, PodResource, Remaining

\* A pod that fits after another was placed fitted before: placing only
\* consumes (event_runtime.py:191-195).
LEMMA PlacingOnlyConsumes ==
  ASSUME NEW pod, NEW node, NEW left \in Remaining, NEW other \in PodResource,
         pod \in PodResource, FitsIn(pod, node, Take(left, other))
  PROVE  FitsIn(pod, node, left)
BY DEF FitsIn, Take, PodResource, Remaining

\* Room for a pod that asks for no less is room for the pod.
LEMMA RoomForLess ==
  ASSUME NEW p \in PodResource, NEW q \in PodResource, NEW node,
         NEW left \in Remaining, AsksNoLess(q, p), FitsIn(q, node, left)
  PROVE  FitsIn(p, node, left)
BY DEF AsksNoLess, FitsIn, TypesAgree, PodResource, Remaining

-----------------------------------------------------------------------------
(* What several pods leave of a node.                                      *)

\* What several pods leave, by the sums of what they ask for.
LEMMA TakeAllDef ==
  ASSUME NEW left, NEW P, NEW held \in SUBSET DOMAIN P
  PROVE  TakeAll(left, P, held) =
           [milli_cpu |-> left.milli_cpu - Total(Asks(P, "milli_cpu"), held),
            milli_gpu |-> left.milli_gpu - Total(Asks(P, "milli_gpu"), held),
            gpu_count |-> left.gpu_count - Total(Asks(P, "gpu_number"), held)]
BY SumOfAsks DEF TakeAll

\* No pods leave all of it.
LEMMA TakeNone ==
  ASSUME NEW left \in Remaining, NEW P
  PROVE  TakeAll(left, P, {}) = left
<1>1. TakeAll(left, P, {}) =
           [milli_cpu |-> left.milli_cpu - Total(Asks(P, "milli_cpu"), {}),
            milli_gpu |-> left.milli_gpu - Total(Asks(P, "milli_gpu"), {}),
            gpu_count |-> left.gpu_count - Total(Asks(P, "gpu_number"), {})]
  BY TakeAllDef
<1>2. \A f : Total(f, {}) = 0
  BY TotalUnroll, FS_EmptySet
<1> QED
  BY <1>1, <1>2 DEF Remaining

\* One pod more, in whatever order they came: what add() leaves.
LEMMA TakeOneMore ==
  ASSUME NEW left \in Remaining, NEW P, \A i \in DOMAIN P : P[i] \in PodResource,
         NEW held \in SUBSET DOMAIN P, IsFiniteSet(held),
         NEW p \in DOMAIN P, p \notin held
  PROVE  TakeAll(left, P, held \cup {p}) = Take(TakeAll(left, P, held), P[p])
<1> DEFINE more == held \cup {p}
<1>1. \A r \in {"milli_cpu", "milli_gpu", "gpu_number"} :
        /\ Total(Asks(P, r), more) = P[p][r] + Total(Asks(P, r), held)
        /\ Total(Asks(P, r), held) \in Int /\ P[p][r] \in Int
  <2>1. TAKE r \in {"milli_cpu", "milli_gpu", "gpu_number"}
  <2>2. \A i \in DOMAIN P : Asks(P, r)[i] \in Int /\ Asks(P, r)[i] = P[i][r]
    BY DEF Asks, PodResource
  <2> QED
    BY <2>2, TotalAdd, TotalType
<1>2. more \in SUBSET DOMAIN P
  OBVIOUS
<1> HIDE DEF more
<1> QED
  BY <1>1, <1>2, TakeAllDef DEF more, Take, Remaining

\* One pod fewer: what remove() leaves.
LEMMA TakeOneFewer ==
  ASSUME NEW left \in Remaining, NEW P, \A i \in DOMAIN P : P[i] \in PodResource,
         NEW held \in SUBSET DOMAIN P, IsFiniteSet(held), NEW p \in held
  PROVE  TakeAll(left, P, held \ {p}) = GiveBack(TakeAll(left, P, held), P[p])
<1> DEFINE fewer == held \ {p}
<1>1. \A r \in {"milli_cpu", "milli_gpu", "gpu_number"} :
        /\ Total(Asks(P, r), fewer) = Total(Asks(P, r), held) - P[p][r]
        /\ Total(Asks(P, r), held) \in Int /\ P[p][r] \in Int
  <2>1. TAKE r \in {"milli_cpu", "milli_gpu", "gpu_number"}
  <2>2. \A i \in DOMAIN P : Asks(P, r)[i] \in Int /\ Asks(P, r)[i] = P[i][r]
    BY DEF Asks, PodResource
  <2> QED
    BY <2>2, TotalRemove, TotalType, SMTT(30)
<1>2. fewer \in SUBSET DOMAIN P
  OBVIOUS
<1> HIDE DEF fewer
<1> QED
  BY <1>1, <1>2, TakeAllDef DEF fewer, GiveBack, Remaining

\* What is asked for is natural, so an idle node has at least as much of
\* everything as one that holds pods, and room for all it has room for.
LEMMA IdleHasMost ==
  ASSUME NEW left \in Remaining, NEW P, \A i \in DOMAIN P : P[i] \in PodResource,
         NEW held \in SUBSET DOMAIN P, IsFiniteSet(held),
         NEW pod \in PodResource, NEW node, FitsIn(pod, node, TakeAll(left, P, held))
  PROVE  FitsIn(pod, node, left)
<1>1. ASSUME NEW r \in {"milli_cpu", "milli_gpu", "gpu_number"}
      PROVE  Total(Asks(P, r), held) \in Nat
  <2>1. \A i \in held : Asks(P, r)[i] \in Nat
    BY DEF Asks, PodResource
  <2> QED
    BY <2>1, TotalType
<1>2. /\ TakeAll(left, P, held).milli_cpu = left.milli_cpu - Total(Asks(P, "milli_cpu"), held)
      /\ TakeAll(left, P, held).milli_gpu = left.milli_gpu - Total(Asks(P, "milli_gpu"), held)
      /\ TakeAll(left, P, held).gpu_count = left.gpu_count - Total(Asks(P, "gpu_number"), held)
  BY TakeAllDef
<1>3. /\ Total(Asks(P, "milli_cpu"), held) \in Nat
      /\ Total(Asks(P, "milli_gpu"), held) \in Nat
      /\ Total(Asks(P, "gpu_number"), held) \in Nat
  BY <1>1
<1> QED
  BY <1>2, <1>3 DEF FitsIn, Remaining, PodResource
=============================================================================
