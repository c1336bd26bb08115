------------------------------ MODULE Ordering ------------------------------
(***************************************************************************)
(* Sorting, as list.sort, sorted and np.sort do it: every element goes to  *)
(* the place that the number of those before it says.  An order is the set *)
(* of its pairs.  Unlike TLC's SortSeq this is a definition the provers    *)
(* can expand.                                                             *)
(***************************************************************************)
EXTENDS Integers, Sequences, FiniteSets

\* The elements of S, first those that come first.
InOrder(S, order) ==
  [k \in 1 .. Cardinality(S) |->
     CHOOSE j \in S : Cardinality({i \in S : <<i, j>> \in order}) = k - 1]

Ascending(S) == InOrder(S, {p \in S \X S : p[1] < p[2]})

\* By a number each element has; elements of one number stay as they were.
ByKey(S, key) ==
  {p \in S \X S :
     key[p[1]] < key[p[2]] \/ (key[p[1]] = key[p[2]] /\ p[1] < p[2])}

SortedBy(s, key) ==
  LET place == InOrder(DOMAIN s, ByKey(DOMAIN s, key))
  IN  [k \in DOMAIN s |-> s[place[k]]]
=============================================================================
