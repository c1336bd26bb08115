----------------------------- MODULE Logarithms -----------------------------
(***************************************************************************)
(* math.log for TLC: natural logarithms in units of 10^-5, to two units.   *)
(* With n close to m 2^j, ln n = ln m + j ln 2 + 2 artanh(d / s), where d  *)
(* is the difference of n and m 2^j and s their sum.                       *)
(***************************************************************************)
LOCAL INSTANCE Integers
LOCAL INSTANCE Sequences

LnUpTo19 == <<0, 69315, 109861, 138629, 160944, 179176, 194591, 207944, 219722, 230259,
              239790, 248491, 256495, 263906, 270805, 277259, 283321, 289037, 294444>>

\* The first two terms of the series; d / s is at most 1 / 21.
TwiceArtanh(d, s) ==
  LET first == (200000 * d) \div s
  IN  first + (first * d * d) \div (3 * s * s)

LnOf(n) ==
  IF n < 20 THEN LnUpTo19[n]
  ELSE LET j == CHOOSE k \in 1 .. 7 : n \div 2^k \in 10 .. 19
           m == n \div 2^j
       IN  LnUpTo19[m] + (j * 693147) \div 10 + TwiceArtanh(n - m * 2^j, n + m * 2^j)

LnTable(max) == [n \in 1 .. max |-> LnOf(n)]
=============================================================================
