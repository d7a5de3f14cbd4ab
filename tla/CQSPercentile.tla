----------------------------- MODULE CQSPercentile -----------------------------
(***************************************************************************)
(* percentile in CQS/client/main.go: which of n sorted samples stands for  *)
(* the percentile p.  The code rounds n*p up by adding 0.999999, so that   *)
(* the rounding error of the float64 product cannot carry a whole number   *)
(* over to the next one.                                                   *)
(***************************************************************************)
EXTENDS Integers

Unit  == 1000000000      \* 1.0
Ceil  == 999999000       \* 0.999999
Noise == {-1, 0, 1}      \* the error of float64(n)*p, far below 1e-9

\* int(x + 0.999999) for x = k/100 and an error e of the product; the whole
\* part is taken out first so that the numbers stay small.
RoundedUp(k, e) ==
  k \div 100 + ((k % 100) * (Unit \div 100) + e + Ceil) \div Unit

\* idx of percentile, for p in percent.
Rank(n, p, e) == RoundedUp(n * p, e) - 1

\* The index percentile returns for n > 0 samples and 0 < p < 1.
RankIndex(n, p, e) ==
  IF Rank(n, p, e) < 0 THEN 0
  ELSE IF Rank(n, p, e) >= n THEN n - 1 ELSE Rank(n, p, e)

\* The nearest rank: the samples up to index i are p percent of all n or more,
\* those before it are fewer.
IsNearestRank(n, p, i) ==
  /\ i \in 0..(n - 1)
  /\ 100 * (i + 1) >= p * n
  /\ 100 * i < p * n
================================================================================
