------------------------------- MODULE CQSSelect -------------------------------
(***************************************************************************)
(* How the CQS balancer rates and picks a backend (calculatePnew in        *)
(* CQS/balancer/main.go), as operators over one request's readings.        *)
(*                                                                         *)
(* Fractions are percentages (Full = 1.0), weights are what CQSWeights     *)
(* stores; a score is a sum of weight * percentage, so only its order has  *)
(* a meaning.                                                              *)
(***************************************************************************)
EXTENDS Integers, FiniteSets

CONSTANTS
  LatencyScale,  \* latencyScaleMs: the EWMA at which the penalty saturates
  TopK           \* selectionTopK

ASSUME CQSSelectAssumption ==
  /\ LatencyScale \in Nat \ {0}
  /\ TopK \in Nat \ {0}

Full == 100

AtMost(v, max) == IF v > max THEN max ELSE v

\* QP = 1 - FreeQueue/TotalQueue
QueuePressure(gauge) == ((gauge.total - gauge.free) * Full) \div gauge.total

\* latencyPenalty: 0 as long as nothing was measured.
Penalty(ewma) == (AtMost(ewma, LatencyScale) * Full) \div LatencyScale

\* PCT; the lower the better.  cp is the client's signal, already clamped.
Score(w, cp, gauge, ewma) ==
  w.a * cp + w.b * QueuePressure(gauge) + w.c * Penalty(ewma)

\* calculatePnew skips backends without a queue, without a free place, and
\* without a Ramax.
Eligible(gauge) == gauge.total # 0 /\ gauge.free # 0 /\ gauge.ramax # 0

PoolSize(E) == AtMost(Cardinality(E), TopK)

\* Mutant: the slice is cut before it is sorted.
UnsortedPools(E, score) == {S \in SUBSET E : Cardinality(S) = PoolSize(E)}

\* The first PoolSize(E) backends of E sorted by score.  sort.Slice is not
\* stable: equal scores come in any order.
Pools(E, score) ==
  {S \in SUBSET E : /\ Cardinality(S) = PoolSize(E)
                    /\ \A x \in S, y \in E \ S : score[x] <= score[y]}

\* Two different members of the pool are drawn; the better one wins.
Winners(S, score) ==
  {x \in S : \E y \in S \ {x} : score[x] <= score[y]}

\* The backends calculatePnew may return.  rand.Intn(k-1) needs k > 1.
Choices(E, score) ==
  IF Cardinality(E) = 1 THEN E
  ELSE UNION {Winners(S, score) : S \in Pools(E, score)}

\* The members of E that score strictly better than x.
Better(E, score, x) == {y \in E : score[y] < score[x]}

\* With two or more backends and k = 1 the draw panics.
DrawPanics(E) == Cardinality(E) > 1 /\ PoolSize(E) = 1

\* recordBackendLatency: the moving average with alpha = 1/AlphaInverse, where
\* a failure counts as twice the scale at least.
AlphaInverse == 5
\* Mutant: failures count as what was measured.
SampleAsSeen(ms, success) == IF ms < 1 THEN 1 ELSE ms

Sample(ms, success) ==
  LET seen == IF ms < 1 THEN 1 ELSE ms
  IN  IF success \/ seen > 2 * LatencyScale THEN seen ELSE 2 * LatencyScale
\* Mutant: a sign error in the average.
EwmaSign(prev, ms, success) ==
  IF prev = 0 THEN Sample(ms, success)
  ELSE ((AlphaInverse - 1) * prev - Sample(ms, success)) \div AlphaInverse

Ewma(prev, ms, success) ==
  IF prev = 0 THEN Sample(ms, success)
  ELSE (Sample(ms, success) + (AlphaInverse - 1) * prev) \div AlphaInverse
===============================================================================
