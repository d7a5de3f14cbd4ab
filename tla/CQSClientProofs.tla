--------------------------- MODULE CQSClientProofs ---------------------------
(* Theorems about CQSClient and the percentile it publishes. *)
EXTENDS CQSClient, TLAPS

-----------------------------------------------------------------------------
(***************************************************************************)
(* The percentile.                                                         *)
(***************************************************************************)
\* Rounding up with 0.999999 yields the least integer that is not below
\* k percent, whatever the error of the product.
LEMMA RoundingUp ==
  ASSUME NEW k \in Nat, NEW e \in Noise
  PROVE  /\ RoundedUp(k, e) \in Int
         /\ k <= 100 * RoundedUp(k, e) /\ 100 * (RoundedUp(k, e) - 1) < k
<1> DEFINE w == k \div 100
           r == k % 100
           c == (r * 10000000 + e + 999999000) \div 1000000000
<1>1. w \in Nat /\ r \in 0..99 /\ k = 100 * w + r
  BY SMT
<1>2. RoundedUp(k, e) = w + c
  <2>1. Unit \div 100 = 10000000
    BY SMT DEF Unit
  <2>2. QED
    BY <2>1 DEF RoundedUp, Unit, Ceil
<1> HIDE DEF w, r
<1>3. c = IF r = 0 THEN 0 ELSE 1
  <2>1. e \in -1..1
    BY DEF Noise
  <2>2. QED
    BY <1>1, <2>1, SMT
<1> HIDE DEF c
<1>4. QED
  BY <1>1, <1>2, <1>3, SMT

\* percentile returns the nearest rank for every number of samples and every
\* percentage between 1 and 99, and never needs its two clamps
\* (main.go:83-91).
THEOREM PercentileIsNearestRank ==
  \A n \in Nat \ {0}, p \in 1..99, e \in Noise :
    /\ IsNearestRank(n, p, RankIndex(n, p, e))
    /\ RankIndex(n, p, e) = Rank(n, p, e)
<1> SUFFICES ASSUME NEW n \in Nat \ {0}, NEW p \in 1..99, NEW e \in Noise
             PROVE  /\ IsNearestRank(n, p, RankIndex(n, p, e))
                    /\ RankIndex(n, p, e) = Rank(n, p, e)
  OBVIOUS
<1> DEFINE q == RoundedUp(n * p, e)
<1>1. n * p \in Nat /\ n * p >= 1 /\ n * p <= 99 * n /\ p * n = n * p
  BY SMT
<1>2. q \in Int /\ n * p <= 100 * q /\ 100 * (q - 1) < n * p
  BY <1>1, RoundingUp
<1>3. Rank(n, p, e) = q - 1
  BY DEF Rank
<1> HIDE DEF q
<1>4. q - 1 \in 0..(n - 1)
  BY <1>1, <1>2
<1>5. RankIndex(n, p, e) = q - 1
  BY <1>3, <1>4 DEF RankIndex
<1>6. QED
  BY <1>1, <1>2, <1>3, <1>4, <1>5 DEF IsNearestRank

-----------------------------------------------------------------------------
(***************************************************************************)
(* The inductive invariant.  A request whose sending is recorded and whose *)
(* loss or sample is not is one step ahead of the others.                  *)
(***************************************************************************)
LockHeld ==
  /\ lock <=> pushPC = "reset"
  /\ pushPC = "reset" => unreported = Empty

Balanced ==
  /\ window.lost <= window.sent + 1 /\ window.samples <= window.sent + 1
  /\ pc \in {"sample", "lost"} => window.lost <= window.sent
  /\ pc = "sample" => window.samples <= window.sent
  /\ report.lost <= report.sent + 1 /\ report.samples <= report.sent + 1

IInv == TypeOK /\ LockHeld /\ ReportedOnce /\ Balanced

LEMMA InitIInv == Init => IInv
<1> SUFFICES ASSUME Init PROVE IInv
  OBVIOUS
<1>1. TypeOK
  <2>1. jobChan \in Seq(Jobs) /\ Len(jobChan) <= ChanCap
    BY CQSClientAssumption DEF Init
  <2>2. window \in Windows /\ window.samples <= SampleCap /\ unreported \in Windows
    BY CQSClientAssumption DEF Init, Empty, Windows
  <2>3. report \in [sent : Nat, lost : Nat, samples : Nat, p90 : Nat, p95 : Nat]
    BY DEF Init, NoReport
  <2>4. QED
    BY <2>1, <2>2, <2>3 DEF Init, TypeOK, Stages
<1>2. LockHeld /\ ReportedOnce /\ Balanced
  BY DEF Init, LockHeld, ReportedOnce, Balanced, Empty, NoReport
<1>3. QED
  BY <1>1, <1>2 DEF IInv

LEMMA EnqueueType ==
  ASSUME TypeOK, NEW type, Enqueue(type)
  PROVE  jobChan' \in Seq(Jobs) /\ Len(jobChan') <= ChanCap
<1>1. PICK j \in Jobs : jobChan' = Append(jobChan, j)
  BY DEF Enqueue
<1>2. jobChan \in Seq(Jobs) /\ Len(jobChan) < ChanCap
  BY DEF Enqueue, TypeOK
<1>3. Len(jobChan') = Len(jobChan) + 1 /\ jobChan' \in Seq(Jobs)
  BY <1>1, <1>2
<1>4. Len(jobChan) \in Nat
  BY <1>2
<1>5. QED
  BY <1>2, <1>3, <1>4, CQSClientAssumption

LEMMA PercentileType ==
  ASSUME NEW n \in Nat, NEW p \in 1..99, NEW e \in Noise
  PROVE  PercentileOf(n, p, e) \in Nat
<1>1. CASE n = 0
  BY <1>1 DEF PercentileOf
<1>2. CASE n # 0
  <2>1. RankIndex(n, p, e) \in 0..(n - 1)
    BY <1>2, PercentileIsNearestRank DEF IsNearestRank
  <2>2. QED
    BY <1>2, <2>1 DEF PercentileOf
<1>3. QED
  BY <1>1, <1>2

LEMMA SenderKeepsIInv ==
  ASSUME IInv, SetRate \/ LoadRate \/ Tick \/ SendRequest
  PROVE  IInv'
<1> USE DEF IInv, loop, sender, worker, metrics
<1>1. CASE SetRate
  BY <1>1 DEF SetRate, TypeOK, LockHeld, ReportedOnce, Balanced
<1>2. CASE LoadRate
  BY <1>2 DEF LoadRate, Goto, TypeOK, Stages, LockHeld, ReportedOnce, Balanced
<1>3. CASE Tick
  BY <1>3 DEF Tick, Goto, TypeOK, Stages, LockHeld, ReportedOnce, Balanced
<1>4. CASE SendCP
  <2>1. jobChan' \in Seq(Jobs) /\ Len(jobChan') <= ChanCap
    BY <1>4, EnqueueType DEF SendCP
  <2>2. QED
    BY <1>4, <2>1 DEF SendCP, Goto, TypeOK, Stages, LockHeld, ReportedOnce, Balanced
<1>5. CASE SendLatency
  <2>1. jobChan' \in Seq(Jobs) /\ Len(jobChan') <= ChanCap
    BY <1>5, EnqueueType DEF SendLatency
  <2>2. QED
    BY <1>5, <2>1
    DEF SendLatency, Goto, TypeOK, Stages, LockHeld, ReportedOnce, Balanced
<1>6. CASE Answer
  BY <1>6 DEF Answer, Goto, TypeOK, Stages, LockHeld, ReportedOnce, Balanced
<1>7. CASE RecordSent
  <2>1. /\ window' \in Windows /\ window'.samples <= SampleCap
        /\ unreported' \in Windows
    <3>1. /\ window' = [window EXCEPT !.sent = window.sent + 1]
          /\ unreported' = [unreported EXCEPT !.sent = unreported.sent + 1]
      BY <1>7 DEF RecordSent
    <3>2. window \in Windows /\ unreported \in Windows /\ window.samples <= SampleCap
      BY DEF TypeOK
    <3>3. QED
      BY <3>1, <3>2 DEF Windows
  <2>2. TypeOK'
    BY <1>7, <2>1 DEF RecordSent, Goto, TypeOK, Stages
  <2>3. window'.sent = window.sent + 1 /\ window'.lost = window.lost
        /\ window'.samples = window.samples
    BY <1>7 DEF RecordSent, TypeOK, Windows
  <2>4. Balanced'
    <3>1. /\ window.sent \in Nat /\ window.lost \in Nat /\ window.samples \in Nat
          /\ window'.samples \in Nat
      BY <2>1 DEF TypeOK, Windows
    <3>2. pc = "sent" /\ pc' # "sent" /\ report' = report
      BY <1>7 DEF RecordSent, Goto
    <3>3. QED
      BY <2>3, <3>1, <3>2 DEF Balanced
  <2>5. LockHeld' /\ ReportedOnce'
    BY <1>7 DEF RecordSent, LockHeld, ReportedOnce
  <2>6. QED
    BY <2>2, <2>4, <2>5
<1>8. CASE RecordSample
  <2>1. /\ window' \in Windows /\ window'.samples <= SampleCap
        /\ unreported' \in Windows
    <3>1. window \in Windows /\ unreported \in Windows /\ window.samples <= SampleCap
      BY DEF TypeOK
    <3>2. CASE window.samples < SampleCap
      <4>1. /\ window' = [window EXCEPT !.samples = window.samples + 1]
            /\ unreported' = [unreported EXCEPT !.samples = unreported.samples + 1]
        BY <1>8, <3>2 DEF RecordSample
      <4>2. QED
        BY <3>1, <3>2, <4>1, CQSClientAssumption DEF Windows
    <3>3. CASE ~(window.samples < SampleCap)
      BY <1>8, <3>1, <3>3 DEF RecordSample
    <3>4. QED
      BY <3>2, <3>3
  <2>2. TypeOK'
    BY <1>8, <2>1 DEF RecordSample, Goto, TypeOK, Stages
  <2>3. window'.sent = window.sent /\ window'.lost = window.lost
        /\ window'.samples <= window.samples + 1
    BY <1>8 DEF RecordSample, TypeOK, Windows
  <2>4. Balanced'
    <3>1. /\ window.sent \in Nat /\ window.lost \in Nat /\ window.samples \in Nat
          /\ window'.samples \in Nat
      BY <2>1 DEF TypeOK, Windows
    <3>2. pc = "sample" /\ pc' # "sample" /\ report' = report
      BY <1>8 DEF RecordSample, Goto
    <3>3. QED
      BY <2>3, <3>1, <3>2 DEF Balanced
  <2>5. LockHeld' /\ ReportedOnce'
    BY <1>8 DEF RecordSample, LockHeld, ReportedOnce
  <2>6. QED
    BY <2>2, <2>4, <2>5
<1>9. CASE RecordLost
  <2>1. /\ window' \in Windows /\ window'.samples <= SampleCap
        /\ unreported' \in Windows
    <3>1. /\ window' = [window EXCEPT !.lost = window.lost + 1]
          /\ unreported' = [unreported EXCEPT !.lost = unreported.lost + 1]
      BY <1>9 DEF RecordLost
    <3>2. window \in Windows /\ unreported \in Windows /\ window.samples <= SampleCap
      BY DEF TypeOK
    <3>3. QED
      BY <3>1, <3>2 DEF Windows
  <2>2. TypeOK'
    BY <1>9, <2>1 DEF RecordLost, Goto, TypeOK, Stages
  <2>3. window'.sent = window.sent /\ window'.lost = window.lost + 1
        /\ window'.samples = window.samples
    BY <1>9 DEF RecordLost, TypeOK, Windows
  <2>4. Balanced'
    <3>1. /\ window.sent \in Nat /\ window.lost \in Nat /\ window.samples \in Nat
          /\ window'.samples \in Nat
      BY <2>1 DEF TypeOK, Windows
    <3>2. pc = "lost" /\ pc' \notin {"sample", "lost"} /\ report' = report
      BY <1>9 DEF RecordLost, Goto
    <3>3. QED
      BY <2>3, <3>1, <3>2 DEF Balanced
  <2>5. LockHeld' /\ ReportedOnce'
    BY <1>9 DEF RecordLost, LockHeld, ReportedOnce
  <2>6. QED
    BY <2>2, <2>4, <2>5
<1>10. QED
  BY <1>1, <1>2, <1>3, <1>4, <1>5, <1>6, <1>7, <1>8, <1>9 DEF SendRequest

LEMMA OthersKeepIInv ==
  ASSUME IInv, StartWorker \/ CooldownOver \/ Copy \/ Reset \/ Sort \/ Push
  PROVE  IInv'
<1> USE DEF IInv, loop, sender, worker, metrics
<1>1. CASE Receive
  <2>1. jobChan' \in Seq(Jobs) /\ Len(jobChan') <= ChanCap
    BY <1>1, CQSClientAssumption DEF Receive, TypeOK
  <2>2. workerPC' \in {"recv", "update"} /\ cooling' \in SUBSET {"weightA", "weightB"}
    BY <1>1 DEF Receive, TypeOK, WeightOf
  <2>3. QED
    BY <1>1, <2>1, <2>2 DEF Receive, TypeOK, LockHeld, ReportedOnce, Balanced
<1>2. CASE Updated
  BY <1>2 DEF Updated, TypeOK, LockHeld, ReportedOnce, Balanced
<1>3. CASE CooldownOver
  BY <1>3 DEF CooldownOver, TypeOK, LockHeld, ReportedOnce, Balanced
<1>4. CASE Copy
  <2>1. /\ report'.sent = window.sent /\ report'.lost = window.lost
        /\ report'.samples = window.samples
        /\ report' \in [sent : Nat, lost : Nat, samples : Nat, p90 : Nat, p95 : Nat]
    BY <1>4 DEF Copy, NoReport, TypeOK, Windows
  <2>2. unreported' \in Windows
    BY <1>4 DEF Copy, Empty, Windows
  <2>3. QED
    BY <1>4, <2>1, <2>2 DEF Copy, TypeOK, LockHeld, ReportedOnce, Balanced
<1>5. CASE Reset
  <2>1. window' = Empty /\ unreported = Empty
    BY <1>5 DEF Reset, LockHeld
  <2>2. /\ window' \in Windows /\ window'.samples <= SampleCap
        /\ window'.sent = 0 /\ window'.lost = 0 /\ window'.samples = 0
    BY <2>1, CQSClientAssumption DEF Empty, Windows
  <2>3. TypeOK'
    BY <1>5, <2>2 DEF Reset, TypeOK
  <2>4. LockHeld' /\ ReportedOnce'
    BY <1>5, <2>1 DEF Reset, LockHeld, ReportedOnce
  <2>5. Balanced'
    BY <1>5, <2>2 DEF Reset, Balanced
  <2>6. QED
    BY <2>3, <2>4, <2>5
<1>6. CASE Sort
  <2>1. PICK e \in Noise :
          report' = [report EXCEPT !.p90 = PercentileOf(report.samples, 90, e),
                                   !.p95 = PercentileOf(report.samples, 95, e)]
    BY <1>6 DEF Sort
  <2>2. /\ PercentileOf(report.samples, 90, e) \in Nat
        /\ PercentileOf(report.samples, 95, e) \in Nat
    <3>1. report.samples \in Nat /\ 90 \in 1..99 /\ 95 \in 1..99
      BY DEF TypeOK
    <3>2. QED
      BY <3>1, PercentileType
  <2>3. /\ report'.sent = report.sent /\ report'.lost = report.lost
        /\ report'.samples = report.samples
        /\ report' \in [sent : Nat, lost : Nat, samples : Nat, p90 : Nat, p95 : Nat]
    BY <2>1, <2>2 DEF TypeOK
  <2>4. QED
    BY <1>6, <2>3 DEF Sort, TypeOK, LockHeld, ReportedOnce, Balanced
<1>7. CASE Push
  BY <1>7 DEF Push, NoReport, TypeOK, LockHeld, ReportedOnce, Balanced
<1>8. QED
  BY <1>1, <1>2, <1>3, <1>4, <1>5, <1>6, <1>7 DEF StartWorker

LEMMA Invariance == Spec => []IInv
<1>1. IInv /\ UNCHANGED vars => IInv'
  BY DEF IInv, TypeOK, LockHeld, ReportedOnce, Balanced, vars, loop, sender,
         worker, metrics
<1>2. IInv /\ [Next]_vars => IInv'
  BY <1>1, SenderKeepsIInv, OthersKeepIInv DEF Next
<1>3. QED
  BY <1>2, InitIInv, PTL DEF Spec

-----------------------------------------------------------------------------
\* Every variable keeps its type, JobChannel its capacity and a window its cap.
THEOREM TypeCorrect == Spec => []TypeOK
<1>1. IInv => TypeOK
  BY DEF IInv
<1>2. QED
  BY <1>1, Invariance, PTL

\* What the request loop records is reported in exactly one window
\* (main.go:48-70, 107-114).
THEOREM WindowsPartition == Spec => []ReportedOnce
<1>1. IInv => ReportedOnce
  BY DEF IInv
<1>2. QED
  BY <1>1, Invariance, PTL

\* A window is off by one loss and one sample at most (main.go:259-270).
THEOREM WindowsOffByOne == Spec => []LossesMatchRequests
<1>1. IInv => LossesMatchRequests
  BY DEF IInv, Balanced, LossesMatchRequests, TornByOneAtMost
<1>2. QED
  BY <1>1, Invariance, PTL
=============================================================================
