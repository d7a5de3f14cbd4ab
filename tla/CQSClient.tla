------------------------------- MODULE CQSClient -------------------------------
(***************************************************************************)
(* The CQS client process (CQS/client/main.go): the loop that sends one    *)
(* request per tick, the metrics window it fills and pushClientMetricsLoop *)
(* empties, the jobs it hands to StartWorker over JobChannel, and the      *)
(* handlers that change the rate.  What a job does to the weights is the   *)
(* subject of CQSWeights; which class the moving averages give a job is    *)
(* left open.                                                              *)
(***************************************************************************)
EXTENDS CQSPercentile, Sequences

CONSTANTS
  Rates,         \* the rates of /hello10, /hello100, /hello1000 and the default
  ChanCap,       \* capacity of JobChannel (1000 in the code)
  SampleCap,     \* latency samples a window keeps (20000 in the code)
  MaxWindow      \* bound: requests sent in one metrics window

ASSUME CQSClientAssumption ==
  /\ Rates \subseteq Nat \ {0} /\ Rates # {}
  /\ ChanCap \in Nat \ {0} /\ SampleCap \in Nat \ {0} /\ MaxWindow \in Nat \ {0}

VARIABLES
  rate, ticker,  \* currentRate, and the rate the loop's ticker was made for
  pc, outcome,   \* sendRequest: where it is, what became of the request
  jobChan,       \* JobChannel
  workerPC,      \* StartWorker
  cooling,       \* weights updated less than weightCooldown ago
  window,        \* the metrics window
  lock,          \* window.mu is held by pushClientMetricsLoop
  pushPC, report, \* pushClientMetricsLoop and the report it is making
  unreported     \* history: what was recorded and not yet copied

loop    == <<rate, ticker>>
sender  == <<pc, outcome>>
worker  == <<workerPC, cooling>>
metrics == <<window, lock, pushPC, report, unreported>>
vars == <<loop, sender, jobChan, worker, metrics>>

-----------------------------------------------------------------------------
\* What a job asks for: its weight goes up or down by Epsilon or half of it,
\* or stays.  Only latency lowers a weight.
Jobs == [type : {"CP", "Latency"}, ask : {"raise", "lower", "nothing"}]
         \ {[type |-> "CP", ask |-> "lower"]}
WeightOf(j) == IF j.type = "CP" THEN "weightA" ELSE "weightB"

Empty    == [sent |-> 0, lost |-> 0, samples |-> 0]
NoReport == [sent |-> 0, lost |-> 0, samples |-> 0, p90 |-> 0, p95 |-> 0]

Init ==
  /\ rate \in Rates /\ ticker = 0
  /\ pc = "top" /\ outcome = "none"
  /\ jobChan = << >>
  /\ workerPC = "recv" /\ cooling = {}
  /\ window = Empty /\ lock = FALSE
  /\ pushPC = "sleep" /\ report = NoReport /\ unreported = Empty

Goto(stage) == pc' = stage

(***************************************************************************)
(* The handlers of :3000 and the loop of startRequestWorker, whose context *)
(* is never cancelled.                                                     *)
(***************************************************************************)
SetRate ==
  /\ rate' \in Rates \ {rate}
  /\ UNCHANGED <<ticker, sender, jobChan, worker, metrics>>

LoadRate ==
  /\ pc = "top" /\ ticker' = rate /\ Goto("tick") /\ outcome' = "none"
  /\ UNCHANGED <<rate, jobChan, worker, metrics>>

\* The tick, and sendRequest up to its first channel operation.
Tick ==
  /\ pc = "tick" /\ window.sent < MaxWindow /\ Goto("cp")
  /\ UNCHANGED <<loop, outcome, jobChan, worker, metrics>>

Enqueue(type) ==
  /\ Len(jobChan) < ChanCap
  /\ \E j \in Jobs : j.type = type /\ jobChan' = Append(jobChan, j)

SendCP ==
  /\ pc = "cp" /\ Enqueue("CP") /\ Goto("http")
  /\ UNCHANGED <<loop, outcome, worker, metrics>>

\* DefaultClient.Do: no answer, a status of 400 and above, or success.
Answer ==
  /\ pc = "http" /\ outcome' \in {"error", "refused", "ok"} /\ Goto("sent")
  /\ UNCHANGED <<loop, jobChan, worker, metrics>>

\* Mutant: totalSent++ without the lock.
RecordSentUnlocked ==
  /\ pc = "sent"
  /\ window' = [window EXCEPT !.sent = @ + 1]
  /\ unreported' = [unreported EXCEPT !.sent = @ + 1]
  /\ Goto(IF outcome = "error" THEN "lost" ELSE "sample")
  /\ UNCHANGED <<loop, outcome, jobChan, worker, lock, pushPC, report>>

RecordSent ==
  /\ pc = "sent" /\ ~lock
  /\ window' = [window EXCEPT !.sent = @ + 1]
  /\ unreported' = [unreported EXCEPT !.sent = @ + 1]
  /\ Goto(IF outcome = "error" THEN "lost" ELSE "sample")
  /\ UNCHANGED <<loop, outcome, jobChan, worker, lock, pushPC, report>>

\* Mutant: len <= 20000.
RecordSampleOffByOne ==
  /\ pc = "sample" /\ ~lock
  /\ IF window.samples <= SampleCap
     THEN /\ window' = [window EXCEPT !.samples = @ + 1]
          /\ unreported' = [unreported EXCEPT !.samples = @ + 1]
     ELSE UNCHANGED <<window, unreported>>
  /\ Goto(IF outcome = "refused" THEN "lost" ELSE "latency")
  /\ UNCHANGED <<loop, outcome, jobChan, worker, lock, pushPC, report>>

RecordSample ==
  /\ pc = "sample" /\ ~lock
  /\ IF window.samples < SampleCap
     THEN /\ window' = [window EXCEPT !.samples = @ + 1]
          /\ unreported' = [unreported EXCEPT !.samples = @ + 1]
     ELSE UNCHANGED <<window, unreported>>
  /\ Goto(IF outcome = "refused" THEN "lost" ELSE "latency")
  /\ UNCHANGED <<loop, outcome, jobChan, worker, lock, pushPC, report>>

\* Mutant: a request without an answer goes on to the status check and is
\* counted as lost twice.
RecordLostTwice ==
  /\ pc = "lost" /\ ~lock
  /\ window' = [window EXCEPT !.lost = @ + 1]
  /\ unreported' = [unreported EXCEPT !.lost = @ + 1]
  /\ outcome' = IF outcome = "error" THEN "refused" ELSE outcome
  /\ Goto(IF outcome = "error" THEN "lost" ELSE "latency")
  /\ UNCHANGED <<loop, jobChan, worker, lock, pushPC, report>>

RecordLost ==
  /\ pc = "lost" /\ ~lock
  /\ window' = [window EXCEPT !.lost = @ + 1]
  /\ unreported' = [unreported EXCEPT !.lost = @ + 1]
  /\ Goto(IF outcome = "error" THEN "top" ELSE "latency")
  /\ UNCHANGED <<loop, outcome, jobChan, worker, lock, pushPC, report>>

SendLatency ==
  /\ pc = "latency" /\ Enqueue("Latency") /\ Goto("top")
  /\ UNCHANGED <<loop, outcome, worker, metrics>>

(***************************************************************************)
(* StartWorker.                                                            *)
(***************************************************************************)
\* canUpdateWeight starts the cooldown before anything is written.
Receive ==
  /\ workerPC = "recv" /\ jobChan # << >>
  /\ jobChan' = Tail(jobChan)
  /\ LET job == Head(jobChan) IN
       IF job.ask = "nothing" \/ WeightOf(job) \in cooling
       THEN UNCHANGED worker
       ELSE workerPC' = "update" /\ cooling' = cooling \cup {WeightOf(job)}
  /\ UNCHANGED <<loop, sender, metrics>>

\* Mutant: the worker ends after its first update.
UpdatedAndEnds ==
  /\ workerPC = "update" /\ workerPC' = "ended"
  /\ UNCHANGED <<loop, sender, jobChan, cooling, metrics>>

\* updateWeight returns, whether its Redis calls succeeded or not.
Updated ==
  /\ workerPC = "update" /\ workerPC' = "recv"
  /\ UNCHANGED <<loop, sender, jobChan, cooling, metrics>>

CooldownOver ==
  /\ \E w \in cooling : cooling' = cooling \ {w}
  /\ UNCHANGED <<loop, sender, jobChan, workerPC, metrics>>

(***************************************************************************)
(* pushClientMetricsLoop.                                                  *)
(***************************************************************************)
\* Mutant: a window without samples is skipped.
CopyNeedsSamples ==
  /\ pushPC = "sleep" /\ ~lock /\ window.samples > 0
  /\ lock' = TRUE /\ unreported' = Empty
  /\ report' = [NoReport EXCEPT !.sent = window.sent, !.lost = window.lost,
                                !.samples = window.samples]
  /\ pushPC' = "reset"
  /\ UNCHANGED <<loop, sender, jobChan, worker, window>>

Copy ==
  /\ pushPC = "sleep" /\ ~lock
  /\ lock' = TRUE /\ unreported' = Empty
  /\ report' = [NoReport EXCEPT !.sent = window.sent, !.lost = window.lost,
                                !.samples = window.samples]
  /\ pushPC' = "reset"
  /\ UNCHANGED <<loop, sender, jobChan, worker, window>>

Reset ==
  /\ pushPC = "reset"
  /\ window' = Empty /\ lock' = FALSE
  /\ pushPC' = "sort"
  /\ UNCHANGED <<loop, sender, jobChan, worker, report, unreported>>

\* The place of a percentile among the sorted samples, 0 if there are none.
PercentileOf(n, p, e) == IF n = 0 THEN 0 ELSE RankIndex(n, p, e) + 1

Sort ==
  /\ pushPC = "sort"
  /\ \E e \in Noise :
       report' = [report EXCEPT !.p90 = PercentileOf(report.samples, 90, e),
                                !.p95 = PercentileOf(report.samples, 95, e)]
  /\ pushPC' = "push"
  /\ UNCHANGED <<loop, sender, jobChan, worker, window, lock, unreported>>

\* The HSet of client:metrics:<id>, which no process reads; its error is ignored.
Push ==
  /\ pushPC = "push"
  /\ report' = NoReport /\ pushPC' = "sleep"
  /\ UNCHANGED <<loop, sender, jobChan, worker, window, lock, unreported>>

-----------------------------------------------------------------------------
SendRequest ==
  \/ SendCP \/ Answer \/ RecordSent \/ RecordSample \/ RecordLost \/ SendLatency

StartWorker == Receive \/ Updated

Next ==
  \/ SetRate \/ LoadRate \/ Tick \/ SendRequest
  \/ StartWorker \/ CooldownOver
  \/ Copy \/ Reset \/ Sort \/ Push

Spec == Init /\ [][Next]_vars

(***************************************************************************)
(* Fairness.  Tickers fire, Redis calls return, and the balancer answers   *)
(* every request (RequestsEnd in CQSBalancer) or its connection breaks: the *)
(* DefaultClient itself has no timeout.  The three steps that wait for     *)
(* window.mu are strongly fair, as sync.Mutex hands the lock to a waiter   *)
(* that starves.  Nothing is assumed of SetRate or the end of a cooldown.  *)
(***************************************************************************)
Fairness ==
  /\ WF_vars(LoadRate \/ Tick \/ SendCP \/ Answer \/ SendLatency)
  /\ SF_vars(RecordSent) /\ SF_vars(RecordSample) /\ SF_vars(RecordLost)
  /\ WF_vars(StartWorker)
  /\ WF_vars(Copy \/ Reset \/ Sort \/ Push)

FairSpec == Spec /\ Fairness

-----------------------------------------------------------------------------
Windows == [sent : Nat, lost : Nat, samples : Nat]
Stages  == {"top", "tick", "cp", "http", "sent", "sample", "lost", "latency"}

\* Every variable keeps its type; JobChannel keeps its capacity and a window
\* its cap on samples (main.go:53-55).
TypeOK ==
  /\ rate \in Rates /\ ticker \in Rates \cup {0}
  /\ pc \in Stages /\ outcome \in {"none", "error", "refused", "ok"}
  /\ jobChan \in Seq(Jobs) /\ Len(jobChan) <= ChanCap
  /\ workerPC \in {"recv", "update"}
  /\ cooling \in SUBSET {"weightA", "weightB"}
  /\ window \in Windows /\ window.samples <= SampleCap
  /\ lock \in BOOLEAN /\ pushPC \in {"sleep", "reset", "sort", "push"}
  /\ unreported \in Windows
  /\ report \in [sent : Nat, lost : Nat, samples : Nat, p90 : Nat, p95 : Nat]

\* Every request, loss and sample is reported in exactly one window: the copy
\* and the reset are two groups of statements (main.go:107-114), and the
\* request loop records between windows.
ReportedOnce == pushPC # "reset" => window = unreported

\* A window boundary may fall between the critical sections of one request
\* (main.go:259-260, 264-270): a window can then report one loss or one sample
\* more than it reports requests, but never two, since one loop sends all.
TornByOneAtMost(w) == w.lost <= w.sent + 1 /\ w.samples <= w.sent + 1
LossesMatchRequests == TornByOneAtMost(window) /\ TornByOneAtMost(report)

\* A rate that is set and stays is what the loop's ticker runs at: the loop
\* looks at it once per request, so it must never hang, although it waits for
\* room in JobChannel twice per request (main.go:230, 272) while StartWorker
\* waits for Redis.
RateTakesEffect == \A r \in Rates : <>[](rate = r) => <>[](ticker = r)

\* What was recorded is copied into a report.
RequestsReported == (unreported # Empty) ~> (unreported = Empty)
================================================================================
