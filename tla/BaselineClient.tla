---------------------------- MODULE BaselineClient ----------------------------
(***************************************************************************)
(* The load generator of the RandomTwoPoint, RoundRobin, RL and QL         *)
(* baselines, four copies of one program: a scenario and three control     *)
(* endpoints that set the rate, a worker that sends, and a metrics worker  *)
(* that hands each window to a goroutine which updates the extrema in      *)
(* Redis by GET, compare, SET.  The copies differ in what they send: a     *)
(* record of the rate (Freq) that no backend reads, nothing, or a GET.     *)
(*                                                                         *)
(* Of the five statistics of a window, each with its own two keys, the     *)
(* largest latency stands for all.                                         *)
(***************************************************************************)
EXTENDS Naturals, FiniteSets, FiniteSetsExt

CONSTANTS
  Rates,         \* what /hello10, /hello100 and /hello1000 set
  StopAt,        \* requests after which the scenario stops (500 000)
  Latencies,     \* in ms; 0 is a request that took less than one
  ChanCap,       \* capacity of latencyChan (10 000 in the code)
  MaxSent        \* bound: requests sent

VARIABLES
  currentRate, totalRequests,
  scenario,      \* "phase1", "phase2", "phase3", "over"
  lastRate,      \* requestWorker: the rate its ticker was made for, 0: none
  sending,       \* sendRequest goroutines
  latencyChan,   \* bag of latencies, as a set of <<request, latency>>
  window,        \* metricsWorker: samples
  procs,         \* processSamples goroutines
  maxKey, minKey,\* the two keys in Redis; {} is a missing one
  processed,     \* history: values handed to updateMinMax
  disturbed      \* history: processSamples has run twice at once, or Redis failed

load    == <<currentRate, scenario>>
sender  == <<lastRate, totalRequests, sending>>
stored  == <<maxKey, minKey>>
clientVars == <<load, sender, latencyChan, window, procs, stored, processed,
                disturbed>>

-----------------------------------------------------------------------------
Init ==
  /\ currentRate = 1 /\ scenario = "phase1" /\ lastRate = 0
  /\ totalRequests = 0 /\ sending = {} /\ latencyChan = {} /\ window = {}
  /\ procs = {} /\ maxKey = {} /\ minKey = {}
  /\ processed = {} /\ disturbed = FALSE

\* runScenario: two phases of five minutes, then 1000/s until StopAt.
Scenario ==
  /\ \/ scenario = "phase1" /\ scenario' = "phase2" /\ currentRate' = 100
     \/ scenario = "phase2" /\ scenario' = "phase3" /\ currentRate' = 1000
     \/ /\ scenario = "phase3" /\ totalRequests >= StopAt
        /\ scenario' = "over" /\ currentRate' = 0
  /\ UNCHANGED <<sender, latencyChan, window, procs, stored, processed, disturbed>>

SetRate ==               \* a control endpoint, also when the scenario is over
  /\ \E rate \in Rates : currentRate' = rate
  /\ UNCHANGED <<scenario, sender, latencyChan, window, procs, stored,
                 processed, disturbed>>

\* requestWorker: the rate is loaded once per tick.
NewTicker ==
  /\ lastRate # currentRate /\ lastRate' = currentRate
  /\ UNCHANGED <<load, totalRequests, sending, latencyChan, window, procs,
                 stored, processed, disturbed>>

Tick ==
  /\ lastRate > 0 /\ totalRequests < MaxSent
  /\ totalRequests' = totalRequests + 1
  /\ sending' = sending \cup {totalRequests + 1}
  /\ UNCHANGED <<load, lastRate, latencyChan, window, procs, stored, processed,
                 disturbed>>

\* sendRequest: any status counts; a full channel drops the sample, and a
\* request that failed has none.
Answered(i) ==
  /\ i \in sending /\ sending' = sending \ {i}
  /\ \E ms \in Latencies :
       latencyChan' = IF Cardinality(latencyChan) < ChanCap
                        THEN latencyChan \cup {<<i, ms>>} ELSE latencyChan
  /\ UNCHANGED <<load, lastRate, totalRequests, window, procs, stored,
                 processed, disturbed>>

RequestFails(i) ==
  /\ i \in sending /\ sending' = sending \ {i}
  /\ UNCHANGED <<load, lastRate, totalRequests, latencyChan, window, procs,
                 stored, processed, disturbed>>

\* metricsWorker.
Collect ==
  /\ \E s \in latencyChan :
       /\ latencyChan' = latencyChan \ {s}
       /\ window' = window \cup {s}
  /\ UNCHANGED <<load, sender, procs, stored, processed, disturbed>>

CloseWindow ==           \* go processSamples(currentSamples)
  /\ window # {} /\ window' = {}
  /\ LET val == Max({s[2] : s \in window})
     IN  /\ procs' = procs \cup {[id |-> window, val |-> val, at |-> "getMax",
                                  old |-> {}]}
         /\ processed' = processed \cup {val}
  /\ disturbed' = (disturbed \/ procs # {})
  /\ UNCHANGED <<load, sender, latencyChan, stored>>

\* A GET or SET whose error is ignored: the value looks missing, or stays.
Steps(p, at, old, fails) ==
  /\ procs' = (procs \ {p}) \cup {[p EXCEPT !.at = at, !.old = old]}
  /\ disturbed' = (disturbed \/ fails)
  /\ UNCHANGED <<load, sender, latencyChan, window, processed>>

GetMax(p) ==
  /\ p.at = "getMax" /\ UNCHANGED stored
  /\ Steps(p, "setMax", maxKey, FALSE) \/ Steps(p, "setMax", {}, TRUE)

SetMax(p) ==
  /\ p.at = "setMax" /\ UNCHANGED minKey
  /\ LET larger == \A old \in p.old : p.val > old
     IN  \/ /\ Steps(p, "getMin", {}, FALSE)
            /\ maxKey' = IF larger THEN {p.val} ELSE maxKey
         \/ larger /\ Steps(p, "getMin", {}, TRUE) /\ UNCHANGED maxKey

GetMin(p) ==
  /\ p.at = "getMin" /\ UNCHANGED stored
  /\ Steps(p, "setMin", minKey, FALSE) \/ Steps(p, "setMin", {}, TRUE)

Ends(p, fails) ==
  /\ procs' = procs \ {p} /\ disturbed' = (disturbed \/ fails)
  /\ UNCHANGED <<load, sender, latencyChan, window, processed>>

\* Mutant: the old value is compared the wrong way round.
SetMinReversed(p) ==
  /\ p.at = "setMin" /\ UNCHANGED maxKey /\ Ends(p, FALSE)
  /\ minKey' = IF p.old = {} \/ (p.val > 0 /\ \A old \in p.old : p.val > old)
                 THEN {p.val} ELSE minKey

\* A latency of 0 is only taken when there is nothing yet.
SetMin(p) ==
  /\ p.at = "setMin" /\ UNCHANGED maxKey
  /\ LET smaller == p.old = {} \/ (p.val > 0 /\ \A old \in p.old : p.val < old)
     IN  \/ Ends(p, FALSE) /\ minKey' = IF smaller THEN {p.val} ELSE minKey
         \/ smaller /\ Ends(p, TRUE) /\ UNCHANGED minKey

UpdateMinMax(p) == GetMax(p) \/ SetMax(p) \/ GetMin(p) \/ SetMin(p)
SendRequest(i)  == Answered(i) \/ RequestFails(i)
RequestWorker   == NewTicker \/ Tick
MetricsWorker   == Collect \/ CloseWindow

Next ==
  \/ Scenario \/ SetRate \/ RequestWorker \/ MetricsWorker
  \/ \E i \in sending : SendRequest(i)
  \/ \E p \in procs : UpdateMinMax(p)

-----------------------------------------------------------------------------
\* The extrema in Redis are values some window had, and bound those of every
\* window although they are written by GET, compare, SET: only windows that
\* were processed at the same time, or a Redis call that failed, can lose an
\* extremum (RandomTwoPoint/client/main.go:96).
ExtremaCover ==
  /\ maxKey \cup minKey \subseteq processed
  /\ ~disturbed /\ procs = {} /\ processed # {} =>
       /\ maxKey = {Max(processed)}
       /\ \A val \in processed \ {0}, min \in minKey : min <= val
=============================================================================
