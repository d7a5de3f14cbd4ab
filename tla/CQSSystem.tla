------------------------------- MODULE CQSSystem -------------------------------
(***************************************************************************)
(* CQS as a whole: a balancer that picks by what Redis shows of the        *)
(* backends, backends that admit by a gauge of their own, and a balancer   *)
(* that stops waiting after PROBE_TIMEOUT_SEC while the backend goes on.   *)
(*                                                                         *)
(* A backend is what CQSBackend is shown to be: an atomic gauge (its       *)
(* ImplementsAdmission) whose publications are current when they are       *)
(* written (its PublishIsCurrent).  How the balancer ranks the candidates  *)
(* is the subject of CQSSelect; here any eligible one may be the best.     *)
(***************************************************************************)
EXTENDS Integers, FiniteSets

CONSTANTS
  Reqs, Backends,
  TotalQueue,    \* places of each backend (100 in the code)
  MaxDeaths,     \* bound: deaths of backend processes
  MaxRestarts,   \* bound: deaths of the balancer process
  NoBackend      \* target of a request that has none

ASSUME CQSSystemAssumption ==
  /\ IsFiniteSet(Reqs)
  /\ TotalQueue \in Nat \ {0}
  /\ MaxDeaths \in Nat /\ MaxRestarts \in Nat
  /\ NoBackend \notin Backends

VARIABLES
  up, free,          \* of each backend: is it serving, its FreeQueue
  published,         \* FreeQueue in the hash vps:<ip> of Redis
  pc, target, answer,\* of each request: its /balance handler
  work, result,      \* of each request: its /process handler
  executed,          \* history: queries handed to the database
  deaths, restarts

backend  == <<up, free>>
balance  == <<pc, target, answer>>
process  == <<work, result>>
bounds   == <<deaths, restarts>>
vars == <<backend, published, balance, process, executed, bounds>>

-----------------------------------------------------------------------------
\* A /process handler owns a place from FreeQueue-- to its deferred
\* FreeQueue++, whether or not anybody still waits for it.
Owning == {"query", "return"}
Serving(b) == {r \in Reqs : target[r] = b /\ work[r] \in Owning}

\* Redis may hold what earlier processes published, as Restart may leave it.
Init ==
  /\ up = [b \in Backends |-> TRUE]
  /\ free = [b \in Backends |-> TotalQueue]
  /\ published \in [Backends -> 0..TotalQueue]
  /\ pc = [r \in Reqs |-> "new"]
  /\ target = [r \in Reqs |-> NoBackend]
  /\ answer = [r \in Reqs |-> "none"]
  /\ work = [r \in Reqs |-> "none"]
  /\ result = [r \in Reqs |-> "none"]
  /\ executed = [r \in Reqs |-> 0]
  /\ deaths = 0 /\ restarts = 0

(***************************************************************************)
(* The balancer's /balance handler.                                        *)
(***************************************************************************)
Reply(r, a) ==
  /\ pc' = [pc EXCEPT ![r] = "done"]
  /\ answer' = [answer EXCEPT ![r] = a]

\* GetListVPS and calculatePnew: a candidate shows FreeQueue # 0.
Choose(r) ==
  /\ pc[r] = "new"
  /\ \E b \in Backends :
       /\ published[b] # 0
       /\ target' = [target EXCEPT ![r] = b]
  /\ pc' = [pc EXCEPT ![r] = "chosen"]
  /\ UNCHANGED <<backend, published, answer, process, executed, bounds>>

\* The 500s of the handler: nobody is left to choose from, since nobody shows a
\* free place or the reads of those who do failed; the draw or the PCT write
\* panics; the request cannot be built.
Fails(r) ==
  /\ pc[r] \in {"new", "chosen"}
  /\ Reply(r, "500")
  /\ UNCHANGED <<backend, published, target, process, executed, bounds>>

Forward(r) ==            \* client.Do puts the request on the wire
  /\ pc[r] = "chosen"
  /\ pc' = [pc EXCEPT ![r] = "sent"]
  /\ work' = [work EXCEPT ![r] = "wire"]
  /\ UNCHANGED <<backend, published, target, answer, result, executed, bounds>>

\* The whole response is there: its end is sent when the backend's handler,
\* deferred function included, has returned.
Answered(r) ==
  /\ pc[r] = "sent" /\ work[r] = "out"
  /\ Reply(r, result[r])
  /\ UNCHANGED <<backend, published, target, process, executed, bounds>>

\* Mutant: the balancer sends a request that timed out once more.
GiveUpAndRetry(r) ==
  /\ pc[r] = "sent"
  /\ pc' = [pc EXCEPT ![r] = "chosen"]
  /\ UNCHANGED <<backend, published, target, answer, process, executed, bounds>>

\* probeTimeout has passed, or the connection broke: 502.  Nothing tells the
\* database to stop, since db.Query gets no context.
GiveUp(r) ==
  /\ pc[r] = "sent"
  /\ Reply(r, "502")
  /\ UNCHANGED <<backend, published, target, process, executed, bounds>>

(***************************************************************************)
(* The balancer process dies; the next one runs main: if the one page of   *)
(* the SCAN is empty, setRedis shows every backend as free, and a failed   *)
(* HSet leaves that half done.                                             *)
(***************************************************************************)
BalancerRestart ==
  /\ restarts < MaxRestarts /\ restarts' = restarts + 1
  /\ pc' = [r \in Reqs |-> IF pc[r] = "new" THEN "new" ELSE "done"]
  /\ answer' = [r \in Reqs |-> IF pc[r] \in {"chosen", "sent"}
                                 THEN "broken" ELSE answer[r]]
  /\ \E S \in SUBSET Backends :
       published' = [b \in Backends |->
                       IF b \in S THEN TotalQueue ELSE published[b]]
  /\ UNCHANGED <<backend, target, process, executed, deaths>>

(***************************************************************************)
(* A backend's /process handler.                                           *)
(***************************************************************************)
\* Mutant: FreeQueue < 0 is the refusal.
EnterOffByOne(r) ==
  /\ work[r] = "wire" /\ up[target[r]] /\ free[target[r]] >= 0
  /\ free' = [free EXCEPT ![target[r]] = @ - 1]
  /\ work' = [work EXCEPT ![r] = "query"]
  /\ UNCHANGED <<up, published, balance, result, executed, bounds>>

Enter(r) ==
  /\ work[r] = "wire" /\ up[target[r]] /\ free[target[r]] > 0
  /\ free' = [free EXCEPT ![target[r]] = @ - 1]
  /\ work' = [work EXCEPT ![r] = "query"]
  /\ UNCHANGED <<up, published, balance, result, executed, bounds>>

\* Mutant: the backend trusts what it published instead of its gauge.
RejectByPublished(r) ==
  /\ work[r] = "wire" /\ up[target[r]] /\ published[target[r]] = 0
  /\ work' = [work EXCEPT ![r] = "out"]
  /\ result' = [result EXCEPT ![r] = "429"]
  /\ UNCHANGED <<backend, published, balance, executed, bounds>>

Reject(r) ==
  /\ work[r] = "wire" /\ up[target[r]] /\ free[target[r]] = 0
  /\ work' = [work EXCEPT ![r] = "out"]
  /\ result' = [result EXCEPT ![r] = "429"]
  /\ UNCHANGED <<backend, published, balance, executed, bounds>>

\* The connection breaks before a backend has read the request.
LostOnTheWire(r) ==
  /\ work[r] = "wire"
  /\ work' = [work EXCEPT ![r] = "lost"]
  /\ UNCHANGED <<backend, published, balance, result, executed, bounds>>

\* ExecuteSQLQery: an error may come before or after the statement ran.
Query(r) ==
  /\ work[r] = "query"
  /\ \/ /\ result' = [result EXCEPT ![r] = "200"]
        /\ executed' = [executed EXCEPT ![r] = @ + 1]
     \/ /\ result' = [result EXCEPT ![r] = "500"]
        /\ executed' \in {executed, [executed EXCEPT ![r] = @ + 1]}
  /\ work' = [work EXCEPT ![r] = "return"]
  /\ UNCHANGED <<backend, published, balance, bounds>>

\* Mutant: a request nobody waits for any more does not give its place back.
ReturnIfAwaited(r) ==
  /\ work[r] = "return"
  /\ free' = IF pc[r] = "sent" THEN [free EXCEPT ![target[r]] = @ + 1] ELSE free
  /\ work' = [work EXCEPT ![r] = "out"]
  /\ UNCHANGED <<up, published, balance, result, executed, bounds>>

Return(r) ==             \* the deferred function, then the response
  /\ work[r] = "return"
  /\ free' = [free EXCEPT ![target[r]] =
                IF @ + 1 > TotalQueue THEN TotalQueue ELSE @ + 1]
  /\ work' = [work EXCEPT ![r] = "out"]
  /\ UNCHANGED <<up, published, balance, result, executed, bounds>>

Balance(r) ==
  \/ Choose(r) \/ Fails(r) \/ Forward(r) \/ Answered(r) \/ GiveUp(r)

Process(r) ==
  \/ Enter(r) \/ Reject(r) \/ LostOnTheWire(r) \/ Query(r) \/ Return(r)

\* Mutant: only a changed gauge of a busy backend is pushed.
PushWhileBusy(b) ==
  /\ up[b]
  /\ published' = IF free[b] = TotalQueue THEN published
                   ELSE [published EXCEPT ![b] = free[b]]
  /\ UNCHANGED <<backend, balance, process, executed, bounds>>

Push(b) ==               \* ActionPushMetrix, every 10 s
  /\ up[b]
  /\ published' = [published EXCEPT ![b] = free[b]]
  /\ UNCHANGED <<backend, balance, process, executed, bounds>>

\* A panic ends the backend: its gauge and its handlers are gone, its hash
\* in Redis stays, and what was on the wire may reach the next process.
Die(b) ==
  /\ up[b] /\ deaths < MaxDeaths
  /\ up' = [up EXCEPT ![b] = FALSE] /\ deaths' = deaths + 1
  /\ free' = [free EXCEPT ![b] = TotalQueue]
  /\ work' = [r \in Reqs |-> IF r \in Serving(b) THEN "lost" ELSE work[r]]
  /\ UNCHANGED <<published, balance, result, executed, restarts>>

\* CheckHealthUpdate publishes the initial gauge, or skips it.
Restart(b) ==
  /\ ~up[b] /\ up' = [up EXCEPT ![b] = TRUE]
  /\ published' \in {published, [published EXCEPT ![b] = free[b]]}
  /\ UNCHANGED <<free, balance, process, executed, bounds>>

Backend(b) == Push(b) \/ Die(b) \/ Restart(b)

Next ==
  \/ \E r \in Reqs : Balance(r) \/ Process(r)
  \/ \E b \in Backends : Backend(b)
  \/ BalancerRestart

Spec == Init /\ [][Next]_vars

(***************************************************************************)
(* Fairness: handlers run, the database answers, client.Do returns (it has *)
(* a timeout), Kubernetes restarts a dead container, and the ticker of     *)
(* every live backend fires.  Deaths are never assumed.                    *)
(***************************************************************************)
Fairness ==
  /\ \A r \in Reqs :
       /\ WF_vars(Choose(r) \/ Fails(r)) /\ WF_vars(Forward(r))
       /\ WF_vars(Answered(r) \/ GiveUp(r))
       /\ WF_vars(Query(r)) /\ WF_vars(Return(r))
  /\ \A b \in Backends : WF_vars(Restart(b)) /\ SF_vars(Push(b))

FairSpec == Spec /\ Fairness

-----------------------------------------------------------------------------
\* Every variable keeps its type.
TypeOK ==
  /\ up \in [Backends -> BOOLEAN]
  /\ free \in [Backends -> 0..TotalQueue]
  /\ published \in [Backends -> 0..TotalQueue]
  /\ pc \in [Reqs -> {"new", "chosen", "sent", "done"}]
  /\ target \in [Reqs -> Backends \cup {NoBackend}]
  /\ answer \in [Reqs -> {"none", "200", "429", "500", "502", "broken"}]
  /\ work \in [Reqs -> {"none", "wire", "out", "lost"} \cup Owning]
  /\ result \in [Reqs -> {"none", "200", "429", "500"}]
  /\ executed \in [Reqs -> Nat]
  /\ deaths \in 0..MaxDeaths /\ restarts \in 0..MaxRestarts

\* A backend's gauge counts what it works on, not what the balancer waits
\* for: a request that was given up after PROBE_TIMEOUT_SEC (main.go:427-435)
\* keeps its place until its query ends, and no place is lost when the
\* balancer or another backend dies.
PlacesKept ==
  \A b \in Backends : free[b] + Cardinality(Serving(b)) = TotalQueue

\* However stale the published gauges are (all handlers act on the same
\* FreeQueue for 10 s, main.go:230), each backend admits only what it has
\* places for and turns a request away only when its own places are taken.
Place(b) == INSTANCE AdmissionControl
              WITH Capacity <- TotalQueue, inService <- Serving(b),
                   refused <- {r \in Reqs : target[r] = b /\ result[r] = "429"}
ImplementsAdmission ==         \* \A b \in Backends : Place(b)!Spec
  /\ \A b \in Backends : Place(b)!Init
  /\ [][\A b \in Backends : [Place(b)!Next]_(Place(b)!acVars)]_vars

\* The client's answer is honest and its query runs at most once, although
\* the balancer gives up on queries that still run and both processes may
\* die at any step.
Heard(a) == CASE a = "none" -> "none" [] a = "200" -> "ok" [] OTHER -> "failed"
Delivery == INSTANCE DeliveryContract
              WITH limit <- 1, answer <- [r \in Reqs |-> Heard(answer[r])]
ImplementsDelivery == Delivery!Spec

\* A backend that once showed no free place, or died with a stale hash, is
\* offered for its full capacity again when the traffic has passed.
Readmitted ==
  <>[](\A b \in Backends : up[b]) =>
    <>[](\A b \in Backends : published[b] = TotalQueue)
=============================================================================
