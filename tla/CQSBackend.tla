------------------------------ MODULE CQSBackend ------------------------------
(***************************************************************************)
(* One backend process of CQS (CQS/backend/main.go): the /process handlers *)
(* that take and return places of the FreeQueue gauge, the UpdateRa loop   *)
(* that closes a rate window and hands the ratio to the weight worker over *)
(* JobChannel, the ActionPushMetrix loop that publishes the gauge to       *)
(* Redis, and the panics that end the process.  They share metrixMu.       *)
(*                                                                         *)
(* A critical section of a single statement is one action guarded by the   *)
(* lock; one of several statements, or one that blocks, is split, so that  *)
(* what the lock protects is checked and not assumed.                      *)
(***************************************************************************)
EXTENDS Integers, Sequences, FiniteSets

CONSTANTS
  Reqs,          \* the requests that ever reach this backend
  TotalQueue,    \* places of the gauge (100 in the code)
  Ramax,         \* cap on Ra (120/s in the code), in units of 1e-4/s
  ChanCap,       \* capacity of JobChannel (1000 in the code)
  Elapsed,       \* lengths a rate window can have, in 10 s periods
  HasIP,         \* is MY_IP_PUBLIC set?
  MaxPanics,     \* bound: how often the process dies
  RaUpdater,     \* the lock holder that is the UpdateRa goroutine
  Nobody         \* metrixMu is not write-locked

ASSUME CQSBackendAssumption ==
  /\ IsFiniteSet(Reqs)
  /\ TotalQueue \in Nat \ {0}
  /\ Ramax \in Nat \ {0}
  /\ ChanCap \in Nat \ {0}
  /\ Elapsed \subseteq Nat \ {0} /\ Elapsed # {}
  /\ HasIP \in BOOLEAN
  /\ MaxPanics \in Nat
  /\ RaUpdater \notin Reqs /\ Nobody \notin Reqs /\ RaUpdater # Nobody

VARIABLES
  phase,         \* "boot" (CheckHealthUpdate), "up" (serving), "down"
  panics,        \* how often the process has died
  pc, status,    \* of each request: where its handler is, what it answered
  lock,          \* write holder of metrixMu
  freeQueue, requestDone, ra,   \* MetrixFeedBackend
  raOld, raNew,  \* rates of the last two closed windows
  raPC,          \* the UpdateRa goroutine
  jobChan,       \* JobChannel: classes of the ratio raNew / raOld
  workerPC,      \* the StartWorker goroutine
  cooling,       \* is lastWeightUpdate less than weightCooldown ago?
  pushPC, snap,  \* the ActionPushMetrix goroutine and its HSet arguments
  published,     \* the hash vps:<ip> in Redis
  uncredited     \* history: completions no rate window has taken yet

handlers == <<pc, status>>
metrix   == <<freeQueue, requestDone, ra>>
rates    == <<raOld, raNew, raPC>>
worker   == <<workerPC, cooling>>
push     == <<pushPC, snap>>
process  == <<phase, panics>>
vars == <<process, handlers, lock, metrix, rates, jobChan, worker, push,
          published, uncredited>>

-----------------------------------------------------------------------------
InitialRate == 1             \* RaOld, RaNew = 0.0001
InitialRa   == 1000000       \* MetrixFeedBackend.Ra = 100
PerPeriod   == 1000          \* one completion in 10 s = 0.1/s

Classes == {"high", "mid", "low"}

Least(a, b) == IF a < b THEN a ELSE b

\* StartWorker compares RaNew / RaOld with 1.70 and 1.40.
RatioClass(new, old) ==
  CASE 10 * new > 17 * old -> "high"
    [] 10 * new > 14 * old /\ 10 * new <= 17 * old -> "mid"
    [] OTHER -> "low"

Gauge == [free |-> freeQueue, done |-> requestDone, ra |-> ra]
NoGauge == [free |-> -1, done |-> 0, ra |-> 0]

\* A handler owns a place from FreeQueue-- until its deferred FreeQueue++.
Owning == {"bind", "query", "count", "release"}
InService == {r \in Reqs : pc[r] \in Owning}

\* metrixMu.Lock() and metrixMu.RLock() can return.
\* Mutant: SetRedisMetrix without the read lock.
CanLockDuringPush == lock = Nobody

CanLock  == lock = Nobody /\ pushPC = "sleep"
CanRLock == lock = Nobody

-----------------------------------------------------------------------------
Init ==
  /\ phase = "boot" /\ panics = 0
  /\ pc = [r \in Reqs |-> "new"] /\ status = [r \in Reqs |-> "none"]
  /\ published = NoGauge
  /\ lock = Nobody
  /\ freeQueue = TotalQueue /\ requestDone = 0 /\ ra = InitialRa
  /\ raOld = InitialRate /\ raNew = InitialRate /\ raPC = "sleep"
  /\ jobChan = << >>
  /\ workerPC = "recv" /\ cooling = FALSE
  /\ pushPC = "sleep" /\ snap = NoGauge
  /\ uncredited = {}

\* A panic in a goroutine ends the process: connections break and the next
\* process starts from the initial memory.
Die ==
  /\ panics < MaxPanics
  /\ phase' = "down" /\ panics' = panics + 1
  /\ pc' = [r \in Reqs |-> IF pc[r] \in {"new", "done"} THEN pc[r] ELSE "lost"]
  /\ UNCHANGED status
  /\ lock' = Nobody
  /\ freeQueue' = TotalQueue /\ requestDone' = 0 /\ ra' = InitialRa
  /\ raOld' = InitialRate /\ raNew' = InitialRate /\ raPC' = "sleep"
  /\ jobChan' = << >>
  /\ workerPC' = "recv" /\ cooling' = FALSE
  /\ pushPC' = "sleep" /\ snap' = NoGauge
  /\ uncredited' = {}

(***************************************************************************)
(* Start-up: main runs CheckHealthUpdate before it starts the goroutines   *)
(* and the router.  Without MY_IP_PUBLIC, or when the ping fails, nothing  *)
(* is published and the process serves all the same.                       *)
(***************************************************************************)
Restart ==
  /\ phase = "down" /\ phase' = "boot"
  /\ UNCHANGED <<panics, handlers, lock, metrix, rates, jobChan, worker, push,
                 published, uncredited>>

BootPublish ==
  /\ phase = "boot" /\ HasIP
  /\ phase' = "up" /\ published' = Gauge
  /\ UNCHANGED <<panics, handlers, lock, metrix, rates, jobChan, worker, push,
                 uncredited>>

BootSkip ==
  /\ phase = "boot" /\ phase' = "up"
  /\ UNCHANGED <<panics, handlers, lock, metrix, rates, jobChan, worker, push,
                 published, uncredited>>

BootPanic ==     \* SetRedisMetrix: the HSet reported an error
  /\ phase = "boot" /\ HasIP
  /\ published' \in {published, Gauge}
  /\ Die

(***************************************************************************)
(* The /process handler of request r.                                      *)
(***************************************************************************)
Enter(r) ==
  /\ phase = "up" /\ pc[r] = "new" /\ CanLock
  /\ lock' = r
  /\ pc' = [pc EXCEPT ![r] = "check"]
  /\ UNCHANGED <<process, status, metrix, rates, jobChan, worker, push,
                 published, uncredited>>

\* Mutant: FreeQueue <= 1.
RejectOffByOne(r) ==
  /\ pc[r] = "check" /\ freeQueue <= 1
  /\ lock' = Nobody
  /\ pc' = [pc EXCEPT ![r] = "done"]
  /\ status' = [status EXCEPT ![r] = "429"]
  /\ UNCHANGED <<process, metrix, rates, jobChan, worker, push, published,
                 uncredited>>

Reject(r) ==     \* FreeQueue <= 0: 429
  /\ pc[r] = "check" /\ freeQueue <= 0
  /\ lock' = Nobody
  /\ pc' = [pc EXCEPT ![r] = "done"]
  /\ status' = [status EXCEPT ![r] = "429"]
  /\ UNCHANGED <<process, metrix, rates, jobChan, worker, push, published,
                 uncredited>>

\* Mutant: FreeQueue < 0 is the refusal.
CheckOffByOne(r) ==
  /\ pc[r] = "check" /\ freeQueue >= 0
  /\ pc' = [pc EXCEPT ![r] = "take"]
  /\ UNCHANGED <<process, status, lock, metrix, rates, jobChan, worker, push,
                 published, uncredited>>

Check(r) ==
  /\ pc[r] = "check" /\ freeQueue > 0
  /\ pc' = [pc EXCEPT ![r] = "take"]
  /\ UNCHANGED <<process, status, lock, metrix, rates, jobChan, worker, push,
                 published, uncredited>>

Take(r) ==
  /\ pc[r] = "take"
  /\ freeQueue' = freeQueue - 1
  /\ lock' = Nobody
  /\ pc' = [pc EXCEPT ![r] = "bind"]
  /\ UNCHANGED <<process, status, requestDone, ra, rates, jobChan, worker,
                 push, published, uncredited>>

\* Mutant: the defer comes after the body is read.
BindBeforeDefer(r) ==
  /\ pc[r] = "bind"
  /\ \/ pc' = [pc EXCEPT ![r] = "query"] /\ UNCHANGED status
     \/ pc' = [pc EXCEPT ![r] = "done"] /\ status' = [status EXCEPT ![r] = "400"]
  /\ UNCHANGED <<process, lock, metrix, rates, jobChan, worker, push,
                 published, uncredited>>

\* ShouldBindJSON accepts the body or the answer is 400.
Bind(r) ==
  /\ pc[r] = "bind"
  /\ \/ pc' = [pc EXCEPT ![r] = "query"] /\ UNCHANGED status
     \/ pc' = [pc EXCEPT ![r] = "release"] /\ status' = [status EXCEPT ![r] = "400"]
  /\ UNCHANGED <<process, lock, metrix, rates, jobChan, worker, push,
                 published, uncredited>>

\* ExecuteSQLQery returns rows or an error (500).
Query(r) ==
  /\ pc[r] = "query"
  /\ \/ pc' = [pc EXCEPT ![r] = "count"] /\ UNCHANGED status
     \/ pc' = [pc EXCEPT ![r] = "release"] /\ status' = [status EXCEPT ![r] = "500"]
  /\ UNCHANGED <<process, lock, metrix, rates, jobChan, worker, push,
                 published, uncredited>>

\* Mutant: RequestDone++ without the lock.
CountUnlocked(r) ==
  /\ pc[r] = "count"
  /\ requestDone' = requestDone + 1
  /\ uncredited' = uncredited \cup {r}
  /\ pc' = [pc EXCEPT ![r] = "release"]
  /\ status' = [status EXCEPT ![r] = "200"]
  /\ UNCHANGED <<process, lock, freeQueue, ra, rates, jobChan, worker, push,
                 published>>

Count(r) ==
  /\ pc[r] = "count" /\ CanLock
  /\ requestDone' = requestDone + 1
  /\ uncredited' = uncredited \cup {r}
  /\ pc' = [pc EXCEPT ![r] = "release"]
  /\ status' = [status EXCEPT ![r] = "200"]
  /\ UNCHANGED <<process, lock, freeQueue, ra, rates, jobChan, worker, push,
                 published>>

Release(r) ==    \* the deferred function
  /\ pc[r] = "release" /\ CanLock
  /\ freeQueue' = Least(freeQueue + 1, TotalQueue)
  /\ pc' = [pc EXCEPT ![r] = "done"]
  /\ UNCHANGED <<process, status, lock, requestDone, ra, rates, jobChan,
                 worker, push, published, uncredited>>

Handler(r) ==
  \/ Enter(r) \/ Reject(r) \/ Check(r) \/ Take(r)
  \/ Bind(r) \/ Query(r) \/ Count(r) \/ Release(r)

(***************************************************************************)
(* The UpdateRa goroutine.  The write lock is held from RaLock to RaSend,  *)
(* also while the send waits for room in JobChannel.                       *)
(***************************************************************************)
RaLock ==
  /\ phase = "up" /\ raPC = "sleep" /\ CanLock
  /\ lock' = RaUpdater /\ raPC' = "locked"
  /\ UNCHANGED <<process, handlers, metrix, raOld, raNew, jobChan, worker,
                 push, published, uncredited>>

\* Mutant: it waits for a completion without giving the lock back.
RaEmptyWaits ==
  /\ raPC = "locked" /\ requestDone = 0
  /\ UNCHANGED vars

RaEmpty ==       \* nothing completed: the window just starts again
  /\ raPC = "locked" /\ requestDone = 0
  /\ lock' = Nobody /\ raPC' = "sleep"
  /\ UNCHANGED <<process, handlers, metrix, raOld, raNew, jobChan, worker,
                 push, published, uncredited>>

RaRate ==
  /\ raPC = "locked" /\ requestDone # 0
  /\ \E e \in Elapsed : ra' = (requestDone * PerPeriod) \div e
  /\ uncredited' = {}
  /\ raPC' = "reset"
  /\ UNCHANGED <<process, handlers, lock, freeQueue, requestDone, raOld, raNew,
                 jobChan, worker, push, published>>

\* Mutant: RequestDone = 0 is missing.
RaResetForgets ==
  /\ raPC = "reset"
  /\ ra' = Least(ra, Ramax)
  /\ raNew' = ra' /\ raOld' = raNew
  /\ raPC' = "send"
  /\ UNCHANGED <<process, handlers, lock, freeQueue, requestDone, jobChan,
                 worker, push, published, uncredited>>

RaReset ==
  /\ raPC = "reset"
  /\ requestDone' = 0
  /\ ra' = Least(ra, Ramax)
  /\ raNew' = ra' /\ raOld' = raNew
  /\ raPC' = "send"
  /\ UNCHANGED <<process, handlers, lock, freeQueue, jobChan, worker, push,
                 published, uncredited>>

RaSend ==        \* JobChannel <- Job{...}, then Unlock
  /\ raPC = "send" /\ Len(jobChan) < ChanCap
  /\ jobChan' = Append(jobChan, RatioClass(raNew, raOld))
  /\ lock' = Nobody /\ raPC' = "sleep"
  /\ UNCHANGED <<process, handlers, metrix, raOld, raNew, worker, push,
                 published, uncredited>>

UpdateRa == RaLock \/ RaEmpty \/ RaRate \/ RaReset \/ RaSend

(***************************************************************************)
(* The StartWorker goroutine.  What its Redis calls do to the weights is   *)
(* the subject of CQSWeights; here they take a step, or panic.             *)
(***************************************************************************)
WorkerReceive ==
  /\ phase = "up" /\ workerPC = "recv" /\ jobChan # << >>
  /\ jobChan' = Tail(jobChan)
  /\ workerPC' = IF cooling \/ Head(jobChan) = "low" THEN "recv" ELSE "update"
  /\ UNCHANGED <<process, handlers, lock, metrix, rates, cooling, push,
                 published, uncredited>>

WorkerUpdated ==
  /\ workerPC = "update"
  /\ workerPC' = "recv" /\ cooling' = TRUE
  /\ UNCHANGED <<process, handlers, lock, metrix, rates, jobChan, push,
                 published, uncredited>>

WorkerPanic ==
  /\ workerPC = "update" /\ Die
  /\ UNCHANGED published

StartWorker == WorkerReceive \/ WorkerUpdated

CooldownOver ==
  /\ cooling /\ cooling' = FALSE
  /\ UNCHANGED <<process, handlers, lock, metrix, rates, jobChan, workerPC,
                 push, published, uncredited>>

(***************************************************************************)
(* The ActionPushMetrix goroutine: SetRedisMetrix holds the read lock from *)
(* the evaluation of the HSet arguments until Redis has answered.          *)
(***************************************************************************)
\* Mutant: it only publishes when something was completed.
PushStartWithNews ==
  /\ phase = "up" /\ pushPC = "sleep" /\ CanRLock /\ requestDone > 0
  /\ pushPC' = "hset" /\ snap' = Gauge
  /\ UNCHANGED <<process, handlers, lock, metrix, rates, jobChan, worker,
                 published, uncredited>>

PushStart ==
  /\ phase = "up" /\ pushPC = "sleep" /\ CanRLock
  /\ pushPC' = "hset" /\ snap' = Gauge
  /\ UNCHANGED <<process, handlers, lock, metrix, rates, jobChan, worker,
                 published, uncredited>>

PushDone ==
  /\ pushPC = "hset"
  /\ published' = snap
  /\ pushPC' = "sleep" /\ snap' = NoGauge
  /\ UNCHANGED <<process, handlers, lock, metrix, rates, jobChan, worker,
                 uncredited>>

PushPanic ==     \* the HSet failed, or its answer was lost
  /\ pushPC = "hset"
  /\ published' \in {published, snap}
  /\ Die

ActionPushMetrix == PushStart \/ PushDone

-----------------------------------------------------------------------------
Boot == Restart \/ BootPublish \/ BootSkip \/ BootPanic

Next ==
  \/ Boot
  \/ \E r \in Reqs : Handler(r)
  \/ UpdateRa
  \/ StartWorker \/ WorkerPanic \/ CooldownOver
  \/ ActionPushMetrix \/ PushPanic

Spec == Init /\ [][Next]_vars

(***************************************************************************)
(* Fairness.  Every goroutine is scheduled, the database and Redis answer  *)
(* (go-redis has read timeouts), Kubernetes restarts a dead container.  A  *)
(* step that waits for metrixMu is strongly fair: sync.RWMutex admits a    *)
(* waiting writer before later readers, and sync.Mutex hands the lock to a *)
(* waiter that starves.  Panics are never assumed, and neither is arrival. *)
(***************************************************************************)
Fairness ==
  /\ WF_vars(Restart) /\ WF_vars(BootPublish \/ BootSkip)
  /\ \A r \in Reqs :
       /\ WF_vars(Reject(r) \/ Check(r) \/ Take(r) \/ Bind(r) \/ Query(r))
       /\ SF_vars(Count(r)) /\ SF_vars(Release(r))
  /\ SF_vars(RaLock) /\ WF_vars(RaEmpty \/ RaRate \/ RaReset \/ RaSend)
  /\ WF_vars(StartWorker)
  /\ SF_vars(PushStart) /\ WF_vars(PushDone)

FairSpec == Spec /\ Fairness

-----------------------------------------------------------------------------
Gauges == [free : Int, done : Nat, ra : Nat]

\* Every variable keeps its type; JobChannel never holds more than its
\* capacity, because RaSend waits for room.
TypeOK ==
  /\ phase \in {"boot", "up", "down"} /\ panics \in 0..MaxPanics
  /\ pc \in [Reqs -> {"new", "check", "take", "done", "lost"} \cup Owning]
  /\ status \in [Reqs -> {"none", "200", "400", "429", "500"}]
  /\ lock \in Reqs \cup {RaUpdater, Nobody}
  /\ freeQueue \in 0..TotalQueue /\ requestDone \in Nat /\ ra \in Nat
  /\ raOld \in Nat /\ raNew \in Nat
  /\ raPC \in {"sleep", "locked", "reset", "send"}
  /\ jobChan \in Seq(Classes) /\ Len(jobChan) <= ChanCap
  /\ workerPC \in {"recv", "update"} /\ cooling \in BOOLEAN
  /\ pushPC \in {"sleep", "hset"} /\ snap \in Gauges
  /\ published \in Gauges
  /\ uncredited \in SUBSET Reqs

\* No place of the gauge is ever lost or handed out twice: what is free and
\* what the running handlers own always adds up to TotalQueue, whichever
\* return path (429, 400, 500, 200) a handler takes and however handlers,
\* the rate loop, the publisher and process deaths interleave.  The clamp in
\* the deferred function (main.go:391-393) therefore never has to act.
SlotAccounting == freeQueue + Cardinality(InService) = TotalQueue

\* Each completed request is taken by exactly one rate window: RequestDone
\* counts exactly the completions since the last Ra was computed, although
\* the read (main.go:167) and the reset (main.go:168) are two statements and
\* handlers increment between windows.
WindowExact == raPC # "reset" => requestDone = Cardinality(uncredited)

\* What reaches Redis is the gauge as it is at that moment: no handler and no
\* rate window changes it while the HSet is on its way, since SetRedisMetrix
\* holds the read lock until the answer (main.go:134-145).
PublishIsCurrent == [][published' # published => published' = Gauge]_vars

\* The gauge implements admission control: never more than TotalQueue
\* requests in service, 429 only when all places are really taken.
Admission == INSTANCE AdmissionControl
               WITH Capacity <- TotalQueue, inService <- InService,
                    refused <- {r \in Reqs : status[r] = "429"}
ImplementsAdmission == Admission!Spec

\* A request that took a place is answered, or the process dies: the handler
\* needs metrixMu twice more (main.go:389, 414), and UpdateRa holds it while
\* it waits for room in JobChannel, so the weight worker must drain that.
AdmittedIsAnswered ==
  \A r \in Reqs : (r \in InService) ~> (pc[r] \in {"done", "lost"})

\* A completion is eventually taken by a rate window, or the process dies.
WindowCloses == (requestDone > 0) ~> (requestDone = 0)

\* If the process eventually stays up, Redis ends up with the true gauge
\* however often handlers, windows and earlier deaths left it stale.
GaugeConverges ==
  <>[](phase = "up") => <>[](published.free = freeQueue)
=============================================================================
