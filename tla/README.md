# A TLA+ development of Algorithm_CQS

This directory holds a formal model of the load balancers of this repository:
TLA+ modules translated from the Go sources, TLC configurations that check them on
small instances, and TLAPS proofs of the main results for all instances. Paths
below are relative to `src/`.

    tlc -workers 2 -config CQSBackend.cfg MCCQSBackend    # a run
    tlapm CQSBackendProofs.tla                            # proofs

`PROJECT.json` lists components, runs, the source lines of each definition
("map"), mutants, findings, hazards and theorems.

## 1. The system

The repository compares CQS, a Redis-based load balancer whose weights adapt to
load, with four baselines. Each of them has a client (load generator), a balancer and
several backends, all Go processes in separate containers; `CQS` is the subject
of the repository's `README` and by far the largest.

    client --POST /balance--> balancer --POST /process--> backend --SQL--> Postgres
       \                         |                           /
        `---- weights ------> Redis <---- gauge, weights ---'

### Components

| Component | State | Operations | Hard behaviour |
|---|---|---|---|
| CQS backend `CQS/backend/main.go` | `MetrixFeedBackend` (FreeQueue, RequestDone, Ra) under `metrixMu`; RaOld/RaNew; `JobChannel`; cooldown; `vps:<ip>` in Redis | `/process`, `UpdateRa`, `StartWorker`, `ActionPushMetrix`/`SetRedisMetrix`, `CheckHealthUpdate` | handlers and three goroutines share a lock; a send and a Redis call happen under it; panics kill the process |
| Shared weights, hash `key:weightValue` | fields weightA, weightB, weightC | client `ensureWeightValues`, `updateWeight`; backend `StartWorker`; both `normalizeWeights`; balancer `HasAnyKey`, `SetupWeightValues` | three kinds of writer, no lock, no transaction, errors swallowed |
| CQS balancer `CQS/balancer/main.go` | globals A, B, C; `latencyEwmaMs`; `dispatchCounts`; Redis hashes | `/balance` (weights, list, score, draw, count, forward, record), `pushDispatchCounts`, restart | unlocked globals; gauges up to 10 s old; power-of-two draw; timeouts |
| CQS client `CQS/client/main.go` | `currentRate`, `Freq`, metrics window, `JobChannel`, cooldowns | request loop, `sendRequest`, `pushClientMetricsLoop`, `StartWorker`, rate handlers | two sends per request into a bounded channel; windows torn between critical sections |
| CQS system, the above together | FreeQueue of each backend and its copy in Redis | a request from the balancer to the database and back | a backend works on what the balancer has given up; stale gauges; both processes die |
| CQS metrics database `CQS/balancer/metrix/db` | pool, `tablesReady` | lazy connect, lazy DDL, insert | lock given up around the DDL |
| CPU and memory samplers `*/metrix/CPU`, `*/metrix/Memory` | the previous reading of every source | read, delta, insert | failed readings and inserts between successful ones |
| RL baseline `Baseline/RL` | Q-table, one FIFO of dispatched states per backend, queue lengths | ε-greedy choice, dispatch, feedback | feedback out of order, failed requests |
| RandomTwoPoint baseline | queueSize of a backend, what the balancer was told of it | draw two, forward, retry, report | retries of what was already executed; reports in any order |
| RoundRobin baseline | `rrCounter` | rotate, forward, fail over | the same; counter overflow |
| Client of the baselines | rate, scenario, window; extrema in Redis | send, collect, update min/max | GET, compare, SET by two windows at once |
| QL baseline `QL` | per node q, job ages, EMA, weight, all in Redis | add/finish job, age updater, control loop, select | unlocked read-modify-writes of shared keys |
| Go study programs `golang` | a Raft election sketch, mutex exercises | elections, vote counting | stale votes |
| Deployment and data | manifests, CSV files | none | none |

### What makes each correct

* **Backend.** Places of the gauge are neither lost nor handed out twice; a 429
  means that every place is taken; each completion enters exactly one rate
  window; what Redis shows is the gauge as it is; an admitted request is
  answered although it needs the lock again; the gauge in Redis converges.
* **Weights.** They sum to one whenever nobody is in the middle of an update; no
  weight is driven to zero; a backend never meets a hash without weightC unless
  something failed.
* **Balancer.** The chosen backend had a free place and is not the worst of the
  sorted pool; candidates of a request are compared with one set of weights;
  failures never lower a penalty; an accepted request ends; published counts
  are never ahead of the process's own.
* **Client.** The window's `lost` never exceeds `sent`; the request loop is not
  blocked for ever by its own channel; `percentile` picks the right rank. (The first
  holds only up to one request per window, see `LossesMatchRequests`.)
* **System.** A request that the balancer gave up keeps its place until its query
  ends, and no longer; its query runs at most once; the client hears success only
  of a query that has run; a full backend is offered again when it is free.
* **RL.** Every feedback finds the state of a dispatch to its backend, and uses it
  up. (It need not be the dispatch of the request it reports: reports may
  overtake each other, and nothing in them names the request.)
* **Retrying balancers.** A request costs the database at most as many queries as
  it has attempts; one answer reaches the client; the rotation starts at every backend
  equally often, and a failover visits each once; queueSize is the number of
  running requests, those included that nobody waits for.
* **Client of the baselines.** The extrema cover every window, unless two windows
  were processed at once.
* **QL.** q is the number of unfinished jobs; a finished job is in the hash only
  if an AgeUpdater put it back; a weight lies in [1, 1 + Eta].
* **Samplers.** What a counter grew by between two good readings is in exactly one
  record; the shares of a window add up to the whole.
* **Database.** A logger does not insert before the tables exist, and inserts again
  after a failure.
* **Raft sketch.** Two nodes lead one term only if one of them was made leader by a
  late count of an earlier attempt, which the code does not exclude.

The places where these can go wrong, line by line, are `hazards` in
`PROJECT.json`.

## 2. Modules

| Module | What it is |
|---|---|
| `AdmissionControl` | abstract: what the gauge of a backend promises |
| `DeliveryContract` | abstract: what a load balancer promises about one request |
| `CQSBackend`, `MCCQSBackend`, `CQSBackendProofs` | one backend process, all goroutines; 1 cfg, 6 theorems |
| `CQSWeights`, `MCCQSWeights`, `CQSWeightsProofs` | every reader and writer of `key:weightValue`; 1 cfg, 4 theorems |
| `CQSSelect` | scoring, top-k, power of two, EWMA, as operators |
| `CQSBalancer`, `MCCQSBalancer`, `CQSBalancerProofs` | the balancer process, Redis and backends as environment; 3 cfgs, 7 theorems, and 3 on its metric loggers |
| `CQSPercentile` | `percentile` of the client, as operators |
| `CQSClient`, `MCCQSClient`, `CQSClientProofs` | the client: request loop, metrics window, job channel; 1 cfg, 4 theorems |
| `CQSSystem`, `MCCQSSystem`, `CQSSystemProofs` | one balancer, several backends, Redis; 1 cfg, 4 theorems |
| `BaselineServers` | balancer and backends of RandomTwoPoint, RoundRobin and RL |
| `BaselineClient` | the load generator of the four baselines |
| `MCBaselines`, `BaselineProofs` | instances of the two, and proofs about them; 1 cfg, 6 theorems |
| `QLBaseline`, `MCQLBaseline`, `QLBaselineProofs` | QL backends and balancer on Redis; 1 cfg, 3 theorems |
| `MetricsDB` | the PostgreSQL sink of the metric loggers |
| `CPUStat` | the arithmetic on `/proc/stat`, as operators |
| `MetricsLoggers`, `MCMetrics` | CPU and memory logger on top of `MetricsDB`; 2 cfgs, theorems in `CQSBalancerProofs` |
| `RaftElection`, `MCRaftElection`, `RaftElectionProofs` | the election of `golang/raft`; 1 cfg, 1 theorem |

`CQSSystem` composes what `CQSBackend` and `CQSBalancer` show in detail: it uses
the gauge as one atomic step, which is what the refinement of `AdmissionControl` by
`CQSBackend` justifies, and is shown itself to keep that specification for every
backend. `CQSSystem` and `BaselineServers` implement the same `DeliveryContract`, with
a different number of attempts. `MetricsLoggers` extends `MetricsDB` and
synchronises with it on the insert.

### CQSBackend

`phase` is the life of the process: `boot` is `CheckHealthUpdate`, which runs
before the goroutines and the router; `up` is serving; `down` is a container that
has not restarted yet. `pc[r]` is the handler of request `r`:

| `pc` | Next action | Code (`CQS/backend/main.go`) |
|---|---|---|
| new | `Enter` | 376 Lock |
| check | `Reject`, `Check` | 378-383 |
| take | `Take` | 386-387 |
| bind | `Bind` | 397-403 |
| query | `Query` | 405-412 |
| count | `Count` | 414-416 |
| release | `Release` | 388-395, deferred |

The window loop is `RaLock`, `RaEmpty` or `RaRate`, `RaReset`, `RaSend`, in the
order of the statements, with the lock held until after the send. The publisher
is `PushStart` (RLock and evaluation of the arguments) and `PushDone`.
`PushPanic`, `BootPanic` and `WorkerPanic` are the three places where an error of
Redis ends the process; they share `Die`, which breaks all connections and resets
all memory, and leaves `vps:<ip>` behind. A critical section made of a
single statement is one action guarded by the lock; one of several statements is
split, so that mutual exclusion is checked rather than assumed.

Time is abstracted: a window lasts any of `Elapsed` periods, a cooldown may end
at any moment. What `StartWorker` does to the weights is a step here and a
subject of its own in `CQSWeights`. `uncredited` is a history variable:
the completions that no window has taken.

### CQSWeights

One `pc` per worker: the client's start-up (`seedA`, `seedB`, `seedC` are the
three `HSetNX`), an update (`get`, `set`) and the normalisation that ends each of
them (`readAll`, `writeAll`). Every Redis call is an action, its failure another
one, and a failed write may or may not have been executed. Weights are integers in
thousandths; multiplication and division truncate, where the code uses float64, so
a sum is "one" when it lies in 998..1000. The client clamps the value it
writes and a backend does not, as in the code; both clamp when they normalise.
`GetNil` is the client's second attempt after `redis.Nil`, `GetNilPanic` the
backend's panic. `Probe` can decide either way on any hash: `HasAnyKey` may see
another process's key, and it makes one SCAN call with COUNT 1, which may return
an empty page of a non-empty keyspace.

The start-up order between processes is in `ready` (the client seeds before it
sends) and `traffic` (a backend has no rate to react to before a request has
passed the balancer). `unsettled` and `nilPanic` are history variables.

### CQSSelect and CQSBalancer

`CQSSelect` has the pure part of `calculatePnew`, `latencyPenalty` and
`recordBackendLatency`, in percent and integers: only the order of scores
matters, and the EWMA is truncated. `sort.Slice` is not stable, so `Pools` is the
set of all pools that some order of ties gives.

`CQSBalancer` splits a `/balance` handler where another handler or Redis can come
between: the read of the hash (`Accept`), the three assignments to the globals
(`SetWeight`), one HGETALL per backend (`ReadGauge`), for each backend's score the
read of its EWMA and the three loads of the globals, in this order (`ReadLatency`,
`LoadWeight`, `ScoreOne`), the draw (`Draw`, `DrawFails`, `NoneAvailable`), the PCT write (`PctFails`), the count (`CountDispatch`), and the answer (`Answered`,
`Unanswered`). A body that breaks off after the header is a 502 whose latency was
already recorded as a success. The backends and the other writers of Redis are
`GaugeMoves` and `WeightsMove`. `used` and `leftover` are history variables.

The client's CP is fixed at 0.5: every candidate of a request is scored with
the same CP, so it adds a constant to all their scores as long as A does not move.

### CQSClient and CQSPercentile

`pc` follows the one request loop: `top` (the rate is loaded and the ticker made
anew if it changed), `tick`, `cp` (the first send into `JobChannel`), `http`,
`sent`, `sample`, `lost` (three critical sections of `window.mu`) and `latency` (the
second send). `pushPC` follows `pushClientMetricsLoop`, whose copy and reset are
two actions under the lock. `unreported` is a history variable: what was
recorded and not copied yet. The numbers of `Freq` and of the two moving averages
are left open: a job may ask for anything a job of its type can ask for, so the
results hold whatever the signals are. The hash `client:metrics:<id>` is written and
never read by a process; its content is `report` just before `Push`.

`CQSPercentile` computes in units of 1e-9 and gives the float64 product an error of
up to one unit in either direction, which is far more than the code can have.

### CQSSystem

A request has two handlers here: `pc[r]` is the balancer's `/balance` (`Choose`,
`Forward`, then `Answered` or `GiveUp`; `Fails` are its 500s, for want of a backend or after
the choice, when the PCT write fails), `work[r]` is the
backend's `/process` (`Enter`, `Reject` or `LostOnTheWire`, `Query`, `Return`). They
only meet on the wire: nothing cancels `db.Query` when the balancer gives up after
`PROBE_TIMEOUT_SEC`, so a handler goes on with its place while its `pc` is `done`.
`free[b]` is the gauge, `published[b]` the copy in Redis that the balancer chooses by;
`Push` is `ActionPushMetrix`. `Die` and `Restart` are a backend's panic and its new
container, `BalancerRestart` the balancer's, whose set-up may show any backends as
free. How candidates are ranked is the subject of `CQSSelect`: here any eligible
one may be chosen. `executed` is a history variable.

### BaselineServers and BaselineClient

`program` selects the baseline, once. All three forward a request as a call
(`calls`, one record per attempt) to a backend that counts its running handlers in
`queue`; when a query is done, a goroutine of its own reports the counter, which it
loads at any later moment (`Load`), and nothing orders the reports. What differs:

* RandomTwoPoint: `PickTwoPoint`, up to three attempts, `ReceiveTwoPoint`;
* RoundRobin: `StartRotation` is `atomic.AddUint64`, `NextInRotation` the failover;
  reports only reach a Redis key that is displayed;
* RL: `Exploit` and `Explore` choose by the Q-table, under one lock, and `Dispatch` pushes
  the state on the backend's FIFO under another, so that other handlers and reports
  come between; `ReceiveFeedback` pops the oldest one. A call has one attempt and no
  timeout, but its connection may break. Q values are integers with the learning rate
  of the code; ε is a free choice between the two actions.

A call that failed at the balancer may still arrive and run; `Die` and
`BalancerRestart` lose what the processes had in memory. `first` and `dispatched` are
history variables, and so is `executed`.

`BaselineClient` is the load generator of which each baseline has a copy: scenario and
control endpoints, `requestWorker` (`NewTicker`, `Tick`), one goroutine per request,
`metricsWorker` (`Collect`, `CloseWindow`), and `processSamples` with the two Redis
keys of one statistic, call by call. `MCBaselines` checks servers and client side by
side, not composed: the client is never told which request was answered by whom, and the
servers only need requests that arrive at any time.

### QLBaseline

Every Redis call is an action. `rpc[r]` is `HandleClient` of the balancer (draw two
nodes, read the two counters and the two weights one by one, choose, call); `jpc[j]` is
`HandleRequest` of a backend (`AddHSet`, `AddIncr`, `Run`, `FinishHDel`, `FinishDecr`),
each with the error the code ignores: a failed GET reads 0, a failed SMEMBERS
is no nodes and a panic, a failed write changes nothing. `MaxFaults` bounds failed calls of
jobs and deaths only, which are what moves a counter away from its jobs; reads, the weight
and the ages fail at any time. `AgeCopy` and `AgeWrite` are the `AgeUpdater`, which
writes a copy of the hash back field by field; `ControlTick`, `ComputeState` and
`SetWeight` are the `ControlLoop`. Weights are in units of Eta / 2. The ages and the
EMA only enter a node's state as a factor that is left open. A GET
whose connection broke is sent again by net/http, and becomes a new job.
`drift` and `overtaken` are history variables: what faults did to a counter, and the jobs
deleted while an AgeUpdater held a copy.

### MetricsDB, MetricsLoggers and CPUStat

`at[l]` is where logger `l` is in `insert`: `GetPool` is one action under the
mutex, and `ensureTables` is split where it gives the mutex up: `CheckTables`, one
`Exec` per CREATE, then `DDLFailed` or `Ensured`. A rate limit is a flag that an attempt
sets and that expires at any time (`InitExpires`, `DDLExpires`).

`CpuTick` and `MemoryTick` are one turn of a logger up to the insert. There are eight
sources with a counter that is kept between turns, and they only meet in the order of their
error paths: so a behaviour follows one of them, `watched`, through readings that may
fail. Each has the subtraction of the code (`Unsigned`, `Signed`, `PerfDelta`) on
counters of `Width` values, and `readCgroupCPUStat` may change to its v1 file between
readings. `excess` is a history variable: what the records say it grew by, less what it
grew by. The gauges of the loggers (load, RSS, memory, PSI, buddyinfo, ECC) keep
nothing and are left out. `CPUStat` has `parseCPUTimes` and `computeBreakdownPct`;
percentages are ticks out of a whole.

### RaftElection

`AttempElection` stands and starts one `CallRequestVote` per peer, which reads the term
anew (`CallRequestVote`), so that it may ask for votes in a term its node no longer
stands for. `HandleRequestVote` is the voter's critical section together with the count of the
answer, which nobody reads before all calls are back (`wg.Wait`, `CountVotes`). `main`
of the program lets one node stand once; the model lets every node stand again and again,
also while an earlier `AttempElection` of it still waits, since nothing in the code looks for
one. `votes` and `term` are local to each call of it: an attempt is a node and the
term it took under the lock, and it keeps votes of its own. What it does not keep to itself is the
state: `CountVotes` looks whether the node is a candidate by now, in whatever term.
`granted` and `elected` are history variables: every vote, and every leader with the attempt
that counted.

## 3. Runs

| Run | Instance | What it shows |
|---|---|---|
| `backend` | 2 requests, 1 place, channel of 1, 1 death | slot accounting, exact windows, current publications, refinement of `AdmissionControl`; admitted requests are answered, windows close, Redis converges |
| `weights` | client and 2 backends, 2 updates, 1 failure | normalised at rest, floor, no missing weightC without a failure |
| `balancer` | 1 handler, 3 backends of 2 places, top-2, 2 requests, 1 restart | the draw under moving gauges and EWMA; the penalty of failures; published counts and restart |
| `balancer_alone` | 1 handler, TOP_K = 1, two triples, 2 requests | one triple per request if handlers do not overlap; requests end, in the panic of TOP_K = 1 too |
| `balancer_torn_weights` | 2 handlers, two triples | **violation**: torn weights |
| `client` | two rates, sample cap 1, window cap 1, channel of 1 | windows partition what is recorded and are off by one at most; a new rate takes effect; records are reported |
| `system` | 2 requests, 2 backends of 1 place, 1 death, 1 restart | places kept, refinement of `AdmissionControl` per backend and of `DeliveryContract`; a full backend is offered again |
| `baselines` | 2 backends; per program 1 or 2 requests, reports and faults as below; client with 3 latencies, 2 requests | queueSize, rotation, RL feedback, extrema, refinement of `DeliveryContract` |
| `ql` | 2 requests, 2 nodes, 2 jobs, 1 fault | exact counters, what the job hash may hold, range of the weights |
| `metrics` | 2 loggers, 2 statements, 2 faults, 4-valued counters | growth is told once; inserts resume |
| `metrics_latched` | the same, 1 fault | **violation**: a DDL error ends all inserts |
| `raft` | 3 nodes, terms up to 3, 4 attempts | a second leader of a term only by a late count |

**Why the bounds suffice.**

* Backend: two requests on one place is the smallest backend on which a request is
  refused while another one comes and goes; a channel of one makes `RaSend` block, which a
  channel of 1000 would hide; a window of two completions exceeds `Ramax`, so the cap
  acts. One death is enough to leave a
  stale hash behind, since a restart forgets everything else.
* Weights: two updates and one failure let one worker give up half-way while another one
  overwrites it, beside the start-up of the client and of the balancer. Epsilon is at
  its maximum, where clamps and rounding act most.
* Balancer: top-2 of three backends is the smallest sorted cut that leaves somebody
  out, with two places per backend so that three scores can differ; two requests are
  enough for the round trip of one to change the EWMA the other one reads. Latencies 1, 3
  and 6 of a scale of 4 lie below and above saturation; Timeout 16 is above the floor of
  a failed sample. There is one handler in `balancer`; that its properties hold for any
  number of concurrent ones is proved. `balancer_torn_weights` has two.
* Client: `MaxWindow` bounds the requests between two ticks of the reporter (the
  real bound is the rate times 10 s). With a cap of one a window still takes a loss and
  a sample of the request before it, and reaches its sample cap.
* System: with one place per backend the second request meets a full backend that still
  looks free, or that still works on the first one after the balancer has given it up.
  Redis may hold stale hashes from the start, so that no backend may seem free.
* Baselines: RandomTwoPoint makes up to three attempts for one request, with one
  report under way and one death; RoundRobin has two requests on two backends, the
  smallest rotation that wraps while it fails over; RL has two requests with two reports
  that can overtake each other, and one death or restart. The client sends two requests,
  one per window or both in one, and its latencies include 0, which `updateMinMax`
  treats as missing.
* QL: two jobs on the same or on different nodes, one of them possibly re-created by an
  AgeUpdater while the other one finishes; one failed call or death.
* Metrics: two CREATE statements (the code has four) leave a point between the first and
  the last at which the other logger can finish. `Width` 4 with counters up to 1 keeps the
  relation of the code, where counters stay below half of 2^64.
* Raft: three terms and four attempts have the late count in both ways. Node 1 has a
  majority in term 1 and has not counted when it stands again in term 2, or when node 3
  pushes it to term 2 and it stands again in term 3; the first attempt counts and makes it
  leader of the newer term, which node 2 wins too. The run reaches this: "one leader
  per term" without a condition is violated in it.

The proofs of section 4 drop these bounds for the safety properties they cover.

`CHECK_DEADLOCK FALSE` is set where the bounded model stops when its updates,
requests, jobs or terms are used up (weights, balancer, baselines, QL, Raft), and in
the metrics runs, where both loggers may have ended, as they do without a DSN. The
backend, client and system runs check deadlock: their goroutines loop for
ever, and one that could not go on is a fault.

Symmetry is used in runs without liveness properties only. For each property there is a
mutant, a plausible bug in one definition (a lock left out, an off-by-one, a missing reset),
that makes TLC report the property; the operators are marked `Mutant` in the modules.

### Fairness

* Backend: each goroutine is scheduled, Postgres and Redis answer or fail
  (go-redis has read timeouts), the container is restarted. Steps that wait for
  `metrixMu` are strongly fair: `sync.RWMutex` blocks new readers once a writer
  waits, and `sync.Mutex` hands the lock to a waiter that has waited for 1 ms.
  Weak fairness would allow the publisher to take the lock again and again.
  Nothing is assumed of panics or arrivals. `GaugeConverges` supposes that the
  process eventually stays up.
* Client: tickers fire and Redis calls return. `http.DefaultClient` has no
  timeout, so that the loop goes on rests on the balancer's answers (`RequestsEnd`) or
  on a broken connection. Steps that wait for `window.mu` are strongly fair, as above.
* Balancer: weak fairness of the handler's own progress. Redis calls have
  timeouts, the forward has `probeTimeout`, and gin recovers panics. Which of the
  outcomes happens is left open. The two waits on a lock are short critical
  sections that never block.
* System: handlers run, the database answers, `client.Do` returns because it has a
  timeout, and a dead container is restarted, all weakly fair. `Push` is strongly fair: the
  ticker of a backend fires as long as the process comes back, although a death disables
  it. Deaths are never assumed; `Readmitted` supposes that they end.
* Metric loggers: their goroutines are scheduled, calls to the database end, and time
  passes, so that rate limits expire. `InsertsResume` supposes that no DDL error stays
  latched; that it can is the finding below.

The other modules state no fairness and have safety properties only.

### Findings

1. The globals A, B, C are assigned and read without a lock
   (`CQS/balancer/main.go:176`, 249): candidates of one request are compared with a
   triple that Redis never held, or with different triples, where README:290 defines
   the score with one α, β, γ. With handlers that do not overlap (`balancer_alone`)
   this cannot happen.
2. `ensureTables` (`CQS/balancer/metrix/db/postgres_metrics.go:82`) returns a kept error
   without looking at its age once the tables exist. Both loggers run the DDL at the
   same time at start-up; if one finishes and a statement of the other then fails, neither
   ever inserts a row again, where the comment in line 87 speaks of a rate limit.

Seen while modelling, without a run of their own:

* `TOP_K=1` is accepted (`CQS/balancer/main.go:78`) and makes `rand.Intn(k-1)` panic
  (268): a request with two valid backends is answered 500 (`DrawFails`).
* A 429 is recorded as a fast success (437), so refusing makes a backend look
  quicker.
* `updateMinMax` of the baselines' clients
  (`Baseline/RandomTwoPoint/client/main.go:70`) says "if min is 0 or uninitialized, we
  take the first value"; the code only looks at uninitialized, so a first value of 0
  stays the minimum for ever (`SetMin`).
* A falling iowait, which proc(5) allows, makes the busy shares of
  `computeBreakdownPct` larger than the usage (`linux_sysmetrics.go:131`).
* `golang/raft/main.go:75` compares the state of the node and not the term for which
  the votes were given, so that two nodes can lead one term once a node stands more than
  once at a time. `main` does not do that, and no comment, text or test of the program
  promises one leader per term; hence no run with a violation, but a property that says
  when it can happen.

## 4. Proofs

All theorems hold for every value of the constants that satisfies the named
assumptions in the modules (positive capacities, finite sets, distinct markers,
Epsilon in 1..200, which is where the code clamps it).

**CQSBackendProofs.** The inductive invariant `IInv` has six parts:
`TypeOK`; `LockOwners` (the lock is held by whoever is in a critical section, and
the publisher's snapshot is the gauge); `SlotAccounting`; `WindowOwners` (a request
waiting to be credited has completed and counted); `WindowExact`; `RefusedLeft` (a 429 is a
handler that has left and never owned a place). Slot accounting alone is not inductive: `Take`
needs to know that nobody moved the gauge since `Check`, which is the lock's doing;
`Release` needs that the place it returns is its own. From `IInv` follow
`TypeCorrect`, `SlotsConserved`, `CompletionsCounted`, `PublishesCurrentGauge`
and `GaugeImplementsAdmission`, where each step is shown to be a step of
`AdmissionControl` or a stutter; the cardinality lemmas for adding and removing one
member carry the arithmetic.

`LockIsGivenBack` is what can be proved of the liveness properties: that nobody waits
for `metrixMu` for ever because of somebody who waits for them. `UpdateRa` keeps the lock
while `JobChannel` is full, so the wait can depend on the weight worker. `HeldFor` bounds
the steps that are left, `Drives` are the steps of the holder and of the worker it waits
for: as long as the lock cannot be taken, one of them has its guard true (`Unblocked`, which
needs `RaNeedsProcess`: only a running process updates Ra), each lowers `HeldFor`,
and no other step raises it. That those steps are taken is the fairness TLC's run assumes.

**CQSWeightsProofs.** Normalising divides three clamped values, each in
100..1000, by their sum; the smallest quotient is 100/2100, which gives the floor,
and each division loses less than one, which gives 998..1000. `WeightsNeverVanish`
needs in addition that registers and views hold floored values or `Missing`.
`WeightsNormalizedAtRest` needs that whenever the hash is not normalised,
somebody is between `HSet` and the end of a normalisation, or has given up.
`PanicNeedsFailure` follows the start-up: `SeededBeforeTraffic` says that without a
failure the third field is set before the first request, `Bookkeeping` and `Flags` that
nobody removes it and that every panic has a missing field behind it.

**CQSBalancerProofs.** `ChoiceAmongBest` is about operators: among the first k in
score order at most k - 2 are strictly better than the winner of a draw of two.
`PicksAmongBest` carries it through the running system (`PickSound`: what a handler
has picked is a choice from the scores and readings it still holds; `CandidateSound`: the
backend it is scoring is one of those it has rated). `WorstStaysUnmeasured`
follows: the strictly worst candidate never wins a draw, so that its average does not move
until the balancer restarts, a consequence of the draw that the code does not correct. `PublishesNoFuture` has
`PayloadNeverAhead` as its strengthening: a payload under way is a past value of
counts that only grow. `FailuresPenalised` is arithmetic on the truncated average.
`OneTripleWhenAlone` assumes that there is at most one handler (`Alone`): its invariant
`TripleOK` says which of the globals already hold the triple the handler has read, and
that the scores so far were made with it. Without the assumption the property is false,
as `balancer_torn_weights` shows. The metric loggers run in the balancer's process, and
their theorems are in this module too: it extends `MetricsLoggers`, whose specification
has names of its own (`LoggersInit`, `LoggersNext`, `LoggersSpec`) for that reason.
`GrowthIsToldOnce` assumes, as that module does, that half the width of a counter
exceeds its range; then each of the three subtractions is the growth since the last good
reading, or congruent to it. `InsertsFindTables` has `TablesOK` as its invariant: a logger at
statement n has seen the n - 1 before it created, which no other logger can undo; so an
INSERT only fails when the database does, and only the latched error of
`metrics_latched` ends the inserts. `BreakdownConsistent` is about operators, for counters that
only count up.

**CQSClientProofs.** `IInv` is `TypeOK`, `LockHeld`, `ReportedOnce` and `Balanced`: a
request whose sending is recorded and whose loss or sample is not is one step
ahead, so that the window before it may be one behind but never two.
`PercentileIsNearestRank` is arithmetic on quotients by constants and also shows
that the two clamps of `percentile` never act. No run repeats it: a theorem about an
operator with integer arguments needs no states.

**CQSSystemProofs.** `IInv` is `TypeOK`, `Stages` and `PlacesKept`. `Stages` relates the
two handlers of a request: it is with a backend only after the balancer sent it
there, its result says what its query did, and the query ran at most once. With it
every step of the system is a step or a stutter of each backend's `AdmissionControl`
(`SystemImplementsAdmission`) and of `DeliveryContract` with one attempt
(`SystemImplementsDelivery`); a death is the step that empties a backend, a restart of the
balancer the one in which all waiting clients hear a failure.

**QLBaselineProofs.** `CounterExact` follows a counter job by job: each step of
`HandleRequest` moves one job into or out of the set `Counting` and the counter by one, or
the history `drift` instead. `HashTracked` needs `CopiesKnown`: what an AgeUpdater still
has to write back is in progress or was deleted after it was copied. `Routed` gives
the handlers nodes to read and call, and `TypeCorrect` includes the range of the weights.

**BaselineProofs.** The inductive invariant `IInv` of the three baselines is `TypeOK`,
`AttemptsLeft` (who may still send has attempts left), `CallsTracked` (a call is known by
its request and its number) and `QueueIsRunning`. They need each other: that the counter
stays a natural number when a handler returns is what `QueueIsRunning` says of that handler.
`BaselinesDeliver` needs `Served`: the queries that ran and the calls that may still run
theirs are together no more than the attempts, which is why a call that timed out and
runs later breaks no bound. `RotationSpreads` follows two numbers: `counter` is N * d + m
when the first m backends were the start of d + 1 requests and the others of d
(`StartsEven`), and the n-th call of a request goes n - 1 steps past its start
(`RotationKept`), so that N calls meet every residue once (`RotationMeets`).
`FeedbackFindsState` needs to know who may still report: `Owing(b)` holds the requests
to b that are chosen, on the wire, running or on their way back as a report, and
`OwedKept` says that the FIFO of b is at least as long. A handler that has chosen b and not
pushed yet owes nothing, so that choosing leaves all of this alone (`Visible`). `ReportsTracked` (a report is of
a call that has run, one at most of each) makes a report that is used up leave `Owing`. For
`ExtremaAreKept`, with latencies that are natural numbers, `Undisturbed` says how far the
only window in processing has come: both keys hold the extrema of the windows `before` it,
and from `SetMax` on the larger one already covers it. Max and Min of finite sets are taken
from `LargestExists`: the strict subsets of a finite set are well founded, so a smallest
set without a largest element leads to a contradiction.

**RaftElectionProofs.** `TimelyLeaderIsUnique`: two leaders of a term, neither by
a late count, would have two majorities of `granted` votes, which meet in a voter, and a voter
votes once in a term (`VotesKept`). That such a leader had its votes in the term it leads is the
difficulty, since calls read the term late, and attempts of one node overlap:
`CandidatesStood` says that a candidate has stood in the term it is in, `CallsCurrent` that
a call asks in the term of its attempt or a later one, and `VotesCurrent` that the votes
an attempt holds were given in its own term, as long as its node is in that term.
`LeadersStood` follows: a leader stood in its term, and had a majority of that term's votes unless
an earlier attempt counted.

**Only model-checked:** the liveness properties (fairness and ENABLED are out of the
prover's reach: `AdmittedIsAnswered`, `WindowCloses`, `GaugeConverges`, `RequestsEnd`,
`RateTakesEffect`, `RequestsReported`, `Readmitted`, `InsertsResume`) and the findings,
which are counterexamples. `LockIsGivenBack` and `InsertsFindTables` are the safety those of the
backend and of the loggers rest on. Every safety property that a passing run checks is a theorem.
That recursive or folded definitions compute what they should for every input (the sum of
the queues in `TotalQueue`, the sort in `CQSSelect`) would need induction over data through
theorems that take an operator, which the installed provers cannot instantiate; the theorems
use of `TotalQueue` only that any number has a state, and of the sort only what its result
is chosen to be.

## 5. What is not modelled

* Float rounding: fixed-point numbers stand for float64. Nothing checked depends on
  digits beyond the third.
* SQL text and rows: success or error. Formatting, logging, CSV and Makefile: no
  property is about them. Deployment and data: no behaviour.
* `TestPhanBoServer`/`ArrayServer`: a tally that is printed only.
* A hash with some of its three fields missing, as the balancer sees it:
  `LoadWeightValues` then keeps the old value of the missing ones. `CQSWeights`
  has such hashes; `CQSBalancer` has complete ones and failed reads.
* `PCT` fields in Redis: they are written and never read; only the failure of
  the write matters and is modelled.
* `Freq` and the two moving averages of the CQS client, their values and the race on
  them: a job may ask for anything its type can ask for.
* Metric packages: gauges that keep nothing between readings, the record's formatting, the
  branch for a wall clock that does not advance, and the copies of the packages in
  `CQS/backend` and `Baseline/RL/Backend`, which no file imports. A falling iowait
  is outside `CPUStat!Later`.
* RL: the balancer's handling of one report is one action; the code updates
  the FIFO, the table and the counter under three locks, one after the other.
* The wrap of `rrCounter` at 2^64 and of int64 queue counters: no deployment reaches it.
* QL: the numbers of the EMA and of job ages.
* `golang`, apart from `raft`: exercises of a screen each, which share no state with
  anything.

## 6. What could come next

1. `CQSSignals`: `Freq`, CP and the two moving averages in fixed point, composed
   with `CQSClient`: how long one change of the signal keeps asking for weight changes.
2. Concurrent handlers in `CQSSystem` with scores and EWMA instead of a free
   choice, on backends of a few places.
