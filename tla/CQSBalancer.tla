------------------------------ MODULE CQSBalancer ------------------------------
(***************************************************************************)
(* The CQS balancer process (CQS/balancer/main.go): concurrent /balance    *)
(* handlers that load the weights into the globals A, B, C, read the       *)
(* backends' gauges from Redis, score, draw, count and forward, and the    *)
(* goroutine that publishes the dispatch counts.  Redis and the backends   *)
(* are the environment: gauges and weights move on their own, and a        *)
(* forwarded request is answered, refused or timed out.                    *)
(***************************************************************************)
EXTENDS CQSSelect

CONSTANTS
  Handlers,      \* /balance requests that can be in progress at a time
  Backends,      \* the addresses under vps:*
  TotalQueue,    \* their TotalQueue
  Weights,       \* the triples key:weightValue goes through
  Timeout,       \* probeTimeout, in the unit of LatencyScale
  Latencies,     \* round-trip times of answers, below Timeout
  MaxRequests,   \* bound: requests accepted
  MaxRestarts    \* bound: restarts of the balancer

ASSUME CQSBalancerAssumption ==
  /\ IsFiniteSet(Backends) /\ "none" \notin Backends
  /\ TotalQueue \in Nat \ {0}
  /\ Weights \subseteq [a : Nat \ {0}, b : Nat, c : Nat]
  /\ [a |-> 800, b |-> 100, c |-> 100] \in Weights
  /\ Timeout \in Nat /\ Latencies \subseteq 0..Timeout
  /\ MaxRequests \in Nat /\ MaxRestarts \in Nat

VARIABLES
  hash,          \* key:weightValue in Redis
  free,          \* FreeQueue of each backend in Redis
  abc,           \* the globals A, B, C
  ewma,          \* latencyEwmaMs, 0 when absent
  dispatch,      \* dispatchCounts
  published,     \* dispatch:counts in Redis
  pushing,       \* the payload pushDispatchCounts is writing, or NoPayload
  pc,            \* of each handler
  view,          \* the weights its HGetAll returned
  gauge,         \* the gauges it has read
  candidate,     \* the backend it is scoring, and the EWMA it has read for it
  loaded,        \* the globals it has loaded since
  score,         \* the scores it has computed
  used,          \* history: the weight triples it has scored with
  chosen,        \* the backend it picked
  answer,        \* what it answered, "none" while it works on a request
  requests, restarts,
  leftover       \* history: a restart failed to delete dispatch:counts

redis   == <<hash, free>>
counts  == <<dispatch, published, pushing, leftover>>
request == <<view, gauge, candidate, loaded, score, used, chosen, answer>>
bounds  == <<requests, restarts>>
vars == <<redis, abc, ewma, counts, pc, request, bounds>>

-----------------------------------------------------------------------------
Triples   == [a : Nat, b : Nat, c : Nat]
InitialABC == [a |-> 800, b |-> 100, c |-> 100]
Zero      == [b \in Backends |-> 0]
NoPayload == [b \in Backends |-> -1]
NoBackend == "none"
CP        == 50              \* clamp(CP, 0, 1) of a request
Skipped   == [total |-> 0, free |-> 0, ramax |-> 0]   \* HGetAll failed
Unread    == [b \in {} |-> Skipped]
NoCandidate == [of |-> NoBackend, ms |-> 0]

\* What calculatePnew rates: the readings that pass its three checks.
Rated(h) == {b \in DOMAIN gauge[h] : Eligible(gauge[h][b])}

Idle(h) ==
  /\ view' = [view EXCEPT ![h] = InitialABC]
  /\ gauge' = [gauge EXCEPT ![h] = Unread]
  /\ candidate' = [candidate EXCEPT ![h] = NoCandidate]
  /\ loaded' = [loaded EXCEPT ![h] = InitialABC]
  /\ score' = [score EXCEPT ![h] = Zero]
  /\ used' = [used EXCEPT ![h] = {}]
  /\ chosen' = [chosen EXCEPT ![h] = NoBackend]
  /\ pc' = [pc EXCEPT ![h] = "idle"]

Reply(h, status) == Idle(h) /\ answer' = [answer EXCEPT ![h] = status]

Goto(h, stage) == pc' = [pc EXCEPT ![h] = stage]

Init ==
  /\ hash \in Weights /\ free = [b \in Backends |-> TotalQueue]
  /\ abc = InitialABC /\ ewma = Zero
  /\ dispatch = Zero /\ published = Zero
  /\ pushing = NoPayload /\ leftover = FALSE
  /\ pc = [h \in Handlers |-> "idle"]
  /\ view = [h \in Handlers |-> InitialABC]
  /\ gauge = [h \in Handlers |-> Unread]
  /\ candidate = [h \in Handlers |-> NoCandidate]
  /\ loaded = [h \in Handlers |-> InitialABC]
  /\ score = [h \in Handlers |-> Zero]
  /\ used = [h \in Handlers |-> {}]
  /\ chosen = [h \in Handlers |-> NoBackend]
  /\ answer = [h \in Handlers |-> "none"]
  /\ requests = 0 /\ restarts = 0

-----------------------------------------------------------------------------
(***************************************************************************)
(* Redis, written by the other processes.                                  *)
(***************************************************************************)
WeightsMove ==
  /\ \E w \in Weights \ {hash} : hash' = w
  /\ UNCHANGED <<free, abc, ewma, counts, pc, request, bounds>>

GaugeMoves ==
  /\ \E b \in Backends, n \in 0..TotalQueue : free' = [free EXCEPT ![b] = n]
  /\ UNCHANGED <<hash, abc, ewma, counts, pc, request, bounds>>

(***************************************************************************)
(* One /balance request.                                                   *)
(***************************************************************************)
\* BindJSON accepts the body (the answer is 400 otherwise), and the weights
\* are read; an error leaves the globals as they are.
Accept(h) ==
  /\ pc[h] = "idle" /\ requests < MaxRequests /\ requests' = requests + 1
  /\ \/ /\ view' = [view EXCEPT ![h] = hash] /\ Goto(h, "setA")
     \/ UNCHANGED view /\ Goto(h, "list")
  /\ answer' = [answer EXCEPT ![h] = "none"]
  /\ UNCHANGED <<redis, abc, ewma, counts, gauge, candidate, loaded, score, used,
                 chosen, restarts>>

RejectBody(h) ==
  /\ pc[h] = "idle" /\ requests < MaxRequests /\ requests' = requests + 1
  /\ Reply(h, "400")
  /\ UNCHANGED <<redis, abc, ewma, counts, restarts>>

\* Mutant: B is not loaded.
SetWeightWithoutB(h) ==
  /\ \/ /\ pc[h] = "setA" /\ abc' = [abc EXCEPT !.a = view[h].a] /\ Goto(h, "setC")
     \/ /\ pc[h] = "setC" /\ abc' = [abc EXCEPT !.c = view[h].c] /\ Goto(h, "list")
  /\ UNCHANGED <<redis, ewma, counts, request, bounds>>

\* LoadWeightValues assigns the three globals one by one, without a lock.
SetWeight(h) ==
  /\ \/ /\ pc[h] = "setA" /\ abc' = [abc EXCEPT !.a = view[h].a] /\ Goto(h, "setB")
     \/ /\ pc[h] = "setB" /\ abc' = [abc EXCEPT !.b = view[h].b] /\ Goto(h, "setC")
     \/ /\ pc[h] = "setC" /\ abc' = [abc EXCEPT !.c = view[h].c] /\ Goto(h, "list")
  /\ UNCHANGED <<redis, ewma, counts, request, bounds>>

\* GetListVPS: one HGETALL per key; a key whose read fails is left out.
ReadGauge(h) ==
  /\ pc[h] = "list"
  /\ \E b \in Backends \ DOMAIN gauge[h] :
       \E g \in {[total |-> TotalQueue, free |-> free[b], ramax |-> 1], Skipped} :
         gauge' = [gauge EXCEPT ![h] =
                     [x \in DOMAIN @ \cup {b} |-> IF x = b THEN g ELSE @[x]]]
  /\ IF DOMAIN gauge'[h] = Backends THEN Goto(h, "score") ELSE UNCHANGED pc
  /\ UNCHANGED <<redis, abc, ewma, counts, view, candidate, loaded, score, used,
                 chosen, answer, bounds>>

\* The scoring loop: for each backend it reads the EWMA, under latencyMu, and
\* loads A, B and C one by one, without a lock.  Score 0 is "not scored yet" (a
\* score is never 0, since CP = 0 is replaced by e).
Scored(h) == pc[h] = "score" /\ \A b \in Rated(h) : score[h][b] # 0

ReadLatency(h) ==
  /\ pc[h] = "score"
  /\ \E b \in Rated(h) :
       /\ score[h][b] = 0
       /\ candidate' = [candidate EXCEPT ![h] = [of |-> b, ms |-> ewma[b]]]
  /\ Goto(h, "loadA")
  /\ UNCHANGED <<redis, abc, ewma, counts, view, gauge, loaded, score, used,
                 chosen, answer, bounds>>

LoadWeight(h) ==
  /\ \/ /\ pc[h] = "loadA"
        /\ loaded' = [loaded EXCEPT ![h].a = abc.a] /\ Goto(h, "loadB")
     \/ /\ pc[h] = "loadB"
        /\ loaded' = [loaded EXCEPT ![h].b = abc.b] /\ Goto(h, "loadC")
  /\ UNCHANGED <<redis, abc, ewma, counts, view, gauge, candidate, score, used,
                 chosen, answer, bounds>>

ScoreOne(h) ==
  LET b == candidate[h].of
      w == [loaded[h] EXCEPT !.c = abc.c] IN
  /\ pc[h] = "loadC"
  /\ score' = [score EXCEPT ![h][b] = Score(w, CP, gauge[h][b], candidate[h].ms)]
  /\ used' = [used EXCEPT ![h] = @ \cup {w}]
  /\ candidate' = [candidate EXCEPT ![h] = NoCandidate]
  /\ loaded' = [loaded EXCEPT ![h] = InitialABC]
  /\ Goto(h, "score")
  /\ UNCHANGED <<redis, abc, ewma, counts, view, gauge, chosen, answer, bounds>>

\* Mutant: it reads the gauges again until a backend is free.
NoneAvailableRetries(h) ==
  /\ Scored(h) /\ Rated(h) = {}
  /\ gauge' = [gauge EXCEPT ![h] = Unread]
  /\ Goto(h, "list")
  /\ UNCHANGED <<redis, abc, ewma, counts, view, candidate, loaded, score, used,
                 chosen, answer, bounds>>

NoneAvailable(h) ==
  /\ Scored(h) /\ Rated(h) = {}
  /\ Reply(h, "500")
  /\ UNCHANGED <<redis, abc, ewma, counts, bounds>>

\* rand.Intn(0) panics; gin answers 500.
DrawFails(h) ==
  /\ Scored(h) /\ DrawPanics(Rated(h))
  /\ Reply(h, "500")
  /\ UNCHANGED <<redis, abc, ewma, counts, bounds>>

Draw(h) ==
  /\ Scored(h) /\ Rated(h) # {} /\ ~DrawPanics(Rated(h))
  /\ \E b \in Choices(Rated(h), score[h]) : chosen' = [chosen EXCEPT ![h] = b]
  /\ Goto(h, "pct")
  /\ UNCHANGED <<redis, abc, ewma, counts, view, gauge, candidate, loaded, score,
                 used, answer, bounds>>

\* UpdateRedisPCT writes the PCT fields, which nobody reads; an error panics.
PctFails(h) ==
  /\ pc[h] = "pct" /\ Reply(h, "500")
  /\ UNCHANGED <<redis, abc, ewma, counts, bounds>>

\* UpdateRedisPCT succeeds and incrementDispatch counts, under dispatchMu.
CountDispatch(h) ==
  /\ pc[h] = "pct"
  /\ dispatch' = [dispatch EXCEPT ![chosen[h]] = @ + 1]
  /\ Goto(h, "forward")
  /\ UNCHANGED <<redis, abc, ewma, published, pushing, leftover, request, bounds>>

Record(b, ms, success) ==
  ewma' = [ewma EXCEPT ![b] = Ewma(@, ms, success)]

\* The backend answers in time: the status is passed on, or 502 when the body
\* breaks off.  A status below 500 counts as a success.
Answered(h) ==
  /\ pc[h] = "forward"
  /\ \E status \in {"200", "400", "429", "500"}, ms \in Latencies :
       /\ Record(chosen[h], ms, status # "500")
       /\ Reply(h, status) \/ Reply(h, "502")
  /\ UNCHANGED <<redis, abc, counts, bounds>>

\* The connection breaks, or probeTimeout passes.
Unanswered(h) ==
  /\ pc[h] = "forward"
  /\ \E ms \in Latencies \cup {Timeout} : Record(chosen[h], ms, FALSE)
  /\ Reply(h, "502")
  /\ UNCHANGED <<redis, abc, counts, bounds>>

(***************************************************************************)
(* pushDispatchCounts: snapshot under dispatchMu, HSet outside.            *)
(***************************************************************************)
PushStart ==
  /\ pushing = NoPayload /\ dispatch # Zero
  /\ pushing' = dispatch
  /\ UNCHANGED <<redis, abc, ewma, dispatch, published, leftover, pc,
                 request, bounds>>

\* HSet writes the fields of the payload; its error is ignored.
PushDone ==
  /\ pushing # NoPayload
  /\ \/ published' = [b \in Backends |-> IF pushing[b] > 0 THEN pushing[b]
                                         ELSE published[b]]
     \/ UNCHANGED published
  /\ pushing' = NoPayload
  /\ UNCHANGED <<redis, abc, ewma, dispatch, leftover, pc, request, bounds>>

\* Mutant: the counts in Redis survive.
ResetInMemory == dispatch' = Zero /\ UNCHANGED <<published, leftover>>

\* The Del may fail unnoticed.
ResetDispatchCounts ==
  /\ dispatch' = Zero
  /\ \/ published' = Zero /\ leftover' = FALSE
     \/ UNCHANGED published /\ leftover' = (leftover \/ published # Zero)

\* The container restarts with fresh maps.  HasAnyKey finds a key, and the
\* weights are loaded unless that fails; or it finds none, even on a Redis that
\* is not empty, and setRedis and SetupWeightValues write the defaults.
Restart ==
  /\ restarts < MaxRestarts /\ restarts' = restarts + 1
  /\ \/ abc' \in {hash, InitialABC} /\ UNCHANGED redis
     \/ /\ abc' = InitialABC /\ hash' = InitialABC
        /\ free' = [b \in Backends |-> TotalQueue]
  /\ ewma' = Zero
  /\ ResetDispatchCounts /\ pushing' = NoPayload
  /\ pc' = [h \in Handlers |-> "idle"]
  /\ view' = [h \in Handlers |-> InitialABC]
  /\ gauge' = [h \in Handlers |-> Unread]
  /\ candidate' = [h \in Handlers |-> NoCandidate]
  /\ loaded' = [h \in Handlers |-> InitialABC]
  /\ score' = [h \in Handlers |-> Zero]
  /\ used' = [h \in Handlers |-> {}]
  /\ chosen' = [h \in Handlers |-> NoBackend]
  /\ UNCHANGED <<answer, requests>>

-----------------------------------------------------------------------------
Serve(h) ==
  \/ Accept(h) \/ RejectBody(h) \/ SetWeight(h) \/ ReadGauge(h)
  \/ ReadLatency(h) \/ LoadWeight(h) \/ ScoreOne(h)
  \/ NoneAvailable(h) \/ DrawFails(h) \/ Draw(h) \/ PctFails(h)
  \/ CountDispatch(h) \/ Answered(h) \/ Unanswered(h)

Next ==
  \/ WeightsMove \/ GaugeMoves
  \/ \E h \in Handlers : Serve(h)
  \/ PushStart \/ PushDone \/ Restart

Spec == Init /\ [][Next]_vars

(***************************************************************************)
(* Fairness: an accepted request goes on, since Redis calls have timeouts, *)
(* a forwarded one is bounded by probeTimeout, and a panic in a handler is *)
(* recovered by gin.  Nothing is assumed of arrivals, of the environment,  *)
(* or of which of its outcomes happens.                                    *)
(***************************************************************************)
Progress(h) ==
  \/ SetWeight(h) \/ ReadGauge(h)
  \/ ReadLatency(h) \/ LoadWeight(h) \/ ScoreOne(h)
  \/ NoneAvailable(h) \/ DrawFails(h) \/ Draw(h) \/ PctFails(h) \/ CountDispatch(h)
  \/ Answered(h) \/ Unanswered(h)

FairSpec == Spec /\ \A h \in Handlers : WF_vars(Progress(h))

-----------------------------------------------------------------------------
Stages == {"idle", "setA", "setB", "setC", "list", "score",
           "loadA", "loadB", "loadC", "pct", "forward"}
Picked == {"pct", "forward"}

Gauges   == {g \in [total : 0..TotalQueue, free : 0..TotalQueue, ramax : 0..1] :
               g.free <= g.total}
Readings == UNION {[D -> Gauges] : D \in SUBSET Backends}
Payload  == [Backends -> Nat]

\* Every variable keeps its type; the triples in use and the EWMA stay natural
\* numbers, and a handler only ever holds readings of known backends.
TypeOK ==
  /\ hash \in Weights /\ free \in [Backends -> 0..TotalQueue]
  /\ abc \in Triples /\ ewma \in [Backends -> Nat]
  /\ dispatch \in Payload /\ published \in Payload
  /\ pushing \in Payload \cup {NoPayload}
  /\ pc \in [Handlers -> Stages]
  /\ view \in [Handlers -> Triples] /\ gauge \in [Handlers -> Readings]
  /\ candidate \in [Handlers -> [of : Backends \cup {NoBackend}, ms : Nat]]
  /\ loaded \in [Handlers -> Triples]
  /\ score \in [Handlers -> Payload] /\ used \in [Handlers -> SUBSET Triples]
  /\ chosen \in [Handlers -> Backends \cup {NoBackend}]
  /\ answer \in [Handlers -> {"none", "200", "400", "429", "500", "502"}]
  /\ requests \in 0..MaxRequests /\ restarts \in 0..MaxRestarts
  /\ leftover \in BOOLEAN

\* The request goes to a backend that had a free place when it was read, and
\* at most PoolSize - 2 of the others are strictly better: the draw is of two
\* different members of the pool, so its worst member never wins, although
\* scores are computed one by one while weights and EWMA move
\* (main.go:222-284).
PickedAmongBest ==
  \A h \in Handlers : pc[h] \in Picked =>
    LET E == Rated(h) IN
    /\ chosen[h] \in E
    /\ Cardinality(E) > 1 =>
         Cardinality(Better(E, score[h], chosen[h])) <= PoolSize(E) - 2

\* All candidates of a request are scored with one weight triple, and with one
\* that the hash really held (main.go:170-184, 249; README:284-290).
OneWeightTriple ==
  \A h \in Handlers : /\ Cardinality(used[h]) <= 1
                      /\ used[h] \subseteq Weights \cup {InitialABC}

\* A failed round trip (no answer, or a status of 500 and above) never makes
\* its backend look better, however slow it was before (main.go:93-111).
FailureKeepsPenalty ==
  [][\A h \in Handlers :
       /\ pc[h] = "forward" /\ pc'[h] = "idle" /\ restarts' = restarts
       /\ Unanswered(h) \/ answer'[h] = "500"
       => Penalty(ewma'[chosen[h]]) >= Penalty(ewma[chosen[h]])]_vars

\* What Redis shows as dispatched was dispatched by this process: a payload
\* written late is old but never ahead, unless a restart failed to delete the
\* previous process's counts (main.go:312-341).
PublishedNeverAhead ==
  ~leftover => \A b \in Backends : published[b] <= dispatch[b]

\* Every accepted request is answered, whatever Redis and the backends do.
RequestsEnd == \A h \in Handlers : (pc[h] # "idle") ~> (pc[h] = "idle")
=============================================================================
