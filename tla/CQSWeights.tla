------------------------------ MODULE CQSWeights ------------------------------
(***************************************************************************)
(* The shared weights of CQS: the Redis hash key:weightValue with the      *)
(* fields weightA, weightB, weightC.  The client's worker moves A (on CP)  *)
(* and B (on latency), every backend's worker moves C (on its rate), each  *)
(* with HGet, HSet and then a normalisation made of HGetAll and HSet.      *)
(* None of them locks anything, every Redis call can fail, and the         *)
(* balancer may seed the hash while the others are already at work.        *)
(*                                                                         *)
(* Weights are fixed-point numbers in units of 1/Scale, rounded down.      *)
(***************************************************************************)
EXTENDS Integers

CONSTANTS
  Backends,      \* the backends' workers
  Client,        \* the client's worker
  Epsilon,       \* WEIGHT_EPSILON in 1/Scale (0.02 by default, at most 0.2)
  MaxUpdates,    \* bound: updates that get past the cooldown
  MaxFailures    \* bound: failed Redis calls and losses of the hash

Scale == 1000

ASSUME CQSWeightsAssumption ==
  /\ Client \notin Backends
  /\ Epsilon \in 1..200
  /\ MaxUpdates \in Nat /\ MaxFailures \in Nat

VARIABLES
  hash,          \* key:weightValue; a missing field reads as Missing
  pc,            \* of each worker
  field, factor, \* the update a worker is making
  reg,           \* the value its HGet returned
  view,          \* the hash its normalisation read
  cooling,       \* (worker, field) pairs whose cooldown is running
  ready,         \* has the client finished start-up?
  balancer,      \* the balancer: "probe" (HasAnyKey), "setup", "up"
  traffic,       \* has a request passed the balancer yet?
  updates, failures,
  unsettled,     \* history: a worker gave up between its HSet and the end of
                 \* its normalisation, and no normalisation has ended since
  nilPanic       \* history: a backend died because weightC was missing

local   == <<field, factor, reg, view>>
history == <<unsettled, nilPanic>>
vars == <<hash, pc, local, cooling, ready, balancer, traffic,
          updates, failures, history>>

-----------------------------------------------------------------------------
Fields  == {"A", "B", "C"}
Workers == {Client} \cup Backends
Missing == 0      \* ParseFloat("") yields 0; no stored weight is 0
Minimum == 100    \* 0.1
Default == [f \in Fields |-> IF f = "A" THEN 800 ELSE 100]
NoHash  == [f \in Fields |-> Missing]

\* Mutant: 0.01 is returned for what is below 0.1.
ClampOffByTen(v) ==
  IF v < Minimum THEN Minimum \div 10 ELSE IF v > Scale THEN Scale ELSE v

Clamp(v) == IF v < Minimum THEN Minimum ELSE IF v > Scale THEN Scale ELSE v
Total(w) == w["A"] + w["B"] + w["C"]

\* normalizeWeights: clamp each weight, then divide it by the sum.
Clamped(w)   == [f \in Fields |-> Clamp(w[f])]
Normalize(w) == [f \in Fields |-> (Clamped(w)[f] * Scale) \div Total(Clamped(w))]

Scaled(v, k) == (v * k) \div Scale

Raises == {Scale + Epsilon, Scale + Epsilon \div 2}
Lowers == {Scale - Epsilon, Scale - Epsilon \div 2}

\* What a worker writes back: the client clamps, a backend does not.
NewValue(u) == IF u = Client THEN Clamp(Scaled(reg[u], factor[u]))
                             ELSE Scaled(reg[u], factor[u])

\* The start-up calls and the field each of them seeds.
SeedStages == {"seedA", "seedB", "seedC"}
SeedField(stage) == CASE stage = "seedA" -> "A" [] stage = "seedB" -> "B"
                      [] OTHER -> "C"
AfterSeed(stage) == CASE stage = "seedA" -> "seedB" [] stage = "seedB" -> "seedC"
                      [] OTHER -> "readAll"

-----------------------------------------------------------------------------
Init ==
  /\ hash = NoHash
  /\ pc = [u \in Workers |-> IF u = Client THEN "seedA" ELSE "idle"]
  /\ field = [u \in Workers |-> IF u = Client THEN "A" ELSE "C"]
  /\ factor = [u \in Workers |-> Scale]
  /\ reg = [u \in Workers |-> Scale]
  /\ view = [u \in Workers |-> Default]
  /\ cooling = {}
  /\ ready = FALSE
  /\ balancer = "probe" /\ traffic = FALSE
  /\ updates = 0 /\ failures = 0
  /\ unsettled = FALSE /\ nilPanic = FALSE

Fail == failures < MaxFailures /\ failures' = failures + 1

Goto(u, stage) == pc' = [pc EXCEPT ![u] = stage]

(***************************************************************************)
(* ensureWeightValues, one HSETNX at a time.  Its errors are ignored.      *)
(***************************************************************************)
Seed(u) ==
  /\ pc[u] \in SeedStages
  /\ Goto(u, AfterSeed(pc[u]))
  /\ LET f == SeedField(pc[u]) IN
       \/ /\ hash' = IF hash[f] = Missing
                     THEN [hash EXCEPT ![f] = Default[f]] ELSE hash
          /\ UNCHANGED failures
       \/ Fail /\ UNCHANGED hash
  /\ UNCHANGED <<local, cooling, ready, balancer, traffic, updates, history>>

(***************************************************************************)
(* updateWeight (client) and the body of StartWorker (backend).            *)
(***************************************************************************)
\* A job asks for an update whose cooldown is over.  The client's cooldown
\* starts here, before anything is written; a backend's at the end.
Begin(u) ==
  /\ pc[u] = "idle" /\ updates < MaxUpdates
  /\ IF u = Client THEN ready ELSE traffic
  /\ \E f \in IF u = Client THEN {"A", "B"} ELSE {"C"} :
     \E k \in IF f = "B" THEN Raises \cup Lowers ELSE Raises :
       /\ <<u, f>> \notin cooling
       /\ field' = [field EXCEPT ![u] = f]
       /\ factor' = [factor EXCEPT ![u] = k]
       /\ cooling' = IF u = Client THEN cooling \cup {<<u, f>>} ELSE cooling
  /\ reg' = [reg EXCEPT ![u] = Scale]
  /\ updates' = updates + 1
  /\ Goto(u, "get")
  /\ UNCHANGED <<hash, view, ready, balancer, traffic, failures, history>>

Get(u) ==
  /\ pc[u] = "get" /\ hash[field[u]] # Missing
  /\ reg' = [reg EXCEPT ![u] = hash[field[u]]]
  /\ Goto(u, "set")
  /\ UNCHANGED <<hash, field, factor, view, cooling, ready, balancer, traffic,
                 updates, failures, history>>

\* Mutant: redis.Nil reads as -1.
GetNilSentinel ==
  /\ pc[Client] = "get" /\ hash[field[Client]] = Missing
  /\ reg' = [reg EXCEPT ![Client] = -1]
  /\ Goto(Client, IF reg[Client] = Missing THEN "idle" ELSE "seedA")
  /\ UNCHANGED <<hash, field, factor, view, cooling, ready, balancer, traffic,
                 updates, failures, history>>

\* redis.Nil at the client: the value reads as 0, the hash is seeded and the
\* HGet repeated once.
GetNil ==
  /\ pc[Client] = "get" /\ hash[field[Client]] = Missing
  /\ reg' = [reg EXCEPT ![Client] = Missing]
  /\ Goto(Client, IF reg[Client] = Missing THEN "idle" ELSE "seedA")
  /\ UNCHANGED <<hash, field, factor, view, cooling, ready, balancer, traffic,
                 updates, failures, history>>

\* A panic ends a backend's process; the next one starts without a cooldown.
Restarted(b) == cooling' = cooling \ {<<b, "C">>} /\ Goto(b, "idle")

\* redis.Nil at a backend is an error like any other: panic.
GetNilPanic(b) ==
  /\ pc[b] = "get" /\ hash["C"] = Missing
  /\ nilPanic' = TRUE
  /\ Restarted(b)
  /\ UNCHANGED <<hash, local, ready, balancer, traffic, updates, failures, unsettled>>

GetFails(u) ==
  /\ pc[u] = "get" /\ Fail
  /\ IF u = Client THEN Goto(u, "idle") /\ UNCHANGED cooling ELSE Restarted(u)
  /\ UNCHANGED <<hash, local, ready, balancer, traffic, updates, history>>

\* Mutant: a backend leaves the normalisation to others.
SetOnly(u) ==
  /\ pc[u] = "set"
  /\ hash' = [hash EXCEPT ![field[u]] = NewValue(u)]
  /\ Goto(u, IF u = Client THEN "readAll" ELSE "idle")
  /\ UNCHANGED <<local, cooling, ready, balancer, traffic, updates, failures, history>>

Set(u) ==
  /\ pc[u] = "set"
  /\ hash' = [hash EXCEPT ![field[u]] = NewValue(u)]
  /\ Goto(u, "readAll")
  /\ UNCHANGED <<local, cooling, ready, balancer, traffic, updates, failures, history>>

\* The HSet reports an error; Redis may have executed it.
SetFails(u) ==
  /\ pc[u] = "set" /\ Fail
  /\ \/ UNCHANGED <<hash, unsettled>>
     \/ hash' = [hash EXCEPT ![field[u]] = NewValue(u)] /\ unsettled' = TRUE
  /\ IF u = Client THEN Goto(u, "idle") /\ UNCHANGED cooling ELSE Restarted(u)
  /\ UNCHANGED <<local, ready, balancer, traffic, updates, nilPanic>>

(***************************************************************************)
(* normalizeWeights, shared by all paths.  Its errors are swallowed.       *)
(***************************************************************************)
\* normalizeWeights returns: after redis.Nil the client repeats its HGet, at
\* start-up it opens for traffic; a backend starts its cooldown.
Return(u) ==
  /\ Goto(u, IF reg[u] = Missing THEN "get" ELSE "idle")
  /\ ready' = TRUE
  /\ cooling' = IF u = Client THEN cooling ELSE cooling \cup {<<u, "C">>}

ReadAll(u) ==
  /\ pc[u] = "readAll"
  /\ view' = [view EXCEPT ![u] = hash]
  /\ Goto(u, "writeAll")
  /\ UNCHANGED <<hash, field, factor, reg, cooling, ready, balancer, traffic,
                 updates, failures, history>>

WriteAll(u) ==
  /\ pc[u] = "writeAll"
  /\ hash' = Normalize(view[u])
  /\ unsettled' = FALSE
  /\ Return(u)
  /\ UNCHANGED <<local, balancer, traffic, updates, failures, nilPanic>>

\* HGetAll or the last HSet fails: the weights stay as they are.
NormalizeFails(u) ==
  /\ pc[u] \in {"readAll", "writeAll"} /\ Fail
  /\ unsettled' = TRUE
  /\ Return(u)
  /\ UNCHANGED <<hash, local, balancer, traffic, updates, nilPanic>>

\* Another goroutine of the backend panics (SetRedisMetrix): the worker dies
\* wherever it is.
BackendDies(b) ==
  /\ pc[b] # "idle" /\ Fail
  /\ unsettled' = (unsettled \/ pc[b] \in {"readAll", "writeAll"})
  /\ Restarted(b)
  /\ UNCHANGED <<hash, local, ready, balancer, traffic, updates, nilPanic>>

CooldownOver ==
  /\ \E c \in cooling : cooling' = cooling \ {c}
  /\ UNCHANGED <<hash, pc, local, ready, balancer, traffic, updates, failures, history>>

(***************************************************************************)
(* The balancer's start: HasAnyKey, then SetupWeightValues on an empty     *)
(* Redis.  A failed call panics and the container starts again.            *)
(***************************************************************************)
\* HasAnyKey may find a key although the hash is missing (vps:* of a backend),
\* and none although it is there: SCAN with COUNT 1 can return an empty page.
Probe ==
  /\ balancer = "probe" /\ balancer' \in {"up", "setup"}
  /\ UNCHANGED <<hash, pc, local, cooling, ready, traffic, updates, failures,
                 history>>

Setup ==
  /\ balancer = "setup" /\ balancer' = "up"
  /\ hash' = Default
  /\ unsettled' = FALSE
  /\ UNCHANGED <<pc, local, cooling, ready, traffic, updates, failures, nilPanic>>

SetupFails ==
  /\ balancer = "setup" /\ Fail /\ balancer' = "probe"
  /\ \/ hash' = Default /\ unsettled' = FALSE
     \/ UNCHANGED <<hash, unsettled>>
  /\ UNCHANGED <<pc, local, cooling, ready, traffic, updates, nilPanic>>

BalancerRestarts ==
  /\ balancer = "up" /\ Fail /\ balancer' = "probe"
  /\ UNCHANGED <<hash, pc, local, cooling, ready, traffic, updates, history>>

\* Mutant: the client sends before ensureWeightValues has ended.
FirstRequestEarly ==
  /\ balancer = "up" /\ ~traffic
  /\ traffic' = TRUE
  /\ UNCHANGED <<hash, pc, local, cooling, ready, balancer, updates, failures,
                 history>>

\* The first /balance reaches a backend; from now on backends have rates.
FirstRequest ==
  /\ ready /\ balancer = "up" /\ ~traffic
  /\ traffic' = TRUE
  /\ UNCHANGED <<hash, pc, local, cooling, ready, balancer, updates, failures,
                 history>>

\* Redis comes back empty (it runs without a volume).
RedisLosesHash ==
  /\ hash # NoHash /\ Fail
  /\ hash' = NoHash
  /\ UNCHANGED <<pc, local, cooling, ready, balancer, traffic, updates, history>>

-----------------------------------------------------------------------------
Worker(u) ==
  \/ Seed(u) \/ Begin(u) \/ Get(u) \/ GetFails(u) \/ Set(u) \/ SetFails(u)
  \/ ReadAll(u) \/ WriteAll(u) \/ NormalizeFails(u)

Balancer == Probe \/ Setup \/ SetupFails \/ BalancerRestarts

Next ==
  \/ \E u \in Workers : Worker(u)
  \/ GetNil
  \/ \E b \in Backends : GetNilPanic(b) \/ BackendDies(b)
  \/ CooldownOver \/ FirstRequest \/ RedisLosesHash
  \/ Balancer

Spec == Init /\ [][Next]_vars

-----------------------------------------------------------------------------
Stages == {"idle", "get", "set", "readAll", "writeAll"} \cup SeedStages

\* Every variable keeps its type.
TypeOK ==
  /\ hash \in [Fields -> Nat]
  /\ pc \in [Workers -> Stages]
  /\ field \in [Workers -> Fields] /\ factor \in [Workers -> Nat]
  /\ reg \in [Workers -> Nat] /\ view \in [Workers -> [Fields -> Nat]]
  /\ cooling \subseteq Workers \X Fields
  /\ ready \in BOOLEAN /\ traffic \in BOOLEAN
  /\ balancer \in {"probe", "setup", "up"}
  /\ updates \in 0..MaxUpdates /\ failures \in 0..MaxFailures
  /\ unsettled \in BOOLEAN /\ nilPanic \in BOOLEAN

AtRest == \A u \in Workers : pc[u] = "idle"

\* Each of the three divisions rounds down by less than one.
Normalized(w) == Total(w) \in (Scale - 2)..Scale

\* Whenever no worker is in the middle of an update the weights sum to one,
\* whatever the interleaving of clients' and backends' read-modify-writes and
\* of the balancer's seeding: every update ends by overwriting all three
\* fields from one snapshot.  Only a swallowed error or a panic can leave the
\* hash unnormalised (client/main.go:289-336, backend/main.go:237-311).
NormalizedAtRest ==
  AtRest /\ ~unsettled /\ hash # NoHash => Normalized(hash)

\* No weight can be driven to zero: after any number of raises of the other
\* two, any race and any failure, each stored weight keeps at least
\* 0.1 / 2.1 of the sum's unit, so no signal is ever switched off.
Floor == (Minimum * Scale) \div (2 * Scale + Minimum)
WeightsKeepFloor == \A f \in Fields : hash[f] # Missing => hash[f] >= Floor

\* A backend's worker panics on a missing weightC (backend/main.go:244-247).
\* The start-up order protects it: no traffic, hence no rate, reaches a backend
\* before the client has seeded the hash; so only a failure can cause it.
MissingWeightNeedsFailure == nilPanic => failures > 0
=============================================================================
