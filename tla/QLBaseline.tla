------------------------------- MODULE QLBaseline -------------------------------
(***************************************************************************)
(* The QL baseline: backends that keep their load in Redis, as a counter   *)
(* node:<id>:q and a hash node:<id>:jobs of job ages, an AgeUpdater per    *)
(* backend that rewrites the hash from a copy, and a balancer whose        *)
(* ControlLoop turns the hashes into weights and whose handlers compare    *)
(* counter times weight of two backends.  Every Redis call is a step, and  *)
(* its error, which the code never looks at, another one, but for the EMA, *)
(* which is left to chance where it enters a state.  What a failed call    *)
(* does to the counters and hashes is bounded by MaxFaults; a failed read, *)
(* or a weight that is not written, may happen at any time.                *)
(***************************************************************************)
EXTENDS Integers, FiniteSets, Sequences

CONSTANTS
  Reqs, Nodes,
  Jobs,          \* job ids: uuid.New() never repeats
  MaxFaults,     \* bound: failed calls of jobs and deaths of backends
  Nobody         \* request of a job id not in use, node of a new request

ASSUME QLAssumption ==
  /\ IsFiniteSet(Jobs) /\ MaxFaults \in Nat
  /\ Nobody \notin Reqs /\ Nobody \notin Nodes

Scale == 4                    \* a weight of 1 is 4, one of 1 + Eta is 6
Unset == 0                    \* a missing or unreadable key reads as 0

VARIABLES
  active,        \* nodes:active
  q, hash, weight,  \* node:<id>:q, fields of node:<id>:jobs, route:weight:<id>
  rpc, pair, loads, node,  \* HandleClient of each request
  jpc, owner, at,   \* HandleRequest of each job, its request and its node
  ages,          \* the ages each AgeUpdater has copied and not rewritten yet
  toRead, state, toWrite,  \* the ControlLoop
  faults,
  drift,         \* history: what failures and deaths did to q
  overtaken      \* history: jobs deleted while an AgeUpdater held a copy

redis   == <<active, q, hash, weight>>
client  == <<rpc, pair, loads, node>>
job     == <<jpc, owner, at>>
control == <<toRead, state, toWrite>>
history == <<faults, drift, overtaken>>
vars == <<redis, client, job, ages, control, history>>

-----------------------------------------------------------------------------
Counting == {"run", "delete", "uncount"}     \* between Incr and Decr
Listing  == {"count", "run", "delete"}       \* between HSet and HDel
Counted(n) == {j \in Jobs : at[j] = n /\ jpc[j] \in Counting}
Listed(n)  == {j \in Jobs : at[j] = n /\ jpc[j] \in Listing}

Init ==
  /\ active \in SUBSET Nodes
  /\ q = [n \in Nodes |-> 0] /\ hash = [n \in Nodes |-> {}]
  /\ weight = [n \in Nodes |-> Unset]
  /\ rpc = [r \in Reqs |-> "new"] /\ pair = [r \in Reqs |-> <<Nobody, Nobody>>]
  /\ loads = [r \in Reqs |-> << >>] /\ node = [r \in Reqs |-> Nobody]
  /\ jpc = [j \in Jobs |-> "unused"] /\ owner = [j \in Jobs |-> Nobody]
  /\ at = [j \in Jobs |-> Nobody]
  /\ ages = [n \in Nodes |-> {}]
  /\ toRead = {} /\ state = [n \in Nodes |-> 0] /\ toWrite = {}
  /\ faults = 0 /\ drift = [n \in Nodes |-> 0] /\ overtaken = {}

-----------------------------------------------------------------------------
(* HandleClient and selectBackend of the balancer. *)
SelectOnly(r) ==         \* one active node
  /\ rpc[r] = "new" /\ Cardinality(active) = 1
  /\ node' = [node EXCEPT ![r] = CHOOSE n \in active : TRUE]
  /\ rpc' = [rpc EXCEPT ![r] = "call"]
  /\ UNCHANGED <<redis, pair, loads, job, ages, control, history>>

SelectPanics(r) ==       \* no node, or SMEMBERS failed: rand.Intn(0) panics
  /\ rpc[r] = "new"       \* and net/http drops the connection
  /\ rpc' = [rpc EXCEPT ![r] = "done"]
  /\ UNCHANGED <<redis, pair, loads, node, job, ages, control, history>>

DrawPair(r) ==           \* two different nodes
  /\ rpc[r] = "new"
  /\ \E n, m \in active : n # m /\ pair' = [pair EXCEPT ![r] = <<n, m>>]
  /\ rpc' = [rpc EXCEPT ![r] = "read"]
  /\ UNCHANGED <<redis, loads, node, job, ages, control, history>>

\* The two q, then the two weights, one GET after the other; an error reads
\* as 0.  Jobs and the ControlLoop move in between.
Reading(r) ==
  LET i == Len(loads[r]) + 1
  IN  {Unset, IF i <= 2 THEN q[pair[r][i]] ELSE weight[pair[r][i - 2]]}

ReadLoad(r) ==
  /\ rpc[r] = "read" /\ Len(loads[r]) < 3
  /\ \E x \in Reading(r) : loads' = [loads EXCEPT ![r] = Append(@, x)]
  /\ UNCHANGED <<redis, rpc, pair, node, job, ages, control, history>>

Select(r) ==             \* the last GET, and the choice
  /\ rpc[r] = "read" /\ Len(loads[r]) = 3
  /\ \E w2 \in Reading(r) :
       LET i == IF loads[r][1] * loads[r][3] <= loads[r][2] * w2 THEN 1 ELSE 2
       IN  node' = [node EXCEPT ![r] = pair[r][i]]
  /\ loads' = [loads EXCEPT ![r] = << >>]
  /\ pair' = [pair EXCEPT ![r] = <<Nobody, Nobody>>]
  /\ rpc' = [rpc EXCEPT ![r] = "call"]
  /\ UNCHANGED <<redis, job, ages, control, history>>

\* The response, or 503 after 5 s or when the connection breaks.
Answer(r) ==
  /\ rpc[r] = "call"
  /\ rpc' = [rpc EXCEPT ![r] = "done"]
  /\ UNCHANGED <<redis, pair, loads, node, job, ages, control, history>>

HandleClient(r) ==
  \/ SelectOnly(r) \/ SelectPanics(r) \/ DrawPair(r) \/ ReadLoad(r)
  \/ Select(r) \/ Answer(r)

-----------------------------------------------------------------------------
(* HandleRequest of a backend.  A GET whose connection broke is sent again  *)
(* by net/http, and becomes a new job.                                      *)
Arrive(j, r) ==
  /\ rpc[r] = "call" /\ jpc[j] = "unused"
  /\ \A i \in Jobs : owner[i] = r => jpc[i] = "lost"
  /\ jpc' = [jpc EXCEPT ![j] = "list"]
  /\ owner' = [owner EXCEPT ![j] = r]
  /\ at' = [at EXCEPT ![j] = node[r]]
  /\ UNCHANGED <<redis, client, ages, control, history>>

Fails(n, d) ==
  /\ faults < MaxFaults /\ faults' = faults + 1
  /\ drift' = [drift EXCEPT ![n] = @ + d]

NoFault == UNCHANGED <<faults, drift>>

Moves(j, from, to) ==
  /\ jpc[j] = from /\ jpc' = [jpc EXCEPT ![j] = to]
  /\ UNCHANGED <<active, weight, client, owner, at, ages, control>>

AddHSet(j) ==            \* addJob
  /\ Moves(j, "list", "count")
  /\ \/ hash' = [hash EXCEPT ![at[j]] = @ \cup {j}] /\ NoFault
     \/ UNCHANGED hash /\ Fails(at[j], 0)
  /\ UNCHANGED <<q, overtaken>>

AddIncr(j) ==
  /\ Moves(j, "count", "run")
  /\ \/ q' = [q EXCEPT ![at[j]] = @ + 1] /\ NoFault
     \/ UNCHANGED q /\ Fails(at[j], -1)
  /\ UNCHANGED <<hash, overtaken>>

\* The 200-500 ms of work, and the EMA, which only enters the weights.
Run(j) ==
  /\ Moves(j, "run", "delete")
  /\ UNCHANGED <<q, hash, history>>

FinishHDel(j) ==         \* finishJob
  /\ Moves(j, "delete", "uncount")
  /\ \/ hash' = [hash EXCEPT ![at[j]] = @ \ {j}] /\ NoFault
     \/ UNCHANGED hash /\ Fails(at[j], 0)
  /\ overtaken' = IF j \in ages[at[j]] THEN overtaken \cup {j} ELSE overtaken
  /\ UNCHANGED q

\* Mutant: the counter is set to the size of the hash.
FinishSet(j) ==
  /\ Moves(j, "uncount", "done")
  /\ \/ q' = [q EXCEPT ![at[j]] = Cardinality(hash[at[j]])] /\ NoFault
     \/ UNCHANGED q /\ Fails(at[j], 1)
  /\ UNCHANGED <<hash, overtaken>>

FinishDecr(j) ==
  /\ Moves(j, "uncount", "done")
  /\ \/ q' = [q EXCEPT ![at[j]] = @ - 1] /\ NoFault
     \/ UNCHANGED q /\ Fails(at[j], 1)
  /\ UNCHANGED <<hash, overtaken>>

HandleRequest(j) ==
  \/ \E r \in Reqs : Arrive(j, r)
  \/ AddHSet(j) \/ AddIncr(j) \/ Run(j) \/ FinishHDel(j) \/ FinishDecr(j)

\* The AgeUpdater of node n copies the hash and writes field by field.
AgeCopy(n) ==
  /\ ages[n] = {} /\ ages' = [ages EXCEPT ![n] = hash[n]]
  /\ UNCHANGED <<redis, client, job, control, history>>

\* Mutant: the hash is replaced by the aged copy in one DEL and HSET.
AgeReplace(n, j) ==
  /\ j \in ages[n] /\ hash' = [hash EXCEPT ![n] = ages[n]]
  /\ ages' = [ages EXCEPT ![n] = {}]
  /\ UNCHANGED <<active, q, weight, client, job, control, history>>

AgeWrite(n, j) ==        \* a failed HSET leaves the age as it was
  /\ j \in ages[n]
  /\ \/ hash' = [hash EXCEPT ![n] = @ \cup {j}]
     \/ UNCHANGED hash
  /\ ages' = [ages EXCEPT ![n] = @ \ {j}]
  /\ UNCHANGED <<active, q, weight, client, job, control, history>>

AgeUpdater(n) == AgeCopy(n) \/ \E j \in Jobs : AgeWrite(n, j)

\* Main announces the node.  The process may die and start again; what it
\* kept in Redis stays, and nobody will finish its jobs.
Register(n) ==
  /\ n \notin active /\ active' = active \cup {n}
  /\ UNCHANGED <<q, hash, weight, client, job, ages, control, history>>

Die(n) ==
  /\ faults < MaxFaults /\ faults' = faults + 1
  /\ drift' = [drift EXCEPT ![n] = @ + Cardinality(Counted(n))]
  /\ jpc' = [j \in Jobs |-> IF at[j] = n /\ jpc[j] # "done" THEN "lost" ELSE jpc[j]]
  /\ ages' = [ages EXCEPT ![n] = {}]
  /\ UNCHANGED <<redis, client, owner, at, control, overtaken>>

Backend(n) == AgeUpdater(n) \/ Register(n) \/ Die(n)

-----------------------------------------------------------------------------
(* The ControlLoop: one SMEMBERS, the state of each node, all the weights;  *)
(* a failed HGETALL is a state of 0, a failed SET leaves the weight.        *)
ControlTick ==
  /\ toRead = {} /\ toWrite = {} /\ active # {}
  /\ toRead' = active
  /\ UNCHANGED <<redis, client, job, ages, state, toWrite, history>>

\* ComputeState: jobs in the hash times a mix of their ages and the EMA.
ComputeState(n) ==
  /\ n \in toRead /\ toRead' = toRead \ {n}
  /\ \E what \in {0, 1} :
       state' = [state EXCEPT ![n] = Cardinality(hash[n]) * what]
  /\ toWrite' = toWrite \cup {n}
  /\ UNCHANGED <<redis, client, job, ages, history>>

\* Mutant: the state is not divided by the largest one.
SetWeightUnscaled(n) ==
  /\ toRead = {} /\ n \in toWrite /\ toWrite' = toWrite \ {n}
  /\ state' = IF toWrite = {n} THEN [m \in Nodes |-> 0] ELSE state
  /\ weight' = [weight EXCEPT ![n] = Scale + 2 * state[n]]
  /\ UNCHANGED <<active, q, hash, client, job, ages, toRead, history>>

SetWeight(n) ==          \* 1 + Eta * x / maxX
  /\ toRead = {} /\ n \in toWrite /\ toWrite' = toWrite \ {n}
  /\ state' = IF toWrite = {n} THEN [m \in Nodes |-> 0] ELSE state
  /\ \/ UNCHANGED weight
     \/ \E maxX \in {state[m] : m \in Nodes} :
          /\ \A m \in Nodes : state[m] <= maxX
          /\ weight' = [weight EXCEPT ![n] = Scale +
                          IF maxX > 0 THEN (2 * state[n]) \div maxX ELSE 0]
  /\ UNCHANGED <<active, q, hash, client, job, ages, toRead, history>>

ControlLoop == ControlTick \/ \E n \in Nodes : ComputeState(n) \/ SetWeight(n)

Next ==
  \/ \E r \in Reqs : HandleClient(r)
  \/ \E j \in Jobs : HandleRequest(j)
  \/ \E n \in Nodes : Backend(n)
  \/ ControlLoop

Spec == Init /\ [][Next]_vars

-----------------------------------------------------------------------------
\* Every variable keeps its type; jobs in progress have a node, and a weight
\* that is set lies in [1, 1 + Eta] (QL/balancer/main.go:133) although the
\* states of a round are read one by one while jobs come and go.
TypeOK ==
  /\ active \subseteq Nodes /\ q \in [Nodes -> Int]
  /\ hash \in [Nodes -> SUBSET Jobs] /\ ages \in [Nodes -> SUBSET Jobs]
  /\ weight \in [Nodes -> {Unset} \cup Scale .. Scale + 2]
  /\ rpc \in [Reqs -> {"new", "read", "call", "done"}]
  /\ node \in [Reqs -> Nodes \cup {Nobody}]
  /\ jpc \in [Jobs -> {"unused", "list", "done", "lost"} \cup Counting \cup Listing]
  /\ owner \in [Jobs -> Reqs \cup {Nobody}] /\ at \in [Jobs -> Nodes \cup {Nobody}]
  /\ \A j \in Jobs : at[j] = Nobody => jpc[j] = "unused"
  /\ toRead \subseteq Nodes /\ toWrite \subseteq Nodes
  /\ state \in [Nodes -> Nat]
  /\ faults \in 0..MaxFaults /\ drift \in [Nodes -> Int]
  /\ overtaken \in SUBSET Jobs

\* The counter a balancer compares is the number of jobs the backend works
\* on, given-up ones included, plus what failed Redis calls and deaths left
\* behind (QL/backend/main.go:56, 68): increments and decrements of
\* concurrent jobs are never lost, and each of them happens once.
QCountsJobs == \A n \in Nodes : q[n] = Cardinality(Counted(n)) + drift[n]

\* The hash lists every job in progress, although AgeUpdater rewrites it from
\* a copy; a finished job is in it only if its HDEL fell between the copy and
\* the write back (QL/backend/main.go:76-81), or a fault left it there.
HashTracksJobs ==
  faults = 0 => \A n \in Nodes :
    /\ Listed(n) \subseteq hash[n]
    /\ hash[n] \subseteq Listed(n) \cup overtaken
=============================================================================
