---------------------------- MODULE BaselineServers ----------------------------
(***************************************************************************)
(* The balancer and the backends of three baselines.  They share their     *)
(* shape: a backend counts the requests it works on in queueSize and, when *)
(* it has done one, reports the counter in a call of its own that nothing  *)
(* orders.  They differ in `program':                                      *)
(*   RandomTwoPoint  the less loaded of two draws, three attempts          *)
(*   RoundRobin      a rotating start, every backend once                  *)
(*   RL              a bandit on a Q-table, one attempt without a timeout; *)
(*                   a FIFO per backend remembers the states it chose in   *)
(* The first two programs have the same backend, in two copies.            *)
(***************************************************************************)
EXTENDS Integers, Sequences, FiniteSets, SequencesExt, FiniteSetsExt

Programs == {"RandomTwoPoint", "RoundRobin", "RL"}

CONSTANTS
  Reqs,
  N,             \* backends are 0 .. N-1, in the order of the server list
  Attempts,      \* attempts of RandomTwoPoint (3 in the code)
  MaxQueue,      \* RL_MAX_QUEUE
  Rewards,       \* rewards of one feedback, in units of 1e-4
  MaxRequests,   \* bound, per program: requests that arrive
  MaxReports,    \* bound, per program: reports on their way at once
  MaxFaults      \* bound, per program: deaths of backends and balancer

ASSUME BaselineAssumption ==
  /\ IsFiniteSet(Reqs)
  /\ N \in Nat \ {0} /\ Attempts \in Nat \ {0} /\ MaxQueue \in Nat \ {0}
  /\ Rewards \subseteq Nat
  /\ {MaxRequests, MaxReports, MaxFaults} \subseteq [Programs -> Nat]

Backends == 0 .. N - 1
States   == 0 .. 3          \* StateIDFromTotalQueue
NotRead  == -1              \* a report whose queueSize is not loaded yet
Unchosen == << >>           \* a handler that holds no choice of pickVPS

VARIABLES
  program,
  pc, target, attempt, answer, \* the balancer's handler of each request
  calls,         \* the /process or /TestHTTP3 calls ever made
  queue,         \* queueSize of each backend
  reports,       \* sendMetrics calls on their way
  known,         \* queueSizes, node:<ip>:q and LastQueue of the balancers
  counter, first,\* rrCounter, and the start it gave each request
  choice,        \* RL: the state and backend a handler has not pushed yet
  fifo, q, visits, \* RL: dispatchStateByIP and the Q-table
  dispatched,    \* history: RL dispatches by state and backend
  executed,      \* history: queries handed to the database
  deaths, restarts

handler  == <<pc, target, attempt, answer>>
rotation == <<counter, first>>
learning == <<choice, fifo, q, visits, dispatched>>
bounds   == <<program, deaths, restarts>>
vars == <<handler, calls, queue, reports, known, rotation, learning, executed,
          bounds>>

-----------------------------------------------------------------------------
Limit == CASE program = "RandomTwoPoint" -> Attempts
           [] program = "RoundRobin" -> N
           [] program = "RL" -> 1

\* StateIDFromTotalQueue: less than 10, 35, 70 percent of MaxQueue.
StateID(total) ==
  CASE 100 * total < 10 * MaxQueue -> 0
    [] 100 * total >= 10 * MaxQueue /\ 100 * total < 35 * MaxQueue -> 1
    [] 100 * total >= 35 * MaxQueue /\ 100 * total < 70 * MaxQueue -> 2
    [] OTHER -> 3
TotalQueue == FoldFunction(LAMBDA a, b : a + b, 0, known)  \* totalQueueSnapshot
CurrentState == StateID(TotalQueue)

\* pickVPS keeps the first of the best.
Best(s) ==
  Min({b \in Backends : \A d \in Backends : q[<<s, b>>] >= q[<<s, d>>]})

\* QTable.Update with RL_ALPHA = 0.2.
Blend(old, reward) == old + (reward - old) \div 5

Fresh ==                    \* what a new balancer process starts with
  [known |-> [b \in Backends |-> 0], fifo |-> [b \in Backends |-> << >>],
   table |-> [sb \in States \X Backends |-> 0]]

Init ==
  /\ program \in Programs
  /\ pc = [r \in Reqs |-> "new"] /\ target = [r \in Reqs |-> 0]
  /\ attempt = [r \in Reqs |-> 0] /\ answer = [r \in Reqs |-> "none"]
  /\ calls = {} /\ queue = [b \in Backends |-> 0] /\ reports = {}
  /\ known = Fresh.known
  /\ counter = 0 /\ first = [r \in Reqs |-> NotRead]
  /\ choice = [r \in Reqs |-> Unchosen]
  /\ fifo = Fresh.fifo /\ q = Fresh.table /\ visits = Fresh.table
  /\ dispatched = Fresh.table
  /\ executed = [r \in Reqs |-> 0]
  /\ deaths = 0 /\ restarts = 0

-----------------------------------------------------------------------------
(* Choosing a backend for the next attempt of request r. *)
Idle(r) == pc[r] = "new" /\ choice[r] = Unchosen

Arrives(r) ==
  /\ Idle(r)
  /\ Cardinality({p \in Reqs : ~Idle(p)}) < MaxRequests[program]

Picked(r, b) ==
  /\ target' = [target EXCEPT ![r] = b]
  /\ pc' = [pc EXCEPT ![r] = "picked"]
  /\ UNCHANGED <<attempt, answer, calls, queue, reports, known, executed, bounds>>

\* The two draws may be the same backend after five more tries.
PickTwoPoint(r) ==
  /\ program = "RandomTwoPoint" /\ (Arrives(r) \/ pc[r] = "retry")
  /\ \E i, j \in Backends : Picked(r, IF known[i] <= known[j] THEN i ELSE j)
  /\ UNCHANGED <<rotation, learning>>

\* Mutant: the counter is read and written back without an atomic add.
StartUnsynchronised(r) ==
  /\ program = "RoundRobin" /\ Arrives(r)
  /\ counter' \in {counter, counter + 1}
  /\ first' = [first EXCEPT ![r] = counter % N]
  /\ Picked(r, counter % N)
  /\ UNCHANGED learning

StartRotation(r) ==         \* atomic.AddUint64(&rrCounter, 1) - 1
  /\ program = "RoundRobin" /\ Arrives(r)
  /\ counter' = counter + 1
  /\ first' = [first EXCEPT ![r] = counter % N]
  /\ Picked(r, counter % N)
  /\ UNCHANGED learning

\* Mutant: the sum is not reduced modulo the number of backends.
NextUnwrapped(r) ==
  /\ program = "RoundRobin" /\ pc[r] = "retry"
  /\ Picked(r, first[r] + attempt[r])
  /\ UNCHANGED <<rotation, learning>>

NextInRotation(r) ==
  /\ program = "RoundRobin" /\ pc[r] = "retry"
  /\ Picked(r, (first[r] + attempt[r]) % N)
  /\ UNCHANGED <<rotation, learning>>

\* pickVPS, under listMu.  The Q-values it compares may move meanwhile, and
\* then it returns another backend, as Explore does.
Choose(r, b) ==
  /\ program = "RL" /\ Arrives(r)
  /\ choice' = [choice EXCEPT ![r] = <<CurrentState, b>>]
  /\ UNCHANGED <<handler, calls, queue, reports, known, rotation, fifo, q,
                 visits, dispatched, executed, bounds>>

Exploit(r) == Choose(r, Best(CurrentState))
Explore(r) == \E b \in Backends : Choose(r, b)

\* Push, under the lock of the queue: other handlers and reports get between.
Dispatch(r) ==
  /\ program = "RL" /\ pc[r] = "new" /\ choice[r] # Unchosen
  /\ LET s == choice[r][1]
         b == choice[r][2]
     IN  /\ fifo' = [fifo EXCEPT ![b] = Append(@, s)]
         /\ dispatched' = [dispatched EXCEPT ![<<s, b>>] = @ + 1]
         /\ Picked(r, b)
  /\ choice' = [choice EXCEPT ![r] = Unchosen]
  /\ UNCHANGED <<rotation, q, visits>>

-----------------------------------------------------------------------------
(* The call, as the balancer sees it. *)
Current(r) == {c \in calls : c.req = r /\ c.n = attempt[r]}

Forward(r) ==
  /\ pc[r] = "picked" /\ pc' = [pc EXCEPT ![r] = "call"]
  /\ attempt' = [attempt EXCEPT ![r] = @ + 1]
  /\ calls' = calls \cup {[req |-> r, n |-> attempt[r] + 1, to |-> target[r],
                           at |-> "wire", ok |-> FALSE]}
  /\ UNCHANGED <<target, answer, queue, reports, known, rotation, learning,
                 executed, bounds>>

Reply(r, a) ==
  /\ pc' = [pc EXCEPT ![r] = "done"] /\ answer' = [answer EXCEPT ![r] = a]
  /\ UNCHANGED <<target, attempt, calls, queue, reports, known, rotation,
                 learning, executed, bounds>>

\* Any status is passed on, the 500 of a failed query too.
Answered(r) ==
  /\ pc[r] = "call"
  /\ \E c \in Current(r) :
       c.at = "out" /\ Reply(r, IF c.ok THEN "ok" ELSE "failed")

\* Mutant: the loop tries once more than it may.
CallFailsOffByOne(r) ==
  /\ pc[r] = "call"
  /\ \/ /\ attempt[r] <= Limit
        /\ pc' = [pc EXCEPT ![r] = "retry"]
        /\ UNCHANGED <<target, attempt, answer, calls, queue, reports, known,
                       rotation, learning, executed, bounds>>
     \/ attempt[r] > Limit /\ Reply(r, "502")

\* 10 s have passed (not in RL) or the connection broke: try again, or 502.
CallFails(r) ==
  /\ pc[r] = "call"
  /\ \/ /\ attempt[r] < Limit
        /\ pc' = [pc EXCEPT ![r] = "retry"]
        /\ UNCHANGED <<target, attempt, answer, calls, queue, reports, known,
                       rotation, learning, executed, bounds>>
     \/ attempt[r] = Limit /\ Reply(r, "502")

\* The request's context is cancelled, and all further attempts fail unsent.
ClientLeaves(r) ==
  /\ program # "RL" /\ pc[r] \in {"picked", "call", "retry"}
  /\ Reply(r, "gone")

-----------------------------------------------------------------------------
(* The backend's handler of call c, and its reports. *)
Becomes(c, at, ok) == calls' = (calls \ {c}) \cup {[c EXCEPT !.at = at, !.ok = ok]}

Arrive(c) ==
  /\ c.at = "wire" /\ Becomes(c, "running", FALSE)
  /\ queue' = [queue EXCEPT ![c.to] = @ + 1]
  /\ UNCHANGED <<handler, reports, known, rotation, learning, executed, bounds>>

LoseCall(c) ==
  /\ c.at = "wire" /\ Becomes(c, "lost", FALSE)
  /\ UNCHANGED <<handler, queue, reports, known, rotation, learning, executed,
                 bounds>>

Done(c) ==                  \* go sendMetrics(doneTime)
  /\ Becomes(c, "ran", TRUE)
  /\ reports' = IF Cardinality(reports) < MaxReports[program]
                  THEN reports \cup {[of |-> <<c.req, c.n>>, from |-> c.to,
                                      queue |-> NotRead]}
                  ELSE reports            \* its connection fails at once

QueryFails(c) ==            \* 500, and nothing is reported
  Becomes(c, "ran", FALSE) /\ UNCHANGED reports

Run(c) ==
  /\ c.at = "running"
  /\ executed' = [executed EXCEPT ![c.req] = @ + 1]
  /\ UNCHANGED <<handler, queue, known, rotation, learning, bounds>>

RunQuery(c) == Run(c) /\ (Done(c) \/ QueryFails(c))
RunTest(c)  == Run(c) /\ Done(c)

\* Mutant: the decrement is not deferred, and the error path misses it.
ReturnForgets(c) ==
  /\ c.at = "ran" /\ Becomes(c, "out", c.ok)
  /\ queue' = IF c.ok THEN [queue EXCEPT ![c.to] = @ - 1] ELSE queue
  /\ UNCHANGED <<handler, reports, known, rotation, learning, executed, bounds>>

Return(c) ==                \* the deferred decrement, then the response
  /\ c.at = "ran" /\ Becomes(c, "out", c.ok)
  /\ queue' = [queue EXCEPT ![c.to] = @ - 1]
  /\ UNCHANGED <<handler, reports, known, rotation, learning, executed, bounds>>

\* The goroutine may load queueSize before or after the handler returns.
Load(m) ==
  /\ m.queue = NotRead
  /\ reports' = (reports \ {m}) \cup {[m EXCEPT !.queue = queue[m.from]]}
  /\ UNCHANGED <<handler, calls, queue, known, rotation, learning, executed,
                 bounds>>

LoseReport(m) ==
  /\ m.queue # NotRead /\ reports' = reports \ {m}
  /\ UNCHANGED <<handler, calls, queue, known, rotation, learning, executed,
                 bounds>>

\* A panic, or the container is killed: what it worked on is lost with it.
Die(b) ==
  /\ deaths + restarts < MaxFaults[program] /\ deaths' = deaths + 1
  /\ queue' = [queue EXCEPT ![b] = 0]
  /\ calls' = {IF c.to = b /\ c.at \in {"running", "ran"}
                 THEN [c EXCEPT !.at = "lost"] ELSE c : c \in calls}
  /\ reports' = {m \in reports : m.from # b \/ m.queue # NotRead}
  /\ UNCHANGED <<handler, known, rotation, learning, executed, program, restarts>>

-----------------------------------------------------------------------------
(* The balancer's /receive-metrics. *)
Receive(m) ==
  /\ m.queue # NotRead /\ reports' = reports \ {m}
  /\ known' = [known EXCEPT ![m.from] = m.queue]
  /\ UNCHANGED <<handler, calls, queue, rotation, executed, bounds>>

ReceiveTwoPoint(m) ==
  program = "RandomTwoPoint" /\ Receive(m) /\ UNCHANGED learning
ReceiveRoundRobin(m) ==     \* the Redis key node:<ip>:q, for display
  program = "RoundRobin" /\ Receive(m) /\ UNCHANGED learning

\* Mutant: the state is looked at and never taken off the queue.
PeekFeedback(m) ==
  /\ program = "RL" /\ Receive(m)
  /\ \E reward \in Rewards :
       LET s  == IF fifo[m.from] = << >> THEN CurrentState ELSE Head(fifo[m.from])
           sb == <<s, m.from>>
       IN  /\ q' = [q EXCEPT ![sb] = Blend(@, reward)]
           /\ visits' = [visits EXCEPT ![sb] = @ + 1]
  /\ UNCHANGED <<choice, fifo, dispatched>>

\* The oldest dispatch to this backend, whichever request is reported.
ReceiveFeedback(m) ==
  /\ program = "RL" /\ Receive(m)
  /\ \E reward \in Rewards :
       LET s  == IF fifo[m.from] = << >> THEN CurrentState ELSE Head(fifo[m.from])
           sb == <<s, m.from>>
       IN  /\ q' = [q EXCEPT ![sb] = Blend(@, reward)]
           /\ visits' = [visits EXCEPT ![sb] = @ + 1]
  /\ fifo' = [fifo EXCEPT ![m.from] = IF @ = << >> THEN @ ELSE Tail(@)]
  /\ UNCHANGED <<choice, dispatched>>

\* The balancer process dies.  What RoundRobin knows is in Redis.
BalancerRestart ==
  /\ deaths + restarts < MaxFaults[program] /\ restarts' = restarts + 1
  /\ pc' = [r \in Reqs |-> IF Idle(r) THEN "new" ELSE "done"]
  /\ answer' = [r \in Reqs |-> IF Idle(r) \/ pc[r] = "done" THEN answer[r]
                                ELSE "broken"]
  /\ choice' = [r \in Reqs |-> Unchosen]
  /\ known' = IF program = "RoundRobin" THEN known ELSE Fresh.known
  /\ counter' = 0 /\ fifo' = Fresh.fifo
  /\ q' = Fresh.table /\ visits' = Fresh.table
  /\ UNCHANGED <<target, attempt, calls, queue, reports, first, dispatched,
                 executed, program, deaths>>

-----------------------------------------------------------------------------
Call(r) == Forward(r) \/ Answered(r) \/ CallFails(r) \/ ClientLeaves(r)
Report(m) == Load(m) \/ LoseReport(m)
Process(c) == Arrive(c) \/ LoseCall(c) \/ RunQuery(c) \/ Return(c)
TestHTTP3(c) == Arrive(c) \/ LoseCall(c) \/ RunTest(c) \/ Return(c)

RandomTwoPoint(r) == PickTwoPoint(r) \/ Call(r)
RoundRobin(r) == StartRotation(r) \/ NextInRotation(r) \/ Call(r)
LoadTestHTTP3(r) == Exploit(r) \/ Explore(r) \/ Dispatch(r) \/ Call(r)

RandomTwoPointBackend ==
  /\ program = "RandomTwoPoint"
  /\ (\E c \in calls : Process(c)) \/ (\E m \in reports : Report(m))
RoundRobinBackend ==
  /\ program = "RoundRobin"
  /\ (\E c \in calls : Process(c)) \/ (\E m \in reports : Report(m))
RLBackend ==
  /\ program = "RL"
  /\ (\E c \in calls : TestHTTP3(c)) \/ (\E m \in reports : Report(m))

Next ==
  \/ \E r \in Reqs : RandomTwoPoint(r) \/ RoundRobin(r) \/ LoadTestHTTP3(r)
  \/ RandomTwoPointBackend \/ RoundRobinBackend \/ RLBackend
  \/ \E m \in reports :
       ReceiveTwoPoint(m) \/ ReceiveRoundRobin(m) \/ ReceiveFeedback(m)
  \/ \E b \in Backends : Die(b)
  \/ BalancerRestart

Spec == Init /\ [][Next]_vars

-----------------------------------------------------------------------------
\* Every variable keeps its type; a request is never tried more than Limit
\* times.
TypeOK ==
  /\ program \in Programs
  /\ pc \in [Reqs -> {"new", "picked", "call", "retry", "done"}]
  /\ target \in [Reqs -> Backends] /\ attempt \in [Reqs -> 0..Limit]
  /\ answer \in [Reqs -> {"none", "ok", "failed", "502", "gone", "broken"}]
  /\ calls \subseteq [req : Reqs, n : 1..Limit, to : Backends, ok : BOOLEAN,
                      at : {"wire", "running", "ran", "out", "lost"}]
  /\ queue \in [Backends -> Nat] /\ known \in [Backends -> Nat]
  /\ reports \subseteq [of : Reqs \X Nat, from : Backends, queue : Nat \cup {NotRead}]
  /\ counter \in Nat /\ first \in [Reqs -> Backends \cup {NotRead}]
  /\ choice \in [Reqs -> (States \X Backends) \cup {Unchosen}]
  /\ program # "RL" => \A r \in Reqs : choice[r] = Unchosen
  /\ fifo \in [Backends -> Seq(States)]
  /\ q \in [States \X Backends -> Nat] /\ visits \in [States \X Backends -> Nat]
  /\ dispatched \in [States \X Backends -> Nat]
  /\ executed \in [Reqs -> Nat]
  /\ deaths \in 0..MaxFaults[program] /\ restarts \in 0..MaxFaults[program]

\* queueSize counts exactly the handlers that run, those included whose
\* balancer has given up on them, and on every return path of /process
\* (RandomTwoPoint/Backend/main.go:147-171).
QueueIsRunning ==
  \A b \in Backends :
    queue[b] = Cardinality({c \in calls : c.to = b /\ c.at \in {"running", "ran"}})

\* A request costs the database at most three queries (RandomTwoPoint), one
\* per backend (RoundRobin) or one (RL), although a call that timed out may
\* still run when the next one is made; the client hears one answer, and
\* "success" only of a query that has run.
Heard(a) == IF a \in {"none", "ok"} THEN a ELSE "failed"
Delivery == INSTANCE DeliveryContract
              WITH limit <- Limit, answer <- [r \in Reqs |-> Heard(answer[r])]
ImplementsDelivery == Delivery!Spec

\* RoundRobin spreads: no backend is the start of two requests more than
\* another one however the handlers interleave, a failover reaches every
\* backend once, and a 502 means that all of them were tried.
Rotates ==
  program = "RoundRobin" =>
    /\ restarts = 0 => \A b, d \in Backends :
         Cardinality({r \in Reqs : first[r] = b})
           <= Cardinality({r \in Reqs : first[r] = d}) + 1
    /\ \A c, d \in calls : c.req = d.req /\ c.to = d.to => c = d
    /\ \A r \in Reqs : answer[r] = "502" =>
         {c.to : c \in {e \in calls : e.req = r}} = Backends

\* RL/README.md promises a state for each feedback.  As long as the balancer
\* lives, each Q-table visit consumes one dispatch of the same state to the
\* same backend, whatever is lost or overtaken: a report finds a state in the
\* FIFO, since the state is pushed before the request leaves.
FeedbackHasState ==
  restarts = 0 =>
    \A s \in States, b \in Backends :
      visits[<<s, b>>] + Cardinality({i \in 1..Len(fifo[b]) : fifo[b][i] = s})
        = dispatched[<<s, b>>]
=============================================================================
