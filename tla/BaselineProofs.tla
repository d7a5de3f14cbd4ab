----------------------------- MODULE BaselineProofs -----------------------------
(***************************************************************************)
(* Safety of the RandomTwoPoint, RoundRobin and RL baselines for every     *)
(* number of requests, backends, attempts and faults, and of their load    *)
(* generator for every set of latencies.                                   *)
(***************************************************************************)
EXTENDS MCBaselines, FiniteSetTheorems, SequenceTheorems, TLAPS

-----------------------------------------------------------------------------
(***************************************************************************)
(* Best elements of finite sets.  The strict subsets of a finite set are   *)
(* well founded, so that a smallest counterexample may be assumed.         *)
(***************************************************************************)

\* A finite set that is not empty has an element of the largest value.
LEMMA LargestExists ==
  ASSUME NEW S, IsFiniteSet(S), S # {}, NEW f, \A x \in S : f[x] \in Int
  PROVE  \E x \in S : \A y \in S : f[x] >= f[y]
<1> DEFINE Bad == {U \in SUBSET S : U # {} /\ ~ \E x \in U : \A y \in U : f[x] >= f[y]}
           R   == StrictSubsetOrdering(S)
<1> SUFFICES ASSUME Bad # {} PROVE FALSE
  OBVIOUS
<1>1. IsWellFoundedOn(R, SUBSET S)
  BY FS_StrictSubsetOrderingWellFounded, FS_FiniteSubsetsOfFinite
<1>2. PICK U \in Bad : \A V \in Bad : ~(<<V, U>> \in R)
  <2>1. Bad \subseteq SUBSET S
    OBVIOUS
  <2> HIDE DEF R, Bad
  <2> QED
    BY <1>1, <2>1, WFMin
<1>3. PICK x \in U : TRUE
  OBVIOUS
<1>4. U \ {x} \notin Bad
  BY <1>2, <1>3 DEF StrictSubsetOrdering
<1>5. CASE U = {x}
  <2>1. f[x] \in Int
    BY <1>2, <1>3
  <2> QED
    BY <1>2, <1>5, <2>1
<1>6. CASE U # {x}
  <2>1. PICK m \in U \ {x} : \A y \in U \ {x} : f[m] >= f[y]
    BY <1>3, <1>4, <1>6
  <2>2. \A y \in U : f[y] \in Int
    BY <1>2
  <2>3. f[x] \in Int /\ f[m] \in Int
    BY <1>3, <2>1, <2>2
  <2>4. CASE f[x] >= f[m]
    <3>1. \A y \in U : f[x] >= f[y]
      BY <2>1, <2>2, <2>3, <2>4
    <3> QED
      BY <1>2, <1>3, <3>1
  <2>5. CASE f[m] >= f[x]
    <3>1. \A y \in U : f[m] >= f[y]
      BY <2>1, <2>2, <2>3, <2>5
    <3> QED
      BY <1>2, <2>1, <3>1
  <2> QED
    BY <2>3, <2>4, <2>5
<1> QED
  BY <1>5, <1>6

\* Max and Min of the community modules.
LEMMA MaxIsLargest ==
  ASSUME NEW S, IsFiniteSet(S), S # {}, S \subseteq Int
  PROVE  Max(S) \in S /\ \A y \in S : Max(S) >= y
<1> DEFINE id == [x \in S |-> x]
<1>1. \A x \in S : id[x] \in Int
  OBVIOUS
<1>2. \E x \in S : \A y \in S : id[x] >= id[y]
  <2> HIDE DEF id
  <2> QED
    BY <1>1, LargestExists
<1>3. \E x \in S : \A y \in S : x >= y
  BY <1>2
<1> QED
  BY <1>3 DEF Max

LEMMA MinIsSmallest ==
  ASSUME NEW S, IsFiniteSet(S), S # {}, S \subseteq Int
  PROVE  Min(S) \in S /\ \A y \in S : Min(S) <= y
<1> DEFINE neg == [x \in S |-> -x]
<1>1. \A x \in S : neg[x] \in Int
  OBVIOUS
<1>2. \E x \in S : \A y \in S : neg[x] >= neg[y]
  <2> HIDE DEF neg
  <2> QED
    BY <1>1, LargestExists
<1>3. \E x \in S : \A y \in S : x <= y
  <2>1. PICK x \in S : \A y \in S : neg[x] >= neg[y]
    BY <1>2
  <2>2. \A y \in S : -x >= -y
    BY <2>1
  <2> QED
    BY <2>2
<1> QED
  BY <1>3 DEF Min

-----------------------------------------------------------------------------
(***************************************************************************)
(* The operators of the servers.                                           *)
(***************************************************************************)

LEMMA BackendsFinite ==
  /\ IsFiniteSet(Backends) /\ Cardinality(Backends) = N
  /\ Backends # {} /\ Backends \subseteq Nat /\ N \in Nat \ {0}
  /\ \A n \in Int : n % N \in Backends
<1>1. N \in Nat \ {0} /\ 0 \in Backends
  BY BaselineAssumption DEF Backends
<1>2. IsFiniteSet(Backends) /\ Cardinality(Backends) = N
  BY <1>1, FS_Interval DEF Backends
<1> QED
  BY <1>1, <1>2 DEF Backends

\* pickVPS always finds a backend.
LEMMA BestIsBackend ==
  ASSUME q \in [States \X Backends -> Nat], NEW s \in States
  PROVE  Best(s) \in Backends
<1> DEFINE f == [b \in Backends |-> q[<<s, b>>]]
           Top == {b \in Backends : \A d \in Backends : q[<<s, b>>] >= q[<<s, d>>]}
<1>1. \A b \in Backends : f[b] \in Int /\ f[b] = q[<<s, b>>]
  OBVIOUS
<1>2. \E b \in Backends : \A d \in Backends : f[b] >= f[d]
  <2> HIDE DEF f
  <2> QED
    BY <1>1, BackendsFinite, LargestExists
<1>3. Top # {} /\ Top \subseteq Backends
  BY <1>1, <1>2
<1>4. IsFiniteSet(Top) /\ Top \subseteq Int
  <2> HIDE DEF Top
  <2>1. Top \in SUBSET Backends /\ Backends \subseteq Int
    BY <1>3, BackendsFinite
  <2> QED
    BY <2>1, BackendsFinite, FS_Subset
<1>5. Min(Top) \in Top
  <2> HIDE DEF Top
  <2> QED
    BY <1>3, <1>4, MinIsSmallest
<1>6. Best(s) = Min(Top)
  BY DEF Best
<1>7. Best(s) \in Top
  <2> HIDE DEF Top
  <2> QED
    BY <1>5, <1>6
<1> QED
  BY <1>3, <1>7

LEMMA StateType == CurrentState \in States
<1>1. StateID(TotalQueue) \in 0..3
  BY DEF StateID
<1> QED
  BY <1>1 DEF CurrentState, States

\* A reward moves an entry of the Q-table towards itself, never below 0.
LEMMA BlendType == \A old, reward \in Nat : Blend(old, reward) \in Nat
  BY DEF Blend

LEMMA LimitType == program \in Programs => Limit \in Nat \ {0}
  BY BaselineAssumption DEF Limit, Programs


-----------------------------------------------------------------------------
(***************************************************************************)
(* Types.                                                                  *)
(***************************************************************************)

\* A handler that may still send has attempts left.
AttemptsLeft ==
  \A r \in Reqs :
    /\ pc[r] \in {"new", "picked", "retry"} => attempt[r] < Limit
    /\ pc[r] = "new" => attempt[r] = 0
    /\ pc[r] = "call" => attempt[r] >= 1

\* A handler gets its backend, in any of the three programs.
Picks(r) == PickTwoPoint(r) \/ StartRotation(r) \/ NextInRotation(r) \/ Dispatch(r)

\* Before that, one of RL has chosen; the other variables do not see it.
Chooses(r) == Exploit(r) \/ Explore(r)
Visible == <<handler, calls, queue, reports, known, rotation, fifo, q, visits,
             dispatched, executed, bounds>>

\* The state and the backend that Dispatch pushes.
LEMMA ChoiceType ==
  ASSUME TypeOK, NEW r \in Reqs, choice[r] # Unchosen
  PROVE  choice[r][1] \in States /\ choice[r][2] \in Backends
  BY DEF TypeOK

LEMMA HandlerNumbers ==
  ASSUME TypeOK
  PROVE  /\ Limit \in Nat \ {0}
         /\ \A r \in Reqs : attempt[r] \in 0..Limit /\ attempt[r] \in Nat /\ first[r] \in Int
<1>1. /\ program \in Programs
      /\ first \in [Reqs -> Backends \cup {NotRead}]
      /\ attempt \in [Reqs -> 0..Limit]
  BY DEF TypeOK
<1>2. Limit \in Nat \ {0}
  BY <1>1, LimitType
<1>3. \A r \in Reqs : attempt[r] \in 0..Limit /\ attempt[r] \in Nat
  BY <1>1, <1>2
<1>4. \A r \in Reqs : first[r] \in Backends \cup {NotRead}
  BY <1>1
<1>5. NotRead \in Int
  BY DEF NotRead
<1>6. Backends \subseteq Int
  BY BackendsFinite
<1>7. \A r \in Reqs : first[r] \in Int
  BY <1>4, <1>5, <1>6
<1> QED
  BY <1>2, <1>3, <1>7

LEMMA PickedBackend ==
  ASSUME TypeOK, NEW r \in Reqs, Picks(r)
  PROVE  /\ pc[r] \in {"new", "retry"}
         /\ \E b \in Backends : Picked(r, b)
<1>1. CASE PickTwoPoint(r)
  <2>1. \A i, j \in Backends : (IF known[i] <= known[j] THEN i ELSE j) \in Backends
    OBVIOUS
  <2> QED
    BY <1>1, <2>1 DEF PickTwoPoint, Arrives, Idle
<1>2. CASE StartRotation(r)
  <2>1. counter % N \in Backends
    <3>1. counter \in Nat
      BY DEF TypeOK
    <3> QED
      BY <3>1, BackendsFinite
  <2> QED
    BY <1>2, <2>1 DEF StartRotation, Arrives, Idle
<1>3. CASE NextInRotation(r)
  <2>1. first[r] + attempt[r] \in Int
    BY HandlerNumbers
  <2>2. (first[r] + attempt[r]) % N \in Backends
    BY <2>1, BackendsFinite
  <2> QED
    BY <1>3, <2>2 DEF NextInRotation
<1>4. CASE Dispatch(r)
  BY <1>4, ChoiceType DEF Dispatch
<1> QED
  BY <1>1, <1>2, <1>3, <1>4 DEF Picks

LEMMA PickType ==
  ASSUME TypeOK, NEW r \in Reqs, Picks(r)
  PROVE  TypeOK'
<1>1. PICK b \in Backends : Picked(r, b)
  BY PickedBackend
<1>2. /\ target' \in [Reqs -> Backends]
      /\ pc' \in [Reqs -> {"new", "picked", "call", "retry", "done"}]
      /\ UNCHANGED <<attempt, answer, calls, queue, reports, known, executed>>
      /\ UNCHANGED <<program, deaths, restarts>> /\ Limit' = Limit
  BY <1>1 DEF Picked, TypeOK, bounds, Limit
<1>3. counter' \in Nat /\ first' \in [Reqs -> Backends \cup {NotRead}]
  <2>1. CASE StartRotation(r)
    <3>1. counter % N \in Backends /\ counter + 1 \in Nat
      <4>1. counter \in Nat
        BY DEF TypeOK
      <4> QED
        BY <4>1, BackendsFinite
    <3> QED
      BY <2>1, <3>1 DEF StartRotation, TypeOK
  <2>2. CASE ~StartRotation(r)
    BY <2>2 DEF Picks, PickTwoPoint, NextInRotation, Dispatch, rotation, TypeOK
  <2> QED
    BY <2>1, <2>2
<1>4. /\ fifo' \in [Backends -> Seq(States)]
      /\ q' \in [States \X Backends -> Nat] /\ visits' \in [States \X Backends -> Nat]
      /\ dispatched' \in [States \X Backends -> Nat]
      /\ choice' \in [Reqs -> (States \X Backends) \cup {Unchosen}]
      /\ program # "RL" => choice' = choice
  <2>1. CASE Dispatch(r)
    <3> DEFINE t == choice[r][1]
               d == choice[r][2]
    <3>1. t \in States /\ d \in Backends
      BY <2>1, ChoiceType DEF Dispatch
    <3>2. /\ fifo' = [fifo EXCEPT ![d] = Append(fifo[d], t)]
          /\ dispatched' = [dispatched EXCEPT ![<<t, d>>] = dispatched[<<t, d>>] + 1]
          /\ choice' = [choice EXCEPT ![r] = Unchosen]
          /\ program = "RL" /\ UNCHANGED <<q, visits>>
      BY <2>1 DEF Dispatch
    <3> HIDE DEF t, d
    <3>3. Append(fifo[d], t) \in Seq(States)
      BY <3>1 DEF TypeOK
    <3>4. dispatched[<<t, d>>] + 1 \in Nat
      <4>1. dispatched \in [States \X Backends -> Nat] /\ <<t, d>> \in States \X Backends
        BY <3>1 DEF TypeOK
      <4> QED
        BY <4>1
    <3> QED
      BY <3>1, <3>2, <3>3, <3>4 DEF TypeOK
  <2>2. CASE ~Dispatch(r)
    BY <2>2 DEF Picks, PickTwoPoint, StartRotation, NextInRotation, learning, TypeOK
  <2> QED
    BY <2>1, <2>2
<1> QED
  BY <1>2, <1>3, <1>4 DEF TypeOK

LEMMA ChooseFrame ==
  ASSUME NEW r, Chooses(r)
  PROVE  UNCHANGED Visible
  BY DEF Chooses, Exploit, Explore, Choose, Visible

LEMMA ChooseType ==
  ASSUME TypeOK, NEW r \in Reqs, Chooses(r)
  PROVE  TypeOK'
<1>1. PICK b \in Backends : Choose(r, b)
  <2>1. Best(CurrentState) \in Backends
    BY StateType, BestIsBackend DEF TypeOK
  <2> QED
    BY <2>1 DEF Chooses, Exploit, Explore
<1>2. /\ choice' \in [Reqs -> (States \X Backends) \cup {Unchosen}]
      /\ program = "RL"
  BY <1>1, StateType DEF Choose, TypeOK
<1>3. UNCHANGED Visible
  BY ChooseFrame
<1>4. program' = program /\ Limit' = Limit
  BY <1>3 DEF Visible, bounds, Limit
<1> QED
  BY <1>2, <1>3, <1>4 DEF Visible, handler, rotation, bounds, TypeOK

LEMMA CallType ==
  ASSUME TypeOK, AttemptsLeft, NEW r \in Reqs, Call(r)
  PROVE  TypeOK'
<1>1. CASE Forward(r)
  <2> DEFINE c == [req |-> r, n |-> attempt[r] + 1, to |-> target[r],
                   at |-> "wire", ok |-> FALSE]
  <2>1. attempt[r] + 1 \in 1..Limit /\ Limit \in Nat
    BY <1>1, HandlerNumbers DEF Forward, AttemptsLeft
  <2>2. Limit' = Limit
    BY <1>1 DEF Forward, bounds, Limit
  <2>3. c \in [req : Reqs, n : 1..Limit, to : Backends, ok : BOOLEAN,
               at : {"wire", "running", "ran", "out", "lost"}]
    BY <2>1 DEF TypeOK
  <2>4. attempt' \in [Reqs -> 0..Limit]
    BY <1>1, <2>1 DEF Forward, TypeOK
  <2>5. calls' = calls \cup {c}
    BY <1>1 DEF Forward
  <2> HIDE DEF c
  <2> QED
    BY <1>1, <2>2, <2>3, <2>4, <2>5
       DEF Forward, rotation, learning, bounds, TypeOK
<1>2. CASE Answered(r) \/ CallFails(r) \/ ClientLeaves(r)
  <2>1. /\ pc' \in [Reqs -> {"new", "picked", "call", "retry", "done"}]
        /\ answer' \in [Reqs -> {"none", "ok", "failed", "502", "gone", "broken"}]
    BY <1>2 DEF Answered, CallFails, ClientLeaves, Reply, TypeOK
  <2>2. UNCHANGED <<target, attempt, calls, queue, reports, known, rotation,
                    learning, executed, bounds>>
    BY <1>2 DEF Answered, CallFails, ClientLeaves, Reply
  <2>3. Limit' = Limit
    BY <2>2 DEF bounds, Limit
  <2> QED
    BY <2>1, <2>2, <2>3 DEF rotation, learning, bounds, TypeOK
<1> QED
  BY <1>1, <1>2 DEF Call

CallRecord ==
  [req : Reqs, n : 1..Limit, to : Backends, ok : BOOLEAN,
   at : {"wire", "running", "ran", "out", "lost"}]
ReportRecord == [of : Reqs \X Nat, from : Backends, queue : Nat \cup {NotRead}]

LEMMA CallNumbers ==
  ASSUME TypeOK
  PROVE  /\ calls \subseteq CallRecord /\ reports \subseteq ReportRecord
         /\ \A c \in calls : c.n \in Nat /\ c.n >= 1 /\ c.to \in Backends /\ c.req \in Reqs
<1>1. calls \subseteq CallRecord /\ reports \subseteq ReportRecord
  BY DEF TypeOK, CallRecord, ReportRecord
<1>2. Limit \in Nat
  BY HandlerNumbers
<1> QED
  BY <1>1, <1>2 DEF CallRecord

\* A step of the handler of call c, on any of the backends.
Handles(c) == Arrive(c) \/ LoseCall(c) \/ RunQuery(c) \/ RunTest(c) \/ Return(c)

LEMMA BackendStep ==
  ASSUME NEW c \in calls, Handles(c)
  PROVE  /\ \E at \in {"running", "ran", "out", "lost"}, ok \in {TRUE, FALSE, c.ok} :
              Becomes(c, at, ok)
         /\ UNCHANGED <<handler, known, rotation, learning, bounds>>
  BY DEF Handles, Arrive, LoseCall, RunQuery, RunTest, Run, Done, QueryFails, Return

LEMMA ProcessType ==
  ASSUME TypeOK, NEW c \in calls,
         Handles(c), c.at = "ran" => queue[c.to] > 0
  PROVE  TypeOK'
<1>1. /\ c \in CallRecord /\ calls \subseteq CallRecord /\ reports \subseteq ReportRecord
      /\ c.to \in Backends /\ c.req \in Reqs /\ c.n \in Nat
  BY CallNumbers
<1>2. UNCHANGED <<handler, known, rotation, learning, bounds>>
  BY BackendStep
<1>3. calls' \subseteq CallRecord
  <2>1. PICK at \in {"running", "ran", "out", "lost"}, ok \in {TRUE, FALSE, c.ok} :
          Becomes(c, at, ok)
    BY BackendStep
  <2>2. [c EXCEPT !.at = at, !.ok = ok] \in CallRecord
    BY <1>1 DEF CallRecord
  <2> QED
    BY <1>1, <2>1, <2>2 DEF Becomes
<1>4. reports' \subseteq ReportRecord
  <2> DEFINE m == [of |-> <<c.req, c.n>>, from |-> c.to, queue |-> NotRead]
  <2>1. m \in ReportRecord
    BY <1>1 DEF ReportRecord
  <2>2. reports' \subseteq reports \cup {m}
    BY DEF Handles, Arrive, LoseCall, RunQuery, RunTest, Run, Done, QueryFails, Return
  <2> HIDE DEF m
  <2> QED
    BY <1>1, <2>1, <2>2
<1>5. queue' \in [Backends -> Nat] /\ executed' \in [Reqs -> Nat]
  <2>1. queue \in [Backends -> Nat] /\ executed \in [Reqs -> Nat]
    BY DEF TypeOK
  <2>2. queue[c.to] + 1 \in Nat /\ (c.at = "ran" => queue[c.to] - 1 \in Nat)
        /\ executed[c.req] + 1 \in Nat
    BY <1>1, <2>1
  <2>3. \/ UNCHANGED queue
        \/ queue' = [queue EXCEPT ![c.to] = queue[c.to] + 1]
        \/ c.at = "ran" /\ queue' = [queue EXCEPT ![c.to] = queue[c.to] - 1]
    BY DEF Handles, Arrive, LoseCall, RunQuery, RunTest, Run, Return
  <2>4. UNCHANGED executed \/ executed' = [executed EXCEPT ![c.req] = executed[c.req] + 1]
    BY DEF Handles, Arrive, LoseCall, RunQuery, RunTest, Run, Return
  <2> QED
    BY <2>1, <2>2, <2>3, <2>4
<1>6. Limit' = Limit
  BY <1>2 DEF bounds, Limit
<1> QED
  BY <1>2, <1>3, <1>4, <1>5, <1>6
     DEF TypeOK, CallRecord, ReportRecord, handler, rotation, learning, bounds

LEMMA ReportType ==
  ASSUME TypeOK, NEW m \in reports, Report(m)
  PROVE  TypeOK'
<1>1. m \in ReportRecord /\ reports \subseteq ReportRecord
  BY CallNumbers
<1>2. reports' \subseteq ReportRecord
  <2>1. CASE Load(m)
    <3>1. queue \in [Backends -> Nat]
      BY DEF TypeOK
    <3>2. [m EXCEPT !.queue = queue[m.from]] \in ReportRecord
      BY <1>1, <3>1 DEF ReportRecord
    <3> QED
      BY <1>1, <2>1, <3>2 DEF Load
  <2>2. CASE LoseReport(m)
    BY <1>1, <2>2 DEF LoseReport
  <2> QED
    BY <2>1, <2>2 DEF Report
<1>3. UNCHANGED <<handler, calls, queue, known, rotation, learning, executed, bounds>>
  BY DEF Report, Load, LoseReport
<1>4. Limit' = Limit
  BY <1>3 DEF bounds, Limit
<1> QED
  BY <1>2, <1>3, <1>4 DEF TypeOK, ReportRecord, handler, rotation, learning, bounds

\* What the balancer does with a report.
Receives(m) == ReceiveTwoPoint(m) \/ ReceiveRoundRobin(m) \/ ReceiveFeedback(m)

LEMMA ReceiveType ==
  ASSUME TypeOK, NEW m \in reports, Receives(m)
  PROVE  TypeOK'
<1>1. m \in ReportRecord /\ reports \subseteq ReportRecord
  BY CallNumbers
<1>2. /\ Receive(m)
      /\ UNCHANGED <<handler, calls, queue, rotation, executed, bounds>>
  BY DEF Receives, ReceiveTwoPoint, ReceiveRoundRobin, ReceiveFeedback, Receive
<1>3. reports' \subseteq ReportRecord
  BY <1>1, <1>2 DEF Receive
<1>4. known' \in [Backends -> Nat]
  <2>1. m.from \in Backends /\ m.queue \in Nat /\ known \in [Backends -> Nat]
    BY <1>1, <1>2 DEF Receive, ReportRecord, TypeOK
  <2> QED
    BY <1>2, <2>1 DEF Receive
<1>5. /\ fifo' \in [Backends -> Seq(States)] /\ q' \in [States \X Backends -> Nat]
      /\ visits' \in [States \X Backends -> Nat]
      /\ dispatched' \in [States \X Backends -> Nat] /\ UNCHANGED choice
  <2>1. CASE UNCHANGED learning
    BY <2>1 DEF learning, TypeOK
  <2>2. CASE ReceiveFeedback(m)
    <3>1. /\ fifo \in [Backends -> Seq(States)] /\ m.from \in Backends
          /\ q \in [States \X Backends -> Nat] /\ visits \in [States \X Backends -> Nat]
      BY <1>1 DEF ReportRecord, TypeOK
    <3>2. fifo[m.from] # << >> =>
            Head(fifo[m.from]) \in States /\ Tail(fifo[m.from]) \in Seq(States)
      BY <3>1, HeadTailProperties
    <3>3. fifo' \in [Backends -> Seq(States)]
      BY <2>2, <3>1, <3>2 DEF ReceiveFeedback
    <3> DEFINE s == IF fifo[m.from] = << >> THEN CurrentState ELSE Head(fifo[m.from])
    <3>4. s \in States
      BY <3>2, StateType
    <3>5. PICK reward \in Rewards :
            /\ q' = [q EXCEPT ![<<s, m.from>>] = Blend(q[<<s, m.from>>], reward)]
            /\ visits' = [visits EXCEPT ![<<s, m.from>>] = visits[<<s, m.from>>] + 1]
      BY <2>2 DEF ReceiveFeedback
    <3> HIDE DEF s
    <3>6. <<s, m.from>> \in States \X Backends
      BY <3>1, <3>4
    <3>7. Blend(q[<<s, m.from>>], reward) \in Nat /\ visits[<<s, m.from>>] + 1 \in Nat
      <4>1. reward \in Nat /\ q[<<s, m.from>>] \in Nat /\ visits[<<s, m.from>>] \in Nat
        BY <3>1, <3>6, BaselineAssumption
      <4>2. Blend(q[<<s, m.from>>], reward) \in Nat
        BY <4>1, BlendType, Zenon
      <4> QED
        BY <4>1, <4>2
    <3>8. q' \in [States \X Backends -> Nat] /\ visits' \in [States \X Backends -> Nat]
      BY <3>1, <3>5, <3>6, <3>7
    <3>9. UNCHANGED <<choice, dispatched>>
      BY <2>2 DEF ReceiveFeedback
    <3> QED
      BY <3>3, <3>8, <3>9 DEF TypeOK
  <2> QED
    BY <2>1, <2>2 DEF Receives, ReceiveTwoPoint, ReceiveRoundRobin
<1>6. Limit' = Limit
  BY <1>2 DEF bounds, Limit
<1> QED
  BY <1>2, <1>3, <1>4, <1>5, <1>6 DEF TypeOK, ReportRecord, handler, rotation, bounds

LEMMA DieType ==
  ASSUME TypeOK, NEW b \in Backends, Die(b)
  PROVE  TypeOK'
<1>1. calls \subseteq CallRecord /\ reports \subseteq ReportRecord
  BY CallNumbers
<1>2. calls' \subseteq CallRecord
  <2>1. \A c \in CallRecord : [c EXCEPT !.at = "lost"] \in CallRecord
    BY DEF CallRecord
  <2> QED
    BY <1>1, <2>1 DEF Die
<1>3. reports' \subseteq ReportRecord
  BY <1>1 DEF Die
<1>4. queue' \in [Backends -> Nat]
  BY DEF Die, TypeOK
<1>5. deaths' \in 0..MaxFaults[program]
  <2>1. /\ deaths \in 0..MaxFaults[program] /\ restarts \in 0..MaxFaults[program]
        /\ program \in Programs
    BY DEF TypeOK
  <2>2. MaxFaults[program] \in Nat
    BY <2>1, BaselineAssumption
  <2> QED
    BY <2>1, <2>2 DEF Die
<1>6. UNCHANGED <<handler, known, rotation, learning, executed, program, restarts>>
  BY DEF Die
<1>7. Limit' = Limit
  BY <1>6 DEF Limit
<1> QED
  BY <1>2, <1>3, <1>4, <1>5, <1>6, <1>7
     DEF TypeOK, CallRecord, ReportRecord, handler, rotation, learning

LEMMA FreshType ==
  /\ Fresh.known \in [Backends -> Nat] /\ Fresh.fifo \in [Backends -> Seq(States)]
  /\ Fresh.table \in [States \X Backends -> Nat]
<1>1. << >> \in Seq(States)
  BY EmptySeq
<1> QED
  BY <1>1 DEF Fresh

LEMMA RestartType ==
  ASSUME TypeOK, BalancerRestart
  PROVE  TypeOK'
<1>1. /\ pc' \in [Reqs -> {"new", "picked", "call", "retry", "done"}]
      /\ answer' \in [Reqs -> {"none", "ok", "failed", "502", "gone", "broken"}]
  BY DEF BalancerRestart, TypeOK
<1>6. choice' = [r \in Reqs |-> Unchosen]
  BY DEF BalancerRestart
<1>2. /\ known' \in [Backends -> Nat] /\ counter' \in Nat
      /\ fifo' \in [Backends -> Seq(States)] /\ q' \in [States \X Backends -> Nat]
      /\ visits' \in [States \X Backends -> Nat]
  BY FreshType DEF BalancerRestart, TypeOK
<1>3. restarts' \in 0..MaxFaults[program]
  <2>1. /\ deaths \in 0..MaxFaults[program] /\ restarts \in 0..MaxFaults[program]
        /\ program \in Programs
    BY DEF TypeOK
  <2>2. MaxFaults[program] \in Nat
    BY <2>1, BaselineAssumption
  <2> QED
    BY <2>1, <2>2 DEF BalancerRestart
<1>4. UNCHANGED <<target, attempt, calls, queue, reports, first, dispatched,
                  executed, program, deaths>>
  BY DEF BalancerRestart
<1>5. Limit' = Limit
  BY <1>4 DEF Limit
<1> QED
  BY <1>1, <1>2, <1>3, <1>4, <1>5, <1>6 DEF TypeOK

-----------------------------------------------------------------------------
(***************************************************************************)
(* The calls, and the counter of the ones that run.                        *)
(***************************************************************************)

LEMMA NextSteps ==
  ASSUME [Next]_vars
  PROVE  \/ \E r \in Reqs : Picks(r) \/ Call(r)
         \/ \E c \in calls : Handles(c)
         \/ \E m \in reports : Report(m) \/ Receives(m)
         \/ \E b \in Backends : Die(b)
         \/ BalancerRestart
         \/ /\ UNCHANGED Visible
            /\ (\E r \in Reqs : Chooses(r)) \/ UNCHANGED vars
<1>1. \A c : Process(c) \/ TestHTTP3(c) => Handles(c)
  BY DEF Process, TestHTTP3, Handles
<1>2. \A r : RandomTwoPoint(r) \/ RoundRobin(r) \/ LoadTestHTTP3(r)
               => Picks(r) \/ Call(r) \/ Chooses(r)
  BY DEF RandomTwoPoint, RoundRobin, LoadTestHTTP3, Picks, Chooses
<1>3. UNCHANGED vars => UNCHANGED Visible
  BY DEF vars, learning, Visible
<1> QED
  BY <1>1, <1>2, <1>3, ChooseFrame
     DEF Next, RandomTwoPointBackend, RoundRobinBackend, RLBackend, Receives

\* What the steps of the balancer leave alone.
LEMMA PickFrame ==
  ASSUME NEW r, Picks(r)
  PROVE  /\ \E b : Picked(r, b)
         /\ UNCHANGED <<attempt, answer, calls, queue, reports, known, executed, bounds>>
  BY DEF Picks, PickTwoPoint, StartRotation, NextInRotation, Dispatch, Picked

LEMMA ReportFrame ==
  ASSUME NEW m, Report(m) \/ Receives(m)
  PROVE  UNCHANGED <<handler, calls, queue, rotation, executed, bounds>>
  BY DEF Report, Load, LoseReport, Receives, ReceiveTwoPoint, ReceiveRoundRobin,
         ReceiveFeedback, Receive

LEMMA LimitConstant ==
  ASSUME [Next]_vars
  PROVE  program' = program /\ Limit' = Limit
<1>1. program' = program
  <2>1. \A r \in Reqs : Picks(r) => program' = program
    BY PickFrame DEF bounds
  <2>2. \A r \in Reqs : Call(r) => program' = program
    BY DEF Call, Forward, Answered, CallFails, ClientLeaves, Reply, bounds
  <2>3. \A c \in calls : Handles(c) => program' = program
    BY BackendStep DEF bounds
  <2>4. \A m \in reports : Report(m) \/ Receives(m) => program' = program
    BY ReportFrame DEF bounds
  <2> QED
    BY <2>1, <2>2, <2>3, <2>4, NextSteps DEF Die, BalancerRestart, Visible, bounds
<1> QED
  BY <1>1 DEF Limit

LEMMA AttemptsInductive ==
  ASSUME TypeOK, AttemptsLeft, [Next]_vars
  PROVE  AttemptsLeft'
<1>1. /\ pc \in [Reqs -> {"new", "picked", "call", "retry", "done"}]
      /\ attempt \in [Reqs -> 0..Limit]
  BY DEF TypeOK
<1>2. Limit' = Limit /\ Limit \in Nat \ {0} /\ \A r \in Reqs : attempt[r] \in Nat
  BY HandlerNumbers, LimitConstant
<1>3. ASSUME NEW r \in Reqs, Picks(r) PROVE AttemptsLeft'
  <2>1. PICK b : Picked(r, b)
    BY <1>3, PickFrame
  <2>2. pc[r] \in {"new", "retry"}
    BY <1>3, PickedBackend
  <2> QED
    BY <1>1, <1>2, <2>1, <2>2 DEF AttemptsLeft, Picked
<1>4. ASSUME NEW r \in Reqs, Call(r) PROVE AttemptsLeft'
  <2>1. CASE Forward(r)
    BY <1>1, <1>2, <2>1 DEF AttemptsLeft, Forward
  <2>2. CASE CallFails(r)
    BY <1>1, <1>2, <2>2 DEF AttemptsLeft, CallFails, Reply
  <2>3. CASE Answered(r) \/ ClientLeaves(r)
    BY <1>1, <1>2, <2>3 DEF AttemptsLeft, Answered, ClientLeaves, Reply
  <2> QED
    BY <1>4, <2>1, <2>2, <2>3 DEF Call
<1>5. CASE BalancerRestart
  BY <1>1, <1>2, <1>5 DEF AttemptsLeft, BalancerRestart, Idle
<1>6. CASE UNCHANGED <<pc, attempt>>
  BY <1>1, <1>2, <1>6 DEF AttemptsLeft
<1>7. \A c \in calls : Handles(c) => UNCHANGED <<pc, attempt>>
  BY BackendStep DEF handler
<1>8. \A m \in reports : Report(m) \/ Receives(m) => UNCHANGED <<pc, attempt>>
  BY ReportFrame DEF handler
<1> QED
  BY <1>3, <1>4, <1>5, <1>6, <1>7, <1>8, NextSteps DEF Die, handler, Visible

\* A call is known by its request and its number.
CallsTracked ==
  /\ IsFiniteSet(calls)
  /\ \A c \in calls : c.n <= attempt[c.req]
  /\ \A c, d \in calls : c.req = d.req /\ c.n = d.n => c = d

LEMMA BecomesTracked ==
  ASSUME TypeOK, CallsTracked, attempt' = attempt, NEW c \in calls,
         NEW at, NEW ok, Becomes(c, at, ok)
  PROVE  CallsTracked'
<1> DEFINE d == [c EXCEPT !.at = at, !.ok = ok]
<1>1. c \in CallRecord /\ calls \subseteq CallRecord
  BY CallNumbers
<1>2. d.req = c.req /\ d.n = c.n /\ d.to = c.to
  BY <1>1 DEF CallRecord
<1>3. calls' = (calls \ {c}) \cup {d}
  BY DEF Becomes
<1> HIDE DEF d
<1>4. IsFiniteSet(calls')
  BY <1>3, FS_RemoveElement, FS_AddElement DEF CallsTracked
<1> QED
  BY <1>2, <1>3, <1>4 DEF CallsTracked

\* The fresh call of a handler has a number of its own.
LEMMA ForwardTracked ==
  ASSUME TypeOK, CallsTracked, NEW r \in Reqs, Forward(r)
  PROVE  CallsTracked'
<1> DEFINE c == [req |-> r, n |-> attempt[r] + 1, to |-> target[r],
                 at |-> "wire", ok |-> FALSE]
<1>1. c.req = r /\ c.n = attempt[r] + 1
  OBVIOUS
<1>2. calls' = calls \cup {c}
  BY DEF Forward
<1> HIDE DEF c
<1>3. IsFiniteSet(calls')
  BY <1>2, FS_AddElement DEF CallsTracked
<1>4. /\ \A s \in Reqs : attempt[s] \in Nat /\ attempt'[s] \in Nat
      /\ \A s \in Reqs : attempt'[s] = IF s = r THEN attempt[r] + 1 ELSE attempt[s]
  <2>1. attempt \in [Reqs -> 0..Limit] /\ \A s \in Reqs : attempt[s] \in Nat
    BY HandlerNumbers DEF TypeOK
  <2> QED
    BY <2>1 DEF Forward
<1>5. \A d \in calls : d.n \in Nat /\ d.req \in Reqs /\ d.n <= attempt[d.req]
  BY CallNumbers DEF CallsTracked
<1>6. \A d \in calls' : d.n <= attempt'[d.req]
  BY <1>1, <1>2, <1>4, <1>5
<1>7. \A d \in calls : ~(d.req = c.req /\ d.n = c.n)
  BY <1>1, <1>4, <1>5
<1> QED
  BY <1>2, <1>3, <1>6, <1>7 DEF CallsTracked

LEMMA DieTracked ==
  ASSUME TypeOK, CallsTracked, NEW b \in Backends, Die(b)
  PROVE  CallsTracked'
<1> DEFINE Dead(c) == IF c.to = b /\ c.at \in {"running", "ran"}
                        THEN [c EXCEPT !.at = "lost"] ELSE c
           f == [c \in calls |-> Dead(c)]
<1>1. calls' = {Dead(c) : c \in calls}
  BY DEF Die
<1>2. \A c \in calls : Dead(c).req = c.req /\ Dead(c).n = c.n
  BY CallNumbers DEF CallRecord
<1>3. IsFiniteSet(calls')
  <2>1. f \in Surjection(calls, calls')
    BY <1>1 DEF Surjection
  <2> HIDE DEF f
  <2> QED
    BY <2>1, FS_Surjection DEF CallsTracked
<1>4. attempt' = attempt
  BY DEF Die, handler
<1> HIDE DEF Dead
<1> QED
  BY <1>1, <1>2, <1>3, <1>4 DEF CallsTracked

\* The calls a backend's counter stands for.
Working(b) == {c \in calls : c.to = b /\ c.at \in {"running", "ran"}}

\* One member of a set gives way to another, which may be outside like itself.
LEMMA ReplaceCounts ==
  ASSUME NEW S, IsFiniteSet(S), NEW T, NEW c, NEW d, S \ {c} = T \ {d}
  PROVE  /\ IsFiniteSet(T) /\ Cardinality(S) \in Nat
         /\ (c \in S /\ d \in T) \/ (c \notin S /\ d \notin T)
              => Cardinality(T) = Cardinality(S)
         /\ c \in S /\ d \notin T => Cardinality(T) = Cardinality(S) - 1
         /\ c \notin S /\ d \in T => Cardinality(T) = Cardinality(S) + 1
<1>1. /\ Cardinality(S) \in Nat /\ IsFiniteSet(S \ {c})
      /\ Cardinality(S \ {c}) = IF c \in S THEN Cardinality(S) - 1 ELSE Cardinality(S)
  BY FS_CardinalityType, FS_RemoveElement
<1>2. T = IF d \in T THEN (S \ {c}) \cup {d} ELSE S \ {c}
  OBVIOUS
<1>3. d \notin S \ {c}
  OBVIOUS
<1>4. CASE d \in T
  <2>1. T = (S \ {c}) \cup {d}
    BY <1>2, <1>4
  <2>2. IsFiniteSet(T) /\ Cardinality(T) = Cardinality(S \ {c}) + 1
    BY <1>1, <1>3, <2>1, FS_AddElement
  <2> QED
    BY <1>1, <1>4, <2>2
<1>5. CASE d \notin T
  <2>1. T = S \ {c}
    BY <1>2, <1>5
  <2> QED
    BY <1>1, <1>5, <2>1
<1> QED
  BY <1>4, <1>5

LEMMA BecomesWorking ==
  ASSUME TypeOK, CallsTracked, NEW c \in calls, NEW at, NEW ok, Becomes(c, at, ok),
         NEW b
  PROVE  /\ IsFiniteSet(Working(b)) /\ Cardinality(Working(b)) \in Nat
         /\ Cardinality(Working(b)') = Cardinality(Working(b))
              - (IF c \in Working(b) THEN 1 ELSE 0)
              + (IF c.to = b /\ at \in {"running", "ran"} THEN 1 ELSE 0)
<1> DEFINE d == [c EXCEPT !.at = at, !.ok = ok]
<1>1. c \in CallRecord /\ calls \subseteq CallRecord
  BY CallNumbers
<1>2. d.req = c.req /\ d.n = c.n /\ d.to = c.to /\ d.at = at
  BY <1>1 DEF CallRecord
<1>3. calls' = (calls \ {c}) \cup {d}
  BY DEF Becomes
<1> HIDE DEF d
<1>4. d \notin calls \ {c}
  BY <1>2 DEF CallsTracked
<1>5. /\ Working(b)' \ {d} = Working(b) \ {c}
      /\ d \in Working(b)' <=> c.to = b /\ at \in {"running", "ran"}
  BY <1>2, <1>3, <1>4 DEF Working
<1>6. IsFiniteSet(Working(b))
  BY FS_Subset DEF Working, CallsTracked
<1> QED
  BY <1>5, <1>6, ReplaceCounts


LEMMA CallsInductive ==
  ASSUME TypeOK, CallsTracked, [Next]_vars
  PROVE  CallsTracked'
<1>1. ASSUME NEW r \in Reqs, Picks(r) \/ Call(r) PROVE CallsTracked'
  <2>1. CASE Forward(r)
    BY <2>1, ForwardTracked
  <2>2. CASE ~Forward(r)
    <3>1. UNCHANGED <<calls, attempt>>
      BY <1>1, <2>2, PickFrame DEF Call, Answered, CallFails, ClientLeaves, Reply
    <3> QED
      BY <3>1 DEF CallsTracked
  <2> QED
    BY <2>1, <2>2
<1>2. ASSUME NEW c \in calls, Handles(c) PROVE CallsTracked'
  <2>1. PICK at, ok : Becomes(c, at, ok)
    BY <1>2, BackendStep
  <2>2. attempt' = attempt
    BY <1>2, BackendStep DEF handler
  <2> QED
    BY <2>1, <2>2, BecomesTracked
<1>3. \A b \in Backends : Die(b) => CallsTracked'
  BY DieTracked
<1>4. CASE UNCHANGED <<calls, attempt>>
  BY <1>4 DEF CallsTracked
<1>5. \A m \in reports : Report(m) \/ Receives(m) => UNCHANGED <<calls, attempt>>
  BY ReportFrame DEF handler
<1> QED
  BY <1>1, <1>2, <1>3, <1>4, <1>5, NextSteps DEF BalancerRestart, handler, Visible

LEMMA WorkingUnchanged ==
  ASSUME QueueIsRunning, UNCHANGED <<calls, queue>>
  PROVE  QueueIsRunning'
  BY DEF QueueIsRunning

\* The counter moves with each handler.
LEMMA HandlesQueue ==
  ASSUME TypeOK, CallsTracked, QueueIsRunning, NEW c \in calls, Handles(c)
  PROVE  QueueIsRunning' /\ (c.at = "ran" => queue[c.to] > 0)
<1>1. queue \in [Backends -> Nat] /\ c.to \in Backends
  BY CallNumbers DEF TypeOK
<1>2. \A b \in Backends : queue[b] = Cardinality(Working(b))
  BY DEF QueueIsRunning, Working
<1>3. c \in Working(c.to) <=> c.at \in {"running", "ran"}
  BY DEF Working
<1>4. \A b \in Backends : b # c.to => c \notin Working(b)
  BY DEF Working
<1>5. SUFFICES /\ \A b \in Backends : queue'[b] = Cardinality(Working(b)')
               /\ c.at = "ran" => queue[c.to] > 0
  BY DEF QueueIsRunning, Working
<1>6. PICK at, ok :
        /\ Becomes(c, at, ok)
        /\ \/ c.at = "wire" /\ at = "running"
              /\ queue' = [queue EXCEPT ![c.to] = queue[c.to] + 1]
           \/ c.at = "wire" /\ at = "lost" /\ UNCHANGED queue
           \/ c.at = "running" /\ at = "ran" /\ UNCHANGED queue
           \/ c.at = "ran" /\ at = "out"
              /\ queue' = [queue EXCEPT ![c.to] = queue[c.to] - 1]
  BY DEF Handles, Arrive, LoseCall, RunQuery, RunTest, Run, Done, QueryFails, Return
<1>7. \A b \in Backends :
        /\ IsFiniteSet(Working(b)) /\ Cardinality(Working(b)) \in Nat
        /\ Cardinality(Working(b)') = Cardinality(Working(b))
             - (IF c \in Working(b) THEN 1 ELSE 0)
             + (IF c.to = b /\ at \in {"running", "ran"} THEN 1 ELSE 0)
  BY <1>6, BecomesWorking
<1>8. c.at = "ran" => queue[c.to] > 0
  <2>1. c.at = "ran" => Working(c.to) # {}
    BY <1>3
  <2>2. c.at = "ran" => Cardinality(Working(c.to)) # 0
    BY <1>1, <1>7, <2>1, FS_EmptySet
  <2> QED
    BY <1>1, <1>2, <1>7, <2>2
<1>9. ASSUME NEW b \in Backends PROVE queue'[b] = Cardinality(Working(b)')
  <2> DEFINE w == Cardinality(Working(b))
             v == Cardinality(Working(b)')
  <2>1. w \in Nat /\ queue[b] = w
        /\ v = w - (IF c \in Working(b) THEN 1 ELSE 0)
                 + (IF c.to = b /\ at \in {"running", "ran"} THEN 1 ELSE 0)
    BY <1>2, <1>7
  <2> HIDE DEF w, v
  <2>2. CASE b # c.to
    <3>1. v = w
      BY <1>4, <2>1, <2>2
    <3>2. queue'[b] = queue[b]
      BY <1>1, <1>6, <2>2
    <3> QED
      BY <2>1, <3>1, <3>2 DEF v
  <2>3. CASE b = c.to
    <3>1. v = w - (IF c.at \in {"running", "ran"} THEN 1 ELSE 0)
                + (IF at \in {"running", "ran"} THEN 1 ELSE 0)
      BY <1>3, <2>1, <2>3
    <3>2. queue'[b] = v
      BY <1>1, <1>6, <2>1, <2>3, <3>1
    <3> QED
      BY <3>2 DEF v
  <2> QED
    BY <2>2, <2>3
<1> QED
  BY <1>8, <1>9

\* A dead backend runs nothing, and no call moves to another one.
LEMMA DieQueue ==
  ASSUME TypeOK, QueueIsRunning, NEW b \in Backends, Die(b)
  PROVE  QueueIsRunning'
<1> DEFINE Dead(c) == IF c.to = b /\ c.at \in {"running", "ran"}
                        THEN [c EXCEPT !.at = "lost"] ELSE c
<1>1. calls' = {Dead(c) : c \in calls} /\ queue' = [queue EXCEPT ![b] = 0]
  BY DEF Die
<1>2. \A c \in calls : /\ Dead(c).to = c.to
                       /\ Dead(c) # c => Dead(c).at = "lost" /\ c.to = b
                       /\ c.to = b => Dead(c).at \notin {"running", "ran"}
  BY CallNumbers DEF CallRecord
<1>3. queue \in [Backends -> Nat]
  BY DEF TypeOK
<1> HIDE DEF Dead
<1>4. Working(b)' = {}
  BY <1>1, <1>2 DEF Working
<1>5. ASSUME NEW d \in Backends, d # b PROVE Working(d)' = Working(d)
  <2>1. \A c \in calls : c.to = d => Dead(c) = c
    BY <1>2, <1>5
  <2>2. \A c \in calls : Dead(c).to = d => Dead(c) = c
    BY <1>2, <2>1
  <2> QED
    BY <1>1, <2>1, <2>2 DEF Working
<1>6. ASSUME NEW d \in Backends PROVE queue'[d] = Cardinality(Working(d)')
  <2>1. CASE d = b
    BY <1>1, <1>3, <1>4, <2>1, FS_EmptySet
  <2>2. CASE d # b
    <3>1. queue[d] = Cardinality(Working(d))
      BY DEF QueueIsRunning, Working
    <3> QED
      BY <1>1, <1>3, <1>5, <2>2, <3>1
  <2> QED
    BY <2>1, <2>2
<1> QED
  BY <1>6 DEF QueueIsRunning, Working

LEMMA ForwardQueue ==
  ASSUME QueueIsRunning, NEW r \in Reqs, Forward(r)
  PROVE  QueueIsRunning'
<1> DEFINE c == [req |-> r, n |-> attempt[r] + 1, to |-> target[r],
                 at |-> "wire", ok |-> FALSE]
<1>1. calls' = calls \cup {c} /\ c.at = "wire" /\ queue' = queue
  BY DEF Forward
<1> HIDE DEF c
<1>2. \A b \in Backends : Working(b)' = Working(b)
  BY <1>1 DEF Working
<1>3. \A b \in Backends : queue[b] = Cardinality(Working(b))
  BY DEF QueueIsRunning, Working
<1>4. \A b \in Backends : queue'[b] = Cardinality(Working(b)')
  BY <1>1, <1>2, <1>3
<1> QED
  BY <1>4 DEF QueueIsRunning, Working

LEMMA QueueInductive ==
  ASSUME TypeOK, CallsTracked, QueueIsRunning, [Next]_vars
  PROVE  QueueIsRunning'
<1>1. ASSUME NEW r \in Reqs, Picks(r) \/ Call(r) PROVE QueueIsRunning'
  <2>1. CASE Forward(r)
    BY <2>1, ForwardQueue
  <2>2. CASE ~Forward(r)
    <3>1. UNCHANGED <<calls, queue>>
      BY <1>1, <2>2, PickFrame DEF Call, Answered, CallFails, ClientLeaves, Reply
    <3> QED
      BY <3>1, WorkingUnchanged
  <2> QED
    BY <2>1, <2>2
<1>2. \A c \in calls : Handles(c) => QueueIsRunning'
  BY HandlesQueue
<1>3. \A b \in Backends : Die(b) => QueueIsRunning'
  BY DieQueue
<1>4. CASE UNCHANGED <<calls, queue>>
  BY <1>4, WorkingUnchanged
<1>5. \A m \in reports : Report(m) \/ Receives(m) => UNCHANGED <<calls, queue>>
  BY ReportFrame
<1> QED
  BY <1>1, <1>2, <1>3, <1>4, <1>5, NextSteps DEF BalancerRestart, Visible

\* The invariant the other proofs build on: types, the attempts a handler has
\* left, what identifies a call, and the counters.
IInv == TypeOK /\ AttemptsLeft /\ CallsTracked /\ QueueIsRunning

LEMMA InitIInv == Init => IInv
<1> SUFFICES ASSUME Init PROVE IInv
  OBVIOUS
<1>1. Limit \in Nat \ {0}
  BY LimitType DEF Init
<1>2. /\ \A p \in Programs : MaxFaults[p] \in Nat
      /\ 0 \in Backends
  BY BaselineAssumption DEF Backends
<1>3. TypeOK
  BY <1>1, <1>2, FreshType DEF Init, TypeOK, NotRead
<1>4. AttemptsLeft
  BY <1>1 DEF Init, AttemptsLeft
<1>5. CallsTracked
  BY FS_EmptySet DEF Init, CallsTracked
<1>6. QueueIsRunning
  <2>1. \A b \in Backends : Working(b) = {} /\ queue[b] = 0
    BY DEF Init, Working
  <2> QED
    BY <2>1, FS_EmptySet DEF QueueIsRunning, Working
<1> QED
  BY <1>3, <1>4, <1>5, <1>6 DEF IInv

LEMMA NextIInv == IInv /\ [Next]_vars => IInv'
<1> SUFFICES ASSUME IInv, [Next]_vars PROVE IInv'
  OBVIOUS
<1> USE DEF IInv
<1>1. TypeOK'
  <2>1. \A r \in Reqs : Picks(r) \/ Call(r) => TypeOK'
    BY PickType, CallType
  <2>2. \A c \in calls : Handles(c) => TypeOK'
    BY HandlesQueue, ProcessType
  <2>3. \A m \in reports : Report(m) \/ Receives(m) => TypeOK'
    BY ReportType, ReceiveType
  <2>4. \A b \in Backends : Die(b) => TypeOK'
    BY DieType
  <2>5. BalancerRestart => TypeOK'
    BY RestartType
  <2>6. \A r \in Reqs : Chooses(r) => TypeOK'
    BY ChooseType
  <2>7. UNCHANGED vars => TypeOK'
    BY LimitConstant
       DEF TypeOK, vars, handler, rotation, learning, bounds
  <2> QED
    BY <2>1, <2>2, <2>3, <2>4, <2>5, <2>6, <2>7, NextSteps
<1> QED
  BY <1>1, AttemptsInductive, CallsInductive, QueueInductive

LEMMA Invariance == Spec => []IInv
  BY InitIInv, NextIInv, PTL DEF Spec

\* Every variable keeps its type, whatever calls and reports are lost; no
\* request is tried more often than its program allows, and pickVPS always
\* finds a backend (RandomTwoPoint/balancer/main.go:157, RL/Balancer/main.go:154).
THEOREM TypeCorrect == Spec => []TypeOK
<1>1. IInv => TypeOK
  BY DEF IInv
<1> QED
  BY Invariance, <1>1, PTL

\* queueSize is the number of handlers that run, for any number of requests,
\* attempts that time out and deaths (RandomTwoPoint/Backend/main.go:147).
THEOREM QueueCountsHandlers == Spec => []QueueIsRunning
<1>1. IInv => QueueIsRunning
  BY DEF IInv
<1> QED
  BY Invariance, <1>1, PTL

-----------------------------------------------------------------------------
(***************************************************************************)
(* The refinement of DeliveryContract.                                     *)
(***************************************************************************)

\* The calls that may still hand their query to the database.
Pending(r) == {c \in calls : c.req = r /\ c.at \in {"wire", "running"}}

\* Every attempt is a query that ran, one that may still run, or neither; a
\* call is only fine when its query ran; and nobody is answered before the end.
Served ==
  /\ \A r \in Reqs : executed[r] + Cardinality(Pending(r)) <= attempt[r]
  /\ \A c \in calls : c.ok => executed[c.req] > 0
  /\ \A r \in Reqs : pc[r] # "done" => answer[r] = "none"

LEMMA PendingCount ==
  ASSUME CallsTracked, NEW r
  PROVE  IsFiniteSet(Pending(r)) /\ Cardinality(Pending(r)) \in Nat
<1>1. Pending(r) \subseteq calls
  BY DEF Pending
<1> QED
  BY <1>1, FS_Subset, FS_CardinalityType DEF CallsTracked

LEMMA BecomesPending ==
  ASSUME TypeOK, CallsTracked, NEW c \in calls, NEW at, NEW ok, Becomes(c, at, ok),
         NEW r
  PROVE  Cardinality(Pending(r)') = Cardinality(Pending(r))
           - (IF c \in Pending(r) THEN 1 ELSE 0)
           + (IF c.req = r /\ at \in {"wire", "running"} THEN 1 ELSE 0)
<1> DEFINE d == [c EXCEPT !.at = at, !.ok = ok]
<1>1. c \in CallRecord /\ calls \subseteq CallRecord
  BY CallNumbers
<1>2. d.req = c.req /\ d.n = c.n /\ d.at = at
  BY <1>1 DEF CallRecord
<1>3. calls' = (calls \ {c}) \cup {d}
  BY DEF Becomes
<1> HIDE DEF d
<1>4. d \notin calls \ {c}
  BY <1>2 DEF CallsTracked
<1>5. /\ Pending(r)' \ {d} = Pending(r) \ {c}
      /\ d \in Pending(r)' <=> c.req = r /\ at \in {"wire", "running"}
  BY <1>2, <1>3, <1>4 DEF Pending
<1> QED
  BY <1>5, PendingCount, ReplaceCounts

LEMMA ForwardServed ==
  ASSUME IInv, Served, NEW r \in Reqs, Forward(r)
  PROVE  Served'
<1> DEFINE c == [req |-> r, n |-> attempt[r] + 1, to |-> target[r],
                 at |-> "wire", ok |-> FALSE]
<1>1. c.req = r /\ c.at = "wire" /\ c.ok = FALSE
  OBVIOUS
<1>2. calls' = calls \cup {c} /\ UNCHANGED <<executed, answer>>
  BY DEF Forward
<1> HIDE DEF c
<1>3. /\ pc \in [Reqs -> {"new", "picked", "call", "retry", "done"}]
      /\ attempt \in [Reqs -> 0..Limit] /\ executed \in [Reqs -> Nat]
      /\ \A s \in Reqs : attempt[s] \in Nat
  BY HandlerNumbers DEF IInv, TypeOK
<1>4. ASSUME NEW s \in Reqs
      PROVE  executed'[s] + Cardinality(Pending(s)') <= attempt'[s]
  <2>1. IsFiniteSet(Pending(s)) /\ Cardinality(Pending(s)) \in Nat
    BY PendingCount DEF IInv
  <2>2. /\ executed[s] + Cardinality(Pending(s)) <= attempt[s]
        /\ executed[s] \in Nat /\ attempt[s] \in Nat
    BY <1>3 DEF Served
  <2>3. CASE s = r
    <3>1. Pending(s)' = Pending(s) \cup {c}
      BY <1>1, <1>2, <2>3 DEF Pending
    <3>2. Cardinality(Pending(s)') <= Cardinality(Pending(s)) + 1
          /\ Cardinality(Pending(s)') \in Nat
      BY <2>1, <3>1, FS_AddElement
    <3>3. attempt'[s] = attempt[s] + 1
      BY <1>3, <2>3 DEF Forward
    <3> QED
      BY <1>2, <2>1, <2>2, <3>2, <3>3
  <2>4. CASE s # r
    <3>1. Pending(s)' = Pending(s)
      BY <1>1, <1>2, <2>4 DEF Pending
    <3>2. attempt'[s] = attempt[s]
      BY <1>3, <2>4 DEF Forward
    <3> QED
      BY <1>2, <2>2, <3>1, <3>2
  <2> QED
    BY <2>3, <2>4
<1>5. \A d \in calls' : d.ok => executed'[d.req] > 0
  BY <1>1, <1>2 DEF Served
<1>6. \A s \in Reqs : pc'[s] # "done" => answer'[s] = "none"
  BY <1>2, <1>3 DEF Served, Forward
<1> QED
  BY <1>4, <1>5, <1>6 DEF Served

LEMMA HandlesServed ==
  ASSUME IInv, Served, NEW c \in calls, Handles(c)
  PROVE  Served'
<1>1. /\ executed \in [Reqs -> Nat] /\ c.req \in Reqs /\ c \in CallRecord
      /\ \A s \in Reqs : attempt[s] \in Nat
      /\ \A d \in calls : d.req \in Reqs
  BY CallNumbers, HandlerNumbers DEF IInv, TypeOK
<1>2. PICK at, ok :
        /\ Becomes(c, at, ok)
        /\ \/ c.at = "wire" /\ at = "running" /\ ok = FALSE /\ UNCHANGED executed
           \/ c.at = "wire" /\ at = "lost" /\ ok = FALSE /\ UNCHANGED executed
           \/ c.at = "running" /\ at = "ran"
              /\ executed' = [executed EXCEPT ![c.req] = executed[c.req] + 1]
           \/ c.at = "ran" /\ at = "out" /\ ok = c.ok /\ UNCHANGED executed
  BY DEF Handles, Arrive, LoseCall, RunQuery, RunTest, Run, Done, QueryFails, Return
<1>3. UNCHANGED <<pc, attempt, answer>>
  BY BackendStep DEF handler
<1>4. ASSUME NEW r \in Reqs
      PROVE  executed'[r] + Cardinality(Pending(r)') <= attempt'[r]
  <2> DEFINE p == Cardinality(Pending(r))
             p1 == Cardinality(Pending(r)')
  <2>1. /\ p \in Nat /\ executed[r] + p <= attempt[r]
        /\ executed[r] \in Nat /\ attempt[r] \in Nat /\ attempt'[r] = attempt[r]
    BY <1>1, <1>3, PendingCount DEF Served, IInv
  <2>2. p1 = p - (IF c \in Pending(r) THEN 1 ELSE 0)
               + (IF c.req = r /\ at \in {"wire", "running"} THEN 1 ELSE 0)
    BY <1>2, BecomesPending DEF IInv
  <2>3. c \in Pending(r) <=> c.req = r /\ c.at \in {"wire", "running"}
    BY DEF Pending
  <2> HIDE DEF p, p1
  <2>4. CASE c.req # r
    <3>1. p1 = p /\ executed'[r] = executed[r]
      BY <1>1, <1>2, <2>1, <2>2, <2>3, <2>4
    <3> QED
      BY <2>1, <3>1 DEF p1
  <2>5. CASE c.req = r
    <3>1. p1 = p - (IF c.at \in {"wire", "running"} THEN 1 ELSE 0)
                 + (IF at \in {"wire", "running"} THEN 1 ELSE 0)
      BY <2>2, <2>3, <2>5
    <3>2. executed'[r] + p1 <= executed[r] + p
      BY <1>1, <1>2, <2>1, <2>5, <3>1
    <3>3. p1 \in Nat
      <4>1. IsFiniteSet(calls')
        BY <1>2, <1>3, BecomesTracked DEF IInv, CallsTracked
      <4>2. Pending(r)' \subseteq calls'
        BY DEF Pending
      <4> QED
        BY <4>1, <4>2, FS_Subset, FS_CardinalityType DEF p1
    <3>4. executed'[r] \in Nat
      BY <1>1, <1>2
    <3> QED
      BY <2>1, <3>2, <3>3, <3>4 DEF p1
  <2> QED
    BY <2>4, <2>5
<1>5. \A r \in Reqs : executed'[r] >= executed[r] /\ executed'[r] \in Nat
  BY <1>1, <1>2
<1>6. ASSUME NEW d \in calls', d.ok PROVE executed'[d.req] > 0
  <2> DEFINE e == [c EXCEPT !.at = at, !.ok = ok]
  <2>1. e.req = c.req /\ e.ok = ok
    BY <1>1 DEF CallRecord
  <2>2. calls' = (calls \ {c}) \cup {e}
    BY <1>2 DEF Becomes
  <2> HIDE DEF e
  <2>3. CASE d \in calls
    BY <1>1, <1>5, <1>6, <2>3 DEF Served
  <2>4. CASE d = e
    <3>1. at = "ran" => executed'[c.req] > 0
      BY <1>1, <1>2
    <3>2. at = "out" => executed'[c.req] > 0
      BY <1>1, <1>2, <1>5, <1>6, <2>1, <2>4 DEF Served
    <3> QED
      BY <1>2, <1>6, <2>1, <2>4, <3>1, <3>2
  <2> QED
    BY <2>2, <2>3, <2>4
<1>7. \A s \in Reqs : pc'[s] # "done" => answer'[s] = "none"
  BY <1>3 DEF Served
<1> QED
  BY <1>4, <1>6, <1>7 DEF Served


LEMMA DieServed ==
  ASSUME IInv, Served, NEW b \in Backends, Die(b)
  PROVE  Served'
<1> DEFINE Dead(c) == IF c.to = b /\ c.at \in {"running", "ran"}
                        THEN [c EXCEPT !.at = "lost"] ELSE c
<1>1. calls' = {Dead(c) : c \in calls} /\ UNCHANGED <<executed, pc, attempt, answer>>
  BY DEF Die, handler
<1>2. \A c \in calls : /\ Dead(c).req = c.req /\ Dead(c).ok = c.ok
                       /\ Dead(c) # c => Dead(c).at = "lost"
  BY CallNumbers DEF CallRecord, IInv
<1> HIDE DEF Dead
<1>3. ASSUME NEW r \in Reqs
      PROVE  executed'[r] + Cardinality(Pending(r)') <= attempt'[r]
  <2>1. Pending(r)' \subseteq Pending(r)
    BY <1>1, <1>2 DEF Pending
  <2>2. IsFiniteSet(Pending(r)) /\ Cardinality(Pending(r)) \in Nat
    BY PendingCount DEF IInv
  <2>3. /\ Cardinality(Pending(r)') <= Cardinality(Pending(r))
        /\ Cardinality(Pending(r)') \in Nat
    BY <2>1, <2>2, FS_Subset, FS_CardinalityType
  <2>4. executed[r] \in Nat /\ attempt[r] \in Nat
    <3>1. executed \in [Reqs -> Nat]
      BY DEF IInv, TypeOK
    <3> QED
      BY <3>1, HandlerNumbers DEF IInv
  <2>5. executed[r] + Cardinality(Pending(r)) <= attempt[r]
    BY DEF Served
  <2> QED
    BY <1>1, <2>2, <2>3, <2>4, <2>5
<1>4. \A c \in calls' : c.ok => executed'[c.req] > 0
  BY <1>1, <1>2 DEF Served
<1>5. \A r \in Reqs : pc'[r] # "done" => answer'[r] = "none"
  BY <1>1 DEF Served
<1> QED
  BY <1>3, <1>4, <1>5 DEF Served

LEMMA ServedInductive ==
  ASSUME IInv, Served, [Next]_vars
  PROVE  Served'
<1>1. /\ pc \in [Reqs -> {"new", "picked", "call", "retry", "done"}]
      /\ answer \in [Reqs -> {"none", "ok", "failed", "502", "gone", "broken"}]
  BY DEF IInv, TypeOK
<1>2. ASSUME UNCHANGED <<calls, executed, attempt>>,
             \A r \in Reqs : pc'[r] # "done" => answer'[r] = "none"
      PROVE  Served'
  <2>1. \A r \in Reqs : Pending(r)' = Pending(r)
    BY <1>2 DEF Pending
  <2> QED
    BY <1>2, <2>1 DEF Served
<1>3. ASSUME NEW r \in Reqs, Picks(r) PROVE Served'
  <2>1. PICK b : Picked(r, b)
    BY <1>3, PickFrame
  <2>2. pc[r] # "done"
    BY <1>3, PickedBackend DEF IInv
  <2> QED
    BY <1>1, <1>2, <2>1, <2>2 DEF Picked, Served
<1>4. ASSUME NEW r \in Reqs, Call(r) PROVE Served'
  <2>1. CASE Forward(r)
    BY <2>1, ForwardServed
  <2>2. CASE Answered(r) \/ CallFails(r) \/ ClientLeaves(r)
    BY <1>1, <1>2, <2>2 DEF Answered, CallFails, ClientLeaves, Reply, Served
  <2> QED
    BY <1>4, <2>1, <2>2 DEF Call
<1>5. CASE BalancerRestart
  BY <1>1, <1>2, <1>5 DEF BalancerRestart, Idle, Served
<1>6. CASE UNCHANGED <<calls, executed, attempt, pc, answer>>
  BY <1>2, <1>6 DEF Served
<1>7. \A m \in reports :
        Report(m) \/ Receives(m) => UNCHANGED <<calls, executed, attempt, pc, answer>>
  BY ReportFrame DEF handler
<1> QED
  BY <1>3, <1>4, <1>5, <1>6, <1>7, HandlesServed, DieServed, NextSteps
     DEF Visible, handler

LEMMA InitServed == Init => Served
<1> SUFFICES ASSUME Init PROVE Served
  OBVIOUS
<1>1. \A r \in Reqs : Pending(r) = {} /\ executed[r] = 0 /\ attempt[r] = 0
  BY DEF Init, Pending
<1>2. \A r \in Reqs : executed[r] + Cardinality(Pending(r)) <= attempt[r]
  BY <1>1, FS_EmptySet
<1> QED
  BY <1>2 DEF Init, Served

\* What the clients heard, in the words of the contract.
HeardAll == [r \in Reqs |-> Heard(answer[r])]

\* An answer is one step of the contract.
LEMMA ReplyIsAnswer ==
  ASSUME IInv, Served, NEW r \in Reqs, NEW a \in {"ok", "failed", "502", "gone"},
         pc[r] # "done", Reply(r, a), a = "ok" => executed[r] > 0,
         Limit' = Limit
  PROVE  Delivery!Answer(r)
<1>1. answer \in [Reqs -> {"none", "ok", "failed", "502", "gone", "broken"}]
  BY DEF IInv, TypeOK
<1>2. Heard(a) \in {"ok", "failed"} /\ (Heard(a) = "ok" => executed[r] > 0)
  BY DEF Heard
<1>3. answer' = [answer EXCEPT ![r] = a] /\ UNCHANGED executed
  BY DEF Reply
<1>4. HeardAll' = [HeardAll EXCEPT ![r] = Heard(a)]
  BY <1>1, <1>3 DEF HeardAll
<1>5. HeardAll[r] = "none"
  BY DEF HeardAll, Heard, Served
<1> QED
  BY <1>2, <1>3, <1>4, <1>5 DEF Delivery!Answer, HeardAll


LEMMA CallDelivers ==
  ASSUME IInv, Served, NEW r \in Reqs, Call(r), Limit' = Limit
  PROVE  Delivery!Answer(r) \/ UNCHANGED Delivery!dcVars
<1>1. CASE Forward(r) \/ UNCHANGED <<executed, answer>>
  BY <1>1 DEF Forward, Delivery!dcVars
<1>2. CASE Answered(r)
  <2>1. PICK c \in Current(r) : c.at = "out" /\ Reply(r, IF c.ok THEN "ok" ELSE "failed")
    BY <1>2 DEF Answered
  <2>2. c \in calls /\ c.req = r
    BY <2>1 DEF Current
  <2>3. CASE c.ok
    <3>1. executed[r] > 0 /\ Reply(r, "ok")
      BY <2>1, <2>2, <2>3 DEF Served
    <3> QED
      BY <1>2, <3>1, ReplyIsAnswer DEF Answered
  <2>4. CASE ~c.ok
    <3>1. Reply(r, "failed")
      BY <2>1, <2>4
    <3> QED
      BY <1>2, <3>1, ReplyIsAnswer DEF Answered
  <2> QED
    BY <2>3, <2>4
<1>3. CASE CallFails(r)
  <2>1. CASE Reply(r, "502")
    BY <1>3, <2>1, ReplyIsAnswer DEF CallFails
  <2>2. CASE ~Reply(r, "502")
    BY <1>1, <1>3, <2>2 DEF CallFails
  <2> QED
    BY <2>1, <2>2
<1>4. CASE ClientLeaves(r)
  BY <1>4, ReplyIsAnswer DEF ClientLeaves
<1> QED
  BY <1>1, <1>2, <1>3, <1>4 DEF Call

\* A call that still runs is within the limit, however many were made before.
LEMMA HandlesDelivers ==
  ASSUME IInv, Served, NEW c \in calls, Handles(c), Limit' = Limit
  PROVE  Delivery!Execute(c.req) \/ UNCHANGED Delivery!dcVars
<1>1. UNCHANGED answer
  BY BackendStep DEF handler
<1>2. CASE UNCHANGED executed
  BY <1>1, <1>2 DEF Delivery!dcVars
<1>3. CASE Run(c)
  <2>1. c.req \in Reqs /\ executed \in [Reqs -> Nat]
    BY CallNumbers DEF IInv, TypeOK
  <2>2. Pending(c.req) # {}
    BY <1>3 DEF Run, Pending
  <2>3. Cardinality(Pending(c.req)) \in Nat \ {0}
    BY <2>2, PendingCount, FS_EmptySet DEF IInv
  <2>4. /\ executed[c.req] + Cardinality(Pending(c.req)) <= attempt[c.req]
        /\ attempt[c.req] \in Nat /\ attempt[c.req] <= Limit /\ Limit \in Nat
    BY <2>1, HandlerNumbers DEF Served, IInv
  <2>5. executed[c.req] < Limit
    BY <2>1, <2>3, <2>4
  <2> QED
    BY <1>1, <1>3, <2>5 DEF Run, Delivery!Execute
<1> QED
  BY <1>2, <1>3 DEF Handles, Arrive, LoseCall, RunQuery, RunTest, Return

LEMMA RestartDelivers ==
  ASSUME IInv, Served, BalancerRestart, Limit' = Limit
  PROVE  Delivery!BalancerDies
<1> DEFINE W == {r \in Reqs : ~Idle(r) /\ pc[r] # "done"}
<1>1. W \in SUBSET {r \in Reqs : HeardAll[r] = "none"}
  BY DEF Served, HeardAll, Heard
<1>2. HeardAll' = [r \in Reqs |-> IF r \in W THEN "failed" ELSE HeardAll[r]]
  <2>1. answer' = [r \in Reqs |-> IF r \in W THEN "broken" ELSE answer[r]]
    BY DEF BalancerRestart
  <2>2. Heard("broken") = "failed"
    BY DEF Heard
  <2> HIDE DEF W
  <2> QED
    BY <2>1, <2>2 DEF HeardAll
<1>3. UNCHANGED executed
  BY DEF BalancerRestart
<1> HIDE DEF W
<1> QED
  BY <1>1, <1>2, <1>3 DEF Delivery!BalancerDies, HeardAll

\* The three programs implement DeliveryContract, each with its own number of
\* attempts: a query runs at most that often although calls that timed out go
\* on, the client hears one answer, and success only of a query that ran
\* (RandomTwoPoint/balancer/main.go:157, RoundRobin/Balancer/main.go:195).
THEOREM BaselinesDeliver == Spec => ImplementsDelivery
<1>1. Init => Delivery!Init
  <2>1. ASSUME Init PROVE Delivery!Init
    <3>1. Limit \in Nat
      BY <2>1, LimitType DEF Init
    <3>2. HeardAll = [r \in Reqs |-> "none"]
      BY <2>1 DEF Init, HeardAll, Heard
    <3> QED
      BY <2>1, <3>1, <3>2 DEF Init, Delivery!Init, HeardAll
  <2> QED
    BY <2>1
<1>2. IInv /\ Served /\ [Next]_vars => [Delivery!Next]_(Delivery!dcVars)
  <2> SUFFICES ASSUME IInv, Served, [Next]_vars
               PROVE  Delivery!Next \/ UNCHANGED Delivery!dcVars
    OBVIOUS
  <2>1. Limit' = Limit
    BY LimitConstant
  <2>2. CASE UNCHANGED <<executed, answer>>
    BY <2>1, <2>2 DEF Delivery!dcVars
  <2>3. \A r \in Reqs : Picks(r) => UNCHANGED <<executed, answer>>
    BY PickFrame
  <2>4. \A m \in reports : Report(m) \/ Receives(m) => UNCHANGED <<executed, answer>>
    BY ReportFrame DEF handler
  <2>5. \A b \in Backends : Die(b) => UNCHANGED <<executed, answer>>
    BY DEF Die, handler
  <2>6. ASSUME NEW r \in Reqs, Call(r) PROVE Delivery!Next \/ UNCHANGED Delivery!dcVars
    BY <2>1, <2>6, CallDelivers DEF Delivery!Next
  <2>7. ASSUME NEW c \in calls, Handles(c)
        PROVE  Delivery!Next \/ UNCHANGED Delivery!dcVars
    <3>1. c.req \in Reqs
      BY CallNumbers DEF IInv
    <3> QED
      BY <2>1, <2>7, <3>1, HandlesDelivers DEF Delivery!Next
  <2>8. CASE BalancerRestart
    BY <2>1, <2>8, RestartDelivers DEF Delivery!Next
  <2> QED
    BY <2>2, <2>3, <2>4, <2>5, <2>6, <2>7, <2>8, NextSteps DEF Visible, handler
<1>3. IInv /\ Served /\ [Next]_vars => Served'
  BY ServedInductive
<1> QED
  BY Invariance, InitServed, <1>1, <1>2, <1>3, PTL
     DEF Spec, ImplementsDelivery, Delivery!Spec


-----------------------------------------------------------------------------
(***************************************************************************)
(* The rotation of RoundRobin.                                             *)
(***************************************************************************)

\* Quotient and remainder are unique.
LEMMA Remainder ==
  ASSUME NEW d \in Nat, NEW m \in 0 .. N - 1
  PROVE  N * d + m \in Nat /\ (N * d + m) % N = m
<1>1. N \in Nat \ {0} /\ N * d \in Nat
  BY BaselineAssumption
<1> QED
  BY <1>1

\* Two rounds of the rotation.
LEMMA RemainderNear ==
  ASSUME NEW x \in 0 .. 2 * N - 1
  PROVE  x % N = IF x < N THEN x ELSE x - N
<1>1. N \in Nat \ {0}
  BY BaselineAssumption
<1> QED
  BY <1>1

\* From any start, different numbers of steps lead to different backends, and
\* every backend is some number of steps away.
LEMMA RotationMeets ==
  ASSUME NEW f \in Backends
  PROVE  /\ \A i, j \in 0 .. N - 1 : (f + i) % N = (f + j) % N => i = j
         /\ \A b \in Backends : \E i \in 0 .. N - 1 : (f + i) % N = b
<1>1. N \in Nat \ {0} /\ Backends = 0 .. N - 1
  BY BaselineAssumption DEF Backends
<1>2. ASSUME NEW i \in 0 .. N - 1
      PROVE  (f + i) % N = IF f + i < N THEN f + i ELSE f + i - N
  <2> DEFINE x == f + i
  <2>1. x \in 0 .. 2 * N - 1
    BY <1>1
  <2>2. x % N = IF x < N THEN x ELSE x - N
    <3> HIDE DEF x
    <3> QED
      BY <2>1, RemainderNear
  <2> QED
    BY <1>1, <2>1, <2>2
<1>3. ASSUME NEW i \in 0 .. N - 1, NEW j \in 0 .. N - 1, (f + i) % N = (f + j) % N
      PROVE  i = j
  BY <1>1, <1>2, <1>3
<1>4. ASSUME NEW b \in Backends PROVE \E i \in 0 .. N - 1 : (f + i) % N = b
  <2> DEFINE i == IF b >= f THEN b - f ELSE b - f + N
  <2>1. i \in 0 .. N - 1 /\ (IF f + i < N THEN f + i ELSE f + i - N) = b
    BY <1>1
  <2> HIDE DEF i
  <2>2. (f + i) % N = b
    BY <1>2, <2>1
  <2> QED
    BY <2>1, <2>2
<1> QED
  BY <1>3, <1>4

\* The n-th call of a request goes to the backend n - 1 steps from its start,
\* every number up to its attempts has a call, and a 502 comes after all.
RotationKept ==
  /\ \A r \in Reqs : /\ pc[r] = "new" => first[r] = NotRead
                     /\ pc[r] # "new" => first[r] \in Backends
                     /\ pc[r] = "picked" => target[r] = (first[r] + attempt[r]) % N
                     /\ \A n \in 1 .. attempt[r] : \E c \in calls : c.req = r /\ c.n = n
                     /\ answer[r] = "502" => attempt[r] = N /\ pc[r] = "done"
  /\ \A c \in calls : c.to = (first[c.req] + c.n - 1) % N

\* The requests that started at backend b.
Starts(b) == {r \in Reqs : first[r] = b}

\* After N * d + m requests, the first m backends have started d + 1 of them
\* and the others d.
StartsEven ==
  restarts = 0 =>
    \E d \in Nat, m \in 0 .. N - 1 :
      /\ counter = N * d + m
      /\ \A b \in Backends : Cardinality(Starts(b)) = d + (IF b < m THEN 1 ELSE 0)

LEMMA PickRotation ==
  ASSUME IInv, RotationKept, program = "RoundRobin", NEW r \in Reqs, Picks(r)
  PROVE  RotationKept'
<1>1. /\ StartRotation(r) \/ NextInRotation(r)
      /\ UNCHANGED <<attempt, answer, calls>>
  BY PickFrame DEF Picks, PickTwoPoint, Dispatch
<1>2. /\ pc \in [Reqs -> {"new", "picked", "call", "retry", "done"}]
      /\ target \in [Reqs -> Backends] /\ first \in [Reqs -> Backends \cup {NotRead}]
      /\ \A c \in calls : c.n \in Nat /\ c.n >= 1 /\ c.req \in Reqs /\ c.n <= attempt[c.req]
      /\ \A s \in Reqs : attempt[s] \in Nat
  BY CallNumbers, HandlerNumbers DEF IInv, TypeOK, CallsTracked
<1>3. CASE StartRotation(r)
  <2>1. pc[r] = "new" /\ attempt[r] = 0
    BY <1>3 DEF StartRotation, Arrives, Idle, IInv, AttemptsLeft
  <2> DEFINE b == counter % N
  <2>2. b \in Backends
    <3>1. counter \in Nat
      BY DEF IInv, TypeOK
    <3> QED
      BY <3>1, BackendsFinite
  <2>3. /\ first' = [first EXCEPT ![r] = b] /\ target' = [target EXCEPT ![r] = b]
        /\ pc' = [pc EXCEPT ![r] = "picked"]
    BY <1>3 DEF StartRotation, Picked
  <2> HIDE DEF b
  <2>4. (b + 0) % N = b
    <3>1. b \in 0 .. N - 1 /\ N \in Nat \ {0}
      BY <2>2, BaselineAssumption DEF Backends
    <3> QED
      BY <3>1
  <2>5. \A c \in calls : c.req # r
    BY <1>2, <2>1
  <2>6. \A c \in calls : c.to = (first'[c.req] + c.n - 1) % N
    BY <1>2, <2>3, <2>5 DEF RotationKept
  <2>7. \A s \in Reqs : s # r => /\ first'[s] = first[s] /\ pc'[s] = pc[s]
                                 /\ target'[s] = target[s]
    BY <1>2, <2>3
  <2>8. first'[r] = b /\ pc'[r] = "picked" /\ target'[r] = b
    BY <1>2, <2>3
  <2>9. answer[r] # "502"
    BY <2>1 DEF RotationKept
  <2> QED
    BY <1>1, <2>1, <2>2, <2>4, <2>6, <2>7, <2>8, <2>9 DEF RotationKept
<1>4. CASE NextInRotation(r)
  <2>1. /\ pc[r] = "retry" /\ UNCHANGED first
        /\ target' = [target EXCEPT ![r] = (first[r] + attempt[r]) % N]
        /\ pc' = [pc EXCEPT ![r] = "picked"]
    BY <1>4 DEF NextInRotation, Picked, rotation
  <2>2. \A s \in Reqs : s # r => pc'[s] = pc[s] /\ target'[s] = target[s]
    BY <1>2, <2>1
  <2>3. pc'[r] = "picked" /\ target'[r] = (first[r] + attempt[r]) % N
    BY <1>2, <2>1
  <2> QED
    BY <1>1, <2>1, <2>2, <2>3 DEF RotationKept
<1> QED
  BY <1>1, <1>3, <1>4

LEMMA CallRotation ==
  ASSUME IInv, RotationKept, program = "RoundRobin", NEW r \in Reqs, Call(r)
  PROVE  RotationKept'
<1>1. /\ pc \in [Reqs -> {"new", "picked", "call", "retry", "done"}]
      /\ attempt \in [Reqs -> 0 .. Limit]
      /\ answer \in [Reqs -> {"none", "ok", "failed", "502", "gone", "broken"}]
      /\ first \in [Reqs -> Backends \cup {NotRead}]
      /\ \A c \in calls : c.n \in Nat /\ c.req \in Reqs
      /\ \A s \in Reqs : attempt[s] \in Nat
  BY CallNumbers, HandlerNumbers DEF IInv, TypeOK
<1>2. CASE Forward(r)
  <2> DEFINE c == [req |-> r, n |-> attempt[r] + 1, to |-> target[r],
                   at |-> "wire", ok |-> FALSE]
  <2>1. c.req = r /\ c.n = attempt[r] + 1 /\ c.to = target[r]
    OBVIOUS
  <2>2. /\ calls' = calls \cup {c} /\ UNCHANGED <<first, target, answer>>
        /\ pc[r] = "picked" /\ pc' = [pc EXCEPT ![r] = "call"]
        /\ attempt' = [attempt EXCEPT ![r] = attempt[r] + 1]
    BY <1>2 DEF Forward, rotation
  <2> HIDE DEF c
  <2>3. c.to = (first[c.req] + c.n - 1) % N
    <3>1. first[r] \in Int /\ attempt[r] \in Nat
      BY HandlerNumbers DEF IInv
    <3>2. first[r] + (attempt[r] + 1) - 1 = first[r] + attempt[r]
      BY <3>1
    <3> QED
      BY <2>1, <2>2, <3>2 DEF RotationKept
  <2>4. ASSUME NEW s \in Reqs, NEW n \in 1 .. attempt'[s]
        PROVE  \E e \in calls' : e.req = s /\ e.n = n
    <3>1. CASE s = r /\ n = attempt[r] + 1
      BY <2>1, <2>2, <3>1
    <3>2. CASE ~(s = r /\ n = attempt[r] + 1)
      <4>1. n \in 1 .. attempt[s]
        BY <1>1, <2>2, <2>4, <3>2
      <4> QED
        BY <2>2, <4>1 DEF RotationKept
    <3> QED
      BY <3>1, <3>2
  <2>5. \A s \in Reqs : /\ s # r => pc'[s] = pc[s] /\ attempt'[s] = attempt[s]
                        /\ pc'[r] = "call" /\ answer[r] # "502"
    BY <1>1, <2>2 DEF RotationKept
  <2>6. \A e \in calls' : e.to = (first'[e.req] + e.n - 1) % N
    BY <2>2, <2>3 DEF RotationKept
  <2> QED
    BY <2>2, <2>4, <2>5, <2>6 DEF RotationKept
<1>3. CASE Answered(r) \/ CallFails(r) \/ ClientLeaves(r)
  <2>1. UNCHANGED <<calls, attempt, first, target>>
    BY <1>3 DEF Answered, CallFails, ClientLeaves, Reply, rotation
  <2>2. pc'[r] \in {"retry", "done"} /\ pc[r] # "new"
    BY <1>1, <1>3 DEF Answered, CallFails, ClientLeaves, Reply
  <2>3. \A s \in Reqs : s # r => pc'[s] = pc[s] /\ answer'[s] = answer[s]
    BY <1>1, <1>3 DEF Answered, CallFails, ClientLeaves, Reply
  <2>4. answer'[r] = "502" => attempt[r] = N /\ pc'[r] = "done"
    <3>1. Limit = N
      BY DEF Limit
    <3> QED
      BY <1>1, <1>3, <3>1
         DEF Answered, CallFails, ClientLeaves, Reply, RotationKept
  <2> QED
    BY <2>1, <2>2, <2>3, <2>4 DEF RotationKept
<1> QED
  BY <1>2, <1>3 DEF Call


\* No step of a backend moves a call to another backend or drops it.
LEMMA OthersRotation ==
  ASSUME IInv, RotationKept, UNCHANGED <<first, attempt>>,
         \A r \in Reqs : \/ UNCHANGED <<pc[r], target[r], answer[r]>>
                         \/ pc[r] # "new" /\ pc'[r] = "done" /\ answer'[r] # "502",
         \A d \in calls' : \E c \in calls : d.req = c.req /\ d.n = c.n /\ d.to = c.to,
         \A c \in calls : \E d \in calls' : d.req = c.req /\ d.n = c.n
  PROVE  RotationKept'
<1>1. ASSUME NEW r \in Reqs
      PROVE  /\ pc'[r] = "new" => first'[r] = NotRead
             /\ pc'[r] # "new" => first'[r] \in Backends
             /\ pc'[r] = "picked" => target'[r] = (first'[r] + attempt'[r]) % N
             /\ answer'[r] = "502" => attempt'[r] = N /\ pc'[r] = "done"
  BY DEF RotationKept
<1>2. ASSUME NEW r \in Reqs, NEW n \in 1 .. attempt'[r]
      PROVE  \E d \in calls' : d.req = r /\ d.n = n
  <2>1. PICK c \in calls : c.req = r /\ c.n = n
    BY DEF RotationKept
  <2> QED
    BY <2>1
<1>3. \A d \in calls' : d.to = (first'[d.req] + d.n - 1) % N
  BY DEF RotationKept
<1> QED
  BY <1>1, <1>2, <1>3 DEF RotationKept

LEMMA RotationInductive ==
  ASSUME IInv, RotationKept, program = "RoundRobin", [Next]_vars
  PROVE  RotationKept'
<1>1. ASSUME NEW c \in calls, Handles(c) PROVE RotationKept'
  <2>1. /\ UNCHANGED <<first, attempt, pc, target, answer>>
        /\ \E at, ok : Becomes(c, at, ok)
    BY <1>1, BackendStep DEF handler, rotation
  <2>2. PICK at, ok : Becomes(c, at, ok)
    BY <2>1
  <2> DEFINE d == [c EXCEPT !.at = at, !.ok = ok]
  <2>3. calls' = (calls \ {c}) \cup {d}
    BY <2>2 DEF Becomes
  <2>4. d.req = c.req /\ d.n = c.n /\ d.to = c.to
    BY CallNumbers DEF CallRecord, IInv
  <2> HIDE DEF d
  <2>5. /\ \A e \in calls' : \E a \in calls : e.req = a.req /\ e.n = a.n /\ e.to = a.to
        /\ \A a \in calls : \E e \in calls' : e.req = a.req /\ e.n = a.n
    BY <2>3, <2>4
  <2> QED
    BY <2>1, <2>5, OthersRotation
<1>2. ASSUME NEW b \in Backends, Die(b) PROVE RotationKept'
  <2> DEFINE Dead(c) == IF c.to = b /\ c.at \in {"running", "ran"}
                          THEN [c EXCEPT !.at = "lost"] ELSE c
  <2>1. calls' = {Dead(c) : c \in calls} /\ UNCHANGED <<first, attempt, pc, target, answer>>
    BY <1>2 DEF Die, handler, rotation
  <2>2. \A c \in calls : Dead(c).req = c.req /\ Dead(c).n = c.n /\ Dead(c).to = c.to
    BY CallNumbers DEF CallRecord, IInv
  <2> HIDE DEF Dead
  <2>3. /\ \A e \in calls' : \E a \in calls : e.req = a.req /\ e.n = a.n /\ e.to = a.to
        /\ \A a \in calls : \E e \in calls' : e.req = a.req /\ e.n = a.n
    BY <2>1, <2>2
  <2> QED
    BY <2>1, <2>3, OthersRotation
<1>3. CASE BalancerRestart
  <2>1. /\ pc \in [Reqs -> {"new", "picked", "call", "retry", "done"}]
        /\ answer \in [Reqs -> {"none", "ok", "failed", "502", "gone", "broken"}]
    BY DEF IInv, TypeOK
  <2>2. UNCHANGED <<first, attempt, target, calls>>
    BY <1>3 DEF BalancerRestart
  <2>3. ASSUME NEW r \in Reqs
        PROVE  \/ UNCHANGED <<pc[r], target[r], answer[r]>>
               \/ pc[r] # "new" /\ pc'[r] = "done" /\ answer'[r] # "502"
    <3>1. choice[r] = Unchosen
      BY DEF IInv, TypeOK
    <3> QED
      BY <1>3, <2>1, <2>2, <3>1 DEF BalancerRestart, Idle
  <2> QED
    BY <2>2, <2>3, OthersRotation
<1>4. CASE UNCHANGED <<first, attempt, pc, target, answer, calls>>
  BY <1>4 DEF RotationKept
<1>5. \A m \in reports : Report(m) \/ Receives(m) =>
        UNCHANGED <<first, attempt, pc, target, answer, calls>>
  BY ReportFrame DEF handler, rotation
<1> QED
  BY <1>1, <1>2, <1>3, <1>4, <1>5, PickRotation, CallRotation, NextSteps
     DEF Visible, handler, rotation

\* One more request starts at the backend whose turn it is.
LEMMA StartEven ==
  ASSUME IInv, RotationKept, StartsEven, NEW r \in Reqs, StartRotation(r)
  PROVE  StartsEven'
<1>1. /\ pc[r] = "new" /\ counter' = counter + 1 /\ restarts' = restarts
      /\ first' = [first EXCEPT ![r] = counter % N]
  BY DEF StartRotation, Arrives, Idle, Picked, bounds
<1>2. first \in [Reqs -> Backends \cup {NotRead}]
  BY DEF IInv, TypeOK
<1>3. N \in Nat \ {0} /\ Backends = 0 .. N - 1
  BY BaselineAssumption DEF Backends
<1>4. first[r] = NotRead /\ NotRead \notin Backends
  BY <1>1, <1>3 DEF RotationKept, NotRead
<1> SUFFICES ASSUME restarts = 0
             PROVE  \E d \in Nat, m \in 0 .. N - 1 :
                      /\ counter' = N * d + m
                      /\ \A b \in Backends :
                           Cardinality(Starts(b)') = d + (IF b < m THEN 1 ELSE 0)
  BY <1>1 DEF StartsEven
<1>5. PICK d \in Nat, m \in 0 .. N - 1 :
        /\ counter = N * d + m
        /\ \A b \in Backends : Cardinality(Starts(b)) = d + (IF b < m THEN 1 ELSE 0)
  BY DEF StartsEven
<1>6. counter % N = m
  BY <1>5, Remainder
<1>7. ASSUME NEW b \in Backends
      PROVE  Cardinality(Starts(b)') = d + (IF b <= m THEN 1 ELSE 0)
  <2>1. Cardinality(Starts(b)) = d + (IF b < m THEN 1 ELSE 0)
    BY <1>5
  <2>2. IsFiniteSet(Starts(b)) /\ r \notin Starts(b)
    <3>1. Starts(b) \subseteq Reqs
      BY DEF Starts
    <3> QED
      BY <1>3, <1>4, <3>1, BaselineAssumption, FS_Subset DEF Starts
  <2>3. CASE b = m
    <3>1. Starts(b)' = Starts(b) \cup {r}
      BY <1>1, <1>2, <1>6, <2>3 DEF Starts
    <3>2. Cardinality(Starts(b)') = Cardinality(Starts(b)) + 1
      BY <2>2, <3>1, FS_AddElement
    <3> QED
      BY <1>3, <2>1, <2>3, <3>2
  <2>4. CASE b # m
    <3>1. Starts(b)' = Starts(b)
      BY <1>1, <1>2, <1>4, <1>6, <2>4 DEF Starts
    <3> QED
      BY <1>3, <2>1, <2>4, <3>1
  <2> QED
    BY <2>3, <2>4
<1>8. CASE m + 1 < N
  <2>1. m + 1 \in 0 .. N - 1 /\ counter' = N * d + (m + 1)
    <3>1. N * d \in Nat
      BY <1>3
    <3> QED
      BY <1>1, <1>3, <1>5, <1>8, <3>1
  <2>2. \A b \in Backends : Cardinality(Starts(b)') = d + (IF b < m + 1 THEN 1 ELSE 0)
    BY <1>3, <1>7
  <2> QED
    BY <2>1, <2>2
<1>9. CASE m + 1 = N
  <2>1. counter' = N * (d + 1) + 0
    <3>1. N * d \in Nat /\ N * (d + 1) = N * d + N
      BY <1>3
    <3> QED
      BY <1>1, <1>3, <1>5, <1>9, <3>1
  <2>2. \A b \in Backends : Cardinality(Starts(b)') = (d + 1) + (IF b < 0 THEN 1 ELSE 0)
    BY <1>3, <1>7, <1>9
  <2>3. d + 1 \in Nat /\ 0 \in 0 .. N - 1
    BY <1>3
  <2> QED
    BY <2>1, <2>2, <2>3
<1> QED
  BY <1>3, <1>8, <1>9

LEMMA StartsInductive ==
  ASSUME IInv, RotationKept, StartsEven, program = "RoundRobin", [Next]_vars
  PROVE  StartsEven'
<1>1. CASE UNCHANGED <<counter, first, restarts>>
  <2>1. \A b : Starts(b)' = Starts(b)
    BY <1>1 DEF Starts
  <2> QED
    BY <1>1, <2>1 DEF StartsEven
<1>2. ASSUME NEW r \in Reqs, Picks(r) PROVE StartsEven'
  <2>1. CASE StartRotation(r)
    BY <2>1, StartEven
  <2>2. CASE ~StartRotation(r)
    BY <1>1, <1>2, <2>2, PickFrame
       DEF Picks, PickTwoPoint, NextInRotation, Dispatch, rotation, bounds
  <2> QED
    BY <2>1, <2>2
<1>3. \A r \in Reqs : Call(r) => UNCHANGED <<counter, first, restarts>>
  BY DEF Call, Forward, Answered, CallFails, ClientLeaves, Reply, rotation, bounds
<1>4. \A c \in calls : Handles(c) => UNCHANGED <<counter, first, restarts>>
  BY BackendStep DEF rotation, bounds
<1>5. \A m \in reports : Report(m) \/ Receives(m) => UNCHANGED <<counter, first, restarts>>
  BY ReportFrame DEF rotation, bounds
<1>6. CASE BalancerRestart
  <2>1. restarts \in Nat /\ restarts' = restarts + 1
    <3>1. restarts \in 0 .. MaxFaults[program] /\ program \in Programs
      BY DEF IInv, TypeOK
    <3>2. MaxFaults[program] \in Nat
      BY <3>1, BaselineAssumption
    <3> QED
      BY <1>6, <3>1, <3>2 DEF BalancerRestart
  <2> QED
    BY <2>1 DEF StartsEven
<1> QED
  BY <1>1, <1>2, <1>3, <1>4, <1>5, <1>6, NextSteps DEF Die, Visible, rotation, bounds


RotationInv == program = "RoundRobin" => RotationKept /\ StartsEven

LEMMA InitRotation == Init => RotationInv
<1> SUFFICES ASSUME Init PROVE RotationKept /\ StartsEven
  BY DEF RotationInv
<1>1. RotationKept
  BY DEF Init, RotationKept
<1>2. N \in Nat \ {0} /\ Backends = 0 .. N - 1
  BY BaselineAssumption DEF Backends
<1>3. \A b \in Backends : Starts(b) = {}
  BY <1>2 DEF Init, Starts, NotRead
<1>4. \A b \in Backends : Cardinality(Starts(b)) = 0 + (IF b < 0 THEN 1 ELSE 0)
  BY <1>2, <1>3, FS_EmptySet
<1>5. counter = N * 0 + 0 /\ 0 \in 0 .. N - 1
  BY <1>2 DEF Init
<1>6. StartsEven
  BY <1>4, <1>5 DEF StartsEven
<1> QED
  BY <1>1, <1>6

\* Where a call goes, in steps from the start of its request.
LEMMA CallsInRotation ==
  ASSUME IInv, RotationKept, program = "RoundRobin", NEW c \in calls
  PROVE  /\ first[c.req] \in Backends /\ c.n - 1 \in 0 .. N - 1
         /\ c.to = (first[c.req] + (c.n - 1)) % N
<1>1. Limit = N /\ N \in Nat \ {0}
  BY BaselineAssumption DEF Limit
<1>2. c.req \in Reqs /\ c.n \in 1 .. N
  BY <1>1, CallNumbers DEF IInv, CallRecord
<1>3. c.n <= attempt[c.req]
  BY DEF IInv, CallsTracked
<1>4. pc[c.req] # "new"
  BY <1>1, <1>2, <1>3 DEF IInv, AttemptsLeft
<1>5. first[c.req] \in Backends /\ c.to = (first[c.req] + c.n - 1) % N
  BY <1>2, <1>4 DEF RotationKept
<1>6. first[c.req] \in Int /\ c.n \in Int
  BY <1>1, <1>2, HandlerNumbers DEF IInv
<1>7. first[c.req] + c.n - 1 = first[c.req] + (c.n - 1)
  BY <1>6
<1>8. c.to = (first[c.req] + (c.n - 1)) % N
  BY <1>5, <1>7
<1> QED
  BY <1>1, <1>2, <1>5, <1>8

\* RoundRobin spreads its starts, visits no backend twice for one request, and
\* answers 502 only after all of them, for any number of requests and backends
\* (RoundRobin/Balancer/main.go:187-195).
THEOREM RotationSpreads == Spec => []Rotates
<1>1. IInv /\ RotationInv /\ [Next]_vars => RotationInv'
  BY LimitConstant, RotationInductive, StartsInductive DEF RotationInv
<1>2. IInv /\ RotationInv => Rotates
  <2> SUFFICES ASSUME IInv, RotationKept, StartsEven, program = "RoundRobin"
               PROVE  Rotates
    BY DEF RotationInv, Rotates
  <2>1. N \in Nat \ {0} /\ Backends = 0 .. N - 1 /\ Limit = N
    BY BaselineAssumption DEF Backends, Limit
  <2>2. ASSUME restarts = 0, NEW b \in Backends, NEW d \in Backends
        PROVE  Cardinality(Starts(b)) <= Cardinality(Starts(d)) + 1
    BY <2>1, <2>2 DEF StartsEven
  <2>3. ASSUME NEW c \in calls, NEW d \in calls, c.req = d.req, c.to = d.to
        PROVE  c = d
    <3>1. c.n - 1 = d.n - 1
      BY <2>3, CallsInRotation, RotationMeets
    <3>2. c.n \in Nat /\ d.n \in Nat
      BY CallNumbers DEF IInv
    <3>3. c.n = d.n
      BY <3>1, <3>2
    <3> QED
      BY <2>3, <3>3 DEF IInv, CallsTracked
  <2>4. ASSUME NEW r \in Reqs, answer[r] = "502"
        PROVE  {c.to : c \in {e \in calls : e.req = r}} = Backends
    <3>1. \A c \in calls : c.to \in Backends
      BY CallNumbers DEF IInv
    <3>2. attempt[r] = N /\ pc[r] = "done" /\ first[r] \in Backends
      BY <2>4 DEF RotationKept
    <3>3. ASSUME NEW b \in Backends PROVE \E c \in calls : c.req = r /\ c.to = b
      <4>1. PICK i \in 0 .. N - 1 : (first[r] + i) % N = b
        BY <3>2, RotationMeets
      <4>2. i + 1 \in 1 .. attempt[r]
        BY <2>1, <3>2
      <4>3. PICK c \in calls : c.req = r /\ c.n = i + 1
        BY <4>2 DEF RotationKept
      <4>4. c.n - 1 = i
        BY <4>3
      <4>5. c.to = b
        BY <4>1, <4>3, <4>4, CallsInRotation
      <4> QED
        BY <4>3, <4>5
    <3> QED
      BY <3>1, <3>3
  <2> QED
    BY <2>2, <2>3, <2>4 DEF Rotates, Starts
<1> QED
  BY Invariance, InitRotation, <1>1, <1>2, PTL DEF Spec


-----------------------------------------------------------------------------
(***************************************************************************)
(* The feedback of RL.                                                     *)
(***************************************************************************)

\* How often state s waits in a FIFO.
Places(s, seq) == {i \in 1 .. Len(seq) : seq[i] = s}

LEMMA PlacesFinite ==
  ASSUME NEW S, NEW seq \in Seq(S), NEW s
  PROVE  IsFiniteSet(Places(s, seq)) /\ Cardinality(Places(s, seq)) \in Nat
<1>1. Places(s, seq) \subseteq 1 .. Len(seq) /\ Len(seq) \in Nat
  BY LenProperties DEF Places
<1>2. IsFiniteSet(1 .. Len(seq))
  BY <1>1, FS_Interval
<1> QED
  BY <1>1, <1>2, FS_Subset, FS_CardinalityType

LEMMA PlacesAppend ==
  ASSUME NEW S, NEW seq \in Seq(S), NEW e \in S, NEW s
  PROVE  Cardinality(Places(s, Append(seq, e)))
           = Cardinality(Places(s, seq)) + (IF e = s THEN 1 ELSE 0)
<1>1. /\ Len(Append(seq, e)) = Len(seq) + 1 /\ Len(seq) \in Nat
      /\ \A i \in 1 .. Len(seq) : Append(seq, e)[i] = seq[i]
      /\ Append(seq, e)[Len(seq) + 1] = e
  BY AppendProperties, LenProperties
<1>2. IsFiniteSet(Places(s, seq)) /\ Cardinality(Places(s, seq)) \in Nat
  BY PlacesFinite
<1>3. Len(seq) + 1 \notin Places(s, seq)
  BY <1>1 DEF Places
<1>4. CASE e = s
  <2>1. Places(s, Append(seq, e)) = Places(s, seq) \cup {Len(seq) + 1}
    BY <1>1, <1>4 DEF Places
  <2> QED
    BY <1>2, <1>3, <1>4, <2>1, FS_AddElement
<1>5. CASE e # s
  <2>1. Places(s, Append(seq, e)) = Places(s, seq)
    BY <1>1, <1>5 DEF Places
  <2> QED
    BY <1>2, <1>5, <2>1
<1> QED
  BY <1>4, <1>5

\* Taking the head shifts the others by one place.
LEMMA PlacesTail ==
  ASSUME NEW S, NEW seq \in Seq(S), seq # << >>, NEW s
  PROVE  Cardinality(Places(s, Tail(seq)))
           = Cardinality(Places(s, seq)) - (IF Head(seq) = s THEN 1 ELSE 0)
<1>1. /\ Len(seq) \in Nat \ {0} /\ Len(Tail(seq)) = Len(seq) - 1
      /\ \A i \in 1 .. Len(seq) - 1 : Tail(seq)[i] = seq[i + 1]
      /\ Tail(seq) \in Seq(S) /\ Head(seq) = seq[1]
  BY HeadTailProperties, EmptySeq
<1> DEFINE old == Places(s, seq)
           new == Places(s, Tail(seq))
           shift == [i \in new |-> i + 1]
<1>2. new = {i \in 1 .. Len(seq) - 1 : seq[i + 1] = s}
  BY <1>1 DEF Places
<1>3. old \ {1} = {i + 1 : i \in new}
  <2>1. ASSUME NEW j \in old \ {1} PROVE j - 1 \in new /\ (j - 1) + 1 = j
    BY <1>1, <1>2 DEF Places
  <2>2. ASSUME NEW i \in new PROVE i + 1 \in old \ {1}
    BY <1>1, <1>2 DEF Places
  <2> QED
    BY <2>1, <2>2
<1>4. shift \in Bijection(new, old \ {1})
  <2>1. \A i \in new : i \in Int
    BY <1>1, <1>2
  <2> HIDE DEF new, old
  <2>2. shift \in [new -> old \ {1}]
    BY <1>3
  <2>3. \A i, j \in new : shift[i] = shift[j] => i = j
    BY <2>1
  <2>4. \A j \in old \ {1} : \E i \in new : shift[i] = j
    BY <1>3
  <2> HIDE DEF shift
  <2> QED
    BY <2>2, <2>3, <2>4 DEF Bijection, Injection, Surjection, IsInjective
<1>5. IsFiniteSet(new) /\ IsFiniteSet(old) /\ Cardinality(old) \in Nat
  BY <1>1, PlacesFinite
<1>6. Cardinality(old \ {1}) = Cardinality(new)
  <2> HIDE DEF new, old, shift
  <2>1. ExistsBijection(new, old \ {1})
    BY <1>4 DEF ExistsBijection
  <2> QED
    BY <1>5, <2>1, FS_Bijection
<1>7. 1 \in old <=> Head(seq) = s
  BY <1>1 DEF Places
<1>8. Cardinality(old \ {1}) = IF 1 \in old THEN Cardinality(old) - 1 ELSE Cardinality(old)
  <2> HIDE DEF old
  <2> QED
    BY <1>5, FS_RemoveElement
<1> HIDE DEF old, new
<1>9. Cardinality(new) = Cardinality(old) - (IF Head(seq) = s THEN 1 ELSE 0)
  BY <1>5, <1>6, <1>7, <1>8
<1> QED
  BY <1>9 DEF old, new

\* In RL a request has one call, and a report is of a call that has run, at
\* most one of each.
ReportsTracked ==
  /\ \A c \in calls : c.to = target[c.req]
  /\ \A m \in reports : \E c \in calls :
       m.of = <<c.req, c.n>> /\ m.from = c.to /\ c.at \in {"ran", "out", "lost"}
  /\ \A m, k \in reports : m.of = k.of => m = k

\* The requests that may still report to the balancer, by their backend.
Owing(b) ==
  {r \in Reqs : /\ target[r] = b
                /\ \/ pc[r] = "picked"
                   \/ \E c \in calls : c.req = r /\ c.at \in {"wire", "running"}
                   \/ \E m \in reports : m.of[1] = r}

\* Each of them has left a state in the FIFO of its backend.
OwedKept == \A b \in Backends : Cardinality(Owing(b)) <= Len(fifo[b])

LEMMA OwingFinite ==
  \A b : IsFiniteSet(Owing(b)) /\ Cardinality(Owing(b)) \in Nat
<1>1. \A b : Owing(b) \subseteq Reqs
  BY DEF Owing
<1> QED
  BY <1>1, BaselineAssumption, FS_Subset, FS_CardinalityType

\* In RL a request has no call before its only attempt, and one after it.
LEMMA OneCall ==
  ASSUME IInv, program = "RL"
  PROVE  /\ Limit = 1
         /\ \A c \in calls : c.n = 1 /\ c.req \in Reqs /\ c.to \in Backends
         /\ \A c, d \in calls : c.req = d.req => c = d
         /\ \A c \in calls : pc[c.req] \notin {"new", "picked", "retry"}
<1>1. Limit = 1
  BY DEF Limit
<1>2. \A c \in calls : c.n = 1 /\ c.req \in Reqs /\ c.to \in Backends
  BY <1>1, CallNumbers DEF IInv, CallRecord
<1>3. ASSUME NEW c \in calls PROVE pc[c.req] \notin {"new", "picked", "retry"}
  <2>1. 1 <= attempt[c.req] /\ attempt[c.req] \in Nat
    BY <1>2, HandlerNumbers DEF IInv, CallsTracked
  <2> QED
    BY <1>1, <1>2, <2>1 DEF IInv, AttemptsLeft
<1> QED
  BY <1>1, <1>2, <1>3 DEF IInv, CallsTracked

-----------------------------------------------------------------------------
\* A new request has no call and no report yet.
LEMMA PickReports ==
  ASSUME IInv, program = "RL", ReportsTracked, NEW r \in Reqs, Picks(r)
  PROVE  ReportsTracked'
<1>1. PICK b : Picked(r, b)
  BY PickFrame
<1>2. UNCHANGED <<calls, reports>> /\ \A c \in calls : c.req # r /\ c.req \in Reqs
  BY <1>1, PickedBackend, OneCall DEF Picked, IInv
<1>3. target \in [Reqs -> Backends]
  BY DEF IInv, TypeOK
<1>4. \A c \in calls : target'[c.req] = target[c.req]
  BY <1>1, <1>2, <1>3 DEF Picked
<1> QED
  BY <1>2, <1>4 DEF ReportsTracked

LEMMA ForwardReports ==
  ASSUME IInv, program = "RL", ReportsTracked, NEW r \in Reqs, Forward(r)
  PROVE  ReportsTracked'
<1> DEFINE c == [req |-> r, n |-> attempt[r] + 1, to |-> target[r],
                 at |-> "wire", ok |-> FALSE]
<1>1. calls' = calls \cup {c} /\ c.to = target[c.req] /\ UNCHANGED <<target, reports>>
  BY DEF Forward
<1> HIDE DEF c
<1> QED
  BY <1>1 DEF ReportsTracked

\* The report of a call that runs is its first.
LEMMA HandlesReports ==
  ASSUME IInv, program = "RL", ReportsTracked, NEW c \in calls, Handles(c)
  PROVE  ReportsTracked'
<1>1. PICK at, ok :
        /\ Becomes(c, at, ok)
        /\ \/ c.at = "wire" /\ at \in {"running", "lost"} /\ UNCHANGED reports
           \/ c.at = "running" /\ at = "ran"
              /\ reports' \subseteq reports \cup {[of |-> <<c.req, c.n>>, from |-> c.to,
                                                   queue |-> NotRead]}
              /\ reports \subseteq reports'
           \/ c.at = "ran" /\ at = "out" /\ UNCHANGED reports
  BY DEF Handles, Arrive, LoseCall, RunQuery, RunTest, Run, Done, QueryFails, Return
<1> DEFINE d == [c EXCEPT !.at = at, !.ok = ok]
           new == [of |-> <<c.req, c.n>>, from |-> c.to, queue |-> NotRead]
<1>2. d.req = c.req /\ d.n = c.n /\ d.to = c.to /\ d.at = at
  BY CallNumbers DEF IInv, CallRecord
<1>3. calls' = (calls \ {c}) \cup {d} /\ target' = target
  BY <1>1, BackendStep DEF Becomes, handler
<1>4. new.of = <<c.req, c.n>> /\ new.from = c.to
  OBVIOUS
<1>5. \/ UNCHANGED reports
      \/ c.at = "running" /\ at = "ran" /\ reports' \subseteq reports \cup {new}
  BY <1>1
<1> HIDE DEF d, new
<1>6. \A a \in calls' : a.to = target'[a.req]
  BY <1>2, <1>3 DEF ReportsTracked
<1>7. ASSUME NEW m \in reports
      PROVE  /\ \E a \in calls' : m.of = <<a.req, a.n>> /\ m.from = a.to
                                  /\ a.at \in {"ran", "out", "lost"}
             /\ m.of = <<c.req, c.n>> => c.at # "running"
  <2>1. PICK a \in calls : m.of = <<a.req, a.n>> /\ m.from = a.to
                           /\ a.at \in {"ran", "out", "lost"}
    BY DEF ReportsTracked
  <2>2. CASE a = c
    BY <1>1, <1>2, <1>3, <2>1, <2>2
  <2>3. CASE a # c
    <3>1. m.of # <<c.req, c.n>>
      BY <2>1, <2>3, OneCall
    <3> QED
      BY <1>3, <2>1, <2>3, <3>1
  <2> QED
    BY <2>2, <2>3
<1>8. CASE UNCHANGED reports
  <2>1. \A m \in reports' : \E a \in calls' : m.of = <<a.req, a.n>> /\ m.from = a.to
                                  /\ a.at \in {"ran", "out", "lost"}
    BY <1>7, <1>8
  <2> QED
    BY <1>6, <1>8, <2>1 DEF ReportsTracked
<1>9. CASE c.at = "running" /\ at = "ran" /\ reports' \subseteq reports \cup {new}
  <2>1. ASSUME NEW m \in reports'
        PROVE  \E a \in calls' : m.of = <<a.req, a.n>> /\ m.from = a.to
                                 /\ a.at \in {"ran", "out", "lost"}
    BY <1>2, <1>3, <1>4, <1>7, <1>9
  <2>2. ASSUME NEW m \in reports', NEW k \in reports', m.of = k.of PROVE m = k
    <3>1. \A e \in reports : e.of # new.of
      BY <1>4, <1>7, <1>9
    <3> QED
      BY <1>9, <2>2, <3>1 DEF ReportsTracked
  <2> QED
    BY <1>6, <2>1, <2>2 DEF ReportsTracked
<1> QED
  BY <1>5, <1>8, <1>9

LEMMA DieReports ==
  ASSUME IInv, program = "RL", ReportsTracked, NEW b \in Backends, Die(b)
  PROVE  ReportsTracked'
<1> DEFINE Dead(c) == IF c.to = b /\ c.at \in {"running", "ran"}
                        THEN [c EXCEPT !.at = "lost"] ELSE c
<1>1. calls' = {Dead(c) : c \in calls} /\ target' = target /\ reports' \subseteq reports
  BY DEF Die, handler
<1>2. \A c \in calls : /\ Dead(c).req = c.req /\ Dead(c).n = c.n /\ Dead(c).to = c.to
                       /\ c.at \in {"ran", "out", "lost"}
                            => Dead(c).at \in {"ran", "out", "lost"}
  BY CallNumbers DEF IInv, CallRecord
<1> HIDE DEF Dead
<1>3. \A a \in calls' : a.to = target'[a.req]
  BY <1>1, <1>2 DEF ReportsTracked
<1>4. ASSUME NEW m \in reports'
      PROVE  \E a \in calls' : m.of = <<a.req, a.n>> /\ m.from = a.to
                               /\ a.at \in {"ran", "out", "lost"}
  <2>1. PICK c \in calls : m.of = <<c.req, c.n>> /\ m.from = c.to
                           /\ c.at \in {"ran", "out", "lost"}
    BY <1>1 DEF ReportsTracked
  <2>2. Dead(c) \in calls'
    BY <1>1
  <2> QED
    BY <1>2, <2>1, <2>2
<1> QED
  BY <1>1, <1>3, <1>4 DEF ReportsTracked

\* A report keeps the call it is of.
LEMMA ReportReports ==
  ASSUME IInv, ReportsTracked, NEW m \in reports, Report(m) \/ Receives(m)
  PROVE  ReportsTracked'
<1>1. UNCHANGED <<target, calls>>
  BY ReportFrame DEF handler
<1>2. CASE Load(m)
  <2> DEFINE k == [m EXCEPT !.queue = queue[m.from]]
  <2>1. k.of = m.of /\ k.from = m.from
    BY CallNumbers DEF IInv, ReportRecord
  <2>2. reports' = (reports \ {m}) \cup {k}
    BY <1>2 DEF Load
  <2> HIDE DEF k
  <2>3. \A e \in reports' : \E a \in reports : e.of = a.of /\ e.from = a.from
    BY <2>1, <2>2
  <2>4. \A e, f \in reports' : e.of = f.of => e = f
    BY <2>1, <2>2 DEF ReportsTracked
  <2>5. ASSUME NEW e \in reports'
        PROVE  \E c \in calls : e.of = <<c.req, c.n>> /\ e.from = c.to
                                /\ c.at \in {"ran", "out", "lost"}
    BY <2>3 DEF ReportsTracked
  <2> QED
    BY <1>1, <2>4, <2>5 DEF ReportsTracked
<1>3. CASE ~Load(m)
  <2>1. reports' \subseteq reports
    BY <1>3 DEF Report, LoseReport, Receives, ReceiveTwoPoint, ReceiveRoundRobin,
                ReceiveFeedback, Receive
  <2> QED
    BY <1>1, <2>1 DEF ReportsTracked
<1> QED
  BY <1>2, <1>3

LEMMA ReportsInductive ==
  ASSUME IInv, program = "RL", ReportsTracked, [Next]_vars
  PROVE  ReportsTracked'
<1>1. ASSUME NEW r \in Reqs, Call(r) PROVE ReportsTracked'
  <2>1. CASE Forward(r)
    BY <2>1, ForwardReports
  <2>2. CASE ~Forward(r)
    BY <1>1, <2>2 DEF Call, Answered, CallFails, ClientLeaves, Reply, ReportsTracked
  <2> QED
    BY <2>1, <2>2
<1>2. CASE UNCHANGED <<target, calls, reports>>
  BY <1>2 DEF ReportsTracked
<1> QED
  BY <1>1, <1>2, PickReports, HandlesReports, DieReports, ReportReports, NextSteps
     DEF BalancerRestart, Visible, handler

\* The request chosen now owes a report, and has left a state.
LEMMA PickOwed ==
  ASSUME IInv, program = "RL", OwedKept, NEW r \in Reqs, Picks(r)
  PROVE  OwedKept'
<1> DEFINE t == choice[r][1]
           b == choice[r][2]
<1>1. Picked(r, b) /\ Dispatch(r) /\ t \in States /\ b \in Backends
  BY ChoiceType DEF Picks, PickTwoPoint, StartRotation, NextInRotation, Dispatch, IInv
<1>2. /\ UNCHANGED <<calls, reports>>
      /\ target \in [Reqs -> Backends]
      /\ pc \in [Reqs -> {"new", "picked", "call", "retry", "done"}]
      /\ fifo \in [Backends -> Seq(States)]
  BY <1>1 DEF Picked, IInv, TypeOK
<1>3. fifo' = [fifo EXCEPT ![b] = Append(fifo[b], t)]
  BY <1>1 DEF Dispatch
<1> HIDE DEF t, b
<1>4. ASSUME NEW d \in Backends PROVE Cardinality(Owing(d)') <= Len(fifo'[d])
  <2>1. /\ Cardinality(Owing(d)) <= Len(fifo[d]) /\ fifo[d] \in Seq(States)
        /\ Len(fifo[d]) \in Nat
    BY <1>2, LenProperties DEF OwedKept
  <2>2. IsFiniteSet(Owing(d)) /\ Cardinality(Owing(d)) \in Nat
    BY OwingFinite
  <2>3. CASE d = b
    <3>1. Owing(d)' \subseteq Owing(d) \cup {r}
      BY <1>1, <1>2 DEF Owing, Picked
    <3>2. /\ IsFiniteSet(Owing(d) \cup {r})
          /\ Cardinality(Owing(d) \cup {r}) \in Nat
          /\ Cardinality(Owing(d) \cup {r}) <= Cardinality(Owing(d)) + 1
      <4>1. CASE r \in Owing(d)
        <5>1. Owing(d) \cup {r} = Owing(d)
          BY <4>1, Zenon
        <5>2. IsFiniteSet(Owing(d) \cup {r})
              /\ Cardinality(Owing(d) \cup {r}) = Cardinality(Owing(d))
          BY <2>2, <5>1, Zenon
        <5> QED
          BY <2>2, <5>2
      <4>2. CASE r \notin Owing(d)
        <5>1. /\ IsFiniteSet(Owing(d) \cup {r})
              /\ Cardinality(Owing(d) \cup {r}) = Cardinality(Owing(d)) + 1
          BY <2>2, <4>2, FS_AddElement, Zenon
        <5> QED
          BY <2>2, <5>1
      <4> QED
        BY <4>1, <4>2
    <3>3. /\ Cardinality(Owing(d)') <= Cardinality(Owing(d) \cup {r})
          /\ Cardinality(Owing(d)') \in Nat
      BY <3>1, <3>2, FS_Subset, FS_CardinalityType
    <3>4. Len(fifo'[d]) = Len(fifo[d]) + 1
      <4>1. fifo'[d] = Append(fifo[d], t)
        BY <1>1, <1>2, <1>3, <2>3
      <4> QED
        BY <1>1, <2>1, <4>1, AppendProperties
    <3> QED
      BY <2>1, <2>2, <3>2, <3>3, <3>4
  <2>4. CASE d # b
    <3>1. Owing(d)' \subseteq Owing(d) /\ fifo'[d] = fifo[d]
      BY <1>1, <1>2, <1>3, <2>4 DEF Owing, Picked
    <3>2. Cardinality(Owing(d)') <= Cardinality(Owing(d)) /\ Cardinality(Owing(d)') \in Nat
      BY <2>2, <3>1, FS_Subset, FS_CardinalityType
    <3> QED
      BY <2>1, <2>2, <3>1, <3>2
  <2> QED
    BY <2>3, <2>4
<1> QED
  BY <1>4 DEF OwedKept

LEMMA FewerOwed ==
  ASSUME IInv, OwedKept, UNCHANGED fifo, \A b \in Backends : Owing(b)' \subseteq Owing(b)
  PROVE  OwedKept'
<1>1. fifo \in [Backends -> Seq(States)]
  BY DEF IInv, TypeOK
<1>2. ASSUME NEW b \in Backends PROVE Cardinality(Owing(b)') <= Len(fifo'[b])
  <2>1. /\ Cardinality(Owing(b)') <= Cardinality(Owing(b))
        /\ Cardinality(Owing(b)') \in Nat /\ Cardinality(Owing(b)) \in Nat
    BY OwingFinite, FS_Subset, FS_CardinalityType
  <2>2. Cardinality(Owing(b)) <= Len(fifo[b]) /\ Len(fifo[b]) \in Nat
    BY <1>1, LenProperties DEF OwedKept
  <2> QED
    BY <2>1, <2>2
<1> QED
  BY <1>2 DEF OwedKept

\* The calls and reports on their way owe what the request owed before.
LEMMA CallOwed ==
  ASSUME IInv, OwedKept, NEW r \in Reqs, Call(r)
  PROVE  OwedKept'
<1>1. pc \in [Reqs -> {"new", "picked", "call", "retry", "done"}]
  BY DEF IInv, TypeOK
<1>2. UNCHANGED <<target, reports, fifo>>
  BY DEF Call, Forward, Answered, CallFails, ClientLeaves, Reply, learning
<1>3. CASE Forward(r)
  <2> DEFINE c == [req |-> r, n |-> attempt[r] + 1, to |-> target[r],
                   at |-> "wire", ok |-> FALSE]
  <2>1. /\ calls' = calls \cup {c} /\ c.req = r /\ pc[r] = "picked"
        /\ pc' = [pc EXCEPT ![r] = "call"]
    BY <1>3 DEF Forward
  <2> HIDE DEF c
  <2>2. \A b \in Backends : Owing(b)' \subseteq Owing(b)
    BY <1>1, <1>2, <2>1 DEF Owing
  <2> QED
    BY <1>2, <2>2, FewerOwed
<1>4. CASE Answered(r) \/ CallFails(r) \/ ClientLeaves(r)
  <2>1. /\ calls' = calls
        /\ \A s \in Reqs : pc'[s] = "picked" => pc[s] = "picked"
    BY <1>1, <1>4 DEF Answered, CallFails, ClientLeaves, Reply
  <2>2. \A b \in Backends : Owing(b)' \subseteq Owing(b)
    BY <1>2, <2>1 DEF Owing
  <2> QED
    BY <1>2, <2>2, FewerOwed
<1> QED
  BY <1>3, <1>4 DEF Call

LEMMA HandlesOwed ==
  ASSUME IInv, OwedKept, NEW c \in calls, Handles(c)
  PROVE  OwedKept'
<1>1. PICK at, ok :
        /\ Becomes(c, at, ok)
        /\ \/ c.at = "wire" /\ at \in {"running", "lost"} /\ UNCHANGED reports
           \/ c.at = "running" /\ at = "ran"
              /\ reports' \subseteq reports \cup {[of |-> <<c.req, c.n>>, from |-> c.to,
                                                   queue |-> NotRead]}
           \/ c.at = "ran" /\ at = "out" /\ UNCHANGED reports
  BY DEF Handles, Arrive, LoseCall, RunQuery, RunTest, Run, Done, QueryFails, Return
<1> DEFINE d == [c EXCEPT !.at = at, !.ok = ok]
           new == [of |-> <<c.req, c.n>>, from |-> c.to, queue |-> NotRead]
<1>2. d.req = c.req /\ d.at = at
  BY CallNumbers DEF IInv, CallRecord
<1>3. calls' = (calls \ {c}) \cup {d} /\ UNCHANGED <<target, pc, fifo>>
  BY <1>1, BackendStep DEF Becomes, handler, learning
<1>4. new.of[1] = c.req
  OBVIOUS
<1>5. \A m \in reports' : m \in reports \/ (m.of[1] = c.req /\ c.at = "running")
  <2>1. \A m \in reports' : m \in reports \/ (m = new /\ c.at = "running")
    BY <1>1
  <2> HIDE DEF new
  <2> QED
    BY <1>4, <2>1
<1> HIDE DEF d, new
<1>6. ASSUME NEW e \in calls', e.at \in {"wire", "running"}
      PROVE  \E a \in calls : a.req = e.req /\ a.at \in {"wire", "running"}
  BY <1>1, <1>2, <1>3, <1>6
<1>7. ASSUME NEW b \in Backends PROVE Owing(b)' \subseteq Owing(b)
  <2> SUFFICES ASSUME NEW r \in Reqs, r \in Owing(b)' PROVE r \in Owing(b)
    BY DEF Owing
  <2>1. target[r] = b
    BY <1>3 DEF Owing
  <2>2. CASE pc'[r] = "picked"
    BY <1>3, <2>1, <2>2 DEF Owing
  <2>3. CASE \E e \in calls' : e.req = r /\ e.at \in {"wire", "running"}
    BY <1>6, <2>1, <2>3 DEF Owing
  <2>4. CASE \E m \in reports' : m.of[1] = r
    BY <1>5, <2>1, <2>4 DEF Owing
  <2> QED
    BY <2>2, <2>3, <2>4 DEF Owing
<1> QED
  BY <1>3, <1>7, FewerOwed

LEMMA DieOwed ==
  ASSUME IInv, OwedKept, NEW b \in Backends, Die(b)
  PROVE  OwedKept'
<1> DEFINE Dead(c) == IF c.to = b /\ c.at \in {"running", "ran"}
                        THEN [c EXCEPT !.at = "lost"] ELSE c
<1>1. /\ calls' = {Dead(c) : c \in calls} /\ reports' \subseteq reports
      /\ UNCHANGED <<target, pc, fifo>>
  BY DEF Die, handler, learning
<1>2. \A c \in calls : /\ Dead(c).req = c.req
                       /\ Dead(c).at \in {"wire", "running"} => Dead(c) = c
  BY CallNumbers DEF IInv, CallRecord
<1> HIDE DEF Dead
<1>3. \A d \in Backends : Owing(d)' \subseteq Owing(d)
  BY <1>1, <1>2 DEF Owing
<1> QED
  BY <1>1, <1>3, FewerOwed

\* A report finds a state, and its request owes none any more.
LEMMA ReceiveOwed ==
  ASSUME IInv, program = "RL", ReportsTracked, OwedKept, NEW m \in reports, Receives(m)
  PROVE  OwedKept' /\ m.from \in Backends /\ fifo[m.from] # << >>
<1> DEFINE b == m.from
           r == m.of[1]
<1>1. /\ UNCHANGED <<target, pc, calls>> /\ reports' = reports \ {m}
      /\ fifo' = [fifo EXCEPT ![b] = IF fifo[b] = << >> THEN fifo[b] ELSE Tail(fifo[b])]
  BY ReportFrame DEF Receives, ReceiveTwoPoint, ReceiveRoundRobin, ReceiveFeedback,
                     Receive, handler
<1>2. PICK c \in calls : m.of = <<c.req, c.n>> /\ b = c.to /\ c.at \in {"ran", "out", "lost"}
  BY DEF ReportsTracked
<1>3. /\ r = c.req /\ r \in Reqs /\ b \in Backends /\ target[r] = b /\ pc[r] # "picked"
      /\ \A d \in calls : d.req = r => d = c
      /\ c.n = 1
  BY <1>2, OneCall DEF ReportsTracked
<1>4. r \in Owing(b)
  BY <1>3 DEF Owing
<1>5. \A k \in reports : k.of[1] = r => k = m
  <2> SUFFICES ASSUME NEW k \in reports, k.of[1] = r PROVE k = m
    OBVIOUS
  <2>1. PICK d \in calls : k.of = <<d.req, d.n>>
    BY DEF ReportsTracked
  <2>2. k.of = m.of
    BY <1>2, <1>3, <2>1
  <2> QED
    BY <2>2 DEF ReportsTracked
<1>6. fifo \in [Backends -> Seq(States)] /\ fifo[b] \in Seq(States) /\ Len(fifo[b]) \in Nat
  BY <1>3, LenProperties DEF IInv, TypeOK
<1> HIDE DEF b, r
<1>7. Owing(b)' \subseteq Owing(b) \ {r}
  <2>1. r \notin Owing(b)'
    BY <1>1, <1>2, <1>3, <1>5 DEF Owing
  <2> QED
    BY <1>1, <2>1 DEF Owing
<1>8. \A d \in Backends : Owing(d)' \subseteq Owing(d)
  BY <1>1 DEF Owing
<1>9. /\ Cardinality(Owing(b)') <= Cardinality(Owing(b)) - 1
      /\ Cardinality(Owing(b)') \in Nat /\ Cardinality(Owing(b)) \in Nat
  <2>1. IsFiniteSet(Owing(b)) /\ Cardinality(Owing(b)) \in Nat
    BY OwingFinite
  <2>2. /\ IsFiniteSet(Owing(b) \ {r})
        /\ Cardinality(Owing(b) \ {r}) = Cardinality(Owing(b)) - 1
    BY <1>4, <2>1, FS_RemoveElement
  <2> QED
    BY <1>7, <2>1, <2>2, FS_Subset, FS_CardinalityType
<1>10. fifo[b] # << >> /\ Len(fifo[b]) >= 1
  <2>1. Len(fifo[b]) >= 1
    BY <1>3, <1>6, <1>9 DEF OwedKept
  <2> QED
    BY <1>6, <2>1, EmptySeq
<1>11. ASSUME NEW d \in Backends PROVE Cardinality(Owing(d)') <= Len(fifo'[d])
  <2>1. Cardinality(Owing(d)) <= Len(fifo[d]) /\ Len(fifo[d]) \in Nat
    BY <1>6, LenProperties DEF OwedKept
  <2>2. CASE d = b
    <3>1. fifo'[b] = Tail(fifo[b])
      BY <1>1, <1>3, <1>6, <1>10
    <3>2. Len(Tail(fifo[b])) = Len(fifo[b]) - 1
      BY <1>6, <1>10, HeadTailProperties
    <3> QED
      BY <1>6, <1>9, <2>1, <2>2, <3>1, <3>2
  <2>3. CASE d # b
    <3>1. fifo'[d] = fifo[d]
      BY <1>1, <1>6, <2>3
    <3>2. /\ Cardinality(Owing(d)') <= Cardinality(Owing(d))
          /\ Cardinality(Owing(d)') \in Nat /\ Cardinality(Owing(d)) \in Nat
      BY <1>8, OwingFinite, FS_Subset, FS_CardinalityType
    <3> QED
      BY <2>1, <3>1, <3>2
  <2> QED
    BY <2>2, <2>3
<1> QED
  BY <1>3, <1>10, <1>11 DEF OwedKept, b

LEMMA RestartCounted == IInv /\ BalancerRestart => restarts' # 0
<1> SUFFICES ASSUME IInv, BalancerRestart PROVE restarts' # 0
  OBVIOUS
<1>1. restarts \in 0 .. MaxFaults[program] /\ program \in Programs
  BY DEF IInv, TypeOK
<1>2. MaxFaults[program] \in Nat
  BY <1>1, BaselineAssumption
<1> QED
  BY <1>1, <1>2 DEF BalancerRestart

LEMMA OwedInductive ==
  ASSUME IInv, program = "RL", ReportsTracked, OwedKept, [Next]_vars, ~BalancerRestart
  PROVE  OwedKept'
<1>1. \A r \in Reqs : Picks(r) \/ Call(r) => OwedKept'
  BY PickOwed, CallOwed
<1>2. \A c \in calls : Handles(c) => OwedKept'
  BY HandlesOwed
<1>3. ASSUME NEW m \in reports, Report(m) PROVE OwedKept'
  <2>1. UNCHANGED <<target, pc, calls, fifo>>
    BY <1>3 DEF Report, Load, LoseReport, handler, learning
  <2>2. \A k \in reports' : \E a \in reports : k.of = a.of
    <3> DEFINE k == [m EXCEPT !.queue = queue[m.from]]
    <3>1. k.of = m.of
      BY CallNumbers DEF IInv, ReportRecord
    <3>2. reports' \subseteq reports \cup {k}
      BY <1>3 DEF Report, Load, LoseReport
    <3> HIDE DEF k
    <3> QED
      BY <3>1, <3>2
  <2>3. \A b \in Backends : Owing(b)' \subseteq Owing(b)
    BY <2>1, <2>2 DEF Owing
  <2> QED
    BY <2>1, <2>3, FewerOwed
<1>4. \A m \in reports : Receives(m) => OwedKept'
  BY ReceiveOwed
<1>5. \A b \in Backends : Die(b) => OwedKept'
  BY DieOwed
<1>6. CASE UNCHANGED Visible
  BY <1>6 DEF Visible, handler, OwedKept, Owing
<1> QED
  BY <1>1, <1>2, <1>3, <1>4, <1>5, <1>6, NextSteps

\* Dispatch counts the state it pushes.
LEMMA DispatchFeedback ==
  ASSUME IInv, FeedbackHasState, NEW r \in Reqs, Dispatch(r)
  PROVE  FeedbackHasState'
<1> DEFINE now == choice[r][1]
           b   == choice[r][2]
<1>1. /\ fifo \in [Backends -> Seq(States)] /\ visits \in [States \X Backends -> Nat]
      /\ dispatched \in [States \X Backends -> Nat] /\ now \in States /\ b \in Backends
  BY ChoiceType DEF Dispatch, IInv, TypeOK
<1>2. /\ fifo' = [fifo EXCEPT ![b] = Append(fifo[b], now)]
      /\ dispatched' = [dispatched EXCEPT ![<<now, b>>] = dispatched[<<now, b>>] + 1]
      /\ visits' = visits /\ restarts' = restarts
  BY DEF Dispatch, Picked, bounds
<1> HIDE DEF now, b
<1> SUFFICES ASSUME restarts = 0, NEW s \in States, NEW d \in Backends
             PROVE  visits'[<<s, d>>] + Cardinality(Places(s, fifo'[d])) = dispatched'[<<s, d>>]
  BY <1>2 DEF FeedbackHasState, Places
<1>3. visits[<<s, d>>] + Cardinality(Places(s, fifo[d])) = dispatched[<<s, d>>]
  BY DEF FeedbackHasState, Places
<1>4. /\ visits[<<s, d>>] \in Nat /\ dispatched[<<s, d>>] \in Nat /\ fifo[d] \in Seq(States)
      /\ Cardinality(Places(s, fifo[d])) \in Nat
  BY <1>1, PlacesFinite
<1>5. CASE d = b
  <2>1. fifo'[d] = Append(fifo[d], now)
    BY <1>1, <1>2, <1>5
  <2>2. Cardinality(Places(s, fifo'[d]))
          = Cardinality(Places(s, fifo[d])) + (IF now = s THEN 1 ELSE 0)
    BY <1>1, <1>4, <2>1, PlacesAppend
  <2>3. dispatched'[<<s, d>>] = dispatched[<<s, d>>] + (IF now = s THEN 1 ELSE 0)
    <3>1. <<s, d>> \in States \X Backends /\ (<<s, d>> = <<now, b>> <=> now = s)
      BY <1>5
    <3>2. dispatched'[<<s, d>>] = IF <<s, d>> = <<now, b>> THEN dispatched[<<s, d>>] + 1
                                                         ELSE dispatched[<<s, d>>]
      BY <1>1, <1>2, <3>1, Zenon
    <3> QED
      BY <1>4, <3>1, <3>2
  <2> QED
    BY <1>2, <1>3, <1>4, <2>2, <2>3
<1>6. CASE d # b
  <2>1. fifo'[d] = fifo[d] /\ dispatched'[<<s, d>>] = dispatched[<<s, d>>]
    BY <1>1, <1>2, <1>6
  <2> QED
    BY <1>2, <1>3, <2>1
<1> QED
  BY <1>5, <1>6

\* A visit takes the state it is of from the FIFO.
LEMMA ReceiveFeedbackCounts ==
  ASSUME IInv, FeedbackHasState, NEW m \in reports, ReceiveFeedback(m),
         m.from \in Backends, restarts = 0 => fifo[m.from] # << >>
  PROVE  FeedbackHasState'
<1> DEFINE b == m.from
           old == Head(fifo[b])
<1>1. /\ fifo \in [Backends -> Seq(States)] /\ visits \in [States \X Backends -> Nat]
      /\ dispatched \in [States \X Backends -> Nat]
  BY DEF IInv, TypeOK
<1>2. dispatched' = dispatched /\ restarts' = restarts
  BY DEF ReceiveFeedback, Receive, bounds
<1> SUFFICES ASSUME restarts = 0, NEW s \in States, NEW d \in Backends
             PROVE  visits'[<<s, d>>] + Cardinality(Places(s, fifo'[d])) = dispatched'[<<s, d>>]
  BY <1>2 DEF FeedbackHasState, Places
<1>3. visits[<<s, d>>] + Cardinality(Places(s, fifo[d])) = dispatched[<<s, d>>]
  BY DEF FeedbackHasState, Places
<1>4. /\ visits[<<s, d>>] \in Nat /\ dispatched[<<s, d>>] \in Nat /\ fifo[d] \in Seq(States)
      /\ Cardinality(Places(s, fifo[d])) \in Nat
  BY <1>1, PlacesFinite
<1>5. old \in States
  BY <1>1, HeadTailProperties
<1>6. /\ fifo' = [fifo EXCEPT ![b] = Tail(fifo[b])]
      /\ visits' = [visits EXCEPT ![<<old, b>>] = visits[<<old, b>>] + 1]
  BY DEF ReceiveFeedback
<1>7. b \in Backends /\ fifo[b] # << >>
  OBVIOUS
<1> HIDE DEF old, b
<1>8. CASE d = b
  <2>1. fifo'[d] = Tail(fifo[d])
    BY <1>1, <1>6, <1>8
  <2>2. Cardinality(Places(s, fifo'[d]))
          = Cardinality(Places(s, fifo[d])) - (IF old = s THEN 1 ELSE 0)
    BY <1>4, <1>7, <1>8, <2>1, PlacesTail DEF old
  <2>3. visits'[<<s, d>>] = visits[<<s, d>>] + (IF old = s THEN 1 ELSE 0)
    <3>1. <<s, d>> \in States \X Backends /\ (<<s, d>> = <<old, b>> <=> old = s)
      BY <1>8
    <3>2. visits'[<<s, d>>] = IF <<s, d>> = <<old, b>> THEN visits[<<s, d>>] + 1
                                                     ELSE visits[<<s, d>>]
      BY <1>1, <1>6, <3>1, Zenon
    <3> QED
      BY <1>4, <3>1, <3>2
  <2> QED
    BY <1>2, <1>3, <1>4, <2>2, <2>3
<1>9. CASE d # b
  <2>1. fifo'[d] = fifo[d] /\ visits'[<<s, d>>] = visits[<<s, d>>]
    BY <1>1, <1>5, <1>6, <1>9
  <2> QED
    BY <1>2, <1>3, <2>1
<1> QED
  BY <1>8, <1>9

FeedbackInv ==
  program = "RL" => ReportsTracked /\ (restarts = 0 => OwedKept)

LEMMA FeedbackInductive ==
  ASSUME IInv, FeedbackInv, FeedbackHasState, [Next]_vars
  PROVE  FeedbackHasState'
<1>1. CASE UNCHANGED <<fifo, visits, dispatched, restarts>>
  BY <1>1 DEF FeedbackHasState
<1>2. ASSUME NEW r \in Reqs, Picks(r) PROVE FeedbackHasState'
  <2>1. CASE Dispatch(r)
    BY <2>1, DispatchFeedback
  <2>2. CASE ~Dispatch(r)
    BY <1>1, <1>2, <2>2, PickFrame
       DEF Picks, PickTwoPoint, StartRotation, NextInRotation, learning, bounds
  <2> QED
    BY <2>1, <2>2
<1>3. \A r \in Reqs : Call(r) => UNCHANGED <<fifo, visits, dispatched, restarts>>
  BY DEF Call, Forward, Answered, CallFails, ClientLeaves, Reply, learning, bounds
<1>4. \A c \in calls : Handles(c) => UNCHANGED <<fifo, visits, dispatched, restarts>>
  BY BackendStep DEF learning, bounds
<1>5. ASSUME NEW m \in reports, Report(m) \/ Receives(m) PROVE FeedbackHasState'
  <2>1. CASE ReceiveFeedback(m)
    <3>1. program = "RL" /\ Receives(m)
      BY <2>1 DEF ReceiveFeedback, Receives
    <3>2. m.from \in Backends
      BY CallNumbers DEF IInv, ReportRecord
    <3>3. restarts = 0 => fifo[m.from] # << >>
      BY <3>1, ReceiveOwed DEF FeedbackInv
    <3> QED
      BY <2>1, <3>2, <3>3, ReceiveFeedbackCounts
  <2>2. CASE ~ReceiveFeedback(m)
    BY <1>1, <1>5, <2>2, ReportFrame
       DEF Report, Load, LoseReport, Receives, ReceiveTwoPoint, ReceiveRoundRobin,
           Receive, learning, bounds
  <2> QED
    BY <2>1, <2>2
<1>6. BalancerRestart => FeedbackHasState'
  BY RestartCounted DEF FeedbackHasState
<1> QED
  BY <1>1, <1>2, <1>3, <1>4, <1>5, <1>6, NextSteps DEF Die, Visible, learning, bounds

LEMMA FeedbackInvInductive ==
  ASSUME IInv, FeedbackInv, [Next]_vars
  PROVE  FeedbackInv'
<1> SUFFICES ASSUME program = "RL"
             PROVE  ReportsTracked' /\ (restarts' = 0 => OwedKept')
  BY LimitConstant DEF FeedbackInv
<1>1. ReportsTracked /\ (restarts = 0 => OwedKept)
  BY DEF FeedbackInv
<1>2. ASSUME ~BalancerRestart PROVE restarts' = restarts
  <2>1. \A r \in Reqs : Picks(r) => restarts' = restarts
    BY PickFrame DEF bounds
  <2>2. \A r \in Reqs : Call(r) => restarts' = restarts
    BY DEF Call, Forward, Answered, CallFails, ClientLeaves, Reply, bounds
  <2>3. \A c \in calls : Handles(c) => restarts' = restarts
    BY BackendStep DEF bounds
  <2>4. \A m \in reports : Report(m) \/ Receives(m) => restarts' = restarts
    BY ReportFrame DEF bounds
  <2> QED
    BY <1>2, <2>1, <2>2, <2>3, <2>4, NextSteps DEF Die, Visible, bounds
<1> QED
  BY <1>1, <1>2, ReportsInductive, OwedInductive, RestartCounted

LEMMA InitFeedback == Init => FeedbackInv /\ FeedbackHasState
<1> SUFFICES ASSUME Init PROVE FeedbackInv /\ FeedbackHasState
  OBVIOUS
<1>1. \A b \in Backends : fifo[b] = << >> /\ Len(fifo[b]) = 0
  BY EmptySeq DEF Init, Fresh
<1>2. \A b \in Backends : Owing(b) = {}
  BY DEF Init, Owing
<1>3. OwedKept
  BY <1>1, <1>2, FS_EmptySet DEF OwedKept
<1>4. FeedbackInv
  BY <1>3 DEF FeedbackInv, ReportsTracked, Init
<1>5. ASSUME NEW s \in States, NEW b \in Backends
      PROVE  visits[<<s, b>>] + Cardinality(Places(s, fifo[b])) = dispatched[<<s, b>>]
  <2>1. Places(s, fifo[b]) = {}
    BY <1>1 DEF Places
  <2>2. visits[<<s, b>>] = 0 /\ dispatched[<<s, b>>] = 0
    BY DEF Init, Fresh
  <2> QED
    BY <2>1, <2>2, FS_EmptySet
<1> QED
  BY <1>4, <1>5 DEF FeedbackHasState, Places

\* Every feedback that RL uses finds a state that was pushed for a request to
\* that backend, for any number of requests and reports in flight, in any
\* order: it never falls back to the state of the moment, and every visit of
\* the Q-table takes one dispatch from the FIFO (RL/Balancer/main.go:308-325).
THEOREM FeedbackFindsState == Spec => []FeedbackHasState
<1>1. FeedbackInv /\ FeedbackHasState /\ IInv /\ [Next]_vars
        => FeedbackInv' /\ FeedbackHasState'
  BY FeedbackInductive, FeedbackInvInductive
<1> QED
  BY Invariance, InitFeedback, <1>1, PTL DEF Spec

-----------------------------------------------------------------------------
(***************************************************************************)
(* The client's extrema.                                                   *)
(***************************************************************************)

ProcRecord ==
  [id : SUBSET (Nat \X Nat), val : Nat, at : {"getMax", "setMax", "getMin", "setMin"},
   old : SUBSET Nat]

\* What was given to updateMinMax, and what Redis holds of it.
ClientType ==
  /\ totalRequests \in Nat /\ sending \subseteq Nat
  /\ latencyChan \subseteq Nat \X Nat /\ window \subseteq Nat \X Nat
  /\ IsFiniteSet(window)
  /\ processed \subseteq Nat /\ IsFiniteSet(processed)
  /\ procs \subseteq ProcRecord /\ \A p \in procs : p.val \in processed
  /\ maxKey \subseteq processed /\ minKey \subseteq processed

\* A key is up to date with the values of S.
HoldsMax(S) ==
  IF S = {} THEN maxKey = {} ELSE \E x \in S : maxKey = {x} /\ \A y \in S : x >= y
HoldsMin(S) ==
  IF S = {} THEN minKey = {} ELSE \E x \in S : minKey = {x} /\ \A y \in S \ {0} : x <= y

\* How far the only window that is processed has come: before has the values
\* of the earlier windows.
Progress(p, before) ==
  /\ processed = before \cup {p.val}
  /\ HoldsMax(IF p.at \in {"getMax", "setMax"} THEN before ELSE processed)
  /\ HoldsMin(before)
  /\ p.at = "setMax" => p.old = maxKey
  /\ p.at = "setMin" => p.old = minKey

Undisturbed ==
  ~disturbed =>
    /\ \A p, r \in procs : p = r
    /\ \A p \in procs : \E before \in SUBSET Nat : Progress(p, before)
    /\ procs = {} => HoldsMax(processed) /\ HoldsMin(processed)

LEMMA ClientMaxIsMax == ASSUME NEW S PROVE Client!Max(S) = Max(S)
  BY DEF Client!Max, Max

\* The largest latency of a window is one of its latencies.
LEMMA WindowValue ==
  ASSUME ClientType, window # {}
  PROVE  Client!Max({s[2] : s \in window}) \in Nat
<1> DEFINE V == {s[2] : s \in window}
           f == [s \in window |-> s[2]]
<1>1. V # {} /\ V \subseteq Nat
  BY DEF ClientType
<1>2. IsFiniteSet(V)
  <2>1. f \in Surjection(window, V)
    BY DEF Surjection
  <2> HIDE DEF f, V
  <2> QED
    BY <2>1, FS_Surjection DEF ClientType
<1>3. Max(V) \in Nat
  <2> HIDE DEF V
  <2>1. V \subseteq Int
    BY <1>1
  <2> QED
    BY <1>1, <1>2, <2>1, MaxIsLargest
<1> QED
  BY <1>3, ClientMaxIsMax

LEMMA ClientOthers ==
  ASSUME Latencies \subseteq Nat, ClientType,
         \/ Client!Scenario \/ Client!SetRate \/ Client!NewTicker \/ Client!Tick
         \/ Client!Collect \/ \E i \in sending : Client!SendRequest(i)
  PROVE  /\ ClientType'
         /\ UNCHANGED <<procs, processed, maxKey, minKey, disturbed>>
<1>1. UNCHANGED <<procs, processed, maxKey, minKey, disturbed>>
  BY DEF Client!Scenario, Client!SetRate, Client!NewTicker, Client!Tick, Client!Collect,
         Client!SendRequest, Client!Answered, Client!RequestFails, Client!stored
<1>2. totalRequests' \in Nat /\ sending' \subseteq Nat
  <2>1. \/ totalRequests' = totalRequests /\ sending' \subseteq sending
        \/ /\ totalRequests' = totalRequests + 1
           /\ sending' = sending \cup {totalRequests + 1}
    BY DEF Client!Scenario, Client!SetRate, Client!NewTicker, Client!Tick, Client!Collect,
           Client!SendRequest, Client!Answered, Client!RequestFails, Client!sender
  <2>2. totalRequests \in Nat /\ totalRequests + 1 \in Nat /\ sending \subseteq Nat
    BY DEF ClientType
  <2> QED
    BY <2>1, <2>2
<1>3. latencyChan' \subseteq Nat \X Nat /\ window' \subseteq Nat \X Nat
  <2>1. ASSUME NEW i \in sending, Client!Answered(i)
        PROVE  latencyChan' \subseteq Nat \X Nat /\ window' = window
    <3>1. PICK ms \in Latencies :
            latencyChan' = IF Client!Cardinality(latencyChan) < ChanCap
                             THEN latencyChan \cup {<<i, ms>>} ELSE latencyChan
      BY <2>1 DEF Client!Answered
    <3>2. <<i, ms>> \in Nat \X Nat
      BY DEF ClientType
    <3>3. latencyChan' \subseteq latencyChan \cup {<<i, ms>>}
      BY <3>1
    <3>4. window' = window
      BY <2>1 DEF Client!Answered
    <3> QED
      BY <3>2, <3>3, <3>4 DEF ClientType
  <2> QED
    BY <2>1 DEF ClientType, Client!Scenario, Client!SetRate, Client!NewTicker,
         Client!Tick, Client!Collect, Client!SendRequest, Client!RequestFails
<1>4. IsFiniteSet(window')
  <2>1. window' = window \/ \E s : window' = window \cup {s}
    BY DEF Client!Scenario, Client!SetRate, Client!NewTicker, Client!Tick,
         Client!Collect, Client!SendRequest, Client!Answered, Client!RequestFails
  <2> QED
    BY <2>1, FS_AddElement DEF ClientType
<1> QED
  BY <1>1, <1>2, <1>3, <1>4 DEF ClientType

\* A window that is handed over alone starts with the keys of the earlier ones.
LEMMA CloseCovers ==
  ASSUME ClientType, Undisturbed, Client!CloseWindow
  PROVE  ClientType' /\ Undisturbed'
<1> DEFINE val == Client!Max({s[2] : s \in window})
<1> PICK p : p = [id |-> window, val |-> val, at |-> "getMax", old |-> {}]
  OBVIOUS
<1>1. /\ window # {} /\ window' = {} /\ procs' = procs \cup {p}
      /\ processed' = processed \cup {val}
      /\ disturbed' = (disturbed \/ procs # {})
      /\ UNCHANGED <<totalRequests, sending, latencyChan, maxKey, minKey>>
  BY DEF Client!CloseWindow, Client!load, Client!sender, Client!stored
<1>2. val \in Nat
  BY <1>1, WindowValue
<1> HIDE DEF val
<1>3. p \in ProcRecord /\ p.val = val /\ p.at = "getMax"
  BY <1>2 DEF ProcRecord, ClientType
<1>4. IsFiniteSet(window') /\ IsFiniteSet(processed')
  BY <1>1, FS_EmptySet, FS_AddElement DEF ClientType
<1>5. ClientType'
  BY <1>1, <1>2, <1>3, <1>4 DEF ClientType
<1>6. Undisturbed'
  <2> SUFFICES ASSUME ~disturbed'
               PROVE  /\ \A e, r \in procs' : e = r
                      /\ \A e \in procs' : \E before \in SUBSET Nat : Progress(e, before)'
                      /\ procs' # {}
    BY DEF Undisturbed
  <2>1. procs = {} /\ ~disturbed /\ procs' = {p}
    BY <1>1
  <2>2. HoldsMax(processed) /\ HoldsMin(processed) /\ processed \in SUBSET Nat
    BY <2>1 DEF Undisturbed, ClientType
  <2>3. PICK before \in SUBSET Nat : before = processed
    BY <2>2
  <2>4. Progress(p, before)'
    BY <1>1, <1>3, <2>2, <2>3 DEF Progress, HoldsMax, HoldsMin
  <2> QED
    BY <2>1, <2>4
<1> QED
  BY <1>5, <1>6

\* One step of the only window that is processed.
LEMMA StepCovers ==
  ASSUME ClientType, Undisturbed, NEW p \in procs, Client!UpdateMinMax(p),
         ClientType',
         ASSUME NEW before \in SUBSET Nat, Progress(p, before), procs = {p},
                ~disturbed, ~disturbed'
         PROVE  \/ \E d : procs' = {d} /\ Progress(d, before)'
                \/ procs' = {} /\ HoldsMax(processed)' /\ HoldsMin(processed)'
  PROVE  Undisturbed'
<1> SUFFICES ASSUME ~disturbed'
             PROVE  /\ \A e, r \in procs' : e = r
                    /\ \A e \in procs' : \E before \in SUBSET Nat : Progress(e, before)'
                    /\ procs' = {} => HoldsMax(processed)' /\ HoldsMin(processed)'
  BY DEF Undisturbed
<1>1. ~disturbed
  BY DEF Client!UpdateMinMax, Client!GetMax, Client!SetMax, Client!GetMin, Client!SetMin,
         Client!Steps, Client!Ends
<1>2. procs = {p}
  BY <1>1 DEF Undisturbed
<1>3. PICK before \in SUBSET Nat : Progress(p, before)
  BY <1>1 DEF Undisturbed
<1> QED
  BY <1>1, <1>2, <1>3

LEMMA UpdateType ==
  ASSUME ClientType, NEW p \in procs, Client!UpdateMinMax(p)
  PROVE  ClientType'
<1>1. /\ p \in ProcRecord /\ p.val \in processed /\ procs \subseteq ProcRecord
      /\ maxKey \subseteq processed /\ minKey \subseteq processed /\ processed \subseteq Nat
  BY DEF ClientType
<1>2. /\ UNCHANGED <<totalRequests, sending, latencyChan, window, processed>>
      /\ \/ procs' = procs \ {p}
         \/ \E at \in {"getMax", "setMax", "getMin", "setMin"}, old \in {maxKey, minKey, {}} :
              procs' = (procs \ {p}) \cup {[p EXCEPT !.at = at, !.old = old]}
  BY DEF Client!UpdateMinMax, Client!GetMax, Client!SetMax, Client!GetMin, Client!SetMin,
         Client!Steps, Client!Ends, Client!sender
<1>3. ASSUME NEW at \in {"getMax", "setMax", "getMin", "setMin"},
             NEW old \in {maxKey, minKey, {}}
      PROVE  LET d == [p EXCEPT !.at = at, !.old = old]
             IN  d \in ProcRecord /\ d.val = p.val
  <2>1. old \in SUBSET Nat
    BY <1>1
  <2> QED
    BY <1>1, <2>1 DEF ProcRecord
<1>4. maxKey' \in {maxKey, {p.val}} /\ minKey' \in {minKey, {p.val}}
  BY DEF Client!UpdateMinMax, Client!GetMax, Client!SetMax, Client!GetMin, Client!SetMin,
         Client!stored
<1>5. procs' \subseteq ProcRecord /\ \A d \in procs' : d.val \in processed
  BY <1>1, <1>2, <1>3 DEF ClientType
<1> QED
  BY <1>1, <1>2, <1>4, <1>5 DEF ClientType

\* GET, compare, SET of the largest value.
LEMMA MaxCovers ==
  ASSUME ClientType, Undisturbed, NEW p \in procs, Client!GetMax(p) \/ Client!SetMax(p)
  PROVE  Undisturbed'
<1>1. ClientType' /\ Client!UpdateMinMax(p)
  BY UpdateType DEF Client!UpdateMinMax
<1>2. ASSUME NEW before \in SUBSET Nat, Progress(p, before), procs = {p},
             ~disturbed, ~disturbed'
      PROVE  \E d : procs' = {d} /\ Progress(d, before)'
  <2>1. p \in ProcRecord /\ p.val \in Nat /\ UNCHANGED <<processed, minKey>>
    BY DEF ClientType, ProcRecord, Client!GetMax, Client!SetMax, Client!Steps, Client!stored
  <2>2. PICK d : /\ d = [p EXCEPT !.at = IF Client!GetMax(p) THEN "setMax" ELSE "getMin",
                                  !.old = IF Client!GetMax(p) THEN maxKey ELSE {}]
                 /\ procs' = {d}
    BY <1>2 DEF Client!GetMax, Client!SetMax, Client!Steps
  <2>3. CASE Client!GetMax(p)
    <3>1. d.val = p.val /\ d.at = "setMax" /\ d.old = maxKey
      BY <2>1, <2>2, <2>3 DEF ProcRecord
    <3>2. p.at = "getMax" /\ maxKey' = maxKey
      BY <2>3 DEF Client!GetMax, Client!stored
    <3>3. Progress(d, before)'
      BY <1>2, <2>1, <3>1, <3>2 DEF Progress, HoldsMax, HoldsMin
    <3> QED
      BY <2>2, <3>3
  <2>4. CASE Client!SetMax(p)
    <3>1. /\ p.at = "setMax"
          /\ maxKey' = IF \A old \in p.old : p.val > old THEN {p.val} ELSE maxKey
      BY <1>2, <2>4 DEF Client!SetMax, Client!Steps
    <3>2. d.val = p.val /\ d.at = "getMin"
      BY <2>1, <2>2, <2>4, <3>1 DEF ProcRecord, Client!GetMax
    <3>3. /\ HoldsMax(before) /\ HoldsMin(before) /\ p.old = maxKey
          /\ processed = before \cup {p.val}
      BY <1>2, <3>1 DEF Progress
    <3>4. HoldsMax(processed)'
      <4>1. CASE before = {}
        BY <2>1, <3>1, <3>3, <4>1 DEF HoldsMax
      <4>2. CASE before # {}
        <5>1. PICK x \in before : maxKey = {x} /\ \A y \in before : x >= y
          BY <3>3, <4>2 DEF HoldsMax
        <5>2. x \in Nat /\ \A y \in before : y \in Nat
          BY <1>2
        <5>3. CASE p.val > x
          <6>1. maxKey' = {p.val} /\ processed' = before \cup {p.val}
            BY <2>1, <3>1, <3>3, <5>1, <5>3
          <6>2. ASSUME NEW y \in processed' PROVE p.val >= y
            <7>1. CASE y = p.val
              BY <2>1, <7>1
            <7>2. CASE y \in before
              <8>1. x >= y /\ y \in Nat
                BY <5>1, <5>2, <7>2
              <8> QED
                BY <2>1, <5>2, <5>3, <8>1
            <7> QED
              BY <6>1, <7>1, <7>2
          <6> QED
            BY <6>1, <6>2 DEF HoldsMax
        <5>4. CASE ~(p.val > x)
          <6>1. maxKey' = {x} /\ processed' = before \cup {p.val}
            BY <2>1, <3>1, <3>3, <5>1, <5>4
          <6>2. ASSUME NEW y \in processed' PROVE x >= y
            <7>1. CASE y = p.val
              BY <2>1, <5>2, <5>4, <7>1
            <7>2. CASE y \in before
              BY <5>1, <7>2
            <7> QED
              BY <6>1, <7>1, <7>2
          <6> QED
            BY <5>1, <6>1, <6>2 DEF HoldsMax
        <5> QED
          BY <5>3, <5>4
      <4> QED
        BY <4>1, <4>2
    <3>5. Progress(d, before)'
      BY <2>1, <3>2, <3>3, <3>4 DEF Progress, HoldsMin, HoldsMax
    <3> QED
      BY <2>2, <3>5
  <2> QED
    BY <2>3, <2>4
<1> QED
  BY <1>1, <1>2, StepCovers

\* GET, compare, SET of the smallest value, which a 0 only sets when alone.
LEMMA MinCovers ==
  ASSUME ClientType, Undisturbed, NEW p \in procs, Client!GetMin(p) \/ Client!SetMin(p)
  PROVE  Undisturbed'
<1>1. ClientType' /\ Client!UpdateMinMax(p)
  BY UpdateType DEF Client!UpdateMinMax
<1>2. ASSUME NEW before \in SUBSET Nat, Progress(p, before), procs = {p},
             ~disturbed, ~disturbed', Client!GetMin(p)
      PROVE  \E d : procs' = {d} /\ Progress(d, before)'
  <2>1. p \in ProcRecord /\ UNCHANGED <<processed, maxKey, minKey>> /\ p.at = "getMin"
    BY <1>2 DEF ClientType, Client!GetMin, Client!Steps, Client!stored
  <2>2. PICK d : d = [p EXCEPT !.at = "setMin", !.old = minKey] /\ procs' = {d}
    BY <1>2 DEF Client!GetMin, Client!Steps
  <2>3. d.val = p.val /\ d.at = "setMin" /\ d.old = minKey
    BY <2>1, <2>2 DEF ProcRecord
  <2>4. Progress(d, before)'
    BY <1>2, <2>1, <2>3 DEF Progress, HoldsMax, HoldsMin
  <2> QED
    BY <2>2, <2>4
<1>3. ASSUME NEW before \in SUBSET Nat, Progress(p, before), procs = {p},
             ~disturbed, ~disturbed', Client!SetMin(p)
      PROVE  procs' = {} /\ HoldsMax(processed)' /\ HoldsMin(processed)'
  <2>1. /\ p.at = "setMin" /\ p.val \in Nat /\ UNCHANGED <<processed, maxKey>>
        /\ procs' = {}
        /\ minKey' = IF p.old = {} \/ (p.val > 0 /\ \A old \in p.old : p.val < old)
                       THEN {p.val} ELSE minKey
    BY <1>3 DEF ClientType, ProcRecord, Client!SetMin, Client!Ends
  <2>2. /\ HoldsMax(processed) /\ HoldsMin(before) /\ p.old = minKey
        /\ processed = before \cup {p.val}
    BY <1>3, <2>1 DEF Progress
  <2>3. HoldsMin(processed)'
    <3>1. CASE before = {}
      BY <2>1, <2>2, <3>1 DEF HoldsMin
    <3>2. CASE before # {}
      <4>1. PICK x \in before : minKey = {x} /\ \A y \in before \ {0} : x <= y
        BY <2>2, <3>2 DEF HoldsMin
      <4>2. x \in Nat /\ \A y \in before : y \in Nat
        BY <1>3
      <4>3. CASE p.val > 0 /\ p.val < x
        <5>1. minKey' = {p.val} /\ processed' = before \cup {p.val}
          BY <2>1, <2>2, <4>1, <4>3
        <5>2. ASSUME NEW y \in processed' \ {0} PROVE p.val <= y
          <6>1. CASE y = p.val
            BY <2>1, <6>1
          <6>2. CASE y \in before \ {0}
            <7>1. x <= y /\ y \in Nat
              BY <4>1, <4>2, <6>2
            <7> QED
              BY <2>1, <4>2, <4>3, <7>1
          <6> QED
            BY <5>1, <6>1, <6>2
        <5> QED
          BY <5>1, <5>2 DEF HoldsMin
      <4>4. CASE ~(p.val > 0 /\ p.val < x)
        <5>1. minKey' = {x} /\ processed' = before \cup {p.val}
          BY <2>1, <2>2, <4>1, <4>4
        <5>2. ASSUME NEW y \in processed' \ {0} PROVE x <= y
          <6>1. CASE y = p.val
            BY <2>1, <4>2, <4>4, <6>1
          <6>2. CASE y \in before \ {0}
            BY <4>1, <6>2
          <6> QED
            BY <5>1, <6>1, <6>2
        <5> QED
          BY <4>1, <5>1, <5>2 DEF HoldsMin
      <4> QED
        BY <4>3, <4>4
    <3> QED
      BY <3>1, <3>2
  <2>4. HoldsMax(processed)'
    BY <2>1, <2>2 DEF HoldsMax
  <2> QED
    BY <2>1, <2>3, <2>4
<1> QED
  BY <1>1, <1>2, <1>3, StepCovers

LEMMA ClientInductive ==
  ASSUME Latencies \subseteq Nat, ClientType, Undisturbed, [Client!Next]_clientState
  PROVE  ClientType' /\ Undisturbed'
<1>1. ASSUME UNCHANGED <<procs, processed, maxKey, minKey, disturbed>>
      PROVE  Undisturbed'
  <2>1. \A p, before : Progress(p, before)' <=> Progress(p, before)
    BY <1>1 DEF Progress, HoldsMax, HoldsMin
  <2>2. HoldsMax(processed)' <=> HoldsMax(processed)
    BY <1>1 DEF HoldsMax
  <2>3. HoldsMin(processed)' <=> HoldsMin(processed)
    BY <1>1 DEF HoldsMin
  <2> QED
    BY <1>1, <2>1, <2>2, <2>3 DEF Undisturbed
<1>2. CASE \/ Client!Scenario \/ Client!SetRate \/ Client!NewTicker \/ Client!Tick
           \/ Client!Collect \/ \E i \in sending : Client!SendRequest(i)
  BY <1>1, <1>2, ClientOthers
<1>3. CASE Client!CloseWindow
  BY <1>3, CloseCovers
<1>4. CASE \E p \in procs : Client!UpdateMinMax(p)
  BY <1>4, UpdateType, MaxCovers, MinCovers DEF Client!UpdateMinMax
<1>5. CASE UNCHANGED clientState
  BY <1>1, <1>5 DEF clientState, ClientType
<1> QED
  BY <1>2, <1>3, <1>4, <1>5
     DEF Client!Next, Client!RequestWorker, Client!MetricsWorker

\* An undisturbed client that is done with its windows has their extrema.
LEMMA UndisturbedCovers ==
  ASSUME ClientType, Undisturbed
  PROVE  ExtremaCover
<1>1. maxKey \cup minKey \subseteq processed
  BY DEF ClientType
<1> SUFFICES ASSUME ~disturbed, procs = {}, processed # {}
             PROVE  /\ maxKey = {Client!Max(processed)}
                    /\ \A val \in processed \ {0}, min \in minKey : min <= val
  BY <1>1 DEF ExtremaCover, Client!ExtremaCover
<1>2. HoldsMax(processed) /\ HoldsMin(processed)
  BY DEF Undisturbed
<1>3. PICK x \in processed : maxKey = {x} /\ \A y \in processed : x >= y
  BY <1>2 DEF HoldsMax
<1>4. Max(processed) \in processed /\ \A y \in processed : Max(processed) >= y
  <2>1. processed \subseteq Int /\ IsFiniteSet(processed)
    BY DEF ClientType
  <2> QED
    BY <2>1, MaxIsLargest
<1>5. Client!Max(processed) = x
  <2>1. x \in Nat /\ Max(processed) \in Nat /\ x >= Max(processed) /\ Max(processed) >= x
    BY <1>3, <1>4 DEF ClientType
  <2>2. x = Max(processed)
    BY <2>1
  <2> QED
    BY <2>2, ClientMaxIsMax
<1>6. \A val \in processed \ {0}, min \in minKey : min <= val
  BY <1>2 DEF HoldsMin
<1> QED
  BY <1>3, <1>5, <1>6

LEMMA InitClient == Client!Init => ClientType /\ Undisturbed
<1>1. IsFiniteSet({})
  BY FS_EmptySet
<1> QED
  BY <1>1 DEF Client!Init, ClientType, Undisturbed, HoldsMax, HoldsMin

\* For every set of latencies, rate and number of requests, the keys that the
\* client writes by GET, compare, SET are values of its windows, and they are
\* the extrema of all of them unless two windows overlapped or Redis failed
\* (RandomTwoPoint/client/main.go:96).
THEOREM ExtremaAreKept ==
  ASSUME Latencies \subseteq Nat
  PROVE  MCSpec => []ExtremaCover
<1>1. MCInit => Client!Init
  BY DEF MCInit
<1>2. [MCNext]_<<side, vars, clientState>> => [Client!Next]_clientState
  BY DEF MCNext
<1>3. ClientType /\ Undisturbed /\ [Client!Next]_clientState
        => ClientType' /\ Undisturbed'
  BY ClientInductive
<1>4. ClientType /\ Undisturbed => ExtremaCover
  BY UndisturbedCovers
<1> QED
  BY InitClient, <1>1, <1>2, <1>3, <1>4, PTL DEF MCSpec
=============================================================================
