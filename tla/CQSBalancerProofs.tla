-------------------------- MODULE CQSBalancerProofs --------------------------
(***************************************************************************)
(* Safety of the CQS balancer for every number of handlers and backends,   *)
(* every TOP_K and every weight triple, and of its metric loggers for      *)
(* every counter.                                                          *)
(***************************************************************************)
EXTENDS CQSBalancer, MetricsLoggers, FiniteSetTheorems, TLAPS

\* The payload on its way to Redis is at most what has been dispatched.
PayloadNeverAhead ==
  pushing # NoPayload => \A b \in Backends : pushing[b] <= dispatch[b]

PickOK(h) ==
  pc[h] \in Picked => chosen[h] \in Choices(Rated(h), score[h])

PickSound == \A h \in Handlers : PickOK(h)

-----------------------------------------------------------------------------
(***************************************************************************)
(* The draw.                                                               *)
(***************************************************************************)
LEMMA PoolSizeBound ==
  ASSUME NEW E, IsFiniteSet(E), Cardinality(E) > 1, ~DrawPanics(E)
  PROVE  PoolSize(E) \in Nat /\ PoolSize(E) >= 2
<1>1. Cardinality(E) \in Nat
  BY FS_CardinalityType
<1>2. QED
  BY <1>1, CQSSelectAssumption DEF PoolSize, AtMost, DrawPanics

\* Whoever beats the winner of a draw is in the pool and is not the loser.
LEMMA WinnerBeatsOne ==
  ASSUME NEW E, IsFiniteSet(E), NEW rating, \A e \in E : rating[e] \in Int,
         NEW S \in Pools(E, rating), NEW x \in Winners(S, rating)
  PROVE  /\ x \in E
         /\ Cardinality(Better(E, rating, x)) <= PoolSize(E) - 2
<1>1. PICK y \in S \ {x} : rating[x] <= rating[y]
  BY DEF Winners
<1>2. S \in SUBSET E /\ x \in S /\ Cardinality(S) = PoolSize(E)
  BY DEF Pools, Winners
<1>3. Better(E, rating, x) \subseteq (S \ {x}) \ {y}
  <2>1. ASSUME NEW z \in Better(E, rating, x) PROVE z \in S
    <3>1. z \in E /\ rating[z] < rating[x]
      BY DEF Better
    <3>2. z \in E \ S => rating[x] <= rating[z]
      BY <1>2 DEF Pools
    <3>3. rating[x] \in Int /\ rating[z] \in Int
      BY <1>2, <3>1
    <3>4. QED
      BY <3>1, <3>2, <3>3
  <2>2. ASSUME NEW z \in Better(E, rating, x) PROVE z # x /\ z # y
    <3>1. rating[x] \in Int /\ rating[y] \in Int
      BY <1>1, <1>2
    <3>2. rating[z] < rating[x]
      BY DEF Better
    <3>3. QED
      BY <1>1, <3>1, <3>2
  <2>3. QED
    BY <2>1, <2>2
<1>4. IsFiniteSet(S) /\ Cardinality(S) \in Nat
  BY <1>2, FS_Subset, FS_CardinalityType
<1>5. IsFiniteSet(S \ {x}) /\ Cardinality(S \ {x}) = Cardinality(S) - 1
  BY <1>2, <1>4, FS_RemoveElement
<1>6. /\ IsFiniteSet((S \ {x}) \ {y})
      /\ Cardinality((S \ {x}) \ {y}) = Cardinality(S) - 2
  <2>1. /\ IsFiniteSet((S \ {x}) \ {y})
        /\ Cardinality((S \ {x}) \ {y}) = Cardinality(S \ {x}) - 1
    BY <1>1, <1>5, FS_RemoveElement
  <2>2. QED
    BY <1>4, <1>5, <2>1
<1>7. Cardinality(Better(E, rating, x)) <= Cardinality((S \ {x}) \ {y})
  BY <1>3, <1>6, FS_Subset
<1>8. QED
  BY <1>2, <1>6, <1>7

\* What calculatePnew returns: at most PoolSize - 2 candidates are strictly
\* better than the chosen one (main.go:253-281).
THEOREM ChoiceAmongBest ==
  ASSUME NEW E, IsFiniteSet(E), NEW rating, \A e \in E : rating[e] \in Int,
         NEW x \in Choices(E, rating)
  PROVE  /\ x \in E
         /\ Cardinality(E) > 1 =>
              Cardinality(Better(E, rating, x)) <= PoolSize(E) - 2
<1>1. CASE Cardinality(E) = 1
  BY <1>1 DEF Choices
<1>2. CASE Cardinality(E) # 1
  <2>1. PICK S \in Pools(E, rating) : x \in Winners(S, rating)
    BY <1>2 DEF Choices
  <2>2. QED
    BY <2>1, WinnerBeatsOne
<1>3. QED
  BY <1>1, <1>2

-----------------------------------------------------------------------------
(***************************************************************************)
(* The arithmetic of scores and of the moving average.                     *)
(***************************************************************************)
LEMMA DivNat == \A n \in Nat, d \in Nat \ {0} : n \div d \in Nat
  BY SMT

LEMMA MulNat == \A m, n \in Nat : m * n \in Nat
  BY SMT

LEMMA EwmaType ==
  ASSUME NEW old \in Nat, NEW ms \in Nat, NEW success \in BOOLEAN
  PROVE  Sample(ms, success) \in Nat /\ Ewma(old, ms, success) \in Nat
<1>1. Sample(ms, success) \in Nat
  BY CQSSelectAssumption DEF Sample
<1>2. (Sample(ms, success) + (AlphaInverse - 1) * old) \in Nat
  BY <1>1 DEF AlphaInverse
<1>3. AlphaInverse \in Nat \ {0}
  BY DEF AlphaInverse
<1>4. QED
  BY <1>1, <1>2, <1>3, DivNat DEF Ewma

LEMMA PenaltyType ==
  ASSUME NEW n \in Nat
  PROVE  Penalty(n) \in Nat
<1>1. AtMost(n, LatencyScale) * Full \in Nat
  BY CQSSelectAssumption DEF AtMost, Full
<1>2. QED
  BY <1>1, CQSSelectAssumption, DivNat DEF Penalty

LEMMA DivMonotone ==
  ASSUME NEW m \in Nat, NEW n \in Nat, NEW d \in Nat \ {0}, m <= n
  PROVE  m \div d <= n \div d
  BY SMT

\* The penalty grows with the average.
LEMMA PenaltyMonotone ==
  ASSUME NEW m \in Nat, NEW n \in Nat, m <= n \/ LatencyScale <= n
  PROVE  Penalty(m) <= Penalty(n)
<1>1. /\ AtMost(m, LatencyScale) * Full \in Nat
      /\ AtMost(n, LatencyScale) * Full \in Nat
      /\ AtMost(m, LatencyScale) * Full <= AtMost(n, LatencyScale) * Full
  BY CQSSelectAssumption DEF AtMost, Full
<1>2. QED
  BY <1>1, CQSSelectAssumption, DivMonotone DEF Penalty

\* A failure counts as 2 * LatencyScale at least: the average rises, or it is
\* already so high that the penalty is saturated (main.go:98-110).
LEMMA FailureRaises ==
  ASSUME NEW old \in Nat, NEW ms \in Nat
  PROVE  Penalty(old) <= Penalty(Ewma(old, ms, FALSE))
<1> DEFINE s == Sample(ms, FALSE)
           new == Ewma(old, ms, FALSE)
<1>1. s \in Nat /\ s >= 2 * LatencyScale
  BY CQSSelectAssumption DEF Sample
<1>2. new \in Nat
  BY EwmaType
<1>3. old # 0 => new = (s + 4 * old) \div 5
  BY DEF Ewma, AlphaInverse
<1> HIDE DEF s, new
<1>4. old <= new \/ LatencyScale <= new
  <2>1. CASE old = 0
    BY <2>1, <1>2
  <2>2. CASE old # 0 /\ old <= s
    BY <1>1, <1>3, <2>2, SMT
  <2>3. CASE old # 0 /\ s < old
    BY <1>1, <1>3, <2>3, CQSSelectAssumption, SMT
  <2>4. QED
    BY <1>1, <2>1, <2>2, <2>3
<1>5. Penalty(old) <= Penalty(new)
  BY <1>2, <1>4, PenaltyMonotone
<1>6. QED
  BY <1>5 DEF new

-----------------------------------------------------------------------------
(***************************************************************************)
(* The inductive invariant: a pick stays what the draw allowed while its   *)
(* request is under way, since only its own handler touches its readings   *)
(* and scores, a backend is scored while its reading is held, and a        *)
(* payload under way is never ahead of the counts.                         *)
(***************************************************************************)
Loading == {"loadA", "loadB", "loadC"}
CandidateOK(h) == pc[h] \in Loading => candidate[h].of \in Rated(h)
CandidateSound == \A h \in Handlers : CandidateOK(h)

IInv == /\ TypeOK /\ CandidateSound /\ PickSound
        /\ PublishedNeverAhead /\ PayloadNeverAhead

Statuses == {"none", "200", "400", "429", "500", "502"}

LEMMA UnreadType == Unread \in Readings
<1>1. Unread \in [{} -> Gauges]
  BY DEF Unread
<1>2. QED
  BY <1>1 DEF Readings

Candidates == [of : Backends \cup {NoBackend}, ms : Nat]

LEMMA NoCandidateType == NoCandidate \in Candidates
BY DEF NoCandidate, Candidates

LEMMA RatedFinite ==
  ASSUME TypeOK, NEW h \in Handlers
  PROVE  /\ Rated(h) \subseteq Backends /\ IsFiniteSet(Rated(h))
         /\ \A b \in Rated(h) : gauge[h][b] \in Gauges
<1>1. gauge[h] \in Readings
  BY DEF TypeOK
<1>2. PICK D \in SUBSET Backends : gauge[h] \in [D -> Gauges]
  BY <1>1 DEF Readings
<1>3. Rated(h) \subseteq D /\ \A b \in D : gauge[h][b] \in Gauges
  BY <1>2 DEF Rated
<1>4. QED
  BY <1>2, <1>3, CQSBalancerAssumption, FS_Subset

\* A score is a natural number: a gauge never shows more free places than
\* places.
LEMMA ScoreType ==
  ASSUME NEW w \in Triples, NEW g \in Gauges, Eligible(g), NEW m \in Nat
  PROVE  Score(w, CP, g, m) \in Nat
<1>1. g.total \in Nat \ {0} /\ (g.total - g.free) * Full \in Nat
  BY CQSBalancerAssumption DEF Gauges, Eligible, Full
<1>2. QueuePressure(g) \in Nat
  BY <1>1, DivNat DEF QueuePressure
<1>3. Penalty(m) \in Nat /\ CP \in Nat
  BY PenaltyType DEF CP
<1>4. w.a \in Nat /\ w.b \in Nat /\ w.c \in Nat
  BY DEF Triples
<1>5. w.a * CP \in Nat /\ w.b * QueuePressure(g) \in Nat /\ w.c * Penalty(m) \in Nat
  BY <1>2, <1>3, <1>4, MulNat
<1>6. QED
  BY <1>5 DEF Score

LEMMA InitIInv == Init => IInv
<1> SUFFICES ASSUME Init PROVE IInv
  OBVIOUS
<1>1. TypeOK
  <2>1. InitialABC \in Triples /\ Zero \in Payload
    BY DEF InitialABC, Triples, Zero, Payload
  <2>2. free \in [Backends -> 0..TotalQueue] /\ ewma \in [Backends -> Nat]
    BY CQSBalancerAssumption DEF Init, Zero
  <2>3. requests \in 0..MaxRequests /\ restarts \in 0..MaxRestarts
    BY CQSBalancerAssumption DEF Init
  <2>4. /\ hash \in Weights /\ abc \in Triples
        /\ dispatch \in Payload /\ published \in Payload
        /\ pushing \in Payload \cup {NoPayload} /\ leftover \in BOOLEAN
    BY <2>1 DEF Init
  <2>5. /\ pc \in [Handlers -> Stages] /\ answer \in [Handlers -> Statuses]
        /\ view \in [Handlers -> Triples] /\ gauge \in [Handlers -> Readings]
        /\ candidate \in [Handlers -> Candidates] /\ loaded \in [Handlers -> Triples]
        /\ score \in [Handlers -> Payload] /\ used \in [Handlers -> SUBSET Triples]
        /\ chosen \in [Handlers -> Backends \cup {NoBackend}]
    BY <2>1, UnreadType, NoCandidateType DEF Init, Stages, Statuses
  <2>6. QED
    BY <2>2, <2>3, <2>4, <2>5 DEF TypeOK, Statuses, Candidates
<1>2. CandidateSound /\ PickSound
  BY DEF Init, CandidateSound, CandidateOK, Loading, PickSound, PickOK, Picked
<1>3. PublishedNeverAhead /\ PayloadNeverAhead
  BY DEF Init, PublishedNeverAhead, PayloadNeverAhead, Zero
<1>4. QED
  BY <1>1, <1>2, <1>3 DEF IInv

LEMMA ReplyType ==
  ASSUME TypeOK, NEW h \in Handlers, NEW status \in Statuses, Reply(h, status)
  PROVE  /\ pc' \in [Handlers -> Stages]
         /\ view' \in [Handlers -> Triples] /\ gauge' \in [Handlers -> Readings]
         /\ candidate' \in [Handlers -> Candidates] /\ loaded' \in [Handlers -> Triples]
         /\ score' \in [Handlers -> Payload]
         /\ used' \in [Handlers -> SUBSET Triples]
         /\ chosen' \in [Handlers -> Backends \cup {NoBackend}]
         /\ answer' \in [Handlers -> Statuses]
<1>1. InitialABC \in Triples /\ Zero \in Payload
  BY DEF InitialABC, Triples, Zero, Payload
<1>2. QED
  BY <1>1, UnreadType, NoCandidateType DEF TypeOK, Reply, Idle, Stages, Statuses,
                                            Candidates

LEMMA ServeKeepsType ==
  ASSUME TypeOK, NEW h \in Handlers, CandidateOK(h), Serve(h)
  PROVE  TypeOK'
<1> USE DEF redis, counts, request, bounds
<1>1. CASE Accept(h)
  <2>1. hash \in Triples
    BY CQSBalancerAssumption DEF TypeOK, Triples
  <2>2. pc' \in [Handlers -> Stages]
    BY <1>1 DEF Accept, Goto, TypeOK, Stages
  <2>3. view' \in [Handlers -> Triples]
    BY <1>1, <2>1 DEF Accept, TypeOK
  <2>4. answer' \in [Handlers -> Statuses]
    BY <1>1 DEF Accept, TypeOK, Statuses
  <2>5. requests' \in 0..MaxRequests
    BY <1>1, CQSBalancerAssumption DEF Accept, TypeOK
  <2>6. QED
    BY <1>1, <2>2, <2>3, <2>4, <2>5 DEF Accept, TypeOK, Statuses
<1>2. CASE RejectBody(h)
  <2>1. UNCHANGED <<redis, abc, ewma, counts, restarts>> /\ requests' \in 0..MaxRequests
    BY <1>2, CQSBalancerAssumption DEF RejectBody, TypeOK
  <2>2. QED
    BY <1>2, <2>1, ReplyType DEF RejectBody, TypeOK, Statuses, Candidates
<1>3. CASE SetWeight(h)
  <2>1. abc' \in Triples
    <3>1. abc \in Triples /\ view[h] \in Triples
      BY DEF TypeOK
    <3>2. \/ abc' = [abc EXCEPT !.a = view[h].a]
          \/ abc' = [abc EXCEPT !.b = view[h].b]
          \/ abc' = [abc EXCEPT !.c = view[h].c]
      BY <1>3 DEF SetWeight
    <3> QED
      BY <3>1, <3>2 DEF Triples
  <2>2. pc' \in [Handlers -> Stages]
    <3>1. PICK stage \in {"setB", "setC", "list"} : pc' = [pc EXCEPT ![h] = stage]
      BY <1>3 DEF SetWeight, Goto
    <3> QED
      BY <3>1 DEF TypeOK, Stages
  <2>3. UNCHANGED <<redis, ewma, counts, request, bounds>>
    BY <1>3 DEF SetWeight
  <2>4. QED
    BY <2>1, <2>2, <2>3 DEF TypeOK
<1>4. CASE ReadGauge(h)
  <2>1. PICK b \in Backends \ DOMAIN gauge[h], g \in Gauges :
          gauge' = [gauge EXCEPT ![h] =
                      [x \in DOMAIN gauge[h] \cup {b} |->
                         IF x = b THEN g ELSE gauge[h][x]]]
    <3>1. PICK b \in Backends \ DOMAIN gauge[h] :
            \E g \in {[total |-> TotalQueue, free |-> free[b], ramax |-> 1], Skipped} :
              gauge' = [gauge EXCEPT ![h] =
                          [x \in DOMAIN gauge[h] \cup {b} |->
                             IF x = b THEN g ELSE gauge[h][x]]]
      BY <1>4 DEF ReadGauge, TypeOK
    <3>2. [total |-> TotalQueue, free |-> free[b], ramax |-> 1] \in Gauges
      BY CQSBalancerAssumption DEF Gauges, TypeOK
    <3>3. Skipped \in Gauges
      BY CQSBalancerAssumption DEF Gauges, Skipped
    <3>4. QED
      BY <3>1, <3>2, <3>3
  <2>3. PICK D \in SUBSET Backends : gauge[h] \in [D -> Gauges]
    BY DEF TypeOK, Readings
  <2>4. [x \in DOMAIN gauge[h] \cup {b} |-> IF x = b THEN g ELSE gauge[h][x]]
          \in [D \cup {b} -> Gauges]
    BY <2>1, <2>3
  <2>5. gauge' \in [Handlers -> Readings]
    <3>1. D \cup {b} \in SUBSET Backends
      BY <2>1, <2>3
    <3>2. [x \in DOMAIN gauge[h] \cup {b} |-> IF x = b THEN g ELSE gauge[h][x]]
            \in Readings
      BY <2>4, <3>1 DEF Readings
    <3>3. QED
      BY <2>1, <3>2 DEF TypeOK
  <2>6. pc' \in [Handlers -> Stages]
    BY <1>4 DEF ReadGauge, Goto, TypeOK, Stages
  <2>7. QED
    BY <1>4, <2>5, <2>6 DEF ReadGauge, TypeOK
<1>5. CASE LoadWeight(h)
  <2>1. /\ [loaded[h] EXCEPT !.a = abc.a] \in Triples
        /\ [loaded[h] EXCEPT !.b = abc.b] \in Triples
    BY DEF TypeOK, Triples
  <2>2. \/ loaded' = [loaded EXCEPT ![h] = [loaded[h] EXCEPT !.a = abc.a]]
        \/ loaded' = [loaded EXCEPT ![h] = [loaded[h] EXCEPT !.b = abc.b]]
    BY <1>5 DEF LoadWeight
  <2>3. loaded' \in [Handlers -> Triples]
    BY <2>1, <2>2 DEF TypeOK
  <2>4. pc' \in [Handlers -> Stages]
    BY <1>5 DEF LoadWeight, Goto, TypeOK, Stages
  <2>5. QED
    BY <1>5, <2>3, <2>4 DEF LoadWeight, TypeOK
<1>6. CASE ScoreOne(h)
  <2> DEFINE w == [loaded[h] EXCEPT !.c = abc.c]
  <2>1. w \in Triples /\ InitialABC \in Triples
    <3>1. loaded[h] \in Triples /\ abc.c \in Nat
      BY DEF TypeOK, Triples
    <3>2. w \in Triples
      BY <3>1 DEF Triples
    <3>3. InitialABC \in Triples
      BY DEF Triples, InitialABC
    <3> QED
      BY <3>2, <3>3
  <2> DEFINE b == candidate[h].of
             ms == candidate[h].ms
  <2>2. /\ b \in Rated(h) /\ ms \in Nat
        /\ score' = [score EXCEPT ![h][b] = Score(w, CP, gauge[h][b], ms)]
        /\ used' = [used EXCEPT ![h] = used[h] \cup {w}]
    BY <1>6 DEF ScoreOne, CandidateOK, Loading, TypeOK
  <2> HIDE DEF w, b, ms
  <2>3. Score(w, CP, gauge[h][b], ms) \in Nat
    BY <2>1, <2>2, RatedFinite, ScoreType DEF TypeOK, Rated
  <2>4. score' \in [Handlers -> Payload] /\ used' \in [Handlers -> SUBSET Triples]
    BY <2>1, <2>2, <2>3 DEF TypeOK, Payload
  <2>5. /\ candidate' \in [Handlers -> [of : Backends \cup {NoBackend}, ms : Nat]]
        /\ loaded' \in [Handlers -> Triples] /\ pc' \in [Handlers -> Stages]
    BY <1>6, <2>1, NoCandidateType DEF ScoreOne, Goto, TypeOK, Stages, Candidates
  <2>6. QED
    BY <1>6, <2>4, <2>5 DEF ScoreOne, TypeOK
<1>7. CASE NoneAvailable(h) \/ DrawFails(h) \/ PctFails(h)
  BY <1>7, ReplyType DEF NoneAvailable, DrawFails, PctFails, TypeOK,
                        Statuses, Candidates
<1>8. CASE Draw(h)
  <2>1. PICK b \in Choices(Rated(h), score[h]) : chosen' = [chosen EXCEPT ![h] = b]
    BY <1>8 DEF Draw
  <2>2. \A e \in Rated(h) : score[h][e] \in Int
    BY RatedFinite DEF TypeOK, Payload
  <2>3. b \in Rated(h)
    BY <2>1, <2>2, RatedFinite, ChoiceAmongBest
  <2>4. chosen' \in [Handlers -> Backends \cup {NoBackend}]
    BY <2>1, <2>3, RatedFinite DEF TypeOK
  <2>5. QED
    BY <1>8, <2>4 DEF Draw, Goto, TypeOK, Stages
<1>9. CASE CountDispatch(h)
  <2>1. dispatch' \in Payload
    <3>1. dispatch \in [Backends -> Nat]
      BY DEF TypeOK, Payload
    <3>2. dispatch' = [dispatch EXCEPT ![chosen[h]] = dispatch[chosen[h]] + 1]
      BY <1>9 DEF CountDispatch
    <3>3. CASE chosen[h] \in Backends
      BY <3>1, <3>2, <3>3 DEF Payload
    <3>4. CASE chosen[h] \notin Backends
      BY <3>1, <3>2, <3>4 DEF Payload
    <3>5. QED
      BY <3>3, <3>4
  <2>2. QED
    BY <1>9, <2>1 DEF CountDispatch, Goto, TypeOK, Stages
<1>10. CASE Answered(h) \/ Unanswered(h)
  <2>1. PICK status \in Statuses : Reply(h, status)
    BY <1>10 DEF Answered, Unanswered, Statuses
  <2>2. PICK ms \in Nat, success \in BOOLEAN : Record(chosen[h], ms, success)
    <3>1. Latencies \cup {Timeout} \subseteq Nat
      BY CQSBalancerAssumption
    <3>2. CASE Unanswered(h)
      BY <3>1, <3>2 DEF Unanswered
    <3>3. CASE Answered(h)
      <4>1. PICK code \in Statuses, ms \in Latencies :
              Record(chosen[h], ms, code # "500")
        BY <3>3 DEF Answered, Statuses
      <4>2. (code # "500") \in BOOLEAN /\ ms \in Nat
        BY <3>1
      <4>3. QED
        BY <4>1, <4>2
    <3>4. QED
      BY <1>10, <3>2, <3>3
  <2>3. ewma' \in [Backends -> Nat]
    BY <2>2, EwmaType DEF Record, TypeOK
  <2>4. QED
    BY <1>10, <2>1, <2>3, ReplyType DEF Answered, Unanswered, TypeOK,
                                        Statuses, Candidates
<1>11. CASE ReadLatency(h)
  <2>1. PICK b \in Rated(h) :
          candidate' = [candidate EXCEPT ![h] = [of |-> b, ms |-> ewma[b]]]
    BY <1>11 DEF ReadLatency
  <2>2. b \in Backends /\ ewma[b] \in Nat
    BY RatedFinite DEF TypeOK
  <2>3. candidate' \in [Handlers -> [of : Backends \cup {NoBackend}, ms : Nat]]
    BY <2>1, <2>2 DEF TypeOK
  <2>4. pc' \in [Handlers -> Stages]
    BY <1>11 DEF ReadLatency, Goto, TypeOK, Stages
  <2> QED
    BY <1>11, <2>3, <2>4 DEF ReadLatency, TypeOK
<1>12. QED
  BY <1>1, <1>2, <1>3, <1>4, <1>5, <1>6, <1>7, <1>8, <1>9, <1>10, <1>11 DEF Serve

LEMMA OthersKeepType ==
  ASSUME TypeOK, WeightsMove \/ GaugeMoves \/ PushStart \/ PushDone \/ Restart
  PROVE  TypeOK'
<1> USE DEF redis, counts, request, bounds
<1>1. CASE WeightsMove
  BY <1>1 DEF WeightsMove, TypeOK
<1>2. CASE GaugeMoves
  BY <1>2 DEF GaugeMoves, TypeOK
<1>3. CASE PushStart
  BY <1>3 DEF PushStart, TypeOK
<1>4. CASE PushDone
  <2>1. published' \in Payload
    BY <1>4 DEF PushDone, TypeOK, Payload
  <2>2. QED
    BY <1>4, <2>1 DEF PushDone, TypeOK
<1>5. CASE Restart
  <2>1. /\ InitialABC \in Triples /\ InitialABC \in Weights
        /\ Zero \in Payload /\ hash \in Triples
    BY CQSBalancerAssumption DEF InitialABC, Triples, Zero, Payload, TypeOK
  <2>2. ewma' \in [Backends -> Nat]
    BY <1>5 DEF Restart, ResetDispatchCounts, Zero
  <2>3. restarts' \in 0..MaxRestarts
    BY <1>5, CQSBalancerAssumption DEF Restart, ResetDispatchCounts, TypeOK
  <2>4. /\ view' \in [Handlers -> Triples] /\ gauge' \in [Handlers -> Readings]
        /\ candidate' \in [Handlers -> Candidates] /\ loaded' \in [Handlers -> Triples]
        /\ score' \in [Handlers -> Payload] /\ used' \in [Handlers -> SUBSET Triples]
        /\ chosen' \in [Handlers -> Backends \cup {NoBackend}]
        /\ pc' \in [Handlers -> Stages]
    BY <1>5, <2>1, UnreadType, NoCandidateType DEF Restart, Stages
  <2>5. /\ dispatch' \in Payload /\ published' \in Payload
        /\ pushing' \in Payload \cup {NoPayload} /\ leftover' \in BOOLEAN
        /\ abc' \in Triples
    BY <1>5, <2>1 DEF Restart, ResetDispatchCounts, TypeOK
  <2>6. /\ hash' \in Weights /\ free' \in [Backends -> 0..TotalQueue]
        /\ answer' = answer /\ requests' = requests
    BY <1>5, <2>1, CQSBalancerAssumption DEF Restart, TypeOK
  <2>7. QED
    BY <2>2, <2>3, <2>4, <2>5, <2>6 DEF TypeOK, Candidates
<1>6. QED
  BY <1>1, <1>2, <1>3, <1>4, <1>5

LEMMA TypeInductive == TypeOK /\ CandidateSound /\ [Next]_vars => TypeOK'
<1>1. ASSUME TypeOK, CandidateSound, Next PROVE TypeOK'
  BY <1>1, ServeKeepsType, OthersKeepType DEF Next, CandidateSound
<1>2. ASSUME TypeOK, UNCHANGED vars PROVE TypeOK'
  BY <1>2 DEF TypeOK, vars, redis, counts, request, bounds
<1>3. QED
  BY <1>1, <1>2

\* A handler that neither moves nor re-reads keeps its pick.
LEMMA PickFrame ==
  ASSUME NEW h \in Handlers, PickOK(h), pc'[h] \in Picked => pc[h] \in Picked,
         gauge'[h] = gauge[h], score'[h] = score[h], chosen'[h] = chosen[h]
  PROVE  PickOK(h)'
<1>1. Rated(h)' = Rated(h)
  BY DEF Rated
<1>2. QED
  BY <1>1 DEF PickOK

LEMMA ServeLeavesOthers ==
  ASSUME TypeOK, NEW h \in Handlers, Serve(h), NEW g \in Handlers, g # h
  PROVE  /\ pc'[g] = pc[g] /\ gauge'[g] = gauge[g] /\ candidate'[g] = candidate[g]
         /\ score'[g] = score[g] /\ chosen'[g] = chosen[g]
<1> USE DEF redis, counts, request, bounds, TypeOK
<1>1. CASE Accept(h) \/ SetWeight(h)
  BY <1>1 DEF Accept, SetWeight, Goto
<1>2. CASE RejectBody(h) \/ NoneAvailable(h) \/ DrawFails(h) \/ PctFails(h)
  BY <1>2 DEF RejectBody, NoneAvailable, DrawFails, PctFails, Reply, Idle
<1>3. CASE ReadGauge(h)
  BY <1>3 DEF ReadGauge, Goto
<1>4. CASE ReadLatency(h) \/ LoadWeight(h) \/ ScoreOne(h)
  BY <1>4 DEF ReadLatency, LoadWeight, ScoreOne, Goto
<1>5. CASE Draw(h) \/ CountDispatch(h)
  BY <1>5 DEF Draw, CountDispatch, Goto
<1>6. CASE Answered(h) \/ Unanswered(h)
  BY <1>6 DEF Answered, Unanswered, Reply, Idle
<1>7. QED
  BY <1>1, <1>2, <1>3, <1>4, <1>5, <1>6 DEF Serve

LEMMA ServeKeepsOwnPick ==
  ASSUME TypeOK, NEW h \in Handlers, PickOK(h), Serve(h)
  PROVE  PickOK(h)'
<1> USE DEF TypeOK
<1>1. CASE Accept(h) \/ SetWeight(h) \/ ReadGauge(h) \/ LoadWeight(h)
             \/ ReadLatency(h) \/ ScoreOne(h)
  <2>1. pc'[h] \notin Picked
    BY <1>1 DEF Accept, SetWeight, ReadGauge, ReadLatency, LoadWeight,
                ScoreOne, Goto, Picked
  <2>2. QED
    BY <2>1 DEF PickOK
<1>2. CASE RejectBody(h) \/ NoneAvailable(h) \/ DrawFails(h) \/ PctFails(h)
             \/ Answered(h) \/ Unanswered(h)
  <2>1. pc'[h] = "idle"
    BY <1>2 DEF RejectBody, NoneAvailable, DrawFails, PctFails, Answered,
                Unanswered, Reply, Idle
  <2>2. QED
    BY <2>1 DEF PickOK, Picked
<1>3. CASE Draw(h)
  <2>1. gauge' = gauge /\ score' = score
    BY <1>3 DEF Draw
  <2>2. Rated(h)' = Rated(h)
    BY <2>1 DEF Rated
  <2>3. chosen'[h] \in Choices(Rated(h), score[h])
    BY <1>3 DEF Draw
  <2>4. QED
    BY <2>1, <2>2, <2>3 DEF PickOK
<1>4. CASE CountDispatch(h)
  <2>1. pc[h] \in Picked /\ UNCHANGED request
    BY <1>4 DEF CountDispatch, Picked
  <2>2. QED
    BY <2>1, PickFrame DEF request
<1>5. QED
  BY <1>1, <1>2, <1>3, <1>4 DEF Serve

LEMMA CandidateInductive ==
  TypeOK /\ CandidateSound /\ [Next]_vars => CandidateSound'
<1> SUFFICES ASSUME TypeOK, CandidateSound, [Next]_vars, NEW g \in Handlers
             PROVE  CandidateOK(g)'
  BY DEF CandidateSound
<1> USE DEF TypeOK, Loading
<1>1. CandidateOK(g)
  BY DEF CandidateSound
<1>2. ASSUME pc'[g] \in Loading => pc[g] \in Loading, gauge'[g] = gauge[g],
             candidate'[g] = candidate[g]
      PROVE  CandidateOK(g)'
  BY <1>1, <1>2 DEF CandidateOK, Rated
<1>3. ASSUME NEW h \in Handlers, Serve(h), g # h PROVE CandidateOK(g)'
  BY <1>2, <1>3, ServeLeavesOthers
<1>4. CASE ReadLatency(g)
  <2>1. PICK b \in Rated(g) :
          candidate' = [candidate EXCEPT ![g] = [of |-> b, ms |-> ewma[b]]]
    BY <1>4 DEF ReadLatency
  <2>2. candidate'[g].of = b /\ gauge' = gauge
    BY <1>4, <2>1 DEF ReadLatency
  <2> QED
    BY <2>1, <2>2 DEF CandidateOK, Rated
<1>5. CASE LoadWeight(g)
  BY <1>2, <1>5 DEF LoadWeight, Goto
<1>6. CASE Serve(g) /\ ~ReadLatency(g) /\ ~LoadWeight(g)
  <2>1. pc'[g] \notin Loading
    BY <1>6 DEF Serve, Accept, RejectBody, SetWeight, ReadGauge, ScoreOne,
                NoneAvailable, DrawFails, Draw, PctFails, CountDispatch, Answered,
                Unanswered, Scored, Reply, Idle, Goto
  <2> QED
    BY <2>1 DEF CandidateOK
<1>7. CASE WeightsMove \/ GaugeMoves \/ PushStart \/ PushDone \/ UNCHANGED vars
  BY <1>2, <1>7 DEF WeightsMove, GaugeMoves, PushStart, PushDone, vars, request
<1>8. CASE Restart
  BY <1>8 DEF Restart, CandidateOK
<1> QED
  BY <1>3, <1>4, <1>5, <1>6, <1>7, <1>8 DEF Next

LEMMA PickInductive == TypeOK /\ PickSound /\ [Next]_vars => PickSound'
<1> SUFFICES ASSUME TypeOK, PickSound, [Next]_vars, NEW g \in Handlers
             PROVE  PickOK(g)'
  BY DEF PickSound
<1>1. PickOK(g)
  BY DEF PickSound
<1>2. ASSUME NEW h \in Handlers, Serve(h) PROVE PickOK(g)'
  <2>1. CASE g = h
    BY <1>1, <1>2, <2>1, ServeKeepsOwnPick
  <2>2. CASE g # h
    BY <1>1, <1>2, <2>2, ServeLeavesOthers, PickFrame
  <2>3. QED
    BY <2>1, <2>2
<1>3. CASE WeightsMove \/ GaugeMoves \/ PushStart \/ PushDone \/ UNCHANGED vars
  <2>1. pc' = pc /\ gauge' = gauge /\ score' = score /\ chosen' = chosen
    BY <1>3 DEF WeightsMove, GaugeMoves, PushStart, PushDone, vars, request
  <2>2. QED
    BY <1>1, <2>1, PickFrame
<1>4. CASE Restart
  <2>1. pc'[g] = "idle"
    BY <1>4 DEF Restart, ResetDispatchCounts
  <2>2. QED
    BY <2>1 DEF PickOK, Picked
<1>5. QED
  BY <1>2, <1>3, <1>4 DEF Next

\* Nobody but CountDispatch, PushStart, PushDone and Restart touches the counts.
LEMMA CountsFrame ==
  ASSUME NEW h \in Handlers, Serve(h), ~CountDispatch(h)
  PROVE  UNCHANGED counts
  BY DEF Serve, Accept, RejectBody, SetWeight, ReadGauge, ReadLatency, LoadWeight,
         ScoreOne, NoneAvailable, DrawFails, Draw, PctFails, Answered, Unanswered

LEMMA CountsInductive ==
  ASSUME TypeOK, PublishedNeverAhead, PayloadNeverAhead, [Next]_vars
  PROVE  PublishedNeverAhead' /\ PayloadNeverAhead'
<1> USE DEF PublishedNeverAhead, PayloadNeverAhead
<1>1. CASE UNCHANGED counts
  BY <1>1 DEF counts
<1>2. ASSUME NEW h \in Handlers, CountDispatch(h)
      PROVE  PublishedNeverAhead' /\ PayloadNeverAhead'
  <2>1. dispatch' = [dispatch EXCEPT ![chosen[h]] = dispatch[chosen[h]] + 1]
    BY <1>2 DEF CountDispatch
  <2>2. \A b \in Backends : dispatch[b] <= dispatch'[b] /\ dispatch'[b] \in Nat
    BY <2>1 DEF TypeOK, Payload
  <2>3. UNCHANGED <<published, pushing, leftover>>
    BY <1>2 DEF CountDispatch
  <2>4. PublishedNeverAhead'
    BY <2>2, <2>3 DEF TypeOK, Payload
  <2>5. PayloadNeverAhead'
    BY <2>2, <2>3 DEF TypeOK, Payload
  <2>6. QED
    BY <2>4, <2>5
<1>3. CASE PushStart
  <2>1. \A b \in Backends : dispatch[b] \in Nat
    BY DEF TypeOK, Payload
  <2>2. pushing' = dispatch /\ UNCHANGED <<dispatch, published, leftover>>
    BY <1>3 DEF PushStart
  <2>3. QED
    BY <2>1, <2>2
<1>4. CASE PushDone
  <2>1. pushing # NoPayload /\ pushing' = NoPayload /\ UNCHANGED <<dispatch, leftover>>
    BY <1>4 DEF PushDone
  <2>2. \A b \in Backends : published'[b] \in {pushing[b], published[b]}
    BY <1>4 DEF PushDone
  <2>3. QED
    BY <2>1, <2>2
<1>5. CASE Restart
  <2>1. pushing' = NoPayload
    BY <1>5 DEF Restart, ResetDispatchCounts
  <2>2. CASE published' = Zero /\ leftover' = FALSE
    BY <1>5, <2>1, <2>2 DEF Restart, ResetDispatchCounts, Zero
  <2>3. CASE UNCHANGED published /\ leftover' = (leftover \/ published # Zero)
    <3>1. leftover' <=> leftover \/ published # Zero
      BY <2>3
    <3>2. ~leftover' => published' = Zero /\ dispatch' = Zero
      BY <1>5, <2>3, <3>1 DEF Restart, ResetDispatchCounts
    <3>3. QED
      BY <2>1, <3>2 DEF Zero
  <2>4. QED
    BY <1>5, <2>2, <2>3 DEF Restart, ResetDispatchCounts
<1>6. QED
  BY <1>1, <1>2, <1>3, <1>4, <1>5, CountsFrame
  DEF Next, WeightsMove, GaugeMoves, vars

LEMMA Invariance == Spec => []IInv
<1>1. IInv /\ [Next]_vars => IInv'
  BY TypeInductive, CandidateInductive, PickInductive, CountsInductive DEF IInv
<1>2. QED
  BY <1>1, InitIInv, PTL DEF Spec

-----------------------------------------------------------------------------
\* Every variable keeps its type; in particular no score and no EWMA ever
\* turns negative or undefined.
THEOREM TypeCorrect == Spec => []TypeOK
<1>1. IInv => TypeOK
  BY DEF IInv
<1>2. QED
  BY <1>1, Invariance, PTL

\* A request only goes to a backend that was rated for it, and at most
\* PoolSize - 2 rated backends were strictly better (main.go:222-284).
THEOREM PicksAmongBest == Spec => []PickedAmongBest
<1>1. IInv => PickedAmongBest
  <2> SUFFICES ASSUME IInv, NEW h \in Handlers, pc[h] \in Picked
               PROVE  /\ chosen[h] \in Rated(h)
                      /\ Cardinality(Rated(h)) > 1 =>
                           Cardinality(Better(Rated(h), score[h], chosen[h]))
                             <= PoolSize(Rated(h)) - 2
    BY DEF PickedAmongBest
  <2>1. chosen[h] \in Choices(Rated(h), score[h])
    BY DEF IInv, PickSound, PickOK
  <2>2. IsFiniteSet(Rated(h)) /\ \A e \in Rated(h) : score[h][e] \in Int
    BY RatedFinite DEF IInv, TypeOK, Payload
  <2>3. QED
    BY <2>1, <2>2, ChoiceAmongBest
<1>2. QED
  BY <1>1, Invariance, PTL

\* The counts in Redis are old at worst, never invented (main.go:312-341).
THEOREM PublishesNoFuture == Spec => []PublishedNeverAhead
<1>1. IInv => PublishedNeverAhead
  BY DEF IInv
<1>2. QED
  BY <1>1, Invariance, PTL

\* Failures never lower a backend's penalty, for every scale, timeout and
\* round-trip time (main.go:93-121).
THEOREM FailuresPenalised == Spec => FailureKeepsPenalty
<1>1. ASSUME IInv, [Next]_vars, NEW h \in Handlers,
             pc[h] = "forward", pc'[h] = "idle", restarts' = restarts,
             Unanswered(h) \/ answer'[h] = "500"
      PROVE  Penalty(ewma'[chosen[h]]) >= Penalty(ewma[chosen[h]])
  <2>1. PICK ms \in Nat : Record(chosen[h], ms, FALSE)
    <3>1. Latencies \cup {Timeout} \subseteq Nat
      BY CQSBalancerAssumption
    <3>2. CASE Unanswered(h)
      BY <3>1, <3>2 DEF Unanswered
    <3>3. CASE answer'[h] = "500" /\ Answered(h)
      <4>1. PICK code \in Statuses, ms \in Latencies :
              /\ Record(chosen[h], ms, code # "500")
              /\ Reply(h, code) \/ Reply(h, "502")
        BY <3>3 DEF Answered, Statuses
      <4>2. code = "500"
        BY <1>1, <4>1, <3>3 DEF Reply, IInv, TypeOK
      <4>3. (code # "500") = FALSE
        BY <4>2
      <4>4. QED
        BY <3>1, <4>1, <4>3
    <3>4. Answered(h) \/ Unanswered(h)
      <4>1. ~Restart
        BY <1>1, CQSBalancerAssumption DEF Restart, IInv, TypeOK
      <4>2. pc' # pc
        BY <1>1
      <4>3. PICK g \in Handlers : Serve(g)
        BY <1>1, <4>1, <4>2
        DEF Next, WeightsMove, GaugeMoves, PushStart, PushDone, vars
      <4>4. g = h
        BY <1>1, <4>3, ServeLeavesOthers DEF IInv
      <4>5. QED
        BY <1>1, <4>3, <4>4
        DEF Serve, Accept, RejectBody, SetWeight, ReadGauge, ReadLatency, LoadWeight,
            ScoreOne, NoneAvailable, DrawFails, Draw, PctFails, CountDispatch, Scored, IInv
    <3>5. QED
      BY <1>1, <3>2, <3>3, <3>4
  <2>2. chosen[h] \in Backends
    BY <1>1, <2>1, RatedFinite, ChoiceAmongBest
    DEF IInv, PickSound, PickOK, Picked, TypeOK, Payload
  <2>3. ewma[chosen[h]] \in Nat
    BY <1>1, <2>2 DEF IInv, TypeOK
  <2>4. ewma'[chosen[h]] = Ewma(ewma[chosen[h]], ms, FALSE)
    BY <1>1, <2>1, <2>2 DEF Record, IInv, TypeOK
  <2>5. Penalty(ewma[chosen[h]]) <= Penalty(Ewma(ewma[chosen[h]], ms, FALSE))
    BY <2>3, FailureRaises
  <2>6. /\ Penalty(ewma[chosen[h]]) \in Nat
        /\ Penalty(Ewma(ewma[chosen[h]], ms, FALSE)) \in Nat
    BY <2>3, EwmaType, PenaltyType
  <2>7. QED
    BY <2>4, <2>5, <2>6
<1>2. IInv /\ [Next]_vars =>
        \A h \in Handlers :
          /\ pc[h] = "forward" /\ pc'[h] = "idle" /\ restarts' = restarts
          /\ Unanswered(h) \/ answer'[h] = "500"
          => Penalty(ewma'[chosen[h]]) >= Penalty(ewma[chosen[h]])
  BY <1>1
<1>3. QED
  BY <1>2, Invariance, PTL DEF Spec, FailureKeepsPenalty

-----------------------------------------------------------------------------
(***************************************************************************)
(* The backend that nobody measures.                                       *)
(***************************************************************************)
StrictlyWorst(b, E, rating) ==
  b \in E /\ Cardinality(E) > 1 /\ \A y \in E \ {b} : rating[y] < rating[b]

\* No draw chooses the strictly worst candidate: all others are better.
LEMMA WorstNeverWins ==
  ASSUME NEW E, IsFiniteSet(E), NEW rating, \A e \in E : rating[e] \in Int,
         NEW x \in Choices(E, rating)
  PROVE  ~StrictlyWorst(x, E, rating)
<1> SUFFICES ASSUME StrictlyWorst(x, E, rating) PROVE FALSE
  OBVIOUS
<1>1. Better(E, rating, x) = E \ {x}
  BY DEF StrictlyWorst, Better
<1>2. Cardinality(E) \in Nat /\ Cardinality(E \ {x}) = Cardinality(E) - 1
  BY FS_CardinalityType, FS_RemoveElement DEF StrictlyWorst
<1>3. Cardinality(E \ {x}) <= PoolSize(E) - 2
  BY <1>1, ChoiceAmongBest DEF StrictlyWorst
<1>4. PoolSize(E) <= Cardinality(E) /\ PoolSize(E) \in Int
  BY <1>2, CQSSelectAssumption DEF PoolSize, AtMost
<1> QED
  BY <1>2, <1>3, <1>4

\* The EWMA of a backend only moves when a request was sent to it for which
\* it was not strictly the worst candidate, whatever other requests do at the
\* time: a backend that is always the worst keeps the average that makes it so,
\* until the balancer restarts (main.go:93-121, 275).
THEOREM WorstStaysUnmeasured ==
  Spec => [][\A b \in Backends : ewma'[b] # ewma[b] /\ restarts' = restarts =>
               \E h \in Handlers : /\ pc[h] = "forward" /\ chosen[h] = b
                                   /\ ~StrictlyWorst(b, Rated(h), score[h])]_vars
<1>1. ASSUME IInv, [Next]_vars, NEW b \in Backends,
             ewma'[b] # ewma[b], restarts' = restarts
      PROVE  \E h \in Handlers : /\ pc[h] = "forward" /\ chosen[h] = b
                                 /\ ~StrictlyWorst(b, Rated(h), score[h])
  <2>1. ~Restart
    BY <1>1, CQSBalancerAssumption DEF Restart, IInv, TypeOK
  <2>2. PICK h \in Handlers : Serve(h)
    BY <1>1, <2>1 DEF Next, WeightsMove, GaugeMoves, PushStart, PushDone, vars
  <2>3. Answered(h) \/ Unanswered(h)
    BY <1>1, <2>2
    DEF Serve, Accept, RejectBody, SetWeight, ReadGauge, ReadLatency, LoadWeight,
        ScoreOne, NoneAvailable, DrawFails, Draw, PctFails, CountDispatch
  <2>4. pc[h] = "forward" /\ \E ms, success : Record(chosen[h], ms, success)
    BY <2>3 DEF Answered, Unanswered
  <2>5. chosen[h] = b
    BY <1>1, <2>4 DEF Record, IInv, TypeOK
  <2>6. chosen[h] \in Choices(Rated(h), score[h])
    BY <2>4 , <1>1 DEF IInv, PickSound, PickOK, Picked
  <2>7. IsFiniteSet(Rated(h)) /\ \A e \in Rated(h) : score[h][e] \in Int
    BY <1>1, RatedFinite DEF IInv, TypeOK, Payload
  <2> QED
    BY <2>4, <2>5, <2>6, <2>7, WorstNeverWins
<1>2. IInv /\ [Next]_vars =>
        \A b \in Backends : ewma'[b] # ewma[b] /\ restarts' = restarts =>
          \E h \in Handlers : /\ pc[h] = "forward" /\ chosen[h] = b
                              /\ ~StrictlyWorst(b, Rated(h), score[h])
  BY <1>1
<1> QED
  BY <1>2, Invariance, PTL DEF Spec

-----------------------------------------------------------------------------
(***************************************************************************)
(* One handler at a time.  Without overlap the globals are what the        *)
(* handler put there, so it scores every candidate with one triple; with   *)
(* two handlers that is false (the run of CQSBalancerTorn.cfg).            *)
(***************************************************************************)
Alone == \A g, h \in Handlers : g = h
Known == Weights \cup {InitialABC}
Setting == {"setA", "setB", "setC"}

TripleOK(h) ==
  /\ pc[h] \in Setting => view[h] \in Weights
  /\ pc[h] \in {"setB", "setC"} => abc.a = view[h].a
  /\ pc[h] = "setC" => abc.b = view[h].b
  /\ pc[h] \notin Setting => abc \in Known
  /\ pc[h] \in {"loadB", "loadC"} => loaded[h].a = abc.a
  /\ pc[h] = "loadC" => loaded[h].b = abc.b
  /\ pc[h] \in Setting \cup {"idle", "list"} => used[h] = {}
  /\ used[h] \subseteq {abc}

LEMMA LastField ==
  ASSUME NEW v \in Triples, NEW w \in Triples, v.a = w.a, v.b = w.b
  PROVE  [v EXCEPT !.c = w.c] = w
  BY DEF Triples

LEMMA ServeKeepsTriple ==
  ASSUME TypeOK, NEW h \in Handlers, TripleOK(h), Serve(h)
  PROVE  TripleOK(h)'
<1> USE DEF TypeOK, TripleOK, Setting, Goto
<1>1. CASE Accept(h)
  BY <1>1 DEF Accept, Known
<1>2. CASE RejectBody(h)
  BY <1>2 DEF RejectBody, Reply, Idle, Known
<1>3. CASE SetWeight(h)
  <2>1. CASE pc[h] = "setC"
    <3>1. view[h] \in Triples /\ abc \in Triples
          /\ abc.a = view[h].a /\ abc.b = view[h].b /\ view[h] \in Weights
      BY <2>1
    <3>2. abc' = view[h] /\ UNCHANGED request /\ pc'[h] = "list"
      BY <1>3, <2>1, <3>1, LastField DEF SetWeight
    <3> QED
      BY <1>3, <2>1, <3>1, <3>2 DEF request, Known
  <2>2. CASE pc[h] = "setA" \/ pc[h] = "setB"
    <3>1. abc \in Triples
      OBVIOUS
    <3> QED
      BY <1>3, <2>2, <3>1 DEF SetWeight, request, Triples
  <2> QED
    BY <1>3, <2>1, <2>2 DEF SetWeight
<1>4. CASE ReadGauge(h)
  BY <1>4 DEF ReadGauge
<1>5. CASE LoadWeight(h)
  <2>1. loaded[h] \in Triples
    OBVIOUS
  <2>2. CASE pc[h] = "loadA"
    BY <1>5, <2>1, <2>2 DEF LoadWeight, Triples
  <2>3. CASE pc[h] = "loadB"
    BY <1>5, <2>1, <2>3 DEF LoadWeight, Triples
  <2> QED
    BY <1>5, <2>2, <2>3 DEF LoadWeight
<1>6. CASE ScoreOne(h)
  <2>1. [loaded[h] EXCEPT !.c = abc.c] = abc
    BY <1>6, LastField DEF ScoreOne
  <2>2. used' = [used EXCEPT ![h] = @ \cup {abc}]
    BY <1>6, <2>1 DEF ScoreOne
  <2>3. pc[h] = "loadC" /\ pc'[h] = "score" /\ abc' = abc
    BY <1>6 DEF ScoreOne
  <2> QED
    BY <2>2, <2>3
<1>7. CASE NoneAvailable(h) \/ DrawFails(h) \/ PctFails(h)
  BY <1>7 DEF NoneAvailable, DrawFails, PctFails, Scored, Reply, Idle
<1>8. CASE Draw(h)
  BY <1>8 DEF Draw, Scored
<1>9. CASE CountDispatch(h)
  BY <1>9 DEF CountDispatch, request
<1>10. CASE Answered(h) \/ Unanswered(h)
  BY <1>10 DEF Answered, Unanswered, Reply, Idle
<1>11. CASE ReadLatency(h)
  BY <1>11 DEF ReadLatency
<1> QED
  BY <1>1, <1>2, <1>3, <1>4, <1>5, <1>6, <1>7, <1>8, <1>9, <1>10, <1>11 DEF Serve

LEMMA TripleInductive ==
  ASSUME Alone, TypeOK, \A h \in Handlers : TripleOK(h), [Next]_vars
  PROVE  \A h \in Handlers : TripleOK(h)'
<1> TAKE h \in Handlers
<1>1. CASE \E g \in Handlers : Serve(g)
  BY <1>1, ServeKeepsTriple DEF Alone
<1>2. CASE WeightsMove \/ GaugeMoves \/ PushStart \/ PushDone \/ UNCHANGED vars
  BY <1>2 DEF WeightsMove, GaugeMoves, PushStart, PushDone, vars, request, TripleOK
<1>3. CASE Restart
  <2>1. abc' \in Known
    BY <1>3 DEF Restart, TypeOK, Known
  <2>2. pc'[h] = "idle" /\ used'[h] = {}
    BY <1>3 DEF Restart
  <2> QED
    BY <2>1, <2>2 DEF TripleOK, Setting
<1> QED
  BY <1>1, <1>2, <1>3 DEF Next

\* A balancer that serves one request at a time scores all its candidates
\* with one triple, which the hash held, however the weights move between and
\* whenever the process restarts (main.go:170-184, 249).
THEOREM OneTripleWhenAlone ==
  ASSUME Alone
  PROVE  Spec => []OneWeightTriple
<1>1. Init => \A h \in Handlers : TripleOK(h)
  BY DEF Init, TripleOK, Setting, Known
<1>2. TypeOK /\ (\A h \in Handlers : TripleOK(h)) /\ [Next]_vars
        => (\A h \in Handlers : TripleOK(h))'
  BY TripleInductive
<1>3. TypeOK /\ (\A h \in Handlers : TripleOK(h)) => OneWeightTriple
  <2> SUFFICES ASSUME TypeOK, NEW h \in Handlers, TripleOK(h)
               PROVE  Cardinality(used[h]) <= 1 /\ used[h] \subseteq Known
    BY DEF OneWeightTriple, Known
  <2>1. used[h] = {} \/ used[h] = {abc}
    BY DEF TripleOK
  <2>2. Cardinality({}) = 0 /\ Cardinality({abc}) = 1
    BY FS_EmptySet, FS_Singleton
  <2>3. used[h] \subseteq Known
    BY <2>1 DEF TripleOK
  <2> QED
    BY <2>1, <2>2, <2>3
<1> QED
  BY <1>1, <1>2, <1>3, TypeCorrect, PTL DEF Spec

-----------------------------------------------------------------------------
(***************************************************************************)
(* The metric loggers that run in the balancer's process and share no      *)
(* variable with it: what the CPU percentages add up to, and that growth   *)
(* is told once.                                                           *)
(***************************************************************************)
Stat == INSTANCE CPUStat

\* As long as the counters of /proc/stat only grow, the percentages of a
\* window are consistent: idle and usage are the whole, and user, system,
\* iowait, irq, softirq and steal fit into the usage.  A falling iowait breaks
\* it: the whole shrinks while the other shares do not
\* (linux_sysmetrics.go:131).
THEOREM BreakdownConsistent ==
  ASSUME NEW p \in Stat!Times, NEW c \in Stat!Times, Stat!Later(p, c),
         NEW b \in Stat!computeBreakdownPct(p, c)
  PROVE  /\ b.of > 0 /\ b.idle + b.usageTotal = b.of
         /\ b.user + b.system + b.iowait + b.irq + b.softirq + b.steal
              <= b.usageTotal
<1>1. /\ p.user \in Nat /\ p.nice \in Nat /\ p.system \in Nat
      /\ p.idle \in Nat /\ p.iowait \in Nat /\ p.irq \in Nat
      /\ p.softirq \in Nat /\ p.steal \in Nat /\ p.guest \in Nat
      /\ p.guestNice \in Nat
  BY DEF Stat!Times
<1>2. /\ c.user \in Nat /\ c.nice \in Nat /\ c.system \in Nat
      /\ c.idle \in Nat /\ c.iowait \in Nat /\ c.irq \in Nat
      /\ c.softirq \in Nat /\ c.steal \in Nat /\ c.guest \in Nat
      /\ c.guestNice \in Nat
  BY DEF Stat!Times
<1>3. /\ p.user <= c.user /\ p.nice <= c.nice /\ p.system <= c.system
      /\ p.idle <= c.idle /\ p.iowait <= c.iowait /\ p.irq <= c.irq
      /\ p.softirq <= c.softirq /\ p.steal <= c.steal /\ p.guest <= c.guest
      /\ p.guestNice <= c.guestNice
  BY DEF Stat!Later, Stat!Times
<1>4. \A x, y \in Nat : x <= y => Stat!d(x, y) = y - x
  BY DEF Stat!d
<1>5. /\ b.of = Stat!total(c) - Stat!total(p)
      /\ b.usageTotal = IF b.of >= b.idle THEN b.of - b.idle ELSE 0
      /\ b.idle = Stat!d(p.idle, c.idle)
      /\ b.user = Stat!d(p.user + p.nice, c.user + c.nice)
      /\ b.system = Stat!d(p.system, c.system)
      /\ b.iowait = Stat!d(p.iowait, c.iowait)
      /\ b.irq = Stat!d(p.irq, c.irq)
      /\ b.softirq = Stat!d(p.softirq, c.softirq)
      /\ b.steal = Stat!d(p.steal, c.steal)
      /\ ~(Stat!total(c) <= Stat!total(p))
  <2>1. ~(Stat!total(c) <= Stat!total(p))
    BY DEF Stat!computeBreakdownPct
  <2> QED
    BY <2>1 DEF Stat!computeBreakdownPct
<1>6. /\ b.idle = c.idle - p.idle /\ b.system = c.system - p.system
      /\ b.user = (c.user + c.nice) - (p.user + p.nice)
      /\ b.iowait = c.iowait - p.iowait /\ b.irq = c.irq - p.irq
      /\ b.softirq = c.softirq - p.softirq /\ b.steal = c.steal - p.steal
  <2>1. /\ p.user + p.nice \in Nat /\ c.user + c.nice \in Nat
        /\ p.user + p.nice <= c.user + c.nice
    BY <1>1, <1>2, <1>3
  <2>2. b.user = (c.user + c.nice) - (p.user + p.nice)
    BY <2>1, <1>4, <1>5
  <2>3. b.idle = c.idle - p.idle /\ b.system = c.system - p.system
    BY <1>1, <1>2, <1>3, <1>4, <1>5
  <2>4. b.iowait = c.iowait - p.iowait /\ b.irq = c.irq - p.irq
    BY <1>1, <1>2, <1>3, <1>4, <1>5
  <2>5. b.softirq = c.softirq - p.softirq /\ b.steal = c.steal - p.steal
    BY <1>1, <1>2, <1>3, <1>4, <1>5
  <2> QED
    BY <2>2, <2>3, <2>4, <2>5
<1>7. /\ Stat!total(c) \in Nat /\ Stat!total(p) \in Nat
      /\ Stat!total(c) - Stat!total(p)
           = (c.user + c.nice) - (p.user + p.nice) + (c.system - p.system)
               + (c.idle - p.idle) + (c.iowait - p.iowait) + (c.irq - p.irq)
               + (c.softirq - p.softirq) + (c.steal - p.steal)
               + (c.guest + c.guestNice) - (p.guest + p.guestNice)
  BY <1>1, <1>2 DEF Stat!total
<1>8. /\ b.of = b.user + b.system + b.idle + b.iowait + b.irq + b.softirq
                 + b.steal + (c.guest + c.guestNice) - (p.guest + p.guestNice)
      /\ b.of > 0
  BY <1>1, <1>2, <1>5, <1>6, <1>7
<1>9. /\ b.user \in Nat /\ b.system \in Nat /\ b.idle \in Nat /\ b.iowait \in Nat
      /\ b.irq \in Nat /\ b.softirq \in Nat /\ b.steal \in Nat
  BY <1>1, <1>2, <1>3, <1>6
<1>10. b.of >= b.idle /\ b.usageTotal = b.of - b.idle
  BY <1>1, <1>2, <1>3, <1>5, <1>8, <1>9
<1> QED
  BY <1>1, <1>2, <1>3, <1>8, <1>9, <1>10

\* Subtraction of counters modulo Width, for readings that are close.
LEMMA NearDifference ==
  ASSUME NEW x \in (-MaxCount)..MaxCount
  PROVE  /\ x \in Int /\ x % Width = IF x >= 0 THEN x ELSE x + Width
         /\ x >= 0 => ~(x % Width >= Width \div 2)
         /\ Width \in Nat \ {0} /\ Width % Width = 0 /\ 0 % Width = 0
<1>1. Width \in Nat \ {0} /\ MaxCount \in Nat /\ Width > MaxCount
      /\ Width \div 2 > MaxCount
  BY MetricsLoggersAssumption
<1>2. CASE x >= 0
  <2>1. x \in 0..(Width - 1)
    BY <1>1, <1>2
  <2>2. x % Width = x
    BY <1>1, <2>1
  <2> QED
    BY <1>1, <1>2, <2>2
<1>3. CASE x < 0
  <2>1. x \in (-(Width - 1))..(-1)
    BY <1>1, <1>3
  <2>2. x % Width = x + Width
    BY <1>1, <2>1
  <2> QED
    BY <1>1, <1>3, <2>2
<1> QED
  BY <1>2, <1>3

ReadingsOK ==
  /\ watched \in Sources /\ count \in [Files -> 0..MaxCount]
  /\ prev \in 0..MaxCount /\ excess \in Int
  /\ havePrev \in BOOLEAN /\ blank \in BOOLEAN

\* The logger remembers the last good reading, which was in the file it
\* reads, and nothing was told twice or forgotten so far.
LoggersInv ==
  /\ ReadingsOK /\ lastGood = prev
  /\ watched # "cgroupCPU" /\ ~blank => prev <= count["first"]
  /\ ~blank => excess = 0

\* What is told of two near readings is what the counter grew by.
LEMMA DeltaIsGrowth ==
  ASSUME watched \in Sources, NEW x \in (-MaxCount)..MaxCount,
         watched = "cgroupCPU" \/ x >= 0
  PROVE  (Delta(watched, x) - Growth(x)) % Width = 0
<1> USE NearDifference
<1>1. CASE watched = "cgroupCPU"
  <2>1. Delta(watched, x) = x % Width /\ Growth(x) = x
    BY <1>1 DEF Delta, Growth, Unsigned, MemorySources
  <2>2. (x % Width) - x = 0 \/ (x % Width) - x = Width
    OBVIOUS
  <2> QED
    BY <2>1, <2>2
<1>2. CASE watched # "cgroupCPU"
  <2>1. x >= 0 /\ x % Width = x /\ ~(x % Width >= Width \div 2)
    BY <1>2
  <2>2. Growth(x) = x
    BY <1>2, <2>1 DEF Growth
  <2>3. Delta(watched, x) = x
    BY <2>1 DEF Delta, PerfDelta, Signed, Unsigned
  <2>4. x - x = 0
    BY <2>1
  <2> QED
    BY <2>2, <2>3, <2>4
<1> QED
  BY <1>1, <1>2

LEMMA LoggersInitInv ==
  LoggersInit => LoggersInv
<1>1. MaxCount \in Nat
  BY MetricsLoggersAssumption
<1> SUFFICES ASSUME LoggersInit PROVE LoggersInv
  OBVIOUS
<1>2. watched \in Sources /\ count \in [Files -> 0..MaxCount] /\ count["first"] = 0
  BY <1>1 DEF LoggersInit, Files
<1>3. prev = 0 /\ lastGood = 0 /\ excess = 0 /\ blank = FALSE
  BY DEF LoggersInit
<1>4. havePrev \in BOOLEAN
  BY DEF LoggersInit
<1>5. prev \in 0..MaxCount /\ excess \in Int /\ prev <= count["first"]
  BY <1>1, <1>2, <1>3
<1>6. blank \in BOOLEAN
  BY <1>3
<1>7. ReadingsOK
  BY <1>2, <1>4, <1>5, <1>6 DEF ReadingsOK
<1> QED
  BY <1>3, <1>5, <1>7 DEF LoggersInv

LEMMA TakeLoggersInv ==
  ASSUME LoggersInv, NEW l, NEW cur \in Reading(watched, count'), watched' = watched,
         count' \in Grown, Take(l, cur)
  PROVE  LoggersInv'
<1>1. /\ count' \in [Files -> 0..MaxCount] /\ count["first"] <= count'["first"]
      /\ MaxCount \in Nat /\ Width \in Nat \ {0}
  BY MetricsLoggersAssumption, NearDifference DEF Grown, Files, LoggersInv, ReadingsOK
<1>2. cur \in 0..MaxCount /\ (watched # "cgroupCPU" => cur <= count'["first"])
  BY <1>1 DEF Reading, ReadCgroupCPU, ReadCgroupMem, Files
<1>3. /\ prev' = cur /\ lastGood' = cur /\ havePrev' = TRUE
      /\ blank' = (blank \/ (watched = "cgroupMem" /\ cur < count'["first"]))
  BY DEF Take, Tell
<1>4. watched # "cgroupCPU" /\ ~blank' => cur = count'["first"]
  <2>1. ASSUME watched # "cgroupCPU", ~blank' PROVE cur = count'["first"]
    <3>1. cur = count'["first"] \/ (watched = "cgroupMem" /\ cur = 0)
      BY <2>1 DEF Reading, ReadCgroupMem
    <3>2. count'["first"] \in Nat
      BY <1>1 DEF Files
    <3>3. ~(watched = "cgroupMem" /\ cur < count'["first"])
      BY <1>3, <2>1
    <3> QED
      BY <1>2, <2>1, <3>1, <3>2, <3>3
  <2> QED
    BY <2>1
<1>5. cur - prev \in (-MaxCount)..MaxCount
  BY <1>1, <1>2 DEF LoggersInv, ReadingsOK
<1>6. Delta(watched, cur - prev) \in Int /\ Growth(cur - lastGood) \in Int
  BY <1>1, <1>5, NearDifference
     DEF Delta, Growth, PerfDelta, Signed, Unsigned, LoggersInv, ReadingsOK
<1>7. excess' \in Int
  BY <1>1, <1>6 DEF Take, Tell, LoggersInv, ReadingsOK
<1>8. ~blank' => excess' = 0
  <2> SUFFICES ASSUME ~blank' PROVE excess' = 0
    OBVIOUS
  <2>1. ~blank /\ excess = 0
    BY <1>3 DEF LoggersInv
  <2>2. watched = "cgroupCPU" \/ cur - prev >= 0
    BY <1>1, <1>2, <1>4, <2>1 DEF LoggersInv, ReadingsOK, Files
  <2>3. (Delta(watched, cur - prev) - Growth(cur - lastGood)) % Width = 0
    BY <1>5, <2>2, DeltaIsGrowth DEF LoggersInv, ReadingsOK
  <2>4. 0 + Delta(watched, cur - prev) - Growth(cur - lastGood)
          = Delta(watched, cur - prev) - Growth(cur - lastGood)
    BY <1>6
  <2> QED
    BY <2>1, <2>3, <2>4 DEF Take, Tell
<1> QED
  BY <1>1, <1>2, <1>3, <1>4, <1>7, <1>8 DEF LoggersInv, ReadingsOK

LEMMA WatchLoggersInv ==
  ASSUME LoggersInv, NEW l, NEW taken, watched' = watched, Watch(l, taken)
  PROVE  LoggersInv'
<1>1. CASE taken
  BY <1>1, TakeLoggersInv DEF Watch
<1>2. CASE ~taken
  <2>1. /\ count' \in [Files -> 0..MaxCount] /\ count["first"] <= count'["first"]
        /\ count["first"] \in Int /\ count'["first"] \in Int /\ prev \in Int
    BY <1>2 DEF Watch, Grown, Files, LoggersInv, ReadingsOK
  <2>2. UNCHANGED sample
    BY <1>2 DEF Watch
  <2> QED
    BY <2>1, <2>2 DEF sample, LoggersInv, ReadingsOK
<1> QED
  BY <1>1, <1>2 DEF Watch

LEMMA LoggersNextInv ==
  LoggersInv /\ [LoggersNext]_loggersVars => LoggersInv'
<1> SUFFICES ASSUME LoggersInv, [LoggersNext]_loggersVars PROVE LoggersInv'
  OBVIOUS
<1>1. CASE UNCHANGED logVars
  BY <1>1 DEF logVars, sample, LoggersInv, ReadingsOK
<1>2. CASE CpuTick
  <2>1. CASE watched \in CpuSources
    BY <1>2, <2>1, WatchLoggersInv DEF CpuTick
  <2>2. CASE watched \notin CpuSources
    BY <1>2, <2>2 DEF CpuTick, sample, LoggersInv, ReadingsOK
  <2> QED
    BY <2>1, <2>2
<1>3. CASE MemoryTick
  <2>1. CASE watched \in MemorySources
    BY <1>3, <2>1, WatchLoggersInv DEF MemoryTick
  <2>2. CASE watched \notin MemorySources
    BY <1>3, <2>2 DEF MemoryTick, sample, LoggersInv, ReadingsOK
  <2> QED
    BY <2>1, <2>2
<1> QED
  BY <1>1, <1>2, <1>3 DEF LoggersNext, Expires, InsertRecord, loggersVars

\* The growth of every counter is told exactly once, whatever fails
\* (CPU.go:133, memory.go:36).
THEOREM GrowthIsToldOnce ==
  LoggersSpec => []GrowthToldOnce
<1>1. LoggersInv => GrowthToldOnce
  BY DEF LoggersInv, GrowthToldOnce
<1> QED
  BY LoggersInitInv, LoggersNextInv, <1>1, PTL DEF LoggersSpec

-----------------------------------------------------------------------------
(***************************************************************************)
(* The tables, although ensureTables creates them without its lock.        *)
(***************************************************************************)
TablesOK ==
  /\ at \in [Loggers -> {"idle", "pool", "tables", "exec", "ddlFailed", "ensured",
                         "insert"}]
  /\ stmt \in [Loggers -> Statements] /\ created \subseteq Statements
  /\ \A l \in Loggers :
       /\ at[l] = "exec" => 1..(stmt[l] - 1) \subseteq created
       /\ at[l] \in {"ensured", "insert"} => created = Statements
  /\ tablesEnsured => created = Statements

LEMMA InitTables == LoggersInit => TablesOK
<1> SUFFICES ASSUME LoggersInit PROVE TablesOK
  OBVIOUS
<1>1. PICK inserting \in {{}, Loggers, {"cpu"}} : DBInit(inserting)
  BY DEF LoggersInit, Start
<1>2. 1 \in Statements
  BY MetricsDBAssumption DEF Statements
<1> QED
  BY <1>1, <1>2 DEF DBInit, TablesOK

\* Exec is the only step that creates, and none drops.
LEMMA ExecTables ==
  ASSUME TablesOK, NEW l \in Loggers, Exec(l)
  PROVE  TablesOK'
<1>0. /\ NumStatements \in Nat \ {0} /\ at[l] = "exec" /\ stmt[l] \in Statements
      /\ 1..(stmt[l] - 1) \subseteq created /\ tablesEnsured' = tablesEnsured
  BY MetricsDBAssumption DEF Exec, TablesOK, ddl
<1>1. CASE created' = created \cup {stmt[l]}
  <2>0. \A n \in Nat : 1..n \subseteq (1..(n - 1)) \cup {n}
    OBVIOUS
  <2>1. 1..stmt[l] \subseteq created' /\ created \subseteq created'
        /\ created' \subseteq Statements
    <3>1. stmt[l] \in Nat
      BY <1>0 DEF Statements
    <3>2. 1..stmt[l] \subseteq (1..(stmt[l] - 1)) \cup {stmt[l]}
      BY <2>0, <3>1
    <3> QED
      BY <1>0, <1>1, <3>2, Zenon DEF TablesOK
  <2>2. CASE stmt[l] < NumStatements /\ stmt' = [stmt EXCEPT ![l] = @ + 1]
             /\ at' = at
    <3>1. stmt[l] + 1 \in Statements /\ (stmt[l] + 1) - 1 = stmt[l]
      BY <1>0, <2>2 DEF Statements
    <3>2. stmt' \in [Loggers -> Statements] /\ stmt'[l] - 1 = stmt[l]
      BY <2>2, <3>1 DEF TablesOK
    <3>3. \A k \in Loggers : k # l => stmt'[k] = stmt[k]
      BY <2>2 DEF TablesOK
    <3>4. \A k \in Loggers : at'[k] = "exec" => 1..(stmt'[k] - 1) \subseteq created'
      BY <2>1, <2>2, <3>2, <3>3 DEF TablesOK
    <3> QED
      BY <1>0, <2>1, <2>2, <3>2, <3>4 DEF TablesOK
  <2>3. CASE ~(stmt[l] < NumStatements) /\ stmt' = stmt
             /\ at' = [at EXCEPT ![l] = "ensured"]
    <3>1. stmt[l] = NumStatements
      BY <1>0, <2>3 DEF Statements
    <3>2. created' = Statements
      BY <2>1, <3>1 DEF Statements
    <3> QED
      BY <1>0, <2>1, <2>3, <3>2 DEF TablesOK
  <2> QED
    BY <1>0, <1>1, <2>2, <2>3 DEF Exec, GoesTo, Fault, TablesOK
<1>2. CASE UNCHANGED <<created, stmt>> /\ at' = [at EXCEPT ![l] = "ddlFailed"]
  BY <1>0, <1>2 DEF TablesOK
<1> QED
  BY <1>1, <1>2 DEF Exec, GoesTo

LEMMA NextTables == TablesOK /\ [LoggersNext]_loggersVars => TablesOK'
<1> SUFFICES ASSUME TablesOK, [LoggersNext]_loggersVars PROVE TablesOK'
  OBVIOUS
<1> USE DEF GoesTo, Returns, connection, ddl
<1>1. ASSUME NEW l \in Loggers, Insert(l) PROVE TablesOK'
  BY <1>1 DEF Insert, TablesOK
<1>2. CASE CpuTick \/ MemoryTick
  BY <1>1, <1>2, MetricsLoggersAssumption DEF CpuTick, MemoryTick
<1>3. ASSUME NEW l \in Loggers, InsertStep(l) PROVE TablesOK'
  <2>1. CASE GetPool(l)
    BY <2>1 DEF GetPool, TablesOK
  <2>2. CASE CheckTables(l)
    <3>1. 1 \in Statements /\ 1..(1 - 1) = {}
      BY MetricsDBAssumption DEF Statements
    <3> QED
      BY <2>2, <3>1 DEF CheckTables, TablesOK
  <2>3. CASE DDLFailed(l) \/ InsertRow(l)
    BY <2>3 DEF DDLFailed, InsertRow, TablesOK
  <2>4. CASE Ensured(l)
    BY <2>4 DEF Ensured, TablesOK
  <2> QED
    BY <1>3, <2>1, <2>2, <2>3, <2>4, ExecTables DEF InsertStep, EnsureTables
<1>4. CASE InitExpires \/ DDLExpires
  BY <1>4 DEF InitExpires, DDLExpires, TablesOK
<1>5. CASE UNCHANGED loggersVars
  BY <1>5 DEF loggersVars, dbVars, TablesOK
<1> QED
  BY <1>2, <1>3, <1>4, <1>5 DEF LoggersNext, Expires, InsertRecord

\* A logger only inserts when every table is there, and "tables ensured" is
\* never said too early, although two loggers may run the DDL side by side and
\* either may fail in the middle (postgres_metrics.go:94): an INSERT then only
\* fails with the database, which InsertsResume builds on.
THEOREM InsertsFindTables ==
  LoggersSpec => [](/\ tablesEnsured => created = Statements
                    /\ \A l \in Loggers : at[l] = "insert" => created = Statements)
<1>1. TablesOK => /\ tablesEnsured => created = Statements
                  /\ \A l \in Loggers : at[l] = "insert" => created = Statements
  BY DEF TablesOK
<1> QED
  BY InitTables, NextTables, <1>1, PTL DEF LoggersSpec
=============================================================================
