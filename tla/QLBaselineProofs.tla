---------------------------- MODULE QLBaselineProofs ----------------------------
(***************************************************************************)
(* The counters, hashes and weights of the QL baseline for every number of *)
(* nodes, requests and jobs.  A counter is followed job by job through     *)
(* Counting; a hash needs to know what every AgeUpdater still holds.       *)
(***************************************************************************)
EXTENDS QLBaseline, FiniteSetTheorems, TLAPS

Places == Nodes \cup {Nobody}

\* A handler that reads has two nodes, one that calls has its node.
Routed ==
  /\ pair \in [Reqs -> Places \X Places]
  /\ \A r \in Reqs : /\ rpc[r] = "read" => pair[r] \in Nodes \X Nodes
                     /\ rpc[r] = "call" => node[r] \in Nodes

\* What an AgeUpdater will write back is in progress or was overtaken.
CopiesKnown ==
  faults = 0 => \A n \in Nodes : ages[n] \subseteq Listed(n) \cup overtaken

IInv == TypeOK /\ Routed /\ QCountsJobs /\ CopiesKnown /\ HashTracksJobs

-----------------------------------------------------------------------------
LEMMA JobsFinite ==
  ASSUME NEW S \in SUBSET Jobs
  PROVE  IsFiniteSet(S) /\ Cardinality(S) \in Nat
  BY QLAssumption, FS_Subset, FS_CardinalityType

LEMMA NoneCounted == Cardinality({}) = 0
  BY FS_EmptySet

LEMMA CountedJobs == \A n : Counted(n) \in SUBSET Jobs
  BY DEF Counted

\* 2 * x / maxX for an x of at most maxX is at most 2 (Eta is a half).
LEMMA ShareBound ==
  ASSUME NEW x \in Nat, NEW m \in Nat \ {0}, x <= m
  PROVE  (2 * x) \div m \in 0..2
<1> DEFINE k == (2 * x) \div m
<1>1. k \in Nat /\ m * k <= 2 * x
  BY SMT
<1> HIDE DEF k
<1>2. m * k <= 2 * m
  BY <1>1, SMT
<1>3. k <= 2
  <2> SUFFICES ASSUME k >= 3 PROVE FALSE
    BY <1>1
  <2>1. m * k >= m * 3
    BY <1>1, SMT
  <2> QED
    BY <1>1, <1>2, <2>1, SMT
<1> QED
  BY <1>1, <1>3 DEF k

LEMMA InitIInv == Init => IInv
<1> SUFFICES ASSUME Init PROVE IInv
  OBVIOUS
<1> USE QLAssumption DEF Init
<1>1. TypeOK
  BY DEF TypeOK, Unset, Scale
<1>2. Routed
  BY DEF Routed, Places
<1>3. QCountsJobs
  <2>1. \A n \in Nodes : Counted(n) = {}
    BY DEF Counted, Counting
  <2>2. \A n \in Nodes : q[n] = 0 /\ drift[n] = 0
    OBVIOUS
  <2> QED
    <3> HIDE DEF Init
    <3> QED
      BY <2>1, <2>2, NoneCounted DEF QCountsJobs
<1>4. CopiesKnown /\ HashTracksJobs
  BY DEF CopiesKnown, HashTracksJobs, Listed, Listing
<1> QED
  BY <1>1, <1>2, <1>3, <1>4 DEF IInv

-----------------------------------------------------------------------------
(* Handlers of the balancer and the ControlLoop leave jobs and hashes.     *)
JobState == <<q, hash, job, ages, faults, drift, overtaken>>

LEMMA JobsFrame ==
  ASSUME QCountsJobs, CopiesKnown, HashTracksJobs, UNCHANGED JobState
  PROVE  QCountsJobs' /\ CopiesKnown' /\ HashTracksJobs'
<1>1. \A n : Counted(n)' = Counted(n) /\ Listed(n)' = Listed(n)
  BY DEF JobState, job, Counted, Listed
<1>2. QCountsJobs'
  BY <1>1 DEF QCountsJobs, JobState
<1> QED
  BY <1>1, <1>2 DEF CopiesKnown, HashTracksJobs, JobState

LEMMA ClientKeeps ==
  ASSUME IInv, NEW r \in Reqs, HandleClient(r)
  PROVE  IInv'
<1> USE DEF IInv, TypeOK, Routed, Places
<1>1. UNCHANGED <<redis, job, ages, control, history>>
  BY DEF HandleClient, SelectOnly, SelectPanics, DrawPair, ReadLoad, Select, Answer
<1>2. /\ rpc' \in [Reqs -> {"new", "read", "call", "done"}]
      /\ node' \in [Reqs -> Nodes \cup {Nobody}]
      /\ Routed'
  <2>1. CASE SelectOnly(r)
    <3>1. (CHOOSE n \in active : TRUE) \in Nodes
      <4>1. active # {}
        <5>1. Cardinality(active) = 1
          BY <2>1 DEF SelectOnly
        <5> HIDE DEF IInv, TypeOK, Routed
        <5> QED
          BY <5>1, NoneCounted
      <4> QED
        BY <4>1
    <3> QED
      BY <2>1, <3>1 DEF SelectOnly
  <2>2. CASE SelectPanics(r)
    BY <2>2 DEF SelectPanics
  <2>3. CASE DrawPair(r)
    <3>1. PICK n \in Nodes, m \in Nodes : pair' = [pair EXCEPT ![r] = <<n, m>>]
      BY <2>3 DEF DrawPair
    <3> QED
      BY <2>3, <3>1 DEF DrawPair
  <2>4. CASE ReadLoad(r)
    BY <2>4 DEF ReadLoad
  <2>5. CASE Select(r)
    <3>1. pair[r][1] \in Nodes /\ pair[r][2] \in Nodes
      BY <2>5 DEF Select
    <3>2. PICK i \in {1, 2} : node' = [node EXCEPT ![r] = pair[r][i]]
      BY <2>5 DEF Select
    <3>3. pair[r][i] \in Nodes
      BY <3>1
    <3> QED
      BY <2>5, <3>2, <3>3 DEF Select
  <2>6. CASE Answer(r)
    BY <2>6 DEF Answer
  <2> QED
    BY <2>1, <2>2, <2>3, <2>4, <2>5, <2>6 DEF HandleClient
<1>3. TypeOK'
  BY <1>1, <1>2 DEF redis, job, control, history
<1>4. UNCHANGED JobState
  BY <1>1 DEF redis, history, JobState
<1>5. QCountsJobs' /\ CopiesKnown' /\ HashTracksJobs'
  <2> HIDE DEF TypeOK, Routed
  <2> QED
    BY <1>4, JobsFrame
<1> QED
  BY <1>2, <1>3, <1>5

LEMMA ControlKeeps ==
  ASSUME IInv, ControlLoop
  PROVE  IInv'
<1> USE DEF IInv, TypeOK
<1>1. UNCHANGED <<active, q, hash, client, job, ages, history>>
  BY DEF ControlLoop, ControlTick, ComputeState, SetWeight, redis
<1>2. /\ weight' \in [Nodes -> {Unset} \cup Scale .. Scale + 2]
      /\ toRead' \subseteq Nodes /\ toWrite' \subseteq Nodes
      /\ state' \in [Nodes -> Nat]
  <2>1. CASE ControlTick
    BY <2>1 DEF ControlTick, redis
  <2>2. ASSUME NEW n \in Nodes, ComputeState(n)
        PROVE  /\ weight' = weight /\ toRead' \subseteq Nodes
               /\ toWrite' \subseteq Nodes /\ state' \in [Nodes -> Nat]
    <3>1. Cardinality(hash[n]) \in Nat
      BY JobsFinite
    <3>2. PICK what \in {0, 1} :
            state' = [state EXCEPT ![n] = Cardinality(hash[n]) * what]
      BY <2>2 DEF ComputeState
    <3>3. Cardinality(hash[n]) * what \in Nat
      BY <3>1
    <3>4. state' \in [Nodes -> Nat]
      BY <3>2, <3>3
    <3> QED
      BY <2>2, <3>4 DEF ComputeState, redis
  <2>3. ASSUME NEW n \in Nodes, SetWeight(n)
        PROVE  /\ weight' \in [Nodes -> {Unset} \cup Scale .. Scale + 2]
               /\ toRead' \subseteq Nodes /\ toWrite' \subseteq Nodes
               /\ state' \in [Nodes -> Nat]
    <3>1. CASE ~ UNCHANGED weight
      <4>1. PICK max \in {state[m] : m \in Nodes} :
              /\ \A m \in Nodes : state[m] <= max
              /\ weight' = [weight EXCEPT ![n] = Scale +
                              IF max > 0 THEN (2 * state[n]) \div max ELSE 0]
        BY <2>3, <3>1, Zenon DEF SetWeight
      <4>2. PICK m \in Nodes :
              /\ state[n] <= state[m]
              /\ weight' = [weight EXCEPT ![n] = Scale +
                              IF state[m] > 0 THEN (2 * state[n]) \div state[m] ELSE 0]
        BY <4>1
      <4>3. (IF state[m] > 0 THEN (2 * state[n]) \div state[m] ELSE 0) \in 0..2
        BY <4>2, ShareBound
      <4>4. PICK x \in 0..2 : weight' = [weight EXCEPT ![n] = Scale + x]
        BY <4>2, <4>3
      <4>5. weight' \in [Nodes -> {Unset} \cup Scale .. Scale + 2]
        BY <4>4 DEF Scale, Unset
      <4> QED
        BY <2>3, <4>5 DEF SetWeight
    <3>2. CASE UNCHANGED weight
      BY <2>3, <3>2 DEF SetWeight
    <3> QED
      BY <3>1, <3>2
  <2> QED
    BY <2>1, <2>2, <2>3 DEF ControlLoop
<1>3. TypeOK' /\ Routed'
  BY <1>1, <1>2 DEF client, job, history, Routed
<1>4. UNCHANGED JobState
  BY <1>1 DEF history, JobState
<1>5. QCountsJobs' /\ CopiesKnown' /\ HashTracksJobs'
  <2> HIDE DEF TypeOK
  <2> QED
    BY <1>4, JobsFrame
<1> QED
  BY <1>3, <1>5

-----------------------------------------------------------------------------
(* A job moves one counter and one hash, those of its own node.            *)
LEMMA JobTypes ==
  ASSUME IInv, NEW j \in Jobs, HandleRequest(j)
  PROVE  TypeOK' /\ Routed'
<1> USE QLAssumption DEF IInv, TypeOK
<1>1. CASE \E r \in Reqs : Arrive(j, r)
  <2>1. PICK r \in Reqs : Arrive(j, r)
    BY <1>1
  <2>2. node[r] \in Nodes
    BY <2>1 DEF Arrive, Routed
  <2> QED
    BY <2>1, <2>2 DEF Arrive, redis, client, control, history, Routed, Listing, Counting
<1>2. CASE AddHSet(j)
  <2>1. hash' \in [Nodes -> SUBSET Jobs]
    BY <1>2 DEF AddHSet
  <2>2. faults' \in 0..MaxFaults /\ drift' \in [Nodes -> Int]
    BY <1>2 DEF AddHSet, Fails, NoFault
  <2>3. jpc' \in [Jobs -> {"unused", "list", "done", "lost"} \cup Counting \cup Listing]
        /\ \A i \in Jobs : jpc'[i] = "unused" <=> jpc[i] = "unused"
    BY <1>2 DEF AddHSet, Moves, Listing, Counting
  <2> QED
    BY <1>2, <2>1, <2>2, <2>3 DEF AddHSet, Moves, client, control, Routed
<1>3. CASE AddIncr(j)
  BY <1>3 DEF AddIncr, Moves, Fails, NoFault, client, control, Routed, Listing, Counting
<1>4. CASE Run(j)
  BY <1>4 DEF Run, Moves, history, client, control, Routed, Listing, Counting
<1>5. CASE FinishHDel(j)
  BY <1>5 DEF FinishHDel, Moves, Fails, NoFault, client, control, Routed, Listing, Counting
<1>6. CASE FinishDecr(j)
  BY <1>6 DEF FinishDecr, Moves, Fails, NoFault, client, control, Routed, Listing, Counting
<1> QED
  BY <1>1, <1>2, <1>3, <1>4, <1>5, <1>6 DEF HandleRequest

\* A step that keeps every job's stage on the same side of Incr and Decr.
LEMMA CountFrame ==
  ASSUME QCountsJobs, UNCHANGED <<q, drift>>,
         \A j \in Jobs : \/ at'[j] = at[j] /\ (jpc'[j] \in Counting <=> jpc[j] \in Counting)
                         \/ jpc[j] \notin Counting /\ jpc'[j] \notin Counting
  PROVE  QCountsJobs'
<1>1. \A n : Counted(n)' = Counted(n)
  BY DEF Counted
<1> QED
  BY <1>1 DEF QCountsJobs

LEMMA IncrCounts ==
  ASSUME IInv, NEW j \in Jobs, AddIncr(j)
  PROVE  QCountsJobs'
<1>1. /\ q \in [Nodes -> Int] /\ drift \in [Nodes -> Int]
      /\ jpc \in [Jobs -> {"unused", "list", "done", "lost"} \cup Counting \cup Listing]
      /\ \A n \in Nodes : q[n] = Cardinality(Counted(n)) + drift[n]
  BY DEF IInv, TypeOK, QCountsJobs
<1>2. PICK d \in Nodes : at[j] = d
  BY DEF AddIncr, Moves, IInv, TypeOK
<1>3. /\ j \notin Counted(d) /\ Counted(d)' = Counted(d) \cup {j}
      /\ \A n \in Nodes \ {d} : Counted(n)' = Counted(n)
  BY <1>1, <1>2 DEF AddIncr, Moves, Counted, Counting
<1>4. Cardinality(Counted(d)') = Cardinality(Counted(d)) + 1
      /\ Cardinality(Counted(d)) \in Nat
  BY <1>3, CountedJobs, JobsFinite, FS_AddElement
<1>5. \/ q' = [q EXCEPT ![d] = @ + 1] /\ drift' = drift
      \/ q' = q /\ drift' = [drift EXCEPT ![d] = @ + (-1)]
  BY <1>2 DEF AddIncr, NoFault, Fails
<1>6. ASSUME NEW n \in Nodes PROVE q'[n] = Cardinality(Counted(n)') + drift'[n]
  <2>1. CASE n = d
    BY <1>1, <1>4, <1>5, <2>1
  <2>2. CASE n # d
    BY <1>1, <1>3, <1>5, <2>2
  <2> QED
    BY <2>1, <2>2
<1> QED
  BY <1>6 DEF QCountsJobs

LEMMA DecrCounts ==
  ASSUME IInv, NEW j \in Jobs, FinishDecr(j)
  PROVE  QCountsJobs'
<1>1. /\ q \in [Nodes -> Int] /\ drift \in [Nodes -> Int]
      /\ jpc \in [Jobs -> {"unused", "list", "done", "lost"} \cup Counting \cup Listing]
      /\ \A n \in Nodes : q[n] = Cardinality(Counted(n)) + drift[n]
  BY DEF IInv, TypeOK, QCountsJobs
<1>2. PICK d \in Nodes : at[j] = d
  BY DEF FinishDecr, Moves, IInv, TypeOK
<1>3. /\ j \in Counted(d) /\ Counted(d)' = Counted(d) \ {j}
      /\ \A n \in Nodes \ {d} : Counted(n)' = Counted(n)
  BY <1>1, <1>2 DEF FinishDecr, Moves, Counted, Counting
<1>4. Cardinality(Counted(d)') = Cardinality(Counted(d)) - 1
      /\ Cardinality(Counted(d)) \in Nat
  BY <1>3, CountedJobs, JobsFinite, FS_RemoveElement
<1>5. \/ q' = [q EXCEPT ![d] = @ - 1] /\ drift' = drift
      \/ q' = q /\ drift' = [drift EXCEPT ![d] = @ + 1]
  BY <1>2 DEF FinishDecr, NoFault, Fails
<1>6. ASSUME NEW n \in Nodes PROVE q'[n] = Cardinality(Counted(n)') + drift'[n]
  <2>1. CASE n = d
    BY <1>1, <1>4, <1>5, <2>1
  <2>2. CASE n # d
    BY <1>1, <1>3, <1>5, <2>2
  <2> QED
    BY <2>1, <2>2
<1> QED
  BY <1>6 DEF QCountsJobs

LEMMA JobCounts ==
  ASSUME IInv, NEW j \in Jobs, HandleRequest(j)
  PROVE  QCountsJobs'
<1>1. QCountsJobs /\ jpc \in [Jobs -> {"unused", "list", "done", "lost"}
                                        \cup Counting \cup Listing]
      /\ at \in [Jobs -> Nodes \cup {Nobody}]
      /\ faults \in Nat /\ drift \in [Nodes -> Int]
  BY DEF IInv, TypeOK
<1>2. CASE \E r \in Reqs : Arrive(j, r)
  BY <1>1, <1>2, CountFrame DEF Arrive, redis, history, Counting
\* A fault at the hash moves no counter.
<1>3. CASE AddHSet(j) \/ FinishHDel(j)
  <2>1. drift' = drift
    <3>1. \A d : drift[d] \in Int => [drift EXCEPT ![d] = @ + 0] = drift
      BY <1>1
    <3>2. at[j] \in Nodes
      BY <1>3 DEF AddHSet, FinishHDel, Moves, IInv, TypeOK
    <3> QED
      BY <1>1, <1>3, <3>1, <3>2 DEF AddHSet, FinishHDel, NoFault, Fails
  <2> QED
    BY <1>1, <1>3, <2>1, CountFrame DEF AddHSet, FinishHDel, Moves, Counting
<1>4. CASE Run(j)
  BY <1>1, <1>4, CountFrame DEF Run, Moves, history, Counting
<1> QED
  BY <1>2, <1>3, <1>4, IncrCounts, DecrCounts DEF HandleRequest

\* Without a fault a step of a job keeps the hashes and the copies apart.
LEMMA JobHashes ==
  ASSUME IInv, NEW j \in Jobs, HandleRequest(j)
  PROVE  CopiesKnown' /\ HashTracksJobs'
<1> SUFFICES ASSUME faults' = 0 PROVE CopiesKnown' /\ HashTracksJobs'
  BY DEF CopiesKnown, HashTracksJobs
<1>1. /\ hash \in [Nodes -> SUBSET Jobs] /\ ages \in [Nodes -> SUBSET Jobs]
      /\ jpc \in [Jobs -> {"unused", "list", "done", "lost"} \cup Counting \cup Listing]
      /\ at \in [Jobs -> Nodes \cup {Nobody}] /\ faults \in Nat
      /\ overtaken \in SUBSET Jobs
      /\ \A i \in Jobs : at[i] = Nobody => jpc[i] = "unused"
  BY DEF IInv, TypeOK
<1>2. NoFault /\ ages' = ages
  BY <1>1 DEF HandleRequest, Arrive, AddHSet, AddIncr, Run, FinishHDel, FinishDecr,
              Moves, Fails, NoFault, history
<1>3. \A n \in Nodes : /\ ages[n] \subseteq Listed(n) \cup overtaken
                       /\ Listed(n) \subseteq hash[n]
                       /\ hash[n] \subseteq Listed(n) \cup overtaken
  BY <1>2 DEF NoFault, IInv, CopiesKnown, HashTracksJobs
\* Only the two hash calls move a job in or out of Listing.
<1>4. CASE \/ \E r \in Reqs : Arrive(j, r)
           \/ AddIncr(j) \/ Run(j) \/ FinishDecr(j)
  <2>1. UNCHANGED <<hash, overtaken>>
    BY <1>4 DEF Arrive, AddIncr, Run, FinishDecr, redis, history
  <2>2. \A n \in Nodes : Listed(n)' = Listed(n)
    BY <1>1, <1>4 DEF Arrive, AddIncr, Run, FinishDecr, Moves, Listed, Listing
  <2> QED
    BY <1>2, <1>3, <2>1, <2>2 DEF CopiesKnown, HashTracksJobs
<1>5. CASE AddHSet(j)
  <2>1. PICK d \in Nodes : at[j] = d
    BY <1>1, <1>5 DEF AddHSet, Moves
  <2>2. hash' = [hash EXCEPT ![d] = @ \cup {j}] /\ overtaken' = overtaken
    BY <1>1, <1>2, <1>5, <2>1 DEF AddHSet, Fails, NoFault
  <2>3. /\ Listed(d)' = Listed(d) \cup {j}
        /\ \A n \in Nodes \ {d} : Listed(n)' = Listed(n)
    BY <1>1, <1>5, <2>1 DEF AddHSet, Moves, Listed, Listing
  <2> QED
    BY <1>1, <1>2, <1>3, <2>2, <2>3 DEF CopiesKnown, HashTracksJobs
<1>6. CASE FinishHDel(j)
  <2>1. PICK d \in Nodes : at[j] = d
    BY <1>1, <1>6 DEF FinishHDel, Moves
  <2>2. /\ hash' = [hash EXCEPT ![d] = @ \ {j}]
        /\ overtaken' = IF j \in ages[d] THEN overtaken \cup {j} ELSE overtaken
    BY <1>1, <1>2, <1>6, <2>1 DEF FinishHDel, Fails, NoFault
  <2>3. /\ Listed(d)' = Listed(d) \ {j}
        /\ \A n \in Nodes \ {d} : Listed(n)' = Listed(n)
    BY <1>1, <1>6, <2>1 DEF FinishHDel, Moves, Listed, Listing
  <2> QED
    BY <1>1, <1>2, <1>3, <2>2, <2>3 DEF CopiesKnown, HashTracksJobs
<1> QED
  BY <1>4, <1>5, <1>6 DEF HandleRequest

-----------------------------------------------------------------------------
(* The rest of a backend: its AgeUpdater, its announcement, its death.     *)
LEMMA AgeKeeps ==
  ASSUME IInv, NEW n \in Nodes, AgeUpdater(n)
  PROVE  IInv'
<1>1. UNCHANGED <<active, q, weight, client, job, control, history>>
  BY DEF AgeUpdater, AgeCopy, AgeWrite, redis
<1>2. /\ hash \in [Nodes -> SUBSET Jobs] /\ ages \in [Nodes -> SUBSET Jobs]
  BY DEF IInv, TypeOK
<1>3. /\ hash' \in [Nodes -> SUBSET Jobs] /\ ages' \in [Nodes -> SUBSET Jobs]
      /\ \A m \in Nodes : hash[m] \subseteq hash'[m]
      /\ \A m \in Nodes : hash'[m] \cup ages'[m] \subseteq hash[m] \cup ages[m]
  <2>1. CASE AgeCopy(n)
    BY <1>2, <2>1 DEF AgeCopy, redis
  <2>2. ASSUME NEW j \in Jobs, AgeWrite(n, j)
        PROVE  /\ hash' \in [Nodes -> SUBSET Jobs]
               /\ ages' \in [Nodes -> SUBSET Jobs]
               /\ \A m \in Nodes : hash[m] \subseteq hash'[m]
               /\ \A m \in Nodes : hash'[m] \cup ages'[m] \subseteq hash[m] \cup ages[m]
    BY <1>2, <2>2 DEF AgeWrite
  <2> QED
    BY <2>1, <2>2 DEF AgeUpdater
<1>4. TypeOK' /\ Routed'
  BY <1>1, <1>3 DEF client, job, control, history, IInv, TypeOK, Routed
<1>5. \A m : Counted(m)' = Counted(m) /\ Listed(m)' = Listed(m)
  BY <1>1 DEF job, Counted, Listed
<1>6. QCountsJobs'
  BY <1>1, <1>5 DEF history, IInv, QCountsJobs
<1>7. CopiesKnown' /\ HashTracksJobs'
  <2> SUFFICES ASSUME faults = 0, NEW m \in Nodes
               PROVE  /\ ages'[m] \subseteq Listed(m)' \cup overtaken'
                      /\ Listed(m)' \subseteq hash'[m]
                      /\ hash'[m] \subseteq Listed(m)' \cup overtaken'
    BY <1>1 DEF history, CopiesKnown, HashTracksJobs
  <2>1. /\ ages[m] \subseteq Listed(m) \cup overtaken
        /\ Listed(m) \subseteq hash[m]
        /\ hash[m] \subseteq Listed(m) \cup overtaken
    BY DEF IInv, CopiesKnown, HashTracksJobs
  <2> QED
    BY <1>1, <1>3, <1>5, <2>1 DEF history
<1> QED
  BY <1>4, <1>6, <1>7 DEF IInv

LEMMA RegisterKeeps ==
  ASSUME IInv, NEW n \in Nodes, Register(n)
  PROVE  IInv'
<1>1. TypeOK' /\ Routed'
  BY DEF Register, IInv, TypeOK, Routed, client, job, control, history
<1>2. UNCHANGED JobState
  BY DEF Register, JobState, history
<1> QED
  BY <1>1, <1>2, JobsFrame DEF IInv

\* What a dead backend was counting stays in q, and drift says so.
LEMMA DieKeeps ==
  ASSUME IInv, NEW n \in Nodes, Die(n)
  PROVE  IInv'
<1>1. /\ q \in [Nodes -> Int] /\ drift \in [Nodes -> Int]
      /\ jpc \in [Jobs -> {"unused", "list", "done", "lost"} \cup Counting \cup Listing]
      /\ faults \in 0..MaxFaults
      /\ \A m \in Nodes : q[m] = Cardinality(Counted(m)) + drift[m]
  BY DEF IInv, TypeOK, QCountsJobs
<1>2. Cardinality(Counted(n)) \in Nat
  BY CountedJobs, JobsFinite
<1>3. /\ Counted(n)' = {}
      /\ \A m \in Nodes \ {n} : Counted(m)' = Counted(m)
  BY <1>1 DEF Die, Counted, Counting, job
<1>4. /\ drift' \in [Nodes -> Int] /\ UNCHANGED q
      /\ drift'[n] = drift[n] + Cardinality(Counted(n))
      /\ \A m \in Nodes \ {n} : drift'[m] = drift[m]
  BY <1>1, <1>2 DEF Die, redis
<1>5. QCountsJobs'
  <2> SUFFICES ASSUME NEW m \in Nodes
               PROVE  q'[m] = Cardinality(Counted(m)') + drift'[m]
    BY DEF QCountsJobs
  <2>1. CASE m = n
    <3>1. Cardinality(Counted(n)') = 0
      BY <1>3, NoneCounted
    <3> QED
      BY <1>1, <1>2, <1>4, <2>1, <3>1
  <2>2. CASE m # n
    BY <1>1, <1>3, <1>4, <2>2
  <2> QED
    BY <2>1, <2>2
<1>6. faults' \in 0..MaxFaults /\ faults' # 0
  BY <1>1, QLAssumption DEF Die
<1>7. CopiesKnown' /\ HashTracksJobs'
  BY <1>6 DEF CopiesKnown, HashTracksJobs
<1>8. TypeOK' /\ Routed'
  <2>1. /\ jpc' \in [Jobs -> {"unused", "list", "done", "lost"} \cup Counting \cup Listing]
        /\ ages' \in [Nodes -> SUBSET Jobs]
    BY <1>1 DEF Die, IInv, TypeOK
  <2>2. \A j \in Jobs : at[j] = Nobody => jpc'[j] = "unused"
    BY QLAssumption DEF Die, IInv, TypeOK
  <2> QED
    BY <1>4, <1>6, <2>1, <2>2 DEF Die, IInv, TypeOK, Routed, redis, client, control
<1> QED
  BY <1>5, <1>7, <1>8 DEF IInv

LEMMA NextIInv == IInv /\ [Next]_vars => IInv'
<1> SUFFICES ASSUME IInv, [Next]_vars PROVE IInv'
  OBVIOUS
<1>1. CASE UNCHANGED vars
  <2>1. UNCHANGED JobState
    BY <1>1 DEF vars, redis, history, JobState
  <2>2. TypeOK' /\ Routed'
    BY <1>1 DEF vars, redis, client, job, control, history, IInv, TypeOK, Routed
  <2> QED
    BY <2>1, <2>2, JobsFrame DEF IInv
<1>2. ASSUME NEW j \in Jobs, HandleRequest(j) PROVE IInv'
  BY <1>2, JobTypes, JobCounts, JobHashes DEF IInv
<1> QED
  BY <1>1, <1>2, ClientKeeps, ControlKeeps, AgeKeeps, RegisterKeeps, DieKeeps
  DEF Next, Backend

LEMMA Invariance == Spec => []IInv
  BY InitIInv, NextIInv, PTL DEF Spec

\* Every variable keeps its type, in particular each weight of a round lies
\* in [1, 1 + Eta] (balancer/main.go:133), for any number of jobs and nodes.
THEOREM TypeCorrect == Spec => []TypeOK
  BY Invariance, PTL DEF IInv

\* No interleaving of handlers loses an increment or a decrement of
\* node:<id>:q (backend/main.go:56, 68).
THEOREM CounterExact == Spec => []QCountsJobs
  BY Invariance, PTL DEF IInv

\* The AgeUpdater's copy never drops a job in progress, and brings back only
\* jobs whose HDEL it overlapped (backend/main.go:76-81).
THEOREM HashTracked == Spec => []HashTracksJobs
  BY Invariance, PTL DEF IInv
=================================================================================
