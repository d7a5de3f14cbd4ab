---------------------------- MODULE CQSSystemProofs ----------------------------
(***************************************************************************)
(* Safety of CQSSystem for every number of requests, backends, places,     *)
(* deaths and restarts.  What the balancer knows of a request and what the *)
(* backend does with it only meet in Stages: a request has a backend       *)
(* before it is on the wire, and its query ran at most once.               *)
(***************************************************************************)
EXTENDS CQSSystem, FiniteSetTheorems, TLAPS

\* A request is with its backend only after the balancer sent it there, and
\* the result says what its query did.
Stages ==
  \A r \in Reqs :
    /\ pc[r] = "new" => work[r] = "none"
    /\ pc[r] = "chosen" => work[r] = "none" /\ target[r] \in Backends
    /\ pc[r] # "done" => answer[r] = "none"
    /\ work[r] # "none" => target[r] \in Backends
    /\ work[r] \in {"none", "wire", "query"} => result[r] = "none" /\ executed[r] = 0
    /\ work[r] = "return" => result[r] \in {"200", "500"}
    /\ work[r] = "out" => result[r] # "none"
    /\ result[r] = "429" => work[r] = "out"
    /\ executed[r] \in {0, 1}
    /\ result[r] = "200" => executed[r] = 1

IInv == TypeOK /\ Stages /\ PlacesKept

Refused(b) == {r \in Reqs : target[r] = b /\ result[r] = "429"}

-----------------------------------------------------------------------------
LEMMA ServingFinite ==
  ASSUME NEW b \in Backends
  PROVE  IsFiniteSet(Serving(b)) /\ Cardinality(Serving(b)) \in Nat
<1>1. Serving(b) \in SUBSET Reqs
  BY DEF Serving
<1> QED
  BY <1>1, CQSSystemAssumption, FS_Subset, FS_CardinalityType

LEMMA OneLess ==
  ASSUME NEW S, IsFiniteSet(S), NEW x \in S
  PROVE  /\ Cardinality(S \ {x}) = Cardinality(S) - 1
         /\ Cardinality(S) \in Nat /\ Cardinality(S \ {x}) \in Nat
  BY FS_RemoveElement, FS_CardinalityType

LEMMA OneMore ==
  ASSUME NEW S, IsFiniteSet(S), NEW x, x \notin S
  PROVE  Cardinality(S \cup {x}) = Cardinality(S) + 1
  BY FS_AddElement

\* A step that moves no handler into or out of the places keeps the counts.
LEMMA ServingKept ==
  ASSUME PlacesKept, UNCHANGED free,
         \A r \in Reqs : \/ /\ work[r] \in Owning <=> work'[r] \in Owning
                            /\ target'[r] = target[r]
                         \/ work[r] \notin Owning /\ work'[r] \notin Owning
  PROVE  PlacesKept' /\ \A b \in Backends : Serving(b)' = Serving(b)
<1>1. \A b \in Backends : Serving(b)' = Serving(b)
  BY DEF Serving
<1>2. PlacesKept'
  BY <1>1 DEF PlacesKept
<1> QED
  BY <1>1, <1>2

LEMMA InitIInv == Init => IInv
<1> SUFFICES ASSUME Init PROVE IInv
  OBVIOUS
<1> USE CQSSystemAssumption DEF Init
<1>1. TypeOK
  <2>1. up \in [Backends -> BOOLEAN]
    BY Zenon
  <2> QED
    BY <2>1 DEF TypeOK, Owning
<1>2. Stages
  BY DEF Stages
<1>3. PlacesKept
  <2>1. \A b \in Backends : Serving(b) = {}
    BY DEF Serving, Owning
  <2> QED
    BY <2>1, FS_EmptySet DEF PlacesKept
<1> QED
  BY <1>1, <1>2, <1>3 DEF IInv

-----------------------------------------------------------------------------
(* The balancer never touches a place. *)
LEMMA BalanceKeeps ==
  ASSUME IInv, NEW r \in Reqs, Balance(r)
  PROVE  IInv'
<1> USE DEF IInv, TypeOK
<1>1. CASE Choose(r)
  <2>1. TypeOK' /\ Stages'
    BY <1>1 DEF Choose, Stages, backend, process, bounds, Owning
  <2>2. PlacesKept'
    BY <1>1, ServingKept DEF Choose, Stages, backend, process, Owning
  <2> QED
    BY <2>1, <2>2
<1>2. CASE Fails(r)
  <2>1. TypeOK' /\ Stages'
    BY <1>2 DEF Fails, Reply, Stages, backend, process, bounds
  <2>2. PlacesKept'
    BY <1>2, ServingKept DEF Fails, backend, process
  <2> QED
    BY <2>1, <2>2
<1>3. CASE Forward(r)
  <2>1. TypeOK' /\ Stages'
    BY <1>3 DEF Forward, Stages, backend, bounds
  <2>2. PlacesKept'
    BY <1>3, ServingKept DEF Forward, Stages, backend, Owning
  <2> QED
    BY <2>1, <2>2
<1>4. CASE Answered(r)
  <2>1. TypeOK' /\ Stages'
    BY <1>4 DEF Answered, Reply, Stages, backend, process, bounds
  <2>2. PlacesKept'
    BY <1>4, ServingKept DEF Answered, backend, process
  <2> QED
    BY <2>1, <2>2
<1>5. CASE GiveUp(r)
  <2>1. TypeOK' /\ Stages'
    BY <1>5 DEF GiveUp, Reply, Stages, backend, process, bounds
  <2>2. PlacesKept'
    BY <1>5, ServingKept DEF GiveUp, backend, process
  <2> QED
    BY <2>1, <2>2
<1> QED
  BY <1>1, <1>2, <1>3, <1>4, <1>5 DEF Balance

LEMMA RestartKeeps == IInv /\ BalancerRestart => IInv'
<1> SUFFICES ASSUME IInv, BalancerRestart PROVE IInv'
  OBVIOUS
<1> USE DEF IInv, TypeOK, BalancerRestart, backend, process
<1>1. PICK S \in SUBSET Backends :
        published' = [b \in Backends |-> IF b \in S THEN TotalQueue ELSE published[b]]
  OBVIOUS
<1>2. published' \in [Backends -> 0..TotalQueue]
  BY <1>1, CQSSystemAssumption
<1>3. TypeOK'
  BY <1>2, CQSSystemAssumption
<1>4. Stages'
  BY DEF Stages
<1>5. PlacesKept'
  BY ServingKept
<1> QED
  BY <1>3, <1>4, <1>5

-----------------------------------------------------------------------------
(* The backend's handler takes and returns its own place. *)
LEMMA EnterKeeps ==
  ASSUME IInv, NEW r \in Reqs, Enter(r), NEW d \in Backends, target[r] = d
  PROVE  /\ IInv' /\ r \notin Serving(d) /\ Serving(d)' = Serving(d) \cup {r}
         /\ \A b \in Backends \ {d} : Serving(b)' = Serving(b)
<1> USE DEF IInv, TypeOK, Enter, balance, bounds
<1>1. free[d] \in 1..TotalQueue /\ free' = [free EXCEPT ![d] = @ - 1]
  BY CQSSystemAssumption
<1>2. TypeOK' /\ Stages'
  BY <1>1, CQSSystemAssumption DEF Stages, Owning
<1>3. r \notin Serving(d) /\ Serving(d)' = Serving(d) \cup {r}
  BY DEF Serving, Owning
<1>4. \A b \in Backends \ {d} : Serving(b)' = Serving(b)
  BY DEF Serving, Owning
<1>5. PlacesKept'
  <2> SUFFICES ASSUME NEW b \in Backends
               PROVE  free'[b] + Cardinality(Serving(b)') = TotalQueue
    BY DEF PlacesKept
  <2>1. free \in [Backends -> 0..TotalQueue]
        /\ free[b] + Cardinality(Serving(b)) = TotalQueue
    BY DEF PlacesKept
  <2> HIDE DEF IInv, TypeOK, Enter, balance, bounds
  <2>2. CASE b = d
    <3>1. Cardinality(Serving(d)') = Cardinality(Serving(d)) + 1
      BY <1>3, ServingFinite, OneMore
    <3> QED
      BY <1>1, <2>1, <2>2, <3>1, ServingFinite, CQSSystemAssumption
  <2>3. CASE b # d
    BY <1>1, <1>4, <2>1, <2>3
  <2> QED
    BY <2>2, <2>3
<1> QED
  BY <1>2, <1>3, <1>4, <1>5

LEMMA ReturnKeeps ==
  ASSUME IInv, NEW r \in Reqs, Return(r), NEW d \in Backends, target[r] = d
  PROVE  /\ IInv' /\ r \in Serving(d) /\ Serving(d)' = Serving(d) \ {r}
         /\ \A b \in Backends \ {d} : Serving(b)' = Serving(b)
<1> USE DEF IInv, TypeOK, Return, balance, bounds
<1>1. free \in [Backends -> 0..TotalQueue] /\ TotalQueue \in Nat
      /\ \A b \in Backends : free[b] + Cardinality(Serving(b)) = TotalQueue
  BY CQSSystemAssumption DEF PlacesKept
<1>2. r \in Serving(d) /\ Serving(d)' = Serving(d) \ {r}
  BY DEF Serving, Owning
<1>3. \A b \in Backends \ {d} : Serving(b)' = Serving(b)
  BY DEF Serving, Owning
<1>4. /\ Cardinality(Serving(d)') = Cardinality(Serving(d)) - 1
      /\ Cardinality(Serving(d)) \in Nat /\ Cardinality(Serving(d)') \in Nat
  <2> HIDE DEF IInv, TypeOK, Return, balance, bounds
  <2> QED
    BY <1>2, ServingFinite, OneLess
\* The cap of the deferred function never acts.
<1>5. free[d] \in Nat /\ free[d] + 1 <= TotalQueue
  <2> HIDE DEF IInv, TypeOK, Return, balance, bounds
  <2> QED
    BY <1>1, <1>4
<1>6. free' = [free EXCEPT ![d] = @ + 1]
  <2> DEFINE back == IF free[d] + 1 > TotalQueue THEN TotalQueue ELSE free[d] + 1
  <2>1. free' = [free EXCEPT ![d] = back]
    BY Zenon
  <2>2. back = free[d] + 1
    BY <1>1, <1>5
  <2> HIDE DEF back, IInv, TypeOK, Return, balance, bounds
  <2> QED
    BY <2>1, <2>2
<1>7. TypeOK' /\ Stages'
  BY <1>1, <1>5, <1>6, CQSSystemAssumption DEF Stages, Owning
<1>8. PlacesKept'
  <2> SUFFICES ASSUME NEW b \in Backends
               PROVE  free'[b] + Cardinality(Serving(b)') = TotalQueue
    BY DEF PlacesKept
  <2> HIDE DEF IInv, TypeOK, Return, balance, bounds
  <2>1. CASE b = d
    BY <1>1, <1>4, <1>5, <1>6, <2>1
  <2>2. CASE b # d
    BY <1>1, <1>3, <1>6, <2>2
  <2> QED
    BY <2>1, <2>2
<1> QED
  BY <1>2, <1>3, <1>7, <1>8

LEMMA QuietProcessKeeps ==
  ASSUME IInv, NEW r \in Reqs, Reject(r) \/ LostOnTheWire(r) \/ Query(r)
  PROVE  IInv' /\ \A b \in Backends : Serving(b)' = Serving(b)
<1> USE DEF IInv, TypeOK
<1>1. CASE Reject(r)
  <2>1. TypeOK' /\ Stages'
    BY <1>1 DEF Reject, Stages, backend, balance, bounds
  <2>2. PlacesKept' /\ \A b \in Backends : Serving(b)' = Serving(b)
    BY <1>1, ServingKept DEF Reject, backend, balance, Owning
  <2> QED
    BY <2>1, <2>2
<1>2. CASE LostOnTheWire(r)
  <2>1. TypeOK' /\ Stages'
    BY <1>2 DEF LostOnTheWire, Stages, backend, balance, bounds
  <2>2. PlacesKept' /\ \A b \in Backends : Serving(b)' = Serving(b)
    BY <1>2, ServingKept DEF LostOnTheWire, backend, balance, Owning
  <2> QED
    BY <2>1, <2>2
<1>3. CASE Query(r)
  <2>1. /\ executed' \in [Reqs -> Nat]
        /\ \A s \in Reqs \ {r} : executed'[s] = executed[s]
        /\ executed[r] = 0 /\ executed'[r] \in {0, 1}
        /\ result'[r] \in {"200", "500"}
        /\ result'[r] = "200" => executed'[r] = 1
    BY <1>3 DEF Query, Stages
  <2>2. result' \in [Reqs -> {"none", "200", "429", "500"}]
        /\ \A s \in Reqs \ {r} : result'[s] = result[s]
    BY <1>3 DEF Query
  <2>3. TypeOK' /\ Stages'
    BY <1>3, <2>1, <2>2 DEF Query, Stages, backend, balance, bounds, Owning
  <2>4. PlacesKept' /\ \A b \in Backends : Serving(b)' = Serving(b)
    BY <1>3, ServingKept DEF Query, backend, balance, Owning
  <2> QED
    BY <2>3, <2>4
<1> QED
  BY <1>1, <1>2, <1>3

-----------------------------------------------------------------------------
(* A backend that publishes, dies or starts. *)
LEMMA DieKeeps ==
  ASSUME IInv, NEW d \in Backends, Die(d)
  PROVE  /\ IInv' /\ Serving(d)' = {}
         /\ \A b \in Backends \ {d} : Serving(b)' = Serving(b)
<1> USE DEF IInv, TypeOK, Die, balance
<1>1. Serving(d)' = {}
  BY DEF Serving, Owning
<1>2. \A b \in Backends \ {d} : Serving(b)' = Serving(b)
  BY DEF Serving, Owning
<1>3. up' \in [Backends -> BOOLEAN]
  BY Zenon
<1>4. work' \in [Reqs -> {"none", "wire", "out", "lost"} \cup Owning]
  OBVIOUS
<1>5. TypeOK'
  BY <1>3, <1>4, CQSSystemAssumption
<1>6. Stages'
  BY <1>4 DEF Stages, Serving, Owning
<1>7. PlacesKept'
  <2> SUFFICES ASSUME NEW b \in Backends
               PROVE  free'[b] + Cardinality(Serving(b)') = TotalQueue
    BY DEF PlacesKept
  <2>1. free' = [free EXCEPT ![d] = TotalQueue] /\ free \in [Backends -> 0..TotalQueue]
        /\ TotalQueue \in Nat /\ free[b] + Cardinality(Serving(b)) = TotalQueue
    BY CQSSystemAssumption DEF PlacesKept
  <2> HIDE DEF IInv, TypeOK, Die, balance
  <2>2. CASE b = d
    BY <1>1, <2>1, <2>2, FS_EmptySet
  <2>3. CASE b # d
    BY <1>2, <2>1, <2>3
  <2> QED
    BY <2>2, <2>3
<1> QED
  BY <1>1, <1>2, <1>5, <1>6, <1>7

LEMMA PublishKeeps ==
  ASSUME IInv, NEW d \in Backends, Push(d) \/ Restart(d)
  PROVE  IInv' /\ \A b \in Backends : Serving(b)' = Serving(b)
<1> USE DEF IInv, TypeOK
<1>1. UNCHANGED <<free, balance, process, executed, bounds>>
  BY DEF Push, Restart, backend
<1>2. published' \in [Backends -> 0..TotalQueue]
  BY DEF Push, Restart
<1>3. up' \in [Backends -> BOOLEAN]
  <2>1. CASE Push(d)
    BY <2>1 DEF Push, backend
  <2>2. CASE Restart(d)
    BY <2>2, Zenon DEF Restart
  <2> QED
    BY <2>1, <2>2
<1>4. TypeOK' /\ Stages'
  BY <1>1, <1>2, <1>3 DEF Stages, balance, process, bounds
<1>5. PlacesKept' /\ \A b \in Backends : Serving(b)' = Serving(b)
  BY <1>1, ServingKept DEF balance, process
<1> QED
  BY <1>4, <1>5

LEMMA NextIInv == IInv /\ [Next]_vars => IInv'
<1> SUFFICES ASSUME IInv, [Next]_vars PROVE IInv'
  OBVIOUS
<1>1. ASSUME NEW r \in Reqs, Process(r) PROVE IInv'
  <2>1. CASE Enter(r) \/ Return(r)
    <3>1. PICK d \in Backends : target[r] = d
      BY <2>1 DEF IInv, Stages, Enter, Return
    <3> QED
      BY <2>1, <3>1, EnterKeeps, ReturnKeeps
  <2>2. CASE Reject(r) \/ LostOnTheWire(r) \/ Query(r)
    BY <2>2, QuietProcessKeeps
  <2> QED
    BY <1>1, <2>1, <2>2 DEF Process
<1>2. ASSUME NEW r \in Reqs, Balance(r) PROVE IInv'
  BY <1>2, BalanceKeeps
<1>3. ASSUME NEW b \in Backends, Backend(b) PROVE IInv'
  BY <1>3, DieKeeps, PublishKeeps DEF Backend
<1>4. CASE UNCHANGED vars
  BY <1>4 DEF vars, backend, balance, process, bounds, IInv, TypeOK, Stages,
              PlacesKept, Serving
<1> QED
  BY <1>1, <1>2, <1>3, <1>4, RestartKeeps DEF Next

LEMMA Invariance == Spec => []IInv
  BY InitIInv, NextIInv, PTL DEF Spec

\* The type invariant, for every number of requests, backends and places.
THEOREM TypeCorrect == Spec => []TypeOK
  BY Invariance, PTL DEF IInv

\* A late answer, a death or a restart never costs a place (main.go:427-435).
THEOREM PlacesConserved == Spec => []PlacesKept
  BY Invariance, PTL DEF IInv

-----------------------------------------------------------------------------
(* Each backend implements AdmissionControl, whatever the balancer reads.  *)
PlaceNext(b) == Place(b)!Next \/ UNCHANGED <<Serving(b), Refused(b)>>

LEMMA SameCardinality ==
  ASSUME NEW b, NEW S
  PROVE  Place(b)!Cardinality(S) = Cardinality(S)
  BY DEF Place!Cardinality, Cardinality

LEMMA ProcessAdmits ==
  ASSUME IInv, NEW r \in Reqs, Process(r), NEW b \in Backends
  PROVE  PlaceNext(b)
<1>1. CASE Enter(r)
  <2>1. PICK d \in Backends : target[r] = d
    BY <1>1 DEF IInv, Stages, Enter
  <2>2. Refused(b)' = Refused(b) /\ r \notin Refused(d)
    BY <1>1 DEF Enter, balance, IInv, Stages, Refused
  <2>3. CASE b = d
    <3>1. free[d] > 0 /\ free[d] \in 0..TotalQueue
          /\ free[d] + Cardinality(Serving(d)) = TotalQueue
      BY <1>1, <2>1 DEF Enter, IInv, TypeOK, PlacesKept
    <3>2. Cardinality(Serving(d)) < TotalQueue
      BY <3>1, ServingFinite, CQSSystemAssumption
    <3> QED
      BY <1>1, <2>1, <2>2, <2>3, <3>2, EnterKeeps, SameCardinality
      DEF PlaceNext, Place!Next, Place!Admit, Refused
  <2>4. CASE b # d
    BY <1>1, <2>1, <2>2, <2>4, EnterKeeps DEF PlaceNext
  <2> QED
    BY <2>3, <2>4
<1>2. CASE Return(r)
  <2>1. PICK d \in Backends : target[r] = d
    BY <1>2 DEF IInv, Stages, Return
  <2>2. Refused(b)' = Refused(b)
    BY <1>2 DEF Return, balance, Refused
  <2>3. CASE b = d
    BY <1>2, <2>1, <2>2, <2>3, ReturnKeeps
    DEF PlaceNext, Place!Next, Place!Leave, Refused
  <2>4. CASE b # d
    BY <1>2, <2>1, <2>2, <2>4, ReturnKeeps DEF PlaceNext
  <2> QED
    BY <2>3, <2>4
<1>3. CASE Reject(r)
  <2>1. PICK d \in Backends : target[r] = d
    BY <1>3 DEF IInv, Stages, Reject
  <2>2. Serving(b)' = Serving(b) /\ r \notin Serving(d)
    BY <1>3, QuietProcessKeeps DEF Reject, Serving, Owning
  <2>3. CASE b = d
    <3>1. Cardinality(Serving(d)) = TotalQueue
      <4>1. free[d] = 0 /\ free[d] + Cardinality(Serving(d)) = TotalQueue
        BY <1>3, <2>1 DEF Reject, IInv, PlacesKept
      <4> QED
        BY <4>1, ServingFinite
    <3>2. Refused(d)' = Refused(d) \cup {r}
      BY <1>3, <2>1 DEF Reject, Refused, balance, IInv, TypeOK
    <3> QED
      BY <2>2, <2>3, <3>1, <3>2, SameCardinality
      DEF PlaceNext, Place!Next, Place!Refuse, Refused
  <2>4. CASE b # d
    <3>1. Refused(b)' = Refused(b)
      BY <1>3, <2>1, <2>4 DEF Reject, Refused, balance, IInv, TypeOK
    <3> QED
      BY <2>2, <3>1 DEF PlaceNext
  <2> QED
    BY <2>3, <2>4
<1>4. CASE LostOnTheWire(r)
  <2>1. Refused(b)' = Refused(b)
    BY <1>4 DEF LostOnTheWire, balance, Refused
  <2> QED
    BY <1>4, <2>1, QuietProcessKeeps DEF PlaceNext
<1>5. CASE Query(r)
  <2>1. Refused(b)' = Refused(b)
    BY <1>5 DEF Query, balance, IInv, TypeOK, Stages, Refused
  <2> QED
    BY <1>5, <2>1, QuietProcessKeeps DEF PlaceNext
<1> QED
  BY <1>1, <1>2, <1>3, <1>4, <1>5 DEF Process

\* A balancer's step moves a target only of a request no backend has seen.
LEMMA BalanceAdmits ==
  ASSUME IInv, NEW r \in Reqs, Balance(r), NEW b \in Backends
  PROVE  UNCHANGED <<Serving(b), Refused(b)>>
<1>1. CASE Choose(r)
  <2>1. Serving(b)' = Serving(b)
    BY <1>1 DEF Choose, Serving, Owning, process, IInv, Stages, TypeOK
  <2>2. Refused(b)' = Refused(b)
    BY <1>1 DEF Choose, Refused, process, IInv, Stages, TypeOK
  <2> QED
    BY <2>1, <2>2
<1>2. CASE Forward(r)
  BY <1>2 DEF Forward, Serving, Refused, Owning, IInv, Stages, TypeOK
<1>3. CASE Fails(r) \/ Answered(r) \/ GiveUp(r)
  BY <1>3 DEF Fails, Answered, GiveUp, Reply, process, Serving, Refused
<1> QED
  BY <1>1, <1>2, <1>3 DEF Balance

LEMMA BackendAdmits ==
  ASSUME IInv, NEW d \in Backends, Backend(d), NEW b \in Backends
  PROVE  PlaceNext(b)
<1>1. Refused(b)' = Refused(b)
  BY DEF Backend, Push, Die, Restart, balance, process, backend, Refused
<1>2. CASE Die(d) /\ b = d
  BY <1>1, <1>2, DieKeeps DEF PlaceNext, Place!Next, Place!ProcessDies, Refused
<1>3. CASE Die(d) /\ b # d
  BY <1>1, <1>3, DieKeeps DEF PlaceNext
<1>4. CASE Push(d) \/ Restart(d)
  BY <1>1, <1>4, PublishKeeps DEF PlaceNext
<1> QED
  BY <1>2, <1>3, <1>4 DEF Backend

LEMMA NextAdmits ==
  ASSUME IInv, [Next]_vars, NEW b \in Backends
  PROVE  [Place(b)!Next]_(Place(b)!acVars)
<1>1. BalancerRestart => UNCHANGED <<Serving(b), Refused(b)>>
  BY DEF BalancerRestart, process, Serving, Refused
<1>2. UNCHANGED vars => UNCHANGED <<Serving(b), Refused(b)>>
  BY DEF vars, balance, process, Serving, Refused
<1>3. PlaceNext(b)
  BY <1>1, <1>2, ProcessAdmits, BalanceAdmits, BackendAdmits DEF Next, PlaceNext
<1> QED
  BY <1>3 DEF PlaceNext, Place!acVars, Refused

LEMMA InitAdmits ==
  ASSUME Init, NEW b \in Backends
  PROVE  Place(b)!Init
BY DEF Init, Place!Init, Serving, Owning

\* However stale the gauges in Redis are (main.go:230), every backend of the
\* system admits and refuses by its own places alone.
THEOREM SystemImplementsAdmission == Spec => ImplementsAdmission
<1>1. Init => \A b \in Backends : Place(b)!Init
  BY InitAdmits
<1>2. IInv /\ [Next]_vars =>
        [\A b \in Backends : [Place(b)!Next]_(Place(b)!acVars)]_vars
  BY NextAdmits
<1> QED
  BY <1>1, <1>2, Invariance, PTL DEF Spec, ImplementsAdmission

-----------------------------------------------------------------------------
(* The client of the whole system: one query at most, one honest answer.   *)
HeardAll == [r \in Reqs |-> Heard(answer[r])]

LEMMA ReplyAnswers ==
  ASSUME IInv, NEW r \in Reqs, pc[r] # "done", UNCHANGED executed,
         NEW a \in {"200", "429", "500", "502"}, Reply(r, a),
         a = "200" => executed[r] = 1
  PROVE  Delivery!Answer(r)
<1>1. answer[r] = "none" /\ answer \in [Reqs -> {"none", "200", "429", "500", "502", "broken"}]
  BY DEF IInv, Stages, TypeOK
<1>2. HeardAll[r] = "none"
  BY <1>1 DEF HeardAll, Heard
<1>3. Heard(a) \in {"ok", "failed"} /\ (Heard(a) = "ok" => executed[r] > 0)
  BY DEF Heard
<1>4. HeardAll' = [HeardAll EXCEPT ![r] = Heard(a)]
  BY <1>1 DEF HeardAll, Reply
<1> QED
  BY <1>2, <1>3, <1>4 DEF Delivery!Answer, HeardAll

LEMMA BalanceDelivers ==
  ASSUME IInv, NEW r \in Reqs, Balance(r)
  PROVE  Delivery!Answer(r) \/ UNCHANGED <<executed, answer>>
<1>1. CASE Choose(r) \/ Forward(r)
  BY <1>1 DEF Choose, Forward
<1>2. CASE Fails(r)
  BY <1>2, ReplyAnswers DEF Fails
<1>3. CASE Answered(r)
  <2>1. result[r] \in {"200", "429", "500"} /\ (result[r] = "200" => executed[r] = 1)
    BY <1>3 DEF Answered, IInv, Stages, TypeOK
  <2> QED
    BY <1>3, <2>1, ReplyAnswers DEF Answered
<1>4. CASE GiveUp(r)
  BY <1>4, ReplyAnswers DEF GiveUp
<1> QED
  BY <1>1, <1>2, <1>3, <1>4 DEF Balance

LEMMA ProcessDelivers ==
  ASSUME IInv, NEW r \in Reqs, Process(r)
  PROVE  Delivery!Execute(r) \/ UNCHANGED <<executed, answer>>
<1>1. CASE Query(r)
  <2>1. executed[r] = 0 /\ UNCHANGED answer
        /\ executed' \in {executed, [executed EXCEPT ![r] = @ + 1]}
    BY <1>1 DEF Query, balance, IInv, Stages
  <2> QED
    BY <2>1 DEF Delivery!Execute
<1>2. CASE Enter(r) \/ Reject(r) \/ LostOnTheWire(r) \/ Return(r)
  BY <1>2 DEF Enter, Reject, LostOnTheWire, Return, balance
<1> QED
  BY <1>1, <1>2 DEF Process

LEMMA RestartDelivers ==
  ASSUME IInv, BalancerRestart
  PROVE  Delivery!BalancerDies
<1> DEFINE W == {r \in Reqs : pc[r] \in {"chosen", "sent"}}
<1>1. \A r \in Reqs : pc[r] \in {"chosen", "sent"} => answer[r] = "none"
  BY DEF IInv, Stages
<1>2. W \in SUBSET {r \in Reqs : HeardAll[r] = "none"}
  BY <1>1 DEF HeardAll, Heard
<1>3. HeardAll' = [r \in Reqs |-> IF r \in W THEN "failed" ELSE HeardAll[r]]
  BY DEF BalancerRestart, HeardAll, Heard
<1>4. UNCHANGED executed
  BY DEF BalancerRestart
<1> QED
  BY <1>2, <1>3, <1>4 DEF Delivery!BalancerDies, HeardAll

LEMMA NextDelivers ==
  ASSUME IInv, [Next]_vars
  PROVE  [Delivery!Next]_(Delivery!dcVars)
<1>1. ASSUME NEW b \in Backends, Backend(b) PROVE UNCHANGED <<executed, answer>>
  BY <1>1 DEF Backend, Push, Die, Restart, balance
<1>2. UNCHANGED vars => UNCHANGED <<executed, answer>>
  BY DEF vars, balance
<1>3. Delivery!Next \/ UNCHANGED <<executed, answer>>
  BY <1>1, <1>2, BalanceDelivers, ProcessDelivers, RestartDelivers
  DEF Next, Delivery!Next
<1> QED
  BY <1>3 DEF Delivery!dcVars

\* The balancer's promise to a client of the whole system, with both kinds
\* of process dying and every call timing out at any point (main.go:427-435,
\* backend main.go:245): no query runs twice and no "ok" without a query.
THEOREM SystemImplementsDelivery == Spec => ImplementsDelivery
<1>1. Init => Delivery!Init
  BY DEF Init, Delivery!Init, Heard
<1>2. IInv /\ [Next]_vars => [Delivery!Next]_(Delivery!dcVars)
  BY NextDelivers
<1> QED
  BY <1>1, <1>2, Invariance, PTL DEF Spec, ImplementsDelivery, Delivery!Spec
=============================================================================
