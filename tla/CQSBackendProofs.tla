--------------------------- MODULE CQSBackendProofs ---------------------------
(***************************************************************************)
(* Safety of CQSBackend for every number of requests, places and channel   *)
(* slots.  SlotAccounting and TypeOK are not inductive: Take may decrement *)
(* only because Check saw a free place under the same lock, and the gauge  *)
(* cannot move between PushStart and PushDone only because readers exclude *)
(* writers.  LockOwners and WindowOwners say who holds what.               *)
(***************************************************************************)
EXTENDS CQSBackend, FiniteSetTheorems, SequenceTheorems, TLAPS

LockOwners ==
  /\ \A r \in Reqs : pc[r] \in {"check", "take"} <=> lock = r
  /\ \A r \in Reqs : pc[r] = "take" => freeQueue > 0
  /\ raPC # "sleep" <=> lock = RaUpdater
  /\ pushPC = "hset" => lock = Nobody /\ snap = Gauge

WindowOwners ==
  /\ \A r \in uncredited : pc[r] \in {"release", "done"}
  /\ raPC = "reset" => uncredited = {}

RefusedLeft == \A r \in Reqs : status[r] = "429" => pc[r] = "done"

IInv ==
  /\ TypeOK /\ LockOwners /\ SlotAccounting
  /\ WindowOwners /\ WindowExact /\ RefusedLeft

-----------------------------------------------------------------------------
\* Integer division of naturals stays in Nat (the rate of a window).
LEMMA DivNat == \A n \in Nat, d \in Nat \ {0} : n \div d \in Nat
  BY SMT

\* The running handlers are finitely many, so they can be counted.
LEMMA InServiceFinite == IsFiniteSet(InService) /\ Cardinality(InService) \in Nat
<1>1. InService \in SUBSET Reqs
  BY DEF InService
<1>2. QED
  BY <1>1, CQSBackendAssumption, FS_Subset, FS_CardinalityType

\* A handler that takes a place makes the running handlers one more.
LEMMA OneMoreInService ==
  ASSUME NEW r \in Reqs, r \notin InService, InService' = InService \cup {r}
  PROVE  Cardinality(InService') = Cardinality(InService) + 1
  BY InServiceFinite, FS_AddElement

\* A handler that returns its place makes the running handlers one fewer.
LEMMA OneLessInService ==
  ASSUME NEW r \in Reqs, r \in InService, InService' = InService \ {r}
  PROVE  Cardinality(InService') = Cardinality(InService) - 1
  BY InServiceFinite, FS_RemoveElement

LEMMA InitIInv == Init => IInv
<1> SUFFICES ASSUME Init PROVE IInv
  OBVIOUS
<1> USE CQSBackendAssumption DEF Init
<1>1. InService = {}
  BY DEF InService, Owning
<1>2. TypeOK
  <2>1. jobChan \in Seq(Classes) /\ Len(jobChan) <= ChanCap
    BY EmptySeq, SMT
  <2>2. snap \in Gauges /\ published \in Gauges
    BY SMT DEF Gauges, NoGauge
  <2>3. ra \in Nat /\ raOld \in Nat /\ raNew \in Nat
    BY SMT DEF InitialRa, InitialRate
  <2>4. pc \in [Reqs -> {"new", "check", "take", "done", "lost"} \cup Owning]
    BY DEF Owning
  <2>5. freeQueue \in 0..TotalQueue /\ panics \in 0..MaxPanics
    BY SMT
  <2>6. cooling \in BOOLEAN
    BY Zenon
  <2>7. QED
    BY <2>1, <2>2, <2>3, <2>4, <2>5, <2>6 DEF TypeOK
<1>3. LockOwners
  BY DEF LockOwners
<1>4. SlotAccounting
  BY <1>1, FS_EmptySet DEF SlotAccounting
<1>5. WindowOwners /\ WindowExact
  BY FS_EmptySet DEF WindowOwners, WindowExact
<1>6. RefusedLeft
  BY DEF RefusedLeft
<1>7. QED
  BY <1>2, <1>3, <1>4, <1>5, <1>6 DEF IInv


-----------------------------------------------------------------------------
\* No step of a handler breaks the invariant: only Take and Release move the
\* gauge, each by one and with the lock, and only Count adds to the window.
LEMMA HandlerStep ==
  ASSUME IInv, NEW r \in Reqs, Handler(r)
  PROVE  IInv'
<1> USE CQSBackendAssumption DEF process, metrix, rates, worker, push
<1>1. ASSUME Enter(r)
      PROVE  IInv'
  <2> USE <1>1 DEF Enter
  <2>1. TypeOK'
    BY DEF IInv, TypeOK
  <2>2. LockOwners'
    BY DEF IInv, TypeOK, LockOwners, CanLock, Gauge
  <2>3. SlotAccounting'
    <3>1. InService' = InService
      BY DEF IInv, TypeOK, InService, Owning
    <3>2. QED
      BY <3>1 DEF IInv, SlotAccounting
  <2>4. WindowOwners' /\ WindowExact'
    BY DEF IInv, TypeOK, LockOwners, WindowOwners, WindowExact
  <2>5. RefusedLeft'
    BY DEF IInv, TypeOK, RefusedLeft
  <2>6. QED
    BY <2>1, <2>2, <2>3, <2>4, <2>5 DEF IInv
<1>2. ASSUME Reject(r)
      PROVE  IInv'
  <2> USE <1>2 DEF Reject
  <2>1. TypeOK'
    BY DEF IInv, TypeOK
  <2>2. LockOwners'
    BY DEF IInv, TypeOK, LockOwners, CanLock, Gauge
  <2>3. SlotAccounting'
    <3>1. InService' = InService
      BY DEF IInv, TypeOK, InService, Owning
    <3>2. QED
      BY <3>1 DEF IInv, SlotAccounting
  <2>4. WindowOwners' /\ WindowExact'
    BY DEF IInv, TypeOK, LockOwners, WindowOwners, WindowExact
  <2>5. RefusedLeft'
    BY DEF IInv, TypeOK, RefusedLeft
  <2>6. QED
    BY <2>1, <2>2, <2>3, <2>4, <2>5 DEF IInv
<1>3. ASSUME Check(r)
      PROVE  IInv'
  <2> USE <1>3 DEF Check
  <2>1. TypeOK'
    BY DEF IInv, TypeOK
  <2>2. LockOwners'
    BY DEF IInv, TypeOK, LockOwners, CanLock, Gauge
  <2>3. SlotAccounting'
    <3>1. InService' = InService
      BY DEF IInv, TypeOK, InService, Owning
    <3>2. QED
      BY <3>1 DEF IInv, SlotAccounting
  <2>4. WindowOwners' /\ WindowExact'
    BY DEF IInv, TypeOK, LockOwners, WindowOwners, WindowExact
  <2>5. RefusedLeft'
    BY DEF IInv, TypeOK, RefusedLeft
  <2>6. QED
    BY <2>1, <2>2, <2>3, <2>4, <2>5 DEF IInv
<1>4. ASSUME Take(r)
      PROVE  IInv'
  <2> USE <1>4 DEF Take
  <2>1. TypeOK'
    BY DEF IInv, TypeOK, LockOwners, Owning
  <2>2. LockOwners'
    BY DEF IInv, TypeOK, LockOwners, CanLock, Gauge
  <2>3. SlotAccounting'
    <3>1. r \notin InService /\ InService' = InService \cup {r}
      BY DEF IInv, TypeOK, InService, Owning
    <3>2. Cardinality(InService') = Cardinality(InService) + 1
      BY <3>1, OneMoreInService
    <3>3. freeQueue \in Int /\ freeQueue' = freeQueue - 1
      BY DEF IInv, TypeOK
    <3>4. QED
      BY <3>2, <3>3, InServiceFinite, SMT DEF IInv, SlotAccounting
  <2>4. WindowOwners' /\ WindowExact'
    BY DEF IInv, TypeOK, LockOwners, WindowOwners, WindowExact
  <2>5. RefusedLeft'
    BY DEF IInv, TypeOK, RefusedLeft
  <2>6. QED
    BY <2>1, <2>2, <2>3, <2>4, <2>5 DEF IInv
<1>5. ASSUME Bind(r)
      PROVE  IInv'
  <2> USE <1>5 DEF Bind
  <2>1. TypeOK'
    BY DEF IInv, TypeOK, Owning
  <2>2. LockOwners'
    BY DEF IInv, TypeOK, LockOwners, CanLock, Gauge
  <2>3. SlotAccounting'
    <3>1. InService' = InService
      BY DEF IInv, TypeOK, InService, Owning
    <3>2. QED
      BY <3>1 DEF IInv, SlotAccounting
  <2>4. WindowOwners' /\ WindowExact'
    BY DEF IInv, TypeOK, LockOwners, WindowOwners, WindowExact
  <2>5. RefusedLeft'
    BY DEF IInv, TypeOK, RefusedLeft
  <2>6. QED
    BY <2>1, <2>2, <2>3, <2>4, <2>5 DEF IInv
<1>6. ASSUME Query(r)
      PROVE  IInv'
  <2> USE <1>6 DEF Query
  <2>1. TypeOK'
    BY DEF IInv, TypeOK, Owning
  <2>2. LockOwners'
    BY DEF IInv, TypeOK, LockOwners, CanLock, Gauge
  <2>3. SlotAccounting'
    <3>1. InService' = InService
      BY DEF IInv, TypeOK, InService, Owning
    <3>2. QED
      BY <3>1 DEF IInv, SlotAccounting
  <2>4. WindowOwners' /\ WindowExact'
    BY DEF IInv, TypeOK, LockOwners, WindowOwners, WindowExact
  <2>5. RefusedLeft'
    BY DEF IInv, TypeOK, RefusedLeft
  <2>6. QED
    BY <2>1, <2>2, <2>3, <2>4, <2>5 DEF IInv
<1>7. ASSUME Count(r)
      PROVE  IInv'
  <2> USE <1>7 DEF Count
  <2>1. TypeOK'
    BY DEF IInv, TypeOK, Owning
  <2>2. LockOwners'
    BY DEF IInv, TypeOK, LockOwners, CanLock, Gauge
  <2>3. SlotAccounting'
    <3>1. InService' = InService
      BY DEF IInv, TypeOK, InService, Owning
    <3>2. QED
      BY <3>1 DEF IInv, SlotAccounting
  <2>4. WindowOwners' /\ WindowExact'
    <3>1. r \notin uncredited /\ raPC # "reset" /\ IsFiniteSet(uncredited)
      BY FS_Subset DEF IInv, TypeOK, LockOwners, CanLock, WindowOwners
    <3>2. Cardinality(uncredited') = Cardinality(uncredited) + 1
      BY <3>1, FS_AddElement
    <3>3. QED
      BY <3>1, <3>2 DEF IInv, TypeOK, WindowOwners, WindowExact
  <2>5. RefusedLeft'
    BY DEF IInv, TypeOK, RefusedLeft
  <2>6. QED
    BY <2>1, <2>2, <2>3, <2>4, <2>5 DEF IInv
<1>8. ASSUME Release(r)
      PROVE  IInv'
  <2> USE <1>8 DEF Release
  <2>1. TypeOK'
    BY DEF IInv, TypeOK, Least
  <2>2. LockOwners'
    BY DEF IInv, TypeOK, LockOwners, CanLock, Gauge
  <2>3. SlotAccounting'
    <3>1. r \in InService /\ InService' = InService \ {r}
      BY DEF IInv, TypeOK, InService, Owning
    <3>2. Cardinality(InService') = Cardinality(InService) - 1
      BY <3>1, OneLessInService
    <3>3. Cardinality(InService') \in Nat
      <4>1. InService' \in SUBSET Reqs
        BY <3>1 DEF InService
      <4>2. QED
        BY <4>1, FS_Subset, FS_CardinalityType
    <3>4. QED
      BY <3>2, <3>3, InServiceFinite, SMT
      DEF IInv, TypeOK, SlotAccounting, Least
  <2>4. WindowOwners' /\ WindowExact'
    BY DEF IInv, TypeOK, LockOwners, WindowOwners, WindowExact
  <2>5. RefusedLeft'
    BY DEF IInv, TypeOK, RefusedLeft
  <2>6. QED
    BY <2>1, <2>2, <2>3, <2>4, <2>5 DEF IInv
<1>9. QED
  BY <1>1, <1>2, <1>3, <1>4, <1>5, <1>6, <1>7, <1>8 DEF Handler

\* No step of UpdateRa breaks the invariant: it changes the window and the
\* gauge's rate only while it holds the lock, which keeps Count out.
LEMMA UpdateRaStep ==
  ASSUME IInv, UpdateRa
  PROVE  IInv'
<1> USE CQSBackendAssumption DEF process, handlers, metrix, worker, push
<1>1. ASSUME RaLock
      PROVE  IInv'
  <2> USE <1>1 DEF RaLock
  <2>1. TypeOK'
    BY DEF IInv, TypeOK
  <2>2. LockOwners'
    BY DEF IInv, TypeOK, LockOwners, CanLock, Gauge
  <2>3. SlotAccounting'
    <3>1. InService' = InService
      BY DEF IInv, TypeOK, InService, Owning
    <3>2. QED
      BY <3>1 DEF IInv, SlotAccounting
  <2>4. WindowOwners' /\ WindowExact'
    BY DEF IInv, TypeOK, LockOwners, WindowOwners, WindowExact
  <2>5. RefusedLeft'
    BY DEF IInv, TypeOK, RefusedLeft
  <2>6. QED
    BY <2>1, <2>2, <2>3, <2>4, <2>5 DEF IInv
<1>2. ASSUME RaEmpty
      PROVE  IInv'
  <2> USE <1>2 DEF RaEmpty
  <2>1. TypeOK'
    BY DEF IInv, TypeOK
  <2>2. LockOwners'
    BY DEF IInv, TypeOK, LockOwners, CanLock, Gauge
  <2>3. SlotAccounting'
    <3>1. InService' = InService
      BY DEF IInv, TypeOK, InService, Owning
    <3>2. QED
      BY <3>1 DEF IInv, SlotAccounting
  <2>4. WindowOwners' /\ WindowExact'
    BY DEF IInv, TypeOK, LockOwners, WindowOwners, WindowExact
  <2>5. RefusedLeft'
    BY DEF IInv, TypeOK, RefusedLeft
  <2>6. QED
    BY <2>1, <2>2, <2>3, <2>4, <2>5 DEF IInv
<1>3. ASSUME RaRate
      PROVE  IInv'
  <2> USE <1>3 DEF RaRate
  <2>1. TypeOK'
    <3>1. ra' \in Nat
      <4>1. PICK e \in Elapsed : ra' = (requestDone * PerPeriod) \div e
        OBVIOUS
      <4>2. requestDone * PerPeriod \in Nat
        BY SMT DEF IInv, TypeOK, PerPeriod
      <4>3. QED
        BY <4>1, <4>2, DivNat
    <3>2. QED
      BY <3>1 DEF IInv, TypeOK
  <2>2. LockOwners'
    BY DEF IInv, TypeOK, LockOwners, CanLock, Gauge
  <2>3. SlotAccounting'
    <3>1. InService' = InService
      BY DEF IInv, TypeOK, InService, Owning
    <3>2. QED
      BY <3>1 DEF IInv, SlotAccounting
  <2>4. WindowOwners' /\ WindowExact'
    BY DEF IInv, TypeOK, LockOwners, WindowOwners, WindowExact
  <2>5. RefusedLeft'
    BY DEF IInv, TypeOK, RefusedLeft
  <2>6. QED
    BY <2>1, <2>2, <2>3, <2>4, <2>5 DEF IInv
<1>4. ASSUME RaReset
      PROVE  IInv'
  <2> USE <1>4 DEF RaReset
  <2>1. TypeOK'
    BY DEF IInv, TypeOK, Least
  <2>2. LockOwners'
    BY DEF IInv, TypeOK, LockOwners, CanLock, Gauge
  <2>3. SlotAccounting'
    <3>1. InService' = InService
      BY DEF IInv, TypeOK, InService, Owning
    <3>2. QED
      BY <3>1 DEF IInv, SlotAccounting
  <2>4. WindowOwners' /\ WindowExact'
    BY FS_EmptySet DEF IInv, TypeOK, WindowOwners, WindowExact
  <2>5. RefusedLeft'
    BY DEF IInv, TypeOK, RefusedLeft
  <2>6. QED
    BY <2>1, <2>2, <2>3, <2>4, <2>5 DEF IInv
<1>5. ASSUME RaSend
      PROVE  IInv'
  <2> USE <1>5 DEF RaSend
  <2>1. TypeOK'
    <3>1. RatioClass(raNew, raOld) \in Classes
      BY DEF RatioClass, Classes
    <3>2. jobChan' \in Seq(Classes) /\ Len(jobChan') <= ChanCap
      BY <3>1, AppendProperties DEF IInv, TypeOK
    <3>3. QED
      BY <3>2 DEF IInv, TypeOK
  <2>2. LockOwners'
    BY DEF IInv, TypeOK, LockOwners, CanLock, Gauge
  <2>3. SlotAccounting'
    <3>1. InService' = InService
      BY DEF IInv, TypeOK, InService, Owning
    <3>2. QED
      BY <3>1 DEF IInv, SlotAccounting
  <2>4. WindowOwners' /\ WindowExact'
    BY DEF IInv, TypeOK, LockOwners, WindowOwners, WindowExact
  <2>5. RefusedLeft'
    BY DEF IInv, TypeOK, RefusedLeft
  <2>6. QED
    BY <2>1, <2>2, <2>3, <2>4, <2>5 DEF IInv
<1>6. QED
  BY <1>1, <1>2, <1>3, <1>4, <1>5 DEF UpdateRa

\* The weight worker, its cooldown and the publisher touch neither the gauge
\* nor the window; PushStart and PushDone delimit the read lock.
LEMMA WorkerAndPushStep ==
  ASSUME IInv, StartWorker \/ CooldownOver \/ ActionPushMetrix
  PROVE  IInv'
<1> USE CQSBackendAssumption DEF process, handlers, metrix, rates, worker, push
<1>1. ASSUME WorkerReceive
      PROVE  IInv'
  <2> USE <1>1 DEF WorkerReceive
  <2>1. TypeOK'
    <3>1. jobChan' \in Seq(Classes) /\ Len(jobChan') <= ChanCap
      BY HeadTailProperties DEF IInv, TypeOK
    <3>2. QED
      BY <3>1 DEF IInv, TypeOK
  <2>2. LockOwners'
    BY DEF IInv, TypeOK, LockOwners, CanLock, Gauge
  <2>3. SlotAccounting'
    <3>1. InService' = InService
      BY DEF IInv, TypeOK, InService, Owning
    <3>2. QED
      BY <3>1 DEF IInv, SlotAccounting
  <2>4. WindowOwners' /\ WindowExact'
    BY DEF IInv, TypeOK, LockOwners, WindowOwners, WindowExact
  <2>5. RefusedLeft'
    BY DEF IInv, TypeOK, RefusedLeft
  <2>6. QED
    BY <2>1, <2>2, <2>3, <2>4, <2>5 DEF IInv
<1>2. ASSUME WorkerUpdated
      PROVE  IInv'
  <2> USE <1>2 DEF WorkerUpdated
  <2>1. TypeOK'
    <3>1. cooling' \in BOOLEAN
      BY Zenon
    <3>2. QED
      BY <3>1 DEF IInv, TypeOK
  <2>2. LockOwners'
    BY DEF IInv, TypeOK, LockOwners, CanLock, Gauge
  <2>3. SlotAccounting'
    <3>1. InService' = InService
      BY DEF IInv, TypeOK, InService, Owning
    <3>2. QED
      BY <3>1 DEF IInv, SlotAccounting
  <2>4. WindowOwners' /\ WindowExact'
    BY DEF IInv, TypeOK, LockOwners, WindowOwners, WindowExact
  <2>5. RefusedLeft'
    BY DEF IInv, TypeOK, RefusedLeft
  <2>6. QED
    BY <2>1, <2>2, <2>3, <2>4, <2>5 DEF IInv
<1>3. ASSUME CooldownOver
      PROVE  IInv'
  <2> USE <1>3 DEF CooldownOver
  <2>1. TypeOK'
    <3>1. cooling' \in BOOLEAN
      BY Zenon
    <3>2. QED
      BY <3>1 DEF IInv, TypeOK
  <2>2. LockOwners'
    BY DEF IInv, TypeOK, LockOwners, CanLock, Gauge
  <2>3. SlotAccounting'
    <3>1. InService' = InService
      BY DEF IInv, TypeOK, InService, Owning
    <3>2. QED
      BY <3>1 DEF IInv, SlotAccounting
  <2>4. WindowOwners' /\ WindowExact'
    BY DEF IInv, TypeOK, LockOwners, WindowOwners, WindowExact
  <2>5. RefusedLeft'
    BY DEF IInv, TypeOK, RefusedLeft
  <2>6. QED
    BY <2>1, <2>2, <2>3, <2>4, <2>5 DEF IInv
<1>4. ASSUME PushStart
      PROVE  IInv'
  <2> USE <1>4 DEF PushStart
  <2>1. TypeOK'
    BY DEF IInv, TypeOK, Gauge, Gauges
  <2>2. LockOwners'
    BY DEF IInv, TypeOK, LockOwners, CanRLock, Gauge
  <2>3. SlotAccounting'
    <3>1. InService' = InService
      BY DEF IInv, TypeOK, InService, Owning
    <3>2. QED
      BY <3>1 DEF IInv, SlotAccounting
  <2>4. WindowOwners' /\ WindowExact'
    BY DEF IInv, TypeOK, LockOwners, WindowOwners, WindowExact
  <2>5. RefusedLeft'
    BY DEF IInv, TypeOK, RefusedLeft
  <2>6. QED
    BY <2>1, <2>2, <2>3, <2>4, <2>5 DEF IInv
<1>5. ASSUME PushDone
      PROVE  IInv'
  <2> USE <1>5 DEF PushDone
  <2>1. TypeOK'
    BY DEF IInv, TypeOK, NoGauge, Gauges
  <2>2. LockOwners'
    BY DEF IInv, TypeOK, LockOwners, CanLock, Gauge
  <2>3. SlotAccounting'
    <3>1. InService' = InService
      BY DEF IInv, TypeOK, InService, Owning
    <3>2. QED
      BY <3>1 DEF IInv, SlotAccounting
  <2>4. WindowOwners' /\ WindowExact'
    BY DEF IInv, TypeOK, LockOwners, WindowOwners, WindowExact
  <2>5. RefusedLeft'
    BY DEF IInv, TypeOK, RefusedLeft
  <2>6. QED
    BY <2>1, <2>2, <2>3, <2>4, <2>5 DEF IInv
<1>6. QED
  BY <1>1, <1>2, <1>3, <1>4, <1>5 DEF StartWorker, ActionPushMetrix

\* The death of the process takes the places and the window with it.
LEMMA DieStep ==
  ASSUME IInv, Die, published' \in Gauges
  PROVE  IInv'
<1> USE CQSBackendAssumption DEF Die
<1>1. TypeOK'
  <2>1. jobChan' \in Seq(Classes) /\ Len(jobChan') <= ChanCap
    BY EmptySeq, SMT
  <2>2. snap' \in Gauges
    BY SMT DEF Gauges, NoGauge
  <2>3. ra' \in Nat /\ raOld' \in Nat /\ raNew' \in Nat
    BY SMT DEF InitialRa, InitialRate
  <2>4. freeQueue' \in 0..TotalQueue /\ panics' \in 0..MaxPanics
    BY SMT DEF IInv, TypeOK
  <2>5. cooling' \in BOOLEAN
    BY Zenon
  <2>6. pc' \in [Reqs -> {"new", "check", "take", "done", "lost"} \cup Owning]
    OBVIOUS
  <2>7. QED
    BY <2>1, <2>2, <2>3, <2>4, <2>5, <2>6 DEF IInv, TypeOK
<1>2. LockOwners'
  BY DEF IInv, TypeOK, LockOwners
<1>3. SlotAccounting'
  <2>1. InService' = {}
    BY DEF IInv, TypeOK, InService, Owning
  <2>2. QED
    BY <2>1, FS_EmptySet DEF SlotAccounting
<1>4. WindowOwners' /\ WindowExact'
  BY FS_EmptySet DEF WindowOwners, WindowExact
<1>5. RefusedLeft'
  BY DEF IInv, TypeOK, RefusedLeft
<1>6. QED
  BY <1>1, <1>2, <1>3, <1>4, <1>5 DEF IInv

\* Starting and dying preserve the invariant.
LEMMA BootStep ==
  ASSUME IInv, Boot \/ WorkerPanic \/ PushPanic
  PROVE  IInv'
<1> USE CQSBackendAssumption DEF handlers, metrix, rates, worker, push
<1>0. Gauge \in Gauges
  BY DEF IInv, TypeOK, Gauge, Gauges
<1>1. ASSUME Restart
      PROVE  IInv'
  <2> USE <1>1 DEF Restart
  <2>1. TypeOK'
    BY DEF IInv, TypeOK
  <2>2. LockOwners'
    BY DEF IInv, TypeOK, LockOwners, CanLock, Gauge
  <2>3. SlotAccounting'
    <3>1. InService' = InService
      BY DEF IInv, TypeOK, InService, Owning
    <3>2. QED
      BY <3>1 DEF IInv, SlotAccounting
  <2>4. WindowOwners' /\ WindowExact'
    BY DEF IInv, TypeOK, LockOwners, WindowOwners, WindowExact
  <2>5. RefusedLeft'
    BY DEF IInv, TypeOK, RefusedLeft
  <2>6. QED
    BY <2>1, <2>2, <2>3, <2>4, <2>5 DEF IInv
<1>2. ASSUME BootPublish
      PROVE  IInv'
  <2> USE <1>2 DEF BootPublish
  <2>1. TypeOK'
    BY <1>0 DEF IInv, TypeOK
  <2>2. LockOwners'
    BY DEF IInv, TypeOK, LockOwners, CanLock, Gauge
  <2>3. SlotAccounting'
    <3>1. InService' = InService
      BY DEF IInv, TypeOK, InService, Owning
    <3>2. QED
      BY <3>1 DEF IInv, SlotAccounting
  <2>4. WindowOwners' /\ WindowExact'
    BY DEF IInv, TypeOK, LockOwners, WindowOwners, WindowExact
  <2>5. RefusedLeft'
    BY DEF IInv, TypeOK, RefusedLeft
  <2>6. QED
    BY <2>1, <2>2, <2>3, <2>4, <2>5 DEF IInv
<1>3. ASSUME BootSkip
      PROVE  IInv'
  <2> USE <1>3 DEF BootSkip
  <2>1. TypeOK'
    BY DEF IInv, TypeOK
  <2>2. LockOwners'
    BY DEF IInv, TypeOK, LockOwners, CanLock, Gauge
  <2>3. SlotAccounting'
    <3>1. InService' = InService
      BY DEF IInv, TypeOK, InService, Owning
    <3>2. QED
      BY <3>1 DEF IInv, SlotAccounting
  <2>4. WindowOwners' /\ WindowExact'
    BY DEF IInv, TypeOK, LockOwners, WindowOwners, WindowExact
  <2>5. RefusedLeft'
    BY DEF IInv, TypeOK, RefusedLeft
  <2>6. QED
    BY <2>1, <2>2, <2>3, <2>4, <2>5 DEF IInv
<1>4. CASE BootPanic
  <2>1. published' \in Gauges
    BY <1>0, <1>4 DEF BootPanic, IInv, TypeOK
  <2>2. QED
    BY <1>4, <2>1, DieStep DEF BootPanic
<1>5. CASE WorkerPanic
  <2>1. published' \in Gauges
    BY <1>0, <1>5 DEF WorkerPanic, IInv, TypeOK
  <2>2. QED
    BY <1>5, <2>1, DieStep DEF WorkerPanic
<1>6. CASE PushPanic
  <2>1. published' \in Gauges
    BY <1>0, <1>6 DEF PushPanic, IInv, TypeOK
  <2>2. QED
    BY <1>6, <2>1, DieStep DEF PushPanic
<1>7. QED
  BY <1>1, <1>2, <1>3, <1>4, <1>5, <1>6 DEF Boot

LEMMA NextIInv == IInv /\ [Next]_vars => IInv'
<1> SUFFICES ASSUME IInv, [Next]_vars PROVE IInv'
  OBVIOUS
<1>1. CASE Next
  BY <1>1, HandlerStep, UpdateRaStep, WorkerAndPushStep, BootStep DEF Next
<1>2. CASE UNCHANGED vars
  <2> USE <1>2 DEF vars, process, handlers, metrix, rates, worker, push
  <2>1. InService' = InService
    BY DEF InService
  <2>2. TypeOK' /\ LockOwners'
    BY DEF IInv, TypeOK, LockOwners, Gauge
  <2>3. SlotAccounting' /\ WindowOwners' /\ WindowExact' /\ RefusedLeft'
    BY <2>1 DEF IInv, SlotAccounting, WindowOwners, WindowExact, RefusedLeft
  <2>4. QED
    BY <2>2, <2>3 DEF IInv
<1>3. QED
  BY <1>1, <1>2

LEMMA Invariance == Spec => []IInv
  BY InitIInv, NextIInv, PTL DEF Spec
-----------------------------------------------------------------------------
\* The type invariant, for every set of requests and every size of the gauge
\* and of JobChannel.
THEOREM TypeCorrect == Spec => []TypeOK
  BY Invariance, PTL DEF IInv

\* No place of FreeQueue leaks or is handed out twice (main.go:377-395).
THEOREM SlotsConserved == Spec => []SlotAccounting
  BY Invariance, PTL DEF IInv

\* Every completion is credited to one rate window (main.go:161-168, 414-416).
THEOREM CompletionsCounted == Spec => []WindowExact
  BY Invariance, PTL DEF IInv

\* The gauge Redis receives is the gauge at that moment (main.go:134-145).
THEOREM PublishesCurrentGauge == Spec => PublishIsCurrent
<1>1. IInv /\ [Next]_vars => [published' # published => published' = Gauge]_vars
  <2> SUFFICES ASSUME IInv, Next, published' # published
               PROVE  published' = Gauge
    BY DEF vars
  <2>1. CASE Boot
    BY <2>1 DEF Boot, Restart, BootPublish, BootSkip, BootPanic
  <2>2. ASSUME NEW r \in Reqs, Handler(r)
        PROVE  published' = Gauge
    BY <2>2 DEF Handler, Enter, Reject, Check, Take, Bind, Query, Count, Release
  <2>3. CASE UpdateRa
    BY <2>3 DEF UpdateRa, RaLock, RaEmpty, RaRate, RaReset, RaSend
  <2>4. CASE StartWorker \/ WorkerPanic \/ CooldownOver
    BY <2>4 DEF StartWorker, WorkerReceive, WorkerUpdated, WorkerPanic,
                CooldownOver
  <2>5. CASE ActionPushMetrix \/ PushPanic
    BY <2>5 DEF ActionPushMetrix, PushStart, PushDone, PushPanic, IInv,
                LockOwners
  <2>6. QED
    BY <2>1, <2>2, <2>3, <2>4, <2>5 DEF Next
<1>2. QED
  BY <1>1, Invariance, PTL DEF Spec, PublishIsCurrent

-----------------------------------------------------------------------------
Refused == {r \in Reqs : status[r] = "429"}

\* Handlers that neither take nor return a place, and are not turned away.
LEMMA QuietHandlerStep ==
  ASSUME IInv, NEW r \in Reqs,
         Enter(r) \/ Check(r) \/ Bind(r) \/ Query(r) \/ Count(r)
  PROVE  InService' = InService /\ Refused' = Refused
<1> USE DEF IInv, TypeOK, RefusedLeft, InService, Owning, Refused
<1>1. CASE Enter(r)
  BY <1>1 DEF Enter
<1>2. CASE Check(r)
  BY <1>2 DEF Check
<1>3. CASE Bind(r)
  BY <1>3 DEF Bind
<1>4. CASE Query(r)
  BY <1>4 DEF Query
<1>5. CASE Count(r)
  BY <1>5 DEF Count
<1>6. QED
  BY <1>1, <1>2, <1>3, <1>4, <1>5

\* The instance counts sets as this module does.
LEMMA SameCardinality ==
  Admission!Cardinality(InService) = Cardinality(InService)
  BY Zenon DEF Admission!Cardinality, Cardinality

\* Take implements Admit: the place it takes was free, so fewer than
\* TotalQueue handlers were running.
LEMMA TakeAdmits ==
  ASSUME IInv, NEW r \in Reqs, Take(r)
  PROVE  Admission!Admit(r)
<1>1. r \notin InService /\ InService' = InService \cup {r}
  BY DEF Take, IInv, TypeOK, InService, Owning
<1>2. r \notin Refused /\ Refused' = Refused
  BY DEF Take, IInv, RefusedLeft, Refused
<1>3. Cardinality(InService) < TotalQueue
  BY InServiceFinite, CQSBackendAssumption
  DEF Take, IInv, TypeOK, LockOwners, SlotAccounting
<1>4. QED
  BY <1>1, <1>2, <1>3, SameCardinality DEF Admission!Admit, Refused

\* Reject implements Refuse: FreeQueue <= 0 means that all places are taken.
LEMMA RejectRefuses ==
  ASSUME IInv, NEW r \in Reqs, Reject(r)
  PROVE  Admission!Refuse(r)
<1>1. r \notin InService /\ InService' = InService
  BY DEF Reject, IInv, TypeOK, InService, Owning
<1>2. Refused' = Refused \cup {r}
  BY DEF Reject, IInv, TypeOK, Refused
<1>3. Cardinality(InService) = TotalQueue
  BY InServiceFinite, CQSBackendAssumption
  DEF Reject, IInv, TypeOK, SlotAccounting
<1>4. QED
  BY <1>1, <1>2, <1>3, SameCardinality DEF Admission!Refuse, Refused

\* Release implements Leave.
LEMMA ReleaseLeaves ==
  ASSUME IInv, NEW r \in Reqs, Release(r)
  PROVE  Admission!Leave(r)
<1>1. r \in InService /\ InService' = InService \ {r}
  BY DEF Release, IInv, TypeOK, InService, Owning
<1>2. Refused' = Refused
  BY DEF Release, Refused
<1>3. QED
  BY <1>1, <1>2 DEF Admission!Leave, Refused

\* The steps of the goroutines leave the running handlers alone.
LEMMA GoroutinesStutter ==
  ASSUME UNCHANGED handlers
  PROVE  InService' = InService /\ Refused' = Refused
  BY DEF handlers, InService, Refused

\* The death of the process implements ProcessDies.
LEMMA DieIsReset ==
  ASSUME IInv, Die
  PROVE  Admission!ProcessDies
<1>1. InService' = {}
  BY DEF Die, IInv, TypeOK, InService, Owning
<1>2. Refused' = Refused
  BY DEF Die, Refused
<1>3. QED
  BY <1>1, <1>2 DEF Admission!ProcessDies, Refused

\* The gauge, its lock and the handlers' return paths implement admission
\* control: at most TotalQueue requests are ever in service and 429 is sent
\* only when every place is taken (main.go:377-395).
THEOREM GaugeImplementsAdmission == Spec => ImplementsAdmission
<1>1. Init => Admission!Init
  BY DEF Init, Admission!Init, InService, Owning
<1>2. IInv /\ [Next]_vars => [Admission!Next]_<<InService, Refused>>
  <2> SUFFICES ASSUME IInv, [Next]_vars
               PROVE  Admission!Next \/ UNCHANGED <<InService, Refused>>
    OBVIOUS
  <2>1. ASSUME NEW r \in Reqs, Handler(r)
        PROVE  Admission!Next \/ UNCHANGED <<InService, Refused>>
    BY <2>1, TakeAdmits, RejectRefuses, ReleaseLeaves, QuietHandlerStep
    DEF Handler, Admission!Next
  <2>2. CASE BootPanic \/ WorkerPanic \/ PushPanic
    BY <2>2, DieIsReset
    DEF BootPanic, WorkerPanic, PushPanic, Admission!Next
  <2>3. CASE Restart \/ BootPublish \/ BootSkip
    <3>1. UNCHANGED handlers
      BY <2>3 DEF Restart, BootPublish, BootSkip
    <3>2. QED
      BY <3>1, GoroutinesStutter
  <2>4. CASE UpdateRa \/ StartWorker \/ CooldownOver \/ ActionPushMetrix
    <3>1. UNCHANGED handlers
      BY <2>4 DEF UpdateRa, RaLock, RaEmpty, RaRate, RaReset, RaSend,
                  StartWorker, WorkerReceive, WorkerUpdated, CooldownOver,
                  ActionPushMetrix, PushStart, PushDone
    <3>2. QED
      BY <3>1, GoroutinesStutter
  <2>5. CASE UNCHANGED vars
    BY <2>5, GoroutinesStutter DEF vars
  <2>6. QED
    BY <2>1, <2>2, <2>3, <2>4, <2>5 DEF Next, Boot
<1>3. QED
  BY <1>1, <1>2, Invariance, PTL
  DEF Spec, ImplementsAdmission, Admission!Spec, Admission!acVars, Refused

-----------------------------------------------------------------------------
(***************************************************************************)
(* metrixMu comes free.  UpdateRa keeps it while it waits for room in      *)
(* JobChannel, and handlers need it to leave: that this is no deadlock is  *)
(* the safety part of AdmittedIsAnswered and WindowCloses, which add the   *)
(* fairness of the steps below.                                            *)
(***************************************************************************)
Full == Len(jobChan) >= ChanCap

\* Steps of the worker until there is room in JobChannel.
Drain == IF ~Full THEN 0 ELSE IF workerPC = "update" THEN 2 ELSE 1

\* Steps until UpdateRa gives the lock back, at most.
RaLeft ==
  CASE raPC = "locked" -> Drain + 3
    [] raPC = "reset"  -> Drain + 2
    [] OTHER           -> Drain + 1

\* Steps until the lock can be taken, at most.
HeldFor ==
  IF lock = RaUpdater THEN RaLeft
  ELSE IF lock \in Reqs THEN IF pc[lock] = "check" THEN 2 ELSE 1
  ELSE IF pushPC = "hset" THEN 1 ELSE 0

\* The steps it takes: of whoever holds the lock, and of the weight worker
\* while UpdateRa waits for it.
Drives ==
  \/ \E r \in Reqs : Reject(r) \/ Check(r) \/ Take(r)
  \/ RaEmpty \/ RaRate \/ RaReset \/ RaSend
  \/ lock = RaUpdater /\ Full /\ StartWorker
  \/ PushDone

\* The guard of one of them holds.
Unblocked ==
  \/ \E r \in Reqs : pc[r] = "check" /\ (freeQueue <= 0 \/ freeQueue > 0)
  \/ \E r \in Reqs : pc[r] = "take"
  \/ raPC = "locked" /\ (requestDone = 0 \/ Elapsed # {})
  \/ raPC = "reset"
  \/ raPC = "send" /\ Len(jobChan) < ChanCap
  \/ lock = RaUpdater /\ Full
       /\ \/ workerPC = "update"
          \/ phase = "up" /\ workerPC = "recv" /\ jobChan # << >>
  \/ pushPC = "hset"

\* A process that is not up does not update Ra.
RaNeedsProcess == raPC # "sleep" => phase = "up"

LEMMA RaNeedsProcessInv ==
  IInv /\ RaNeedsProcess /\ [Next]_vars => RaNeedsProcess'
<1> SUFFICES ASSUME IInv, RaNeedsProcess, [Next]_vars PROVE RaNeedsProcess'
  OBVIOUS
<1> USE DEF RaNeedsProcess, process, rates
<1>1. ASSUME NEW r \in Reqs, Handler(r) PROVE RaNeedsProcess'
  BY <1>1 DEF Handler, Enter, Reject, Check, Take, Bind, Query, Count, Release
<1>2. CASE UpdateRa
  BY <1>2 DEF UpdateRa, RaLock, RaEmpty, RaRate, RaReset, RaSend
<1>3. CASE StartWorker \/ CooldownOver \/ ActionPushMetrix
  BY <1>3 DEF StartWorker, WorkerReceive, WorkerUpdated, CooldownOver,
              ActionPushMetrix, PushStart, PushDone
<1>4. CASE Boot \/ WorkerPanic \/ PushPanic
  BY <1>4 DEF Boot, Restart, BootPublish, BootSkip, BootPanic, WorkerPanic,
              PushPanic, Die
<1>5. CASE UNCHANGED vars
  BY <1>5 DEF vars
<1> QED
  BY <1>1, <1>2, <1>3, <1>4, <1>5 DEF Next

LEMMA HeldForType ==
  ASSUME IInv
  PROVE  /\ Drain \in 0..2 /\ RaLeft \in (Drain + 1)..(Drain + 3)
         /\ HeldFor \in Nat /\ (HeldFor > 0 <=> ~CanLock)
<1>1. Drain \in 0..2
  BY DEF Drain
<1>2. RaLeft \in (Drain + 1)..(Drain + 3)
  BY <1>1 DEF RaLeft
<1>3. lock \in Reqs \cup {RaUpdater, Nobody}
  BY DEF IInv, TypeOK
<1>4. RaLeft > 0 /\ RaLeft \in Nat
  BY <1>1, <1>2
<1>5. pushPC \in {"sleep", "hset"}
  BY DEF IInv, TypeOK
<1> QED
  BY <1>1, <1>2, <1>3, <1>4, <1>5, CQSBackendAssumption
  DEF HeldFor, CanLock

\* The holder of the lock is never stuck.
LEMMA HolderUnblocked ==
  ASSUME IInv, RaNeedsProcess, HeldFor > 0
  PROVE  Unblocked
<1>1. lock \in Reqs \cup {RaUpdater, Nobody} /\ freeQueue \in Int
  BY CQSBackendAssumption DEF IInv, TypeOK
<1>2. CASE lock \in Reqs
  BY <1>1, <1>2 DEF IInv, LockOwners, Unblocked
<1>3. CASE lock = RaUpdater
  <2>1. raPC \in {"locked", "reset", "send"} /\ phase = "up"
    BY <1>3 DEF IInv, TypeOK, LockOwners, RaNeedsProcess
  <2>2. CASE raPC = "locked"
    BY <2>2, CQSBackendAssumption DEF Unblocked
  <2>3. CASE raPC = "reset"
    BY <2>3 DEF Unblocked
  <2>4. CASE raPC = "send"
    <3>1. /\ Len(jobChan) \in Nat /\ ChanCap \in Nat \ {0}
          /\ workerPC \in {"recv", "update"}
      BY CQSBackendAssumption, LenProperties DEF IInv, TypeOK
    <3>2. CASE Len(jobChan) < ChanCap
      BY <2>4, <3>2 DEF Unblocked
    <3>3. CASE Full
      <4>1. jobChan # << >>
        BY <3>1, <3>3, EmptySeq DEF Full
      <4> QED
        BY <1>3, <2>1, <3>1, <3>3, <4>1 DEF Unblocked
    <3> QED
      BY <3>1, <3>2, <3>3 DEF Full
  <2> QED
    BY <2>1, <2>2, <2>3, <2>4
<1>4. CASE lock = Nobody
  <2>1. pushPC = "hset"
    BY <1>4, CQSBackendAssumption DEF HeldFor
  <2> QED
    BY <2>1 DEF Unblocked
<1> QED
  BY <1>1, <1>2, <1>3, <1>4

\* Each of its steps, and of the worker it waits for, brings the lock nearer.
LEMMA DrivesReleases ==
  ASSUME IInv, IInv', Drives
  PROVE  HeldFor' < HeldFor
<1> USE CQSBackendAssumption, HeldForType
<1>0. /\ lock \in Reqs \cup {RaUpdater, Nobody}
      /\ pushPC = "hset" => lock = Nobody
      /\ \A r \in Reqs : pc[r] \in {"check", "take"} <=> lock = r
      /\ raPC # "sleep" <=> lock = RaUpdater
  BY DEF IInv, TypeOK, LockOwners
<1>1. ASSUME NEW r \in Reqs, Reject(r) \/ Check(r) \/ Take(r)
      PROVE  HeldFor' < HeldFor
  <2>1. lock = r /\ pushPC # "hset"
    BY <1>0, <1>1 DEF Reject, Check, Take
  <2>2. HeldFor = IF pc[r] = "check" THEN 2 ELSE 1
    BY <2>1 DEF HeldFor
  <2>3. CASE Reject(r) \/ Take(r)
    <3>1. lock' = Nobody /\ pushPC' = pushPC
      BY <2>3 DEF Reject, Take, push
    <3>2. HeldFor' = 0
      BY <2>1, <3>1 DEF HeldFor
    <3> QED
      BY <2>2, <3>2
  <2>4. CASE Check(r)
    <3>1. lock' = r /\ pc[r] = "check" /\ pc'[r] = "take"
      BY <2>1, <2>4 DEF Check, IInv, TypeOK
    <3>2. HeldFor' = 1
      BY <3>1 DEF HeldFor
    <3> QED
      BY <2>2, <3>1, <3>2
  <2> QED
    BY <1>1, <2>3, <2>4
<1>2. CASE RaEmpty \/ RaSend
  <2>1. lock = RaUpdater /\ pushPC # "hset"
    BY <1>0, <1>2 DEF RaEmpty, RaSend
  <2>2. lock' = Nobody /\ pushPC' = pushPC
    BY <1>2 DEF RaEmpty, RaSend, push
  <2>3. HeldFor' = 0 /\ HeldFor > 0
    BY <2>1, <2>2 DEF HeldFor
  <2> QED
    BY <2>3
<1>3. CASE RaRate \/ RaReset
  <2>1. lock = RaUpdater /\ lock' = RaUpdater
    BY <1>0, <1>3 DEF RaRate, RaReset
  <2>2. Drain' = Drain
    BY <1>3 DEF RaRate, RaReset, worker, Drain, Full
  <2>3. HeldFor = RaLeft /\ HeldFor' = RaLeft'
    BY <2>1 DEF HeldFor
  <2>4. RaLeft' = RaLeft - 1
    BY <1>3, <2>2 DEF RaRate, RaReset, RaLeft
  <2> QED
    BY <2>3, <2>4
<1>4. CASE lock = RaUpdater /\ Full /\ StartWorker
  <2>1. lock' = RaUpdater /\ raPC' = raPC
    BY <1>4 DEF StartWorker, WorkerReceive, WorkerUpdated, rates
  <2>2. Drain' < Drain
    <3>1. CASE WorkerReceive
      <4>1. /\ jobChan \in Seq(Classes) /\ jobChan # << >>
            /\ jobChan' = Tail(jobChan) /\ workerPC = "recv"
            /\ Len(jobChan) <= ChanCap
        BY <3>1 DEF WorkerReceive, IInv, TypeOK
      <4>2. Len(jobChan') = Len(jobChan) - 1 /\ Len(jobChan) \in Nat
        BY <4>1, HeadTailProperties, LenProperties
      <4>3. ~Full' /\ Drain = 1
        BY <1>4, <4>1, <4>2 DEF Full, Drain
      <4> QED
        BY <4>3 DEF Drain
    <3>2. CASE WorkerUpdated
      <4>1. workerPC = "update" /\ workerPC' = "recv" /\ Full'
        BY <1>4, <3>2 DEF WorkerUpdated, Full
      <4> QED
        BY <1>4, <4>1 DEF Drain
    <3> QED
      BY <1>4, <3>1, <3>2 DEF StartWorker
  <2>3. HeldFor = RaLeft /\ HeldFor' = RaLeft'
    BY <1>4, <2>1 DEF HeldFor
  <2>4. Drain \in Int /\ Drain' \in Int
    BY DEF Drain
  <2>5. RaLeft' < RaLeft
    BY <2>1, <2>2, <2>4 DEF RaLeft
  <2> QED
    BY <2>3, <2>5
<1>5. CASE PushDone
  <2>1. lock = Nobody /\ lock' = Nobody /\ pushPC = "hset" /\ pushPC' = "sleep"
    BY <1>0, <1>5 DEF PushDone
  <2> QED
    BY <2>1 DEF HeldFor
<1> QED
  BY <1>1, <1>2, <1>3, <1>4, <1>5 DEF Drives

\* Nothing that happens meanwhile keeps it away.
LEMMA OthersWait ==
  ASSUME IInv, IInv', HeldFor > 0, [Next]_vars, ~Drives
  PROVE  HeldFor' <= HeldFor
<1> USE CQSBackendAssumption, HeldForType
<1>0. ~CanLock
  OBVIOUS
<1>1. CASE UNCHANGED <<lock, pushPC, raPC, jobChan, workerPC>> /\ \A r \in Reqs : pc[r] = "check" <=> pc'[r] = "check"
  <2>1. Drain' = Drain /\ lock' = lock /\ pushPC' = pushPC
    BY <1>1 DEF Drain, Full
  <2>2. RaLeft' = RaLeft
    BY <1>1, <2>1 DEF RaLeft
  <2>3. HeldFor' = HeldFor
    BY <1>1, <2>1, <2>2 DEF HeldFor
  <2> QED
    BY <2>3
<1>2. ASSUME NEW r \in Reqs, Handler(r) PROVE HeldFor' <= HeldFor
  <2>1. Bind(r) \/ Query(r)
    BY <1>0, <1>2 DEF Handler, Drives, Enter, Count, Release
  <2>2. /\ UNCHANGED <<lock, pushPC, raPC, jobChan, workerPC>>
        /\ \A q \in Reqs : pc[q] = "check" <=> pc'[q] = "check"
    BY <2>1 DEF Bind, Query, rates, worker, push, IInv, TypeOK
  <2> QED
    BY <1>1, <2>2
<1>3. CASE UpdateRa
  BY <1>0, <1>3 DEF UpdateRa, RaLock, Drives
<1>4. CASE StartWorker
  <2>1. ~(lock = RaUpdater /\ Full)
    BY <1>4 DEF Drives
  <2>2. UNCHANGED <<lock, pushPC, raPC, pc>>
    BY <1>4 DEF StartWorker, WorkerReceive, WorkerUpdated, rates, push, handlers
  <2>3. lock # RaUpdater => HeldFor' = HeldFor
    BY <2>2 DEF HeldFor
  <2>4. CASE lock = RaUpdater
    <3>1. ~Full'
      <4>1. CASE WorkerReceive
        <5>1. jobChan \in Seq(Classes) /\ jobChan # << >> /\ jobChan' = Tail(jobChan)
          BY <4>1 DEF WorkerReceive, IInv, TypeOK
        <5>2. Len(jobChan') = Len(jobChan) - 1 /\ Len(jobChan) \in Nat
          BY <5>1, HeadTailProperties, LenProperties
        <5> QED
          BY <2>1, <2>4, <5>2 DEF Full
      <4>2. CASE WorkerUpdated
        BY <2>1, <2>4, <4>2 DEF WorkerUpdated, Full
      <4> QED
        BY <1>4, <4>1, <4>2 DEF StartWorker
    <3>2. Drain = 0 /\ Drain' = 0
      BY <2>1, <2>4, <3>1 DEF Drain
    <3>3. RaLeft' = RaLeft
      BY <2>2, <3>2 DEF RaLeft
    <3> QED
      BY <2>2, <2>4, <3>3 DEF HeldFor
  <2> QED
    BY <2>3, <2>4
<1>5. CASE CooldownOver \/ Restart \/ BootPublish \/ BootSkip \/ UNCHANGED vars
  <2>1. UNCHANGED <<lock, pushPC, raPC, jobChan, workerPC, pc>>
    BY <1>5 DEF CooldownOver, Restart, BootPublish, BootSkip, vars, rates, worker,
                push, handlers
  <2> QED
    BY <1>1, <2>1
<1>6. CASE ActionPushMetrix
  <2>1. PushStart
    BY <1>6 DEF ActionPushMetrix, Drives
  <2>2. lock = Nobody /\ pushPC = "sleep"
    BY <2>1 DEF PushStart, CanRLock
  <2> QED
    BY <1>0, <2>2 DEF CanLock
<1>7. CASE BootPanic \/ WorkerPanic \/ PushPanic
  <2>1. lock' = Nobody /\ pushPC' = "sleep"
    BY <1>7 DEF BootPanic, WorkerPanic, PushPanic, Die
  <2>2. HeldFor' = 0
    BY <2>1 DEF HeldFor
  <2> QED
    BY <2>2
<1> QED
  BY <1>2, <1>3, <1>4, <1>5, <1>6, <1>7 DEF Next, Boot

\* metrixMu always comes free: while it cannot be taken, a step of the holder,
\* or of the weight worker it waits for, is open, every such step brings the
\* moment nearer, and no other step puts it off - however full JobChannel is
\* (main.go:177) and however many handlers wait (main.go:389, 414).
THEOREM LockIsGivenBack ==
  Spec => /\ [](~CanLock => Unblocked)
          /\ [][~CanLock => /\ HeldFor' <= HeldFor
                            /\ Drives => HeldFor' < HeldFor]_vars
<1>1. Init => RaNeedsProcess
  BY DEF Init, RaNeedsProcess
<1>2. IInv /\ RaNeedsProcess => (~CanLock => Unblocked)
  BY HeldForType, HolderUnblocked
<1>3. IInv /\ IInv' /\ [Next]_vars
        => [~CanLock => /\ HeldFor' <= HeldFor
                        /\ Drives => HeldFor' < HeldFor]_vars
  <2> SUFFICES ASSUME IInv, IInv', [Next]_vars, ~CanLock
               PROVE  HeldFor' <= HeldFor /\ (Drives => HeldFor' < HeldFor)
    OBVIOUS
  <2>0. HeldFor' \in Nat
    BY DEF HeldFor, RaLeft, Drain
  <2>1. HeldFor > 0 /\ HeldFor \in Nat /\ HeldFor' \in Nat
    BY <2>0, HeldForType
  <2>2. CASE Drives
    BY <2>1, <2>2, DrivesReleases
  <2>3. CASE ~Drives
    BY <2>1, <2>3, OthersWait
  <2> QED
    BY <2>2, <2>3
<1> QED
  BY <1>1, <1>2, <1>3, RaNeedsProcessInv, Invariance, PTL DEF Spec
=============================================================================
