--------------------------- MODULE CQSWeightsProofs ---------------------------
(***************************************************************************)
(* The weight hash keeps its two promises for any number of backends, any  *)
(* epsilon, any number of updates and failures: no weight falls below the  *)
(* floor, and the weights sum to one whenever nobody is mid-update.        *)
(***************************************************************************)
EXTENDS CQSWeights, TLAPS

-----------------------------------------------------------------------------
\* Arithmetic of the fixed-point weights.

\* A quotient is the only natural that brackets the dividend.
LEMMA DivBracket ==
  ASSUME NEW n \in Nat, NEW d \in Nat \ {0}
  PROVE  /\ n \div d \in Nat
         /\ d * (n \div d) <= n
         /\ n < d * (n \div d) + d
  BY SMT

\* A dividend of at least k divisors has a quotient of at least k.
LEMMA DivAtLeast ==
  ASSUME NEW n \in Nat, NEW d \in Nat \ {0}, NEW k \in Nat, n >= k * d
  PROVE  n \div d >= k
<1> DEFINE q == n \div d
<1>1. q \in Nat /\ n < d * q + d
  BY DivBracket
<1>2. SUFFICES ASSUME q < k PROVE FALSE
  BY <1>1, SMT
<1>3. d * (q + 1) <= d * k
  <2>1. q + 1 <= k /\ q + 1 \in Nat
    BY <1>1, <1>2, SMT
  <2> HIDE DEF q
  <2>2. QED
    BY <2>1, SMT
<1>4. d * (q + 1) = d * q + d
  <2> HIDE DEF q
  <2>1. QED
    BY <1>1, SMT
<1>5. QED
  <2>1. n >= d * k
    BY SMT
  <2> HIDE DEF q
  <2>2. d * k \in Nat /\ d * q \in Nat
    BY <1>1, SMT
  <2>3. QED
    BY <1>1, <1>3, <1>4, <2>1, <2>2, SMT

\* Dividing is monotone in the dividend.
LEMMA DivMonotone ==
  ASSUME NEW m \in Nat, NEW n \in Nat, NEW d \in Nat \ {0}, m <= n
  PROVE  m \div d <= n \div d
<1>1. m \div d \in Nat /\ d * (m \div d) <= m
  BY DivBracket
<1>2. n >= (m \div d) * d
  BY <1>1, SMT
<1>3. QED
  BY <1>1, <1>2, DivAtLeast

\* The smallest share a clamped weight can have next to two full ones.
LEMMA FloorValue == Floor = 47
  BY SMT DEF Floor, Minimum, Scale

LEMMA ClampRange == \A v \in Nat : Clamp(v) \in Minimum..Scale
  BY SMT DEF Clamp, Minimum, Scale

LEMMA ClampMonotone ==
  \A v, w \in Nat : v <= w => Clamp(v) <= Clamp(w)
  BY SMT DEF Clamp, Minimum, Scale

LEMMA ClampedRange ==
  ASSUME NEW w \in [Fields -> Nat], NEW f \in Fields
  PROVE  Clamped(w)[f] \in 100..1000
<1> DEFINE x == Clamped(w)[f]
<1>1. x = Clamp(w[f])
  BY Zenon DEF Clamped
<1>2. w[f] \in Nat
  OBVIOUS
<1>3. x \in Minimum..Scale
  BY <1>1, <1>2, ClampRange
<1> HIDE DEF x
<1>4. x \in 100..1000
  BY <1>3 DEF Minimum, Scale
<1> QED
  BY <1>4 DEF x

\* What the normalisation divides by.
LEMMA ClampedTotal ==
  ASSUME NEW w \in [Fields -> Nat]
  PROVE  /\ \A f \in Fields : Clamped(w)[f] \in Minimum..Scale
         /\ Total(Clamped(w)) \in Nat \ {0}
         /\ \A f \in Fields : Clamped(w)[f] * Scale >= Floor * Total(Clamped(w))
<1> DEFINE a == Clamped(w)["A"]
           b == Clamped(w)["B"]
           c == Clamped(w)["C"]
<1>1. \A f \in Fields : Clamped(w)[f] \in Minimum..Scale
  <2>1. Minimum..Scale = 100..1000
    BY DEF Minimum, Scale
  <2> QED
    BY <2>1, ClampedRange
<1>2. a \in 100..1000 /\ b \in 100..1000 /\ c \in 100..1000
  <2>1. "A" \in Fields /\ "B" \in Fields /\ "C" \in Fields
    BY DEF Fields
  <2> QED
    BY <2>1, ClampedRange
<1>3. Total(Clamped(w)) = a + b + c
  BY DEF Total
<1>4. ASSUME NEW f \in Fields
      PROVE  Clamped(w)[f] \in {a, b, c}
  BY DEF Fields
<1> HIDE DEF a, b, c
<1>5. Total(Clamped(w)) \in Nat \ {0}
  BY <1>2, <1>3, SMT
<1>6. ASSUME NEW f \in Fields
      PROVE  Clamped(w)[f] * Scale >= Floor * Total(Clamped(w))
  <2>1. a * 1000 >= 47 * (a + b + c) /\ b * 1000 >= 47 * (a + b + c)
        /\ c * 1000 >= 47 * (a + b + c)
    BY <1>2, SMT
  <2>2. QED
    BY <1>3, <1>4, <2>1, FloorValue, SMT DEF Scale
<1>7. QED
  BY <1>1, <1>5, <1>6

\* A normalised weight is no smaller than the floor.
LEMMA NormalizeFloor ==
  ASSUME NEW w \in [Fields -> Nat]
  PROVE  /\ Normalize(w) \in [Fields -> Nat]
         /\ \A f \in Fields : Normalize(w)[f] >= Floor
<1>1. ASSUME NEW f \in Fields
      PROVE  /\ Normalize(w)[f] = (Clamped(w)[f] * Scale) \div Total(Clamped(w))
             /\ Normalize(w)[f] \in Nat
             /\ Normalize(w)[f] >= Floor
  <2>1. Clamped(w)[f] * Scale \in Nat
    <3> DEFINE x == Clamped(w)[f]
    <3>1. x \in 100..1000
      BY ClampedRange
    <3> HIDE DEF x
    <3>2. x * Scale \in Nat
      BY <3>1, SMT DEF Scale
    <3>3. QED
      BY <3>2 DEF x
  <2>2. Normalize(w)[f] = (Clamped(w)[f] * Scale) \div Total(Clamped(w))
    BY Zenon DEF Normalize
  <2>3. Floor \in Nat
    BY FloorValue
  <2>4. QED
    BY <2>1, <2>2, <2>3, ClampedTotal, DivBracket, DivAtLeast
<1>2. QED
  BY <1>1 DEF Normalize

\* Normalising never changes which of two weights is the larger one: a raised
\* weight cannot drop below one it had overtaken.
LEMMA NormalizeKeepsOrder ==
  ASSUME NEW w \in [Fields -> Nat], NEW f \in Fields, NEW g \in Fields,
         w[f] <= w[g]
  PROVE  Normalize(w)[f] <= Normalize(w)[g]
<1> DEFINE p == Clamped(w)[f]
           q == Clamped(w)[g]
           t == Total(Clamped(w))
<1>1. p <= q
  BY ClampMonotone DEF Clamped
<1>2. p \in 100..1000 /\ q \in 100..1000 /\ t \in Nat \ {0}
  BY ClampedRange, ClampedTotal
<1>3. Normalize(w)[f] = (p * Scale) \div t /\ Normalize(w)[g] = (q * Scale) \div t
  BY Zenon DEF Normalize
<1> HIDE DEF p, q, t
<1>4. p * Scale \in Nat /\ q * Scale \in Nat /\ p * Scale <= q * Scale
  BY <1>1, <1>2, SMT DEF Scale
<1>5. (p * Scale) \div t <= (q * Scale) \div t
  BY <1>2, <1>4, DivMonotone
<1>6. QED
  BY <1>3, <1>5

\* The three quotients lose less than one unit each.
LEMMA NormalizeSum ==
  ASSUME NEW w \in [Fields -> Nat]
  PROVE  Normalized(Normalize(w))
<1> DEFINE a == Clamped(w)["A"]
           b == Clamped(w)["B"]
           c == Clamped(w)["C"]
           t == Total(Clamped(w))
           x == (a * Scale) \div t
           y == (b * Scale) \div t
           z == (c * Scale) \div t
<1>1. /\ a \in 100..1000 /\ b \in 100..1000 /\ c \in 100..1000
      /\ t \in Nat \ {0}
  <2>1. "A" \in Fields /\ "B" \in Fields /\ "C" \in Fields
    BY DEF Fields
  <2> QED
    BY <2>1, ClampedRange, ClampedTotal
<1>2. t = a + b + c
  BY DEF Total
<1>3. Total(Normalize(w)) = x + y + z
  BY Zenon DEF Total, Normalize, Fields
<1> HIDE DEF a, b, c, t
<1>4. a * Scale \in Nat /\ b * Scale \in Nat /\ c * Scale \in Nat
  BY <1>1, SMT DEF Scale
<1>5. /\ x \in Nat /\ t * x <= a * Scale /\ a * Scale < t * x + t
      /\ y \in Nat /\ t * y <= b * Scale /\ b * Scale < t * y + t
      /\ z \in Nat /\ t * z <= c * Scale /\ c * Scale < t * z + t
  <2>1. x \in Nat /\ t * x <= a * Scale /\ a * Scale < t * x + t
    BY <1>1, <1>4, DivBracket
  <2>2. y \in Nat /\ t * y <= b * Scale /\ b * Scale < t * y + t
    BY <1>1, <1>4, DivBracket
  <2>3. z \in Nat /\ t * z <= c * Scale /\ c * Scale < t * z + t
    BY <1>1, <1>4, DivBracket
  <2> QED
    BY <2>1, <2>2, <2>3
<1> HIDE DEF x, y, z
<1>6. t * (x + y + z) = t * x + t * y + t * z
  BY <1>1, <1>5, SMT
<1>7. t * (x + y + z) <= t * 1000
  BY <1>1, <1>2, <1>5, <1>6, SMT DEF Scale
<1>8. t * 1000 < t * (x + y + z) + 3 * t
  BY <1>1, <1>2, <1>5, <1>6, SMT DEF Scale
<1>9. x + y + z <= 1000 /\ 1000 < x + y + z + 3
  BY <1>1, <1>5, <1>7, <1>8, SMT
<1>10. QED
  BY <1>3, <1>5, <1>9, SMT DEF Normalized, Scale

-----------------------------------------------------------------------------
\* The stages between a worker's first write and the end of its
\* normalisation: only then may the hash be unnormalised.
Pending == {"readAll", "writeAll"} \cup SeedStages

Sound(w) == \A f \in Fields : w[f] # Missing => w[f] >= Floor

WeightTypes ==
  /\ hash \in [Fields -> Nat]
  /\ pc \in [Workers -> Stages]
  /\ field \in [Workers -> Fields] /\ factor \in [Workers -> Nat]
  /\ reg \in [Workers -> Nat] /\ view \in [Workers -> [Fields -> Nat]]

\* What a worker is about to write back is no smaller than the floor: a
\* backend only raises what it read.
RegistersSound ==
  /\ \A u \in Workers : pc[u] = "set" => reg[u] >= Floor
  /\ \A b \in Backends : factor[b] >= Scale

Settled ==
  \/ \E u \in Workers : pc[u] \in Pending
  \/ unsettled \/ hash = NoHash \/ Normalized(hash)

BackendsDoNotSeed == \A b \in Backends : pc[b] \notin SeedStages

IInv ==
  WeightTypes /\ Sound(hash) /\ RegistersSound /\ Settled /\ BackendsDoNotSeed

\* The factors of an update: raises never shrink, lowers stay positive.
LEMMA EpsilonScales ==
  /\ \A k \in Raises : k \in Nat /\ k >= Scale
  /\ \A k \in Lowers : k \in Nat
  BY CQSWeightsAssumption, SMT DEF Raises, Lowers, Scale

\* The seed values keep the floor and sum to one.
LEMMA DefaultSound ==
  /\ Default \in [Fields -> Nat] /\ \A f \in Fields : Default[f] >= Floor
  /\ Normalized(Default)
<1>1. Default \in [Fields -> Nat] /\ \A f \in Fields : Default[f] >= Floor
  BY FloorValue, SMT DEF Default
<1>2. Default["A"] = 800 /\ Default["B"] = 100 /\ Default["C"] = 100
  BY SMT DEF Default, Fields
<1>3. QED
  BY <1>1, <1>2, SMT DEF Normalized, Total, Scale

LEMMA InitIInv == Init => IInv
<1> SUFFICES ASSUME Init PROVE IInv
  OBVIOUS
<1> USE CQSWeightsAssumption DEF Init
<1>1. WeightTypes
  <2>1. hash \in [Fields -> Nat] /\ Default \in [Fields -> Nat]
    BY SMT DEF NoHash, Missing, Default
  <2>2. factor \in [Workers -> Nat] /\ reg \in [Workers -> Nat]
    BY SMT DEF Scale
  <2>3. field \in [Workers -> Fields] /\ pc \in [Workers -> Stages]
    BY DEF Fields, Stages, SeedStages
  <2>4. QED
    BY <2>1, <2>2, <2>3 DEF WeightTypes
<1>2. Sound(hash)
  BY DEF Sound, NoHash
<1>3. RegistersSound
  <2>1. \A b \in Backends : b \in Workers
    BY DEF Workers
  <2>2. \A u \in Workers : pc[u] # "set"
    BY DEF Workers
  <2>3. \A b \in Backends : factor[b] >= Scale
    <3>1. \A b \in Backends : factor[b] = Scale
      BY <2>1
    <3>2. Scale >= Scale
      BY SMT DEF Scale
    <3>3. QED
      BY <3>1, <3>2, Zenon
  <2>4. QED
    BY <2>2, <2>3 DEF RegistersSound
<1>4. Settled
  BY DEF Settled
<1>5. BackendsDoNotSeed
  BY DEF BackendsDoNotSeed, SeedStages, Workers
<1>6. QED
  BY <1>1, <1>2, <1>3, <1>4, <1>5 DEF IInv

\* What a worker writes back keeps the floor.
LEMMA NewValueSound ==
  ASSUME IInv, NEW u \in Workers, pc[u] = "set"
  PROVE  NewValue(u) \in Nat /\ NewValue(u) >= Floor
<1>1. reg[u] \in Nat /\ factor[u] \in Nat /\ reg[u] >= Floor
  BY DEF IInv, WeightTypes, RegistersSound
<1>2. reg[u] * factor[u] \in Nat
  BY <1>1, SMT
<1>3. Scaled(reg[u], factor[u]) \in Nat
  BY <1>2, DivBracket, SMT DEF Scaled, Scale
<1>4. CASE u = Client
  <2>1. Clamp(Scaled(reg[u], factor[u])) \in Minimum..Scale
    BY <1>3, ClampRange
  <2>2. QED
    BY <1>4, <2>1, FloorValue, SMT DEF NewValue, Minimum, Scale
<1>5. CASE u # Client
  <2>1. factor[u] >= Scale
    BY <1>5 DEF IInv, RegistersSound, Workers
  <2>2. reg[u] * factor[u] >= reg[u] * Scale
    BY <1>1, <2>1, SMT DEF Scale
  <2>3. Scaled(reg[u], factor[u]) >= reg[u]
    BY <1>1, <1>2, <2>2, DivAtLeast, SMT DEF Scaled, Scale
  <2>4. QED
    BY <1>1, <1>3, <1>5, <2>3, FloorValue, SMT DEF NewValue
<1>6. QED
  BY <1>4, <1>5


\* No step of a worker breaks the invariant.  A write of one field leaves the
\* worker in a pending stage; a worker leaves those stages by overwriting the
\* whole hash, or by a failure, which Settled remembers.
LEMMA WorkerStep ==
  ASSUME IInv, NEW u \in Workers, Worker(u)
  PROVE  IInv'
<1> USE CQSWeightsAssumption DEF local, history, Goto
<1>1. CASE Seed(u)
  <2> USE <1>1 DEF Seed
  <2>1. WeightTypes'
    <3>1. \A f \in Fields : Default[f] \in Nat
      BY SMT DEF Default
    <3>2. hash' \in [Fields -> Nat]
      BY <3>1 DEF IInv, WeightTypes
    <3>3. pc' \in [Workers -> Stages]
      BY DEF IInv, WeightTypes, AfterSeed, Stages, SeedStages
    <3>4. QED
      BY <3>2, <3>3 DEF IInv, WeightTypes
  <2>2. Sound(hash)'
    <3>1. \A f \in Fields : Default[f] >= Floor
      BY FloorValue, SMT DEF Default
    <3>2. QED
      BY <3>1 DEF IInv, WeightTypes, Sound
  <2>3. RegistersSound'
    BY DEF IInv, WeightTypes, RegistersSound, AfterSeed, Workers
  <2>4. Settled'
    <3>1. pc'[u] \in Pending
      BY DEF IInv, WeightTypes, AfterSeed, Pending, SeedStages
    <3>2. QED
      BY <3>1 DEF Settled
  <2>5. BackendsDoNotSeed'
    BY DEF IInv, WeightTypes, BackendsDoNotSeed, SeedStages, Workers
  <2>6. QED
    BY <2>1, <2>2, <2>3, <2>4, <2>5 DEF IInv
<1>2. CASE Begin(u)
  <2> USE <1>2 DEF Begin
  <2>1. WeightTypes'
    <3>1. PICK f \in IF u = Client THEN {"A", "B"} ELSE {"C"},
               k \in Raises \cup Lowers :
                  field' = [field EXCEPT ![u] = f]
                  /\ factor' = [factor EXCEPT ![u] = k]
      BY DEF Raises, Lowers
    <3>2. k \in Nat /\ f \in Fields
      BY EpsilonScales DEF Fields
    <3>3. QED
      BY <3>1, <3>2 DEF IInv, WeightTypes, Stages, Scale
  <2>2. Sound(hash)'
    BY DEF IInv, Sound
  <2>3. RegistersSound'
    <3>1. \A b \in Backends : factor'[b] >= Scale
      <4>1. CASE u = Client
        BY <4>1 DEF IInv, WeightTypes, RegistersSound, Workers
      <4>2. CASE u # Client
        <5>1. PICK k \in Raises : factor' = [factor EXCEPT ![u] = k]
          BY <4>2
        <5>2. QED
          BY <5>1, EpsilonScales DEF IInv, WeightTypes, RegistersSound, Workers
      <4>3. QED
        BY <4>1, <4>2
    <3>2. QED
      BY <3>1 DEF IInv, WeightTypes, RegistersSound
  <2>4. Settled'
    <3>1. \A v \in Workers : pc[v] \in Pending => pc'[v] \in Pending
      BY DEF IInv, WeightTypes, Pending, SeedStages
    <3>2. hash' = hash /\ (unsettled => unsettled')
      OBVIOUS
    <3>3. QED
      BY <3>1, <3>2 DEF IInv, Settled, NoHash, Normalized, Total
  <2>5. BackendsDoNotSeed'
    BY DEF IInv, WeightTypes, BackendsDoNotSeed, SeedStages, Workers
  <2>6. QED
    BY <2>1, <2>2, <2>3, <2>4, <2>5 DEF IInv
<1>3. CASE Get(u)
  <2> USE <1>3 DEF Get
  <2>1. WeightTypes'
    BY DEF IInv, WeightTypes, Stages
  <2>2. Sound(hash)'
    BY DEF IInv, Sound
  <2>3. RegistersSound'
    BY DEF IInv, WeightTypes, RegistersSound, Sound, Workers
  <2>4. Settled'
    <3>1. \A v \in Workers : pc[v] \in Pending => pc'[v] \in Pending
      BY DEF IInv, WeightTypes, Pending, SeedStages
    <3>2. hash' = hash /\ (unsettled => unsettled')
      OBVIOUS
    <3>3. QED
      BY <3>1, <3>2 DEF IInv, Settled, NoHash, Normalized, Total
  <2>5. BackendsDoNotSeed'
    BY DEF IInv, WeightTypes, BackendsDoNotSeed, SeedStages, Workers
  <2>6. QED
    BY <2>1, <2>2, <2>3, <2>4, <2>5 DEF IInv
<1>4. CASE GetFails(u)
  <2> USE <1>4 DEF GetFails, Restarted
  <2>1. WeightTypes'
    BY DEF IInv, WeightTypes, Stages
  <2>2. Sound(hash)'
    BY DEF IInv, Sound
  <2>3. RegistersSound'
    BY DEF IInv, WeightTypes, RegistersSound, Workers
  <2>4. Settled'
    <3>1. \A v \in Workers : pc[v] \in Pending => pc'[v] \in Pending
      BY DEF IInv, WeightTypes, Pending, SeedStages
    <3>2. hash' = hash /\ (unsettled => unsettled')
      OBVIOUS
    <3>3. QED
      BY <3>1, <3>2 DEF IInv, Settled, NoHash, Normalized, Total
  <2>5. BackendsDoNotSeed'
    BY DEF IInv, WeightTypes, BackendsDoNotSeed, SeedStages, Workers
  <2>6. QED
    BY <2>1, <2>2, <2>3, <2>4, <2>5 DEF IInv
<1>5. CASE Set(u)
  <2> USE <1>5 DEF Set
  <2>1. WeightTypes'
    BY NewValueSound DEF IInv, WeightTypes, Stages
  <2>2. Sound(hash)'
    BY NewValueSound DEF IInv, WeightTypes, Sound
  <2>3. RegistersSound'
    BY DEF IInv, WeightTypes, RegistersSound, Workers
  <2>4. Settled'
    <3>1. pc'[u] \in Pending
      BY DEF IInv, WeightTypes, Pending
    <3>2. QED
      BY <3>1 DEF Settled
  <2>5. BackendsDoNotSeed'
    BY DEF IInv, WeightTypes, BackendsDoNotSeed, SeedStages, Workers
  <2>6. QED
    BY <2>1, <2>2, <2>3, <2>4, <2>5 DEF IInv
<1>6. CASE SetFails(u)
  <2> USE <1>6 DEF SetFails, Restarted
  <2>1. WeightTypes'
    <3>1. pc' = [pc EXCEPT ![u] = "idle"]
      OBVIOUS
    <3>2. hash' \in [Fields -> Nat]
      BY NewValueSound DEF IInv, WeightTypes
    <3>3. QED
      BY <3>1, <3>2 DEF IInv, WeightTypes, Stages
  <2>2. Sound(hash)'
    BY NewValueSound DEF IInv, WeightTypes, Sound
  <2>3. RegistersSound'
    BY DEF IInv, WeightTypes, RegistersSound, Workers
  <2>4. Settled'
    <3>1. CASE unsettled'
      BY <3>1 DEF Settled
    <3>2. CASE UNCHANGED <<hash, unsettled>>
      BY <3>2 DEF IInv, WeightTypes, Settled, Pending, SeedStages
    <3>3. QED
      BY <3>1, <3>2
  <2>5. BackendsDoNotSeed'
    BY DEF IInv, WeightTypes, BackendsDoNotSeed, SeedStages, Workers
  <2>6. QED
    BY <2>1, <2>2, <2>3, <2>4, <2>5 DEF IInv
<1>7. CASE ReadAll(u)
  <2> USE <1>7 DEF ReadAll
  <2>1. WeightTypes'
    BY DEF IInv, WeightTypes, Stages
  <2>2. Sound(hash)'
    BY DEF IInv, Sound
  <2>3. RegistersSound'
    BY DEF IInv, WeightTypes, RegistersSound, Workers
  <2>4. Settled'
    <3>1. pc'[u] \in Pending
      BY DEF IInv, WeightTypes, Pending
    <3>2. QED
      BY <3>1 DEF Settled
  <2>5. BackendsDoNotSeed'
    BY DEF IInv, WeightTypes, BackendsDoNotSeed, SeedStages, Workers
  <2>6. QED
    BY <2>1, <2>2, <2>3, <2>4, <2>5 DEF IInv
<1>8. CASE WriteAll(u)
  <2> USE <1>8 DEF WriteAll, Return
  <2>1. WeightTypes'
    BY NormalizeFloor DEF IInv, WeightTypes, Stages
  <2>2. Sound(hash)'
    BY NormalizeFloor DEF IInv, WeightTypes, Sound
  <2>3. RegistersSound'
    BY DEF IInv, WeightTypes, RegistersSound, Workers
  <2>4. Settled'
    BY NormalizeSum DEF IInv, WeightTypes, Settled
  <2>5. BackendsDoNotSeed'
    BY DEF IInv, WeightTypes, BackendsDoNotSeed, SeedStages, Workers
  <2>6. QED
    BY <2>1, <2>2, <2>3, <2>4, <2>5 DEF IInv
<1>9. CASE NormalizeFails(u)
  <2> USE <1>9 DEF NormalizeFails, Return
  <2>1. WeightTypes'
    BY DEF IInv, WeightTypes, Stages
  <2>2. Sound(hash)'
    BY DEF IInv, Sound
  <2>3. RegistersSound'
    BY DEF IInv, WeightTypes, RegistersSound, Workers
  <2>4. Settled'
    BY DEF Settled
  <2>5. BackendsDoNotSeed'
    BY DEF IInv, WeightTypes, BackendsDoNotSeed, SeedStages, Workers
  <2>6. QED
    BY <2>1, <2>2, <2>3, <2>4, <2>5 DEF IInv
<1>10. QED
  BY <1>1, <1>2, <1>3, <1>4, <1>5, <1>6, <1>7, <1>8, <1>9 DEF Worker

\* Neither do the steps that concern one kind of worker, the balancer's start,
\* and the loss of the hash.
LEMMA OtherStep ==
  ASSUME IInv,
         \/ GetNil \/ CooldownOver \/ FirstRequest \/ RedisLosesHash \/ Balancer
         \/ \E b \in Backends : GetNilPanic(b) \/ BackendDies(b)
  PROVE  IInv'
<1> USE CQSWeightsAssumption DEF local, history, Goto
<1>1. CASE GetNil
  <2> USE <1>1 DEF GetNil
  <2>1. WeightTypes'
    BY DEF IInv, WeightTypes, Stages, SeedStages, Missing
  <2>2. Sound(hash)'
    BY DEF IInv, Sound
  <2>3. RegistersSound'
    BY DEF IInv, WeightTypes, RegistersSound, Workers
  <2>4. Settled'
    <3>1. pc[Client] \notin Pending /\ Client \in Workers
      BY DEF Pending, SeedStages, Workers
    <3>2. QED
      BY <3>1 DEF IInv, WeightTypes, Settled
  <2>5. BackendsDoNotSeed'
    BY DEF IInv, WeightTypes, BackendsDoNotSeed, SeedStages, Workers
  <2>6. QED
    BY <2>1, <2>2, <2>3, <2>4, <2>5 DEF IInv
<1>2. CASE CooldownOver \/ FirstRequest
  <2> USE <1>2 DEF CooldownOver, FirstRequest
  <2>1. WeightTypes'
    BY DEF IInv, WeightTypes
  <2>2. Sound(hash)'
    BY DEF IInv, Sound
  <2>3. RegistersSound'
    BY DEF IInv, WeightTypes, RegistersSound, Workers
  <2>4. Settled'
    BY DEF IInv, WeightTypes, Settled, Pending
  <2>5. BackendsDoNotSeed'
    BY DEF IInv, WeightTypes, BackendsDoNotSeed, SeedStages, Workers
  <2>6. QED
    BY <2>1, <2>2, <2>3, <2>4, <2>5 DEF IInv
<1>3. CASE RedisLosesHash
  <2> USE <1>3 DEF RedisLosesHash
  <2>1. WeightTypes'
    BY DEF IInv, WeightTypes, NoHash, Missing
  <2>2. Sound(hash)'
    BY DEF Sound, NoHash
  <2>3. RegistersSound'
    BY DEF IInv, WeightTypes, RegistersSound, Workers
  <2>4. Settled'
    BY DEF Settled
  <2>5. BackendsDoNotSeed'
    BY DEF IInv, WeightTypes, BackendsDoNotSeed, SeedStages, Workers
  <2>6. QED
    BY <2>1, <2>2, <2>3, <2>4, <2>5 DEF IInv
<1>4. CASE Balancer
  <2> USE <1>4 DEF Balancer, Probe, Setup, SetupFails, BalancerRestarts
  <2>1. WeightTypes'
    BY DefaultSound DEF IInv, WeightTypes
  <2>2. Sound(hash)'
    BY DefaultSound DEF IInv, Sound
  <2>3. RegistersSound'
    BY DEF IInv, WeightTypes, RegistersSound, Workers
  <2>4. Settled'
    BY DefaultSound DEF IInv, Settled
  <2>5. BackendsDoNotSeed'
    BY DEF IInv, WeightTypes, BackendsDoNotSeed, SeedStages, Workers
  <2>6. QED
    BY <2>1, <2>2, <2>3, <2>4, <2>5 DEF IInv
<1>5. ASSUME NEW b \in Backends, GetNilPanic(b)
      PROVE  IInv'
  <2> USE <1>5 DEF GetNilPanic, Restarted
  <2>1. WeightTypes'
    BY DEF IInv, WeightTypes, Stages, Workers
  <2>2. Sound(hash)'
    BY DEF IInv, Sound
  <2>3. RegistersSound'
    BY DEF IInv, WeightTypes, RegistersSound, Workers
  <2>4. Settled'
    <3>1. pc[b] \notin Pending /\ b \in Workers
      BY DEF Pending, SeedStages, Workers
    <3>2. QED
      BY <3>1 DEF IInv, WeightTypes, Settled
  <2>5. BackendsDoNotSeed'
    BY DEF IInv, WeightTypes, BackendsDoNotSeed, SeedStages, Workers
  <2>6. QED
    BY <2>1, <2>2, <2>3, <2>4, <2>5 DEF IInv
<1>6. ASSUME NEW b \in Backends, BackendDies(b)
      PROVE  IInv'
  <2> USE <1>6 DEF BackendDies, Restarted
  <2>1. WeightTypes'
    BY DEF IInv, WeightTypes, Stages, Workers
  <2>2. Sound(hash)'
    BY DEF IInv, Sound
  <2>3. RegistersSound'
    BY DEF IInv, WeightTypes, RegistersSound, Workers
  <2>4. Settled'
    <3>1. b \in Workers
      BY DEF Workers
    <3>2. CASE pc[b] \in {"readAll", "writeAll"}
      BY <3>2 DEF Settled
    <3>3. CASE pc[b] \notin Pending
      BY <3>1, <3>3 DEF IInv, WeightTypes, Settled
    <3>4. QED
      BY <3>2, <3>3 DEF IInv, BackendsDoNotSeed, Pending
  <2>5. BackendsDoNotSeed'
    BY DEF IInv, WeightTypes, BackendsDoNotSeed, SeedStages, Workers
  <2>6. QED
    BY <2>1, <2>2, <2>3, <2>4, <2>5 DEF IInv
<1>7. QED
  BY <1>1, <1>2, <1>3, <1>4, <1>5, <1>6

LEMMA NextIInv == IInv /\ [Next]_vars => IInv'
<1> SUFFICES ASSUME IInv, [Next]_vars PROVE IInv'
  OBVIOUS
<1>1. CASE Next
  BY <1>1, WorkerStep, OtherStep DEF Next
<1>2. CASE UNCHANGED vars
  <2>1. UNCHANGED <<hash, pc, field, factor, reg, view>>
    BY <1>2 DEF vars, local
  <2>2. WeightTypes' /\ Sound(hash)' /\ RegistersSound' /\ BackendsDoNotSeed'
    BY <2>1 DEF IInv, WeightTypes, Sound, RegistersSound, BackendsDoNotSeed
  <2>3. unsettled => unsettled'
    BY <1>2 DEF vars, history
  <2>4. Settled'
    BY <2>1, <2>3 DEF IInv, Settled, Normalized, Total, NoHash
  <2>5. QED
    BY <2>2, <2>4 DEF IInv
<1>3. QED
  BY <1>1, <1>2

LEMMA Invariance == Spec => []IInv
  BY InitIInv, NextIInv, PTL DEF Spec

\* No interleaving, error or number of updates switches a weight off
\* (client/main.go:294-336, backend/main.go:237-311).
THEOREM WeightsNeverVanish == Spec => []WeightsKeepFloor
<1>1. IInv => WeightsKeepFloor
  BY DEF IInv, Sound, WeightsKeepFloor
<1>2. QED
  BY <1>1, Invariance, PTL

\* Between updates the weights sum to one unless an error was swallowed
\* (client/main.go:276-336, backend/main.go:237-311, balancer/main.go:157-168).
THEOREM WeightsNormalizedAtRest == Spec => []NormalizedAtRest
<1>1. IInv => NormalizedAtRest
  BY DEF IInv, Settled, NormalizedAtRest, AtRest, Pending, SeedStages
<1>2. QED
  BY <1>1, Invariance, PTL

-----------------------------------------------------------------------------
(* The rest of the state, and the start-up order that protects a backend.  *)
Flags ==
  /\ ready \in BOOLEAN /\ traffic \in BOOLEAN
  /\ unsettled \in BOOLEAN /\ nilPanic \in BOOLEAN

Bookkeeping ==
  /\ cooling \subseteq Workers \X Fields
  /\ balancer \in {"probe", "setup", "up"}
  /\ updates \in 0..MaxUpdates /\ failures \in 0..MaxFailures

\* Until something fails, weightC is missing only while the client has not
\* finished its first seeding, and until then no backend has work.
SeededBeforeTraffic ==
  failures = 0 =>
    /\ ~nilPanic
    /\ hash["C"] = Missing => pc[Client] \in SeedStages /\ ~ready
    /\ ~ready => ~traffic
    /\ ~traffic => \A b \in Backends : pc[b] = "idle"

LEMMA WorkerKeepsBooks ==
  ASSUME IInv, Bookkeeping, NEW u \in Workers, Worker(u)
  PROVE  Bookkeeping'
<1> USE CQSWeightsAssumption DEF Bookkeeping, local, history, Goto
<1>1. CASE Seed(u)
  BY <1>1 DEF Seed, Fail
<1>2. CASE Begin(u)
  <2>1. cooling' \subseteq Workers \X Fields
    BY <1>2 DEF Begin, Fields
  <2> QED
    BY <1>2, <2>1 DEF Begin
<1>3. CASE Get(u) \/ Set(u) \/ ReadAll(u)
  BY <1>3 DEF Get, Set, ReadAll
<1>4. CASE GetFails(u)
  BY <1>4 DEF GetFails, Fail, Restarted
<1>5. CASE SetFails(u)
  BY <1>5 DEF SetFails, Fail, Restarted
<1>6. CASE WriteAll(u)
  BY <1>6 DEF WriteAll, Return, Fields
<1>7. CASE NormalizeFails(u)
  BY <1>7 DEF NormalizeFails, Fail, Return, Fields
<1> QED
  BY <1>1, <1>2, <1>3, <1>4, <1>5, <1>6, <1>7 DEF Worker

LEMMA OthersKeepBooks ==
  ASSUME Bookkeeping,
         \/ GetNil \/ CooldownOver \/ FirstRequest \/ RedisLosesHash \/ Balancer
         \/ \E b \in Backends : GetNilPanic(b) \/ BackendDies(b)
  PROVE  Bookkeeping'
<1> USE CQSWeightsAssumption DEF Bookkeeping, local, history, Goto
<1>1. CASE GetNil \/ CooldownOver \/ FirstRequest \/ RedisLosesHash
  BY <1>1 DEF GetNil, CooldownOver, FirstRequest, RedisLosesHash, Fail
<1>2. CASE Balancer
  BY <1>2 DEF Balancer, Probe, Setup, SetupFails, BalancerRestarts, Fail
<1>3. ASSUME NEW b \in Backends, GetNilPanic(b) PROVE Bookkeeping'
  BY <1>3 DEF GetNilPanic, Restarted
<1>4. ASSUME NEW b \in Backends, BackendDies(b) PROVE Bookkeeping'
  BY <1>4 DEF BackendDies, Restarted, Fail
<1> QED
  BY <1>1, <1>2, <1>3, <1>4

LEMMA FlagsInductive == Flags /\ [Next]_vars => Flags'
<1> SUFFICES ASSUME Flags, [Next]_vars PROVE Flags'
  OBVIOUS
<1> USE DEF Flags, history
<1>1. ASSUME NEW u \in Workers, Worker(u) PROVE Flags'
  <2>1. CASE Seed(u) \/ Begin(u) \/ Get(u) \/ GetFails(u) \/ Set(u) \/ ReadAll(u)
    BY <2>1, Zenon DEF Seed, Begin, Get, GetFails, Set, ReadAll
  <2>2. CASE SetFails(u) \/ WriteAll(u) \/ NormalizeFails(u)
    BY <2>2, Zenon DEF SetFails, WriteAll, NormalizeFails, Return
  <2> QED
    BY <1>1, <2>1, <2>2 DEF Worker
<1>2. CASE GetNil \/ CooldownOver \/ FirstRequest \/ RedisLosesHash
  BY <1>2, Zenon DEF GetNil, CooldownOver, FirstRequest, RedisLosesHash
<1>3. CASE Balancer
  BY <1>3, Zenon DEF Balancer, Probe, Setup, SetupFails, BalancerRestarts
<1>4. ASSUME NEW b \in Backends, GetNilPanic(b) \/ BackendDies(b) PROVE Flags'
  BY <1>4, Zenon DEF GetNilPanic, BackendDies
<1>5. CASE UNCHANGED vars
  BY <1>5, Zenon DEF vars
<1> QED
  BY <1>1, <1>2, <1>3, <1>4, <1>5 DEF Next

LEMMA BooksInductive == IInv /\ Bookkeeping /\ [Next]_vars => Bookkeeping'
<1>1. UNCHANGED vars /\ Bookkeeping => Bookkeeping'
  BY DEF vars, history, Bookkeeping
<1> QED
  BY <1>1, WorkerKeepsBooks, OthersKeepBooks DEF Next

\* A step that fails makes failures positive for good.
LEMMA FailCounts == failures \in Nat /\ Fail => failures' # 0
  BY DEF Fail

LEMMA WorkerKeepsOrder ==
  ASSUME IInv, Bookkeeping, SeededBeforeTraffic, NEW u \in Workers, Worker(u)
  PROVE  SeededBeforeTraffic'
<1> SUFFICES ASSUME failures' = 0 PROVE SeededBeforeTraffic'
  BY DEF SeededBeforeTraffic
<1>1. failures \in Nat /\ ~Fail /\ pc \in [Workers -> Stages]
      /\ hash \in [Fields -> Nat] /\ "C" \in Fields
      /\ Client \in Workers /\ Client \notin Backends
  BY FailCounts, CQSWeightsAssumption
  DEF Bookkeeping, IInv, WeightTypes, Fields, Workers
<1>2. u \in Backends => pc[u] \notin SeedStages
  BY DEF IInv, BackendsDoNotSeed
<1>3. u = Client \/ u \in Backends
  BY DEF Workers
<1> USE <1>1, <1>2, <1>3 DEF SeededBeforeTraffic, local, history, Goto
<1>4. CASE Seed(u)
  BY <1>4 DEF Seed, SeedStages, SeedField, AfterSeed, Default, Missing
<1>5. CASE Begin(u)
  BY <1>5 DEF Begin, SeedStages
<1>6. CASE Get(u)
  BY <1>6 DEF Get, SeedStages
<1>7. CASE Set(u)
  <2>1. NewValue(u) # Missing
    BY <1>7, NewValueSound, FloorValue DEF Set, Missing
  <2> QED
    BY <1>7, <2>1 DEF Set, SeedStages
<1>8. CASE ReadAll(u)
  BY <1>8 DEF ReadAll, SeedStages
<1>9. CASE WriteAll(u)
  <2>1. hash'["C"] # Missing
    BY <1>9, NormalizeFloor, FloorValue DEF WriteAll, Missing, IInv, WeightTypes
  <2> QED
    BY <1>9, <2>1 DEF WriteAll, Return, SeedStages
<1> QED
  BY <1>4, <1>5, <1>6, <1>7, <1>8, <1>9
  DEF Worker, GetFails, SetFails, NormalizeFails

LEMMA OthersKeepOrder ==
  ASSUME IInv, Bookkeeping, SeededBeforeTraffic,
         \/ GetNil \/ CooldownOver \/ FirstRequest \/ RedisLosesHash \/ Balancer
         \/ \E b \in Backends : GetNilPanic(b) \/ BackendDies(b)
  PROVE  SeededBeforeTraffic'
<1> SUFFICES ASSUME failures' = 0 PROVE SeededBeforeTraffic'
  BY DEF SeededBeforeTraffic
<1>1. failures \in Nat /\ ~Fail /\ pc \in [Workers -> Stages]
      /\ Client \in Workers /\ Client \notin Backends /\ Backends \subseteq Workers
  BY FailCounts, CQSWeightsAssumption
  DEF Bookkeeping, IInv, WeightTypes, Workers
<1> USE <1>1 DEF SeededBeforeTraffic, local, history, Goto
<1>2. CASE GetNil
  BY <1>2 DEF GetNil, SeedStages
<1>3. CASE CooldownOver \/ FirstRequest
  BY <1>3 DEF CooldownOver, FirstRequest
<1>4. CASE Balancer
  BY <1>4 DEF Balancer, Probe, Setup, SetupFails, BalancerRestarts, Default,
              Fields, Missing
\* A backend that asks has work, so the client has seeded.
<1>5. ASSUME NEW b \in Backends, GetNilPanic(b) PROVE FALSE
  BY <1>5 DEF GetNilPanic
<1> QED
  BY <1>2, <1>3, <1>4, <1>5 DEF RedisLosesHash, BackendDies

LEMMA OrderInductive ==
  IInv /\ Bookkeeping /\ SeededBeforeTraffic /\ [Next]_vars => SeededBeforeTraffic'
<1>1. UNCHANGED vars /\ SeededBeforeTraffic => SeededBeforeTraffic'
  BY DEF vars, local, history, SeededBeforeTraffic
<1> QED
  BY <1>1, WorkerKeepsOrder, OthersKeepOrder DEF Next

LEMMA InitBooks == Init => Flags /\ Bookkeeping /\ SeededBeforeTraffic
<1> SUFFICES ASSUME Init PROVE Flags /\ Bookkeeping /\ SeededBeforeTraffic
  OBVIOUS
<1>0. Flags
  BY Zenon DEF Init, Flags
<1>1. Bookkeeping
  BY CQSWeightsAssumption DEF Init, Bookkeeping
<1>2. SeededBeforeTraffic
  BY CQSWeightsAssumption DEF Init, SeededBeforeTraffic, SeedStages, Workers
<1> QED
  BY <1>0, <1>1, <1>2

LEMMA FullInvariance ==
  Spec => [](IInv /\ Flags /\ Bookkeeping /\ SeededBeforeTraffic)
  BY InitIInv, InitBooks, NextIInv, FlagsInductive, BooksInductive,
     OrderInductive, PTL DEF Spec

\* The type invariant, for any number of backends, updates and failures.
THEOREM TypeCorrect == Spec => []TypeOK
<1>1. IInv /\ Flags /\ Bookkeeping => TypeOK
  BY DEF IInv, WeightTypes, Flags, Bookkeeping, TypeOK
<1> QED
  BY <1>1, FullInvariance, PTL

\* No order of seeding, probing and first requests makes a backend panic on a
\* missing weightC unless a call failed (backend/main.go:244-247).
THEOREM PanicNeedsFailure == Spec => []MissingWeightNeedsFailure
<1>1. Bookkeeping /\ SeededBeforeTraffic => MissingWeightNeedsFailure
  BY DEF Bookkeeping, SeededBeforeTraffic, MissingWeightNeedsFailure
<1> QED
  BY <1>1, FullInvariance, PTL
=============================================================================
