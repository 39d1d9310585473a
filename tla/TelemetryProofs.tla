-------------------------- MODULE TelemetryProofs --------------------------
(***************************************************************************)
(* The telemetry of a ship, proved for any bodies, pulls, margin, dwell    *)
(* time and refresh intervals: the cached orbit goes with the selected     *)
(* body and with the throttle, the ellipse it holds is the ship's, the     *)
(* bodies are where they belong at the time of the clock, and the          *)
(* selection changes when and only when a challenger has led for the dwell *)
(* time.                                                                   *)
(***************************************************************************)
EXTENDS OrbitTelemetry, FiniteSetTheorems, WellFoundedInduction, TLAPS

\* Before the first tick nothing is cached. After it, the cache is valid for the
\* next tick at least, and expires as its throttle says.
CacheIsValid ==
  /\ initialized
  /\ cache.epoch > 0
  /\ cache.referenceBodyId = current
  /\ cache.wasThrusting = past.on
  /\ cache.validUntilTick =
       cache.epoch + IF cache.wasThrusting THEN RefreshActive ELSE RefreshInactive
  /\ tickCount < cache.validUntilTick
  /\ cache.epoch + RefreshActive > past.thrust

CacheInv ==
  /\ tickCount \in Nat
  /\ past.thrust \in Nat /\ past.thrust <= tickCount
  /\ cache.epoch \in Nat /\ cache.epoch <= tickCount
  /\ ~cache.dirty
  /\ tickCount > 0 => CacheIsValid

\* The accumulator is the time of the ticks that have seen the current lead.
LeadInv ==
  /\ past.led \in Nat
  /\ dwell = past.led * FixedDt
  /\ past.led = 0 \/ past.led * FixedDt < DwellTime

-----------------------------------------------------------------------------
(* The strongest body.                                                     *)

\* Whether index j comes before index i: more pull, or the same and earlier.
Before(bs, score, j, i) ==
  /\ Bodies[j] \in bs
  /\ \/ score[Bodies[j]] > score[Bodies[i]]
     \/ score[Bodies[j]] = score[Bodies[i]] /\ j < i

\* A nonempty set of scored bodies has one that none comes before: the one of
\* which the set of those that do is minimal.
LEMMA StrongestExists ==
  ASSUME NEW bs \in SUBSET Scored, bs # {}, NEW score \in [Scored -> Scores]
  PROVE  \E i \in 1..Len(Bodies) :
           /\ Bodies[i] \in bs
           /\ \A j \in 1..Len(Bodies) :
                Bodies[j] \in bs =>
                  \/ score[Bodies[i]] > score[Bodies[j]]
                  \/ score[Bodies[i]] = score[Bodies[j]] /\ i <= j
<1> DEFINE n == Len(Bodies)
           S == {i \in 1..n : Bodies[i] \in bs}
           Ahead(i) == {j \in S : Before(bs, score, j, i)}
           R == StrictSubsetOrdering(S)
           F == {Ahead(i) : i \in S}
<1>1. n \in Nat /\ Scores \subseteq Nat
  BY ScoreAssumption
<1>2. IsFiniteSet(S)
  <2>1. S \in SUBSET Nat /\ \A s \in S : s <= n
    BY <1>1
  <2> QED BY <1>1, <2>1, FS_BoundedSetOfNaturals
<1>3. S # {}
  <2>1. PICK b \in bs : TRUE
    OBVIOUS
  <2>2. PICK i \in 1..(IF Len(Bodies) < MaxBodies THEN Len(Bodies) ELSE MaxBodies) :
          Bodies[i] = b
    BY <2>1 DEF Scored
  <2>3. i \in 1..n
    BY <1>1, <2>2, ScoreAssumption
  <2> QED BY <2>1, <2>2, <2>3
<1>4. \A i \in S : score[Bodies[i]] \in Nat /\ i \in Nat /\ Bodies[i] \in bs
  <2> SUFFICES ASSUME NEW i \in S
               PROVE  score[Bodies[i]] \in Nat /\ i \in Nat /\ Bodies[i] \in bs
    OBVIOUS
  <2>1. i \in Nat /\ Bodies[i] \in bs /\ Bodies[i] \in Scored
    BY <1>1
  <2>2. score[Bodies[i]] \in Scores
    BY <2>1
  <2> QED BY <1>1, <2>1, <2>2
<1>5. F \subseteq FiniteSubsetsOf(S) /\ F # {}
  <2>1. FiniteSubsetsOf(S) = SUBSET S
    BY <1>2, FS_FiniteSubsetsOfFinite
  <2>2. F \subseteq SUBSET S /\ F # {}
    BY <1>3
  <2> QED BY <2>1, <2>2
<1>6. PICK a \in F : \A c \in F : <<c, a>> \notin R
  <2>1. IsWellFoundedOn(R, FiniteSubsetsOf(S))
    BY FS_StrictSubsetOrderingWellFounded
  <2> HIDE DEF R, F
  <2> QED BY <1>5, <2>1, WFMin
<1>7. PICK i \in S : a = Ahead(i)
  OBVIOUS
<1>8. ASSUME NEW j \in S, Before(bs, score, j, i) PROVE FALSE
  <2>1. j \in Ahead(i) /\ j \notin Ahead(j)
    BY <1>4, <1>8 DEF Before
  <2>2. ASSUME NEW k \in S, Before(bs, score, k, j) PROVE Before(bs, score, k, i)
    BY <1>4, <1>8, <2>2 DEF Before
  <2>3. Ahead(j) \subseteq Ahead(i)
    BY <2>2
  <2>4. Ahead(j) \subseteq Ahead(i) /\ Ahead(j) # Ahead(i)
    BY <2>1, <2>3, Zenon
  <2>5. <<Ahead(j), Ahead(i)>> \in R
    BY <2>4 DEF StrictSubsetOrdering
  <2> QED BY <1>6, <1>7, <2>5
<1>9. \A j \in S : \/ score[Bodies[i]] > score[Bodies[j]]
                   \/ score[Bodies[i]] = score[Bodies[j]] /\ i <= j
  BY <1>4, <1>8 DEF Before
<1> QED BY <1>9

\* So the strongest of a nonempty set is in it.
LEMMA StrongestIsThere ==
  ASSUME NEW bs \in SUBSET Scored, bs # {}, NEW score \in [Scored -> Scores]
  PROVE  Strongest(bs, score) \in bs
<1>1. \E i \in 1..Len(Bodies) :
         /\ Bodies[i] \in bs
         /\ \A j \in 1..Len(Bodies) :
              Bodies[j] \in bs =>
                \/ score[Bodies[i]] > score[Bodies[j]]
                \/ score[Bodies[i]] = score[Bodies[j]] /\ i <= j
  BY StrongestExists
<1> QED BY <1>1 DEF Strongest

-----------------------------------------------------------------------------
(* The cache.                                                              *)

LEMMA CacheInit == Init => CacheInv
<1> SUFFICES ASSUME Init PROVE CacheInv
  OBVIOUS
<1>1. /\ tickCount = 0 /\ initialized = FALSE
      /\ cache.epoch = 0 /\ ~cache.dirty /\ past.thrust = 0
  BY DEF Init
<1> QED BY <1>1 DEF CacheInv

LEMMA CacheStep ==
  ASSUME CacheInv, [Next]_vars
  PROVE  CacheInv'
<1>1. CASE \E on \in BOOLEAN : UpdateShipControl(on)
  BY <1>1 DEF UpdateShipControl, CacheInv, CacheIsValid
<1>2. CASE UNCHANGED vars
  BY <1>2 DEF vars, CacheInv, CacheIsValid
<1>3. ASSUME NEW score \in [Scored -> Scores], NEW rel \in Relatives, Tick(score, rel)
     PROVE  CacheInv'
  <2> DEFINE tick == tickCount + 1
             refresh == IF active THEN RefreshActive ELSE RefreshInactive
             refit == Invalidated \/ tick >= cache.validUntilTick \/ cache.epoch = 0
  <2>1. /\ tickCount \in Nat /\ tick \in Nat /\ tick > tickCount
        /\ RefreshActive \in Nat \ {0} /\ RefreshInactive \in Nat \ {0}
        /\ refresh \in Nat \ {0} /\ refresh >= RefreshActive
        /\ tickCount' = tick /\ initialized'
        /\ past'.on = active
        /\ past'.thrust = IF active \/ past.on THEN tick ELSE past.thrust
    BY <1>3, TickAssumption DEF Tick, CacheInv, Select, SelectFirst, Remember
  <2>2. past'.thrust \in Nat /\ past'.thrust <= tick
    BY <2>1 DEF CacheInv, CacheIsValid
  <2>3. CASE refit
    <3>1. cache' = [referenceBodyId |-> current', epoch |-> tick,
                    validUntilTick |-> tick + refresh, dirty |-> FALSE,
                    wasThrusting |-> active,
                    position |-> rel.position, velocity |-> rel.velocity,
                    orbit |-> FitOrbit(rel.position, rel.velocity, Mu[current'])]
      BY <1>3, <2>3 DEF Tick, UpdateCache
    <3>2. tick < tick + refresh /\ tick + RefreshActive > past'.thrust
      BY <2>1, <2>2
    <3> QED BY <2>1, <2>2, <3>1, <3>2 DEF CacheInv, CacheIsValid
  <2>4. CASE ~refit
    <3>1. /\ cache' = cache /\ current' = current /\ initialized
          /\ cache.wasThrusting = active /\ tick < cache.validUntilTick /\ cache.epoch # 0
      <4>1. cache' = cache
        BY <1>3, <2>4 DEF Tick, UpdateCache
      <4>2. cache.validUntilTick \in Nat
        <5>1. tickCount > 0
          BY <2>1, <2>4 DEF CacheInv, CacheIsValid
        <5> QED BY <2>1, <5>1 DEF CacheInv, CacheIsValid
      <4> QED BY <2>1, <2>4, <4>1, <4>2 DEF Invalidated
    <3>2. /\ tickCount > 0 /\ cache.epoch \in Nat /\ cache.epoch <= tickCount
          /\ cache.referenceBodyId = current /\ cache.wasThrusting = past.on
          /\ cache.validUntilTick = cache.epoch + refresh
          /\ cache.epoch + RefreshActive > past.thrust
      BY <2>1, <3>1 DEF CacheInv, CacheIsValid
    <3>3. cache.epoch + RefreshActive > past'.thrust
      <4>1. CASE active
        BY <2>1, <3>1, <3>2, <4>1
      <4>2. CASE ~active
        BY <2>1, <3>1, <3>2, <4>2
      <4> QED BY <4>1, <4>2
    <3> QED BY <2>1, <2>2, <3>1, <3>2, <3>3 DEF CacheInv, CacheIsValid
  <2> QED BY <2>3, <2>4
<1> QED BY <1>1, <1>2, <1>3 DEF Next

LEMMA TelemetryCache == Spec => []CacheInv
<1> QED BY CacheInit, CacheStep, PTL DEF Spec

\* The age of the orbit, for any refresh intervals.
THEOREM TelemetryOrbitIsUpToDate == Spec => []OrbitIsUpToDate
<1>1. CacheInv => OrbitIsUpToDate
  <2> SUFFICES ASSUME CacheInv PROVE OrbitIsUpToDate
    OBVIOUS
  <2>1. CASE tickCount = 0
    BY <2>1, TickAssumption DEF CacheInv, CacheIsValid, OrbitIsUpToDate
  <2>2. CASE tickCount > 0
    <3>1. /\ cache.epoch \in Nat /\ tickCount \in Nat /\ cache.epoch > 0
          /\ tickCount < cache.validUntilTick
          /\ \/ cache.validUntilTick = cache.epoch + RefreshActive
             \/ cache.validUntilTick = cache.epoch + RefreshInactive
          /\ cache.epoch + RefreshActive > past.thrust
      BY <2>2 DEF CacheInv, CacheIsValid
    <3> QED BY <2>2, <3>1, TickAssumption DEF OrbitIsUpToDate
  <2> QED BY <2>1, <2>2 DEF CacheInv, CacheIsValid
<1> QED BY <1>1, TelemetryCache, PTL

-----------------------------------------------------------------------------
(* The selection.                                                          *)

LEMMA LeadInit == Init => LeadInv
<1> SUFFICES ASSUME Init PROVE LeadInv
  OBVIOUS
<1>1. dwell = 0 /\ initialized = FALSE /\ past.led = 0
  BY DEF Init
<1>2. 0 * FixedDt = 0
  BY TickAssumption
<1> QED BY <1>1, <1>2 DEF LeadInv

\* One tick's selection: it changes exactly when the lead has lasted.
LEMMA LeadTick ==
  ASSUME LeadInv, NEW score \in [Scored -> Scores], NEW rel \in Relatives, Tick(score, rel)
  PROVE  LeadInv' /\ SwitchIsEarned
<1> DEFINE challengers == Challengers(score)
           led == past.led
<1>1. /\ led \in Nat /\ FixedDt \in Nat \ {0} /\ DwellTime \in Nat
      /\ dwell = led * FixedDt /\ led * FixedDt \in Nat
      /\ (led + 1) * FixedDt = led * FixedDt + FixedDt /\ 0 * FixedDt = 0
  BY TickAssumption DEF LeadInv
<1>2. past'.led = IF initialized /\ challengers # {} /\ current' = current THEN led + 1 ELSE 0
  BY DEF Tick, Remember
<1>3. CASE SelectFirst(score)
  <2>1. ~initialized /\ initialized' = TRUE /\ dwell' = 0 /\ past'.led = 0
    BY <1>2, <1>3 DEF SelectFirst
  <2> QED BY <1>1, <2>1 DEF LeadInv, SwitchIsEarned
<1>4. CASE Select(score, challengers)
  <2> DEFINE stays == DwellAfter(challengers # {})
             switch == challengers # {} /\ DwellIsOver(stays)
  <2>1. /\ initialized /\ initialized' = initialized
        /\ current' = IF switch THEN Strongest(Scored \ {current}, score) ELSE current
        /\ dwell' = IF switch THEN 0 ELSE stays
    BY <1>4 DEF Select
  <2>2. CASE challengers = {}
    <3>1. past'.led = 0 /\ current' = current /\ dwell' = 0
      BY <1>2, <2>1, <2>2 DEF DwellAfter
    <3>2. LeadInv'
      BY <1>1, <3>1 DEF LeadInv
    <3> QED BY <3>1, <3>2 DEF SwitchIsEarned
  <2>3. CASE challengers # {} /\ ~switch
    <3>1. stays = led * FixedDt + FixedDt
      BY <1>1, <2>3 DEF DwellAfter
    <3>2. /\ dwell' = (led + 1) * FixedDt /\ past'.led = led + 1 /\ current' = current
          /\ (led + 1) * FixedDt < DwellTime
      BY <1>1, <1>2, <2>1, <2>3, <3>1 DEF DwellIsOver
    <3>3. LeadInv'
      <4> DEFINE m == led + 1
      <4>1. m \in Nat /\ dwell' = m * FixedDt /\ past'.led = m /\ m * FixedDt < DwellTime
        BY <1>1, <3>2
      <4> HIDE DEF m
      <4> QED BY <4>1 DEF LeadInv
    <3> QED BY <3>2, <3>3 DEF SwitchIsEarned
  <2>4. CASE switch
    <3>1. (led + 1) * FixedDt >= DwellTime
      BY <1>1, <2>4 DEF DwellAfter, DwellIsOver
    <3>2. Scored \ {current} # {}
      BY <2>4 DEF Challengers
    <3>3. current' \in Scored \ {current}
      BY <2>1, <2>4, <3>2, StrongestIsThere
    <3>4. past'.led = 0 /\ dwell' = 0
      BY <1>2, <2>1, <2>4, <3>3
    <3>5. LeadInv'
      BY <1>1, <3>4 DEF LeadInv
    <3> QED BY <3>1, <3>5 DEF SwitchIsEarned
  <2> QED BY <2>2, <2>3, <2>4
<1> QED BY <1>3, <1>4 DEF Tick

LEMMA LeadStep ==
  ASSUME LeadInv, [Next]_vars
  PROVE  LeadInv' /\ [SwitchIsEarned]_vars
<1>1. CASE \E on \in BOOLEAN : UpdateShipControl(on)
  BY <1>1 DEF UpdateShipControl, LeadInv, SwitchIsEarned
<1>2. CASE UNCHANGED vars
  BY <1>2 DEF vars, LeadInv
<1>3. CASE \E score \in [Scored -> Scores], rel \in Relatives : Tick(score, rel)
  BY <1>3, LeadTick
<1> QED BY <1>1, <1>2, <1>3 DEF Next

LEMMA TelemetryLead == Spec => []LeadInv
<1> QED BY LeadInit, LeadStep, PTL DEF Spec

\* No lead lasts for the dwell time without a switch.
THEOREM TelemetryLeadIsRewarded == Spec => []LeadIsRewarded
<1>1. LeadInv => LeadIsRewarded
  BY DEF LeadInv, LeadIsRewarded
<1> QED BY <1>1, TelemetryLead, PTL

\* No switch comes before a lead that has lasted for the dwell time.
THEOREM TelemetrySwitchesAreEarned == Spec => SwitchesAreEarned
<1>1. LeadInv /\ [Next]_vars => [SwitchIsEarned]_vars
  BY LeadStep
<1> QED BY <1>1, TelemetryLead, PTL DEF Spec, SwitchesAreEarned

-----------------------------------------------------------------------------
(* The orbit: the vectors the fit is made of, and what they come to.        *)

Vectors == [x : Int, y : Int, z : Int]

LEMMA DotExpands ==
  \A a, b, x, y, z, u, v, w \in Int :
    ((x * a) - (u * b)) * ((x * a) - (u * b)) + ((y * a) - (v * b)) * ((y * a) - (v * b))
      + ((z * a) - (w * b)) * ((z * a) - (w * b))
    = ((a * a) * ((x * x) + (y * y) + (z * z)) + (b * b) * ((u * u) + (v * v) + (w * w)))
       - (2 * (a * b)) * ((x * u) + (y * v) + (z * w))
OBVIOUS

LEMMA Lagrange ==
  \A x, y, z, u, v, w \in Int :
    ((y * w) - (z * v)) * ((y * w) - (z * v)) + ((z * u) - (x * w)) * ((z * u) - (x * w))
      + ((x * v) - (y * u)) * ((x * v) - (y * u))
    = (((x * x) + (y * y) + (z * z)) * ((u * u) + (v * v) + (w * w)))
       - (((x * u) + (y * v) + (z * w)) * ((x * u) + (y * v) + (z * w)))
OBVIOUS

LEMMA TripleProduct ==
  \A x, y, z, u, v, w \in Int :
    (v * ((x * v) - (y * u))) - (w * ((z * u) - (x * w)))
    = (x * ((u * u) + (v * v) + (w * w))) - (u * ((x * u) + (y * v) + (z * w)))
OBVIOUS

LEMMA Coplanar ==
  \A x, y, z, u, v, w \in Int :
    (((y * w) - (z * v)) * u + ((z * u) - (x * w)) * v) + ((x * v) - (y * u)) * w = 0
OBVIOUS

\* B = d s, A = d V - mu, R = d d
LEMMA EccSquare ==
  \A d, mu, V, s \in Int :
    (((((d * V) - mu) * ((d * V) - mu)) * (d * d)) + (((d * s) * (d * s)) * V))
      - ((2 * (((d * V) - mu) * (d * s))) * s)
    = ((mu * d) * (mu * d)) - ((d * ((2 * mu) - (d * V))) * (((d * d) * V) - (s * s)))
OBVIOUS

LEMMA FocusSquare ==
  \A d, V, s \in Int :
    ((((d * V) * (d * V)) * (d * d)) + (((2 * (d * s)) * (2 * (d * s))) * V))
      - ((2 * ((d * V) * (2 * (d * s)))) * s)
    = ((d * d) * V) * ((d * d) * V)
OBVIOUS

LEMMA FocusDot ==
  \A d, V, s \in Int :
    ((((d * V) * s) - ((2 * (d * s)) * V)) * d) + (s * ((d * d) * V)) = 0
OBVIOUS

\* What the eccentricity and the way to the empty focus both are.
Combination(r, a, v, b) == Subtract(Scale(r, a), Scale(v, b))

LEMMA VectorTypes ==
  ASSUME NEW a \in Vectors, NEW b \in Vectors, NEW k \in Int
  PROVE  /\ a.x \in Int /\ a.y \in Int /\ a.z \in Int
         /\ Scale(a, k) \in Vectors /\ Subtract(a, b) \in Vectors
         /\ Cross(a, b) \in Vectors /\ Dot(a, b) \in Int
<1>1. a.x \in Int /\ a.y \in Int /\ a.z \in Int /\ b.x \in Int /\ b.y \in Int /\ b.z \in Int
  BY DEF Vectors
<1>2. Vector(a.x * k, a.y * k, a.z * k) \in Vectors
  BY <1>1 DEF Vector, Vectors
<1>3. Vector(a.x - b.x, a.y - b.y, a.z - b.z) \in Vectors
  BY <1>1 DEF Vector, Vectors
<1>4. Cross(a, b) \in Vectors
  BY <1>1 DEF Vector, Vectors, Cross
<1> QED BY <1>1, <1>2, <1>3, <1>4 DEF Scale, Subtract, Dot

LEMMA SelfDot ==
  ASSUME NEW a \in Vectors
  PROVE  /\ Dot(a, a) \in Nat
         /\ Dot(a, a) = 0 <=> a = Zero
<1>1. /\ a.x \in Int /\ a.y \in Int /\ a.z \in Int
      /\ a = [x |-> a.x, y |-> a.y, z |-> a.z]
  BY DEF Vectors
<1>2. \A x, y, z \in Int :
        /\ (x * x) + (y * y) + (z * z) \in Nat
        /\ (x * x) + (y * y) + (z * z) = 0 => x = 0 /\ y = 0 /\ z = 0
  OBVIOUS
<1>3. Dot(a, a) \in Nat /\ (Dot(a, a) = 0 => a.x = 0 /\ a.y = 0 /\ a.z = 0)
  BY <1>1, <1>2 DEF Dot
<1>4. Dot(a, a) = 0 => a = Zero
  BY <1>1, <1>3 DEF Zero, Vector
<1>5. Dot(Zero, Zero) = 0
  BY DEF Dot, Zero, Vector
<1> QED BY <1>3, <1>4, <1>5

LEMMA DotCommutes ==
  ASSUME NEW a \in Vectors, NEW b \in Vectors
  PROVE  Dot(a, b) = Dot(b, a)
BY DEF Vectors, Dot

LEMMA DotScales ==
  ASSUME NEW a \in Vectors, NEW b \in Vectors, NEW k \in Int
  PROVE  Dot(a, Scale(b, k)) = Dot(a, b) * k
<1>1. /\ a.x \in Int /\ a.y \in Int /\ a.z \in Int
      /\ b.x \in Int /\ b.y \in Int /\ b.z \in Int
  BY DEF Vectors
<1>2. \A x, y, z, u, v, w \in Int :
        (x * (u * k)) + (y * (v * k)) + (z * (w * k)) = ((x * u) + (y * v) + (z * w)) * k
  OBVIOUS
<1> QED BY <1>1, <1>2 DEF Dot, Scale, Vector

LEMMA CombinationDots ==
  ASSUME NEW r \in Vectors, NEW v \in Vectors, NEW a \in Int, NEW b \in Int
  PROVE  /\ Combination(r, a, v, b) \in Vectors
         /\ Dot(Combination(r, a, v, b), Combination(r, a, v, b))
              = (((a * a) * Dot(r, r)) + ((b * b) * Dot(v, v))) - ((2 * (a * b)) * Dot(r, v))
         /\ Dot(v, Combination(r, a, v, b)) = (a * Dot(r, v)) - (b * Dot(v, v))
         /\ Cross(Combination(r, a, v, b), r) = Scale(Cross(r, v), b)
<1> DEFINE c == Combination(r, a, v, b)
<1>1. /\ r.x \in Int /\ r.y \in Int /\ r.z \in Int
      /\ v.x \in Int /\ v.y \in Int /\ v.z \in Int
  BY DEF Vectors
<1>2. c \in Vectors
  BY VectorTypes DEF Combination
<1>3. /\ c.x = (r.x * a) - (v.x * b) /\ c.y = (r.y * a) - (v.y * b)
      /\ c.z = (r.z * a) - (v.z * b)
  BY DEF Combination, Subtract, Scale, Vector
<1>4. Dot(c, c) = (((a * a) * Dot(r, r)) + ((b * b) * Dot(v, v))) - ((2 * (a * b)) * Dot(r, v))
  BY <1>1, <1>3, DotExpands DEF Dot
<1>5. Dot(v, c) = (a * Dot(r, v)) - (b * Dot(v, v))
  <2>1. \A x, y, z, u, t, w \in Int :
          (u * ((x * a) - (u * b))) + (t * ((y * a) - (t * b))) + (w * ((z * a) - (w * b)))
          = (a * ((x * u) + (y * t) + (z * w))) - (b * ((u * u) + (t * t) + (w * w)))
    OBVIOUS
  <2> QED BY <1>1, <1>3, <2>1 DEF Dot
<1>6. Cross(c, r) = Scale(Cross(r, v), b)
  <2> HIDE DEF c
  <2>1. \A y, z, t, w \in Int :
          (((y * a) - (t * b)) * z) - (((z * a) - (w * b)) * y) = ((y * w) - (z * t)) * b
    OBVIOUS
  <2>2. /\ (c.y * r.z) - (c.z * r.y) = ((r.y * v.z) - (r.z * v.y)) * b
        /\ (c.z * r.x) - (c.x * r.z) = ((r.z * v.x) - (r.x * v.z)) * b
        /\ (c.x * r.y) - (c.y * r.x) = ((r.x * v.y) - (r.y * v.x)) * b
    <3>1. (c.y * r.z) - (c.z * r.y) = ((r.y * v.z) - (r.z * v.y)) * b
      BY <1>1, <1>3, <2>1
    <3>2. (c.z * r.x) - (c.x * r.z) = ((r.z * v.x) - (r.x * v.z)) * b
      BY <1>1, <1>3, <2>1
    <3>3. (c.x * r.y) - (c.y * r.x) = ((r.x * v.y) - (r.y * v.x)) * b
      BY <1>1, <1>3, <2>1
    <3> QED BY <3>1, <3>2, <3>3
  <2>3. Scale(Cross(r, v), b) =
          Vector(((r.y * v.z) - (r.z * v.y)) * b, ((r.z * v.x) - (r.x * v.z)) * b,
                 ((r.x * v.y) - (r.y * v.x)) * b)
    BY DEF Cross, Scale, Vector
  <2> QED BY <2>2, <2>3 DEF Cross
<1> QED BY <1>2, <1>4, <1>5, <1>6

LEMMA CrossDots ==
  ASSUME NEW r \in Vectors, NEW v \in Vectors
  PROVE  /\ Dot(Cross(r, v), Cross(r, v)) = (Dot(r, r) * Dot(v, v)) - (Dot(r, v) * Dot(r, v))
         /\ Cross(v, Cross(r, v)) = Combination(r, Dot(v, v), v, Dot(r, v))
         /\ Dot(Cross(r, v), v) = 0
<1>1. /\ r.x \in Int /\ r.y \in Int /\ r.z \in Int
      /\ v.x \in Int /\ v.y \in Int /\ v.z \in Int
  BY DEF Vectors
<1> DEFINE h == Cross(r, v)
<1>2. /\ h.x = (r.y * v.z) - (r.z * v.y) /\ h.y = (r.z * v.x) - (r.x * v.z)
      /\ h.z = (r.x * v.y) - (r.y * v.x)
  BY DEF Cross, Vector
<1>3. Dot(h, h) = (Dot(r, r) * Dot(v, v)) - (Dot(r, v) * Dot(r, v))
  BY <1>1, <1>2, Lagrange DEF Dot
<1>4. Dot(h, v) = 0
  BY <1>1, <1>2, Coplanar DEF Dot
<1>5. /\ (v.y * h.z) - (v.z * h.y) = (r.x * Dot(v, v)) - (v.x * Dot(r, v))
      /\ (v.z * h.x) - (v.x * h.z) = (r.y * Dot(v, v)) - (v.y * Dot(r, v))
      /\ (v.x * h.y) - (v.y * h.x) = (r.z * Dot(v, v)) - (v.z * Dot(r, v))
  <2>1. (v.y * h.z) - (v.z * h.y) = (r.x * Dot(v, v)) - (v.x * Dot(r, v))
    BY <1>1, <1>2, TripleProduct DEF Dot
  <2>2. \A x, y, z, u, t, w \in Int :
          (w * ((y * w) - (z * t))) - (u * ((x * t) - (y * u)))
          = (y * ((u * u) + (t * t) + (w * w))) - (t * ((x * u) + (y * t) + (z * w)))
    OBVIOUS
  <2>3. \A x, y, z, u, t, w \in Int :
          (u * ((z * u) - (x * w))) - (t * ((y * w) - (z * t)))
          = (z * ((u * u) + (t * t) + (w * w))) - (w * ((x * u) + (y * t) + (z * w)))
    OBVIOUS
  <2>4. (v.z * h.x) - (v.x * h.z) = (r.y * Dot(v, v)) - (v.y * Dot(r, v))
    BY <1>1, <1>2, <2>2 DEF Dot
  <2>5. (v.x * h.y) - (v.y * h.x) = (r.z * Dot(v, v)) - (v.z * Dot(r, v))
    BY <1>1, <1>2, <2>3 DEF Dot
  <2> QED BY <2>1, <2>4, <2>5
<1>6. Cross(v, h) = Combination(r, Dot(v, v), v, Dot(r, v))
  <2> HIDE DEF h
  <2> QED BY <1>5 DEF Cross, Combination, Subtract, Scale, Vector
<1> QED BY <1>3, <1>4, <1>6

LEMMA DistanceIsLength ==
  ASSUME NEW r \in Vectors, \E d \in 1..Dot(r, r) : d * d = Dot(r, r)
  PROVE  /\ Distance(r) \in Nat \ {0}
         /\ Distance(r) * Distance(r) = Dot(r, r)
<1>1. Dot(r, r) \in Nat /\ Dot(r, r) # 0
  BY SelfDot
<1>2. \E d \in 0..Dot(r, r) : d * d = Dot(r, r)
  BY <1>1
<1>3. Distance(r) \in 0..Dot(r, r) /\ Distance(r) * Distance(r) = Dot(r, r)
  BY <1>2 DEF Distance
<1>4. Distance(r) # 0
  BY <1>1, <1>3
<1> QED BY <1>1, <1>3, <1>4

\* The eccentricity is below one for whatever has an angular momentum and is bound:
\* what it lacks is the product of the two.
LEMMA EccentricityIs ==
  ASSUME NEW r \in Vectors, NEW v \in Vectors, NEW mu \in Int,
         \E d \in 1..Dot(r, r) : d * d = Dot(r, r)
  PROVE  LET d == Distance(r)
             s == Dot(r, v)
             ecc == Eccentricity(r, v, mu)
             h == Cross(r, v)
         IN  /\ ecc \in Vectors
             /\ ecc = Combination(r, (d * Dot(v, v)) - mu, v, d * s)
             /\ Dot(ecc, ecc) = ((mu * d) * (mu * d)) - ((d * Binding(r, v, mu)) * Dot(h, h))
             /\ Cross(ecc, r) = Scale(h, d * s)
<1> DEFINE d == Distance(r)
           V == Dot(v, v)
           s == Dot(r, v)
           h == Cross(r, v)
           ecc == Eccentricity(r, v, mu)
           a == (d * V) - mu
           b == d * s
<1>1. d \in Nat \ {0} /\ Dot(r, r) = d * d
  BY DistanceIsLength
<1>2. V \in Int /\ s \in Int /\ a \in Int /\ b \in Int
  BY <1>1, VectorTypes
<1>3. ecc = Combination(r, a, v, b)
  <2>1. ecc = Subtract(Scale(Combination(r, V, v, s), d), Scale(r, mu))
    BY CrossDots DEF Eccentricity
  <2>2. \A x, u \in Int : (((x * V) - (u * s)) * d) - (x * mu) = (x * a) - (u * b)
    BY <1>1, <1>2
  <2>3. /\ r.x \in Int /\ r.y \in Int /\ r.z \in Int
        /\ v.x \in Int /\ v.y \in Int /\ v.z \in Int
    BY DEF Vectors
  <2>4. ecc = Vector((((r.x * V) - (v.x * s)) * d) - (r.x * mu),
                     (((r.y * V) - (v.y * s)) * d) - (r.y * mu),
                     (((r.z * V) - (v.z * s)) * d) - (r.z * mu))
    <3> HIDE DEF ecc, V, s, d
    <3> QED BY <2>1 DEF Combination, Subtract, Scale, Vector
  <2>5. /\ (((r.x * V) - (v.x * s)) * d) - (r.x * mu) = (r.x * a) - (v.x * b)
        /\ (((r.y * V) - (v.y * s)) * d) - (r.y * mu) = (r.y * a) - (v.y * b)
        /\ (((r.z * V) - (v.z * s)) * d) - (r.z * mu) = (r.z * a) - (v.z * b)
    BY <2>2, <2>3
  <2>6. Combination(r, a, v, b) = Vector((r.x * a) - (v.x * b), (r.y * a) - (v.y * b),
                                         (r.z * a) - (v.z * b))
    BY DEF Combination, Subtract, Scale, Vector
  <2> HIDE DEF ecc, V, s, d, a, b
  <2> QED BY <2>4, <2>5, <2>6
<1>4. Dot(ecc, ecc) = ((mu * d) * (mu * d)) - ((d * Binding(r, v, mu)) * Dot(h, h))
  <2>1. Dot(ecc, ecc) = (((a * a) * (d * d)) + ((b * b) * V)) - ((2 * (a * b)) * s)
    <3> HIDE DEF ecc, V, s, d, a, b
    <3>1. Dot(Combination(r, a, v, b), Combination(r, a, v, b))
            = (((a * a) * Dot(r, r)) + ((b * b) * Dot(v, v))) - ((2 * (a * b)) * Dot(r, v))
      BY <1>2, CombinationDots
    <3> QED BY <1>1, <1>3, <3>1 DEF V, s
  <2>2. Dot(h, h) = ((d * d) * V) - (s * s)
    BY <1>1, CrossDots
  <2>3. Binding(r, v, mu) = (2 * mu) - (d * V)
    BY DEF Binding
  <2>4. (((a * a) * (d * d)) + ((b * b) * V)) - ((2 * (a * b)) * s)
        = ((mu * d) * (mu * d)) - ((d * ((2 * mu) - (d * V))) * (((d * d) * V) - (s * s)))
    <3> HIDE DEF V, s, d
    <3> QED BY <1>1, <1>2, EccSquare
  <2> HIDE DEF ecc, V, s, d, a, b, h
  <2> QED BY <2>1, <2>2, <2>3, <2>4
<1>5. ecc \in Vectors /\ Cross(ecc, r) = Scale(h, b)
  <2> HIDE DEF ecc, d, V, s, a, b
  <2> QED BY <1>2, <1>3, CombinationDots
<1> QED BY <1>3, <1>4, <1>5

\* The empty focus.
LEMMA EmptyFocus ==
  ASSUME NEW r \in Vectors, NEW v \in Vectors, NEW mu \in Int, NEW o,
         \E d \in 1..Dot(r, r) : d * d = Dot(r, r),
         o.unit = Binding(r, v, mu),
         o.semiMajor = mu * Distance(r),
         o.ellipseCenter = Scale(Eccentricity(r, v, mu), -1)
  PROVE  LET toEmpty == FromEmptyFocus(o, r)
             second == DistanceFromEmptyFocus(o, r)
         IN  /\ second >= 0
             /\ Dot(toEmpty, toEmpty) = second * second
             /\ (Dot(v, toEmpty) * Distance(r)) + (Dot(v, r) * second) = 0
<1> DEFINE d == Distance(r)
           V == Dot(v, v)
           s == Dot(r, v)
           ecc == Eccentricity(r, v, mu)
           toEmpty == FromEmptyFocus(o, r)
           second == DistanceFromEmptyFocus(o, r)
           p == d * V
           q == 2 * (d * s)
<1>1. d \in Nat \ {0} /\ Dot(r, r) = d * d
  BY DistanceIsLength
<1>2. V \in Nat /\ s \in Int /\ p \in Int /\ q \in Int
  <2>1. V \in Nat
    BY SelfDot
  <2>2. s \in Int
    BY VectorTypes
  <2> HIDE DEF d, s, V
  <2> QED BY <1>1, <2>1, <2>2
<1>3. second = (d * d) * V /\ second >= 0
  <2>1. second = (2 * (mu * d)) - (((2 * mu) - (d * V)) * d)
    BY DEF DistanceFromEmptyFocus, Binding
  <2>2. \A x, y \in Nat : (2 * (mu * x)) - (((2 * mu) - (x * y)) * x) = (x * x) * y
    OBVIOUS
  <2>3. \A x, y \in Nat : (x * x) * y >= 0
    OBVIOUS
  <2> HIDE DEF second, V, d
  <2> QED BY <1>1, <1>2, <2>1, <2>2, <2>3
<1>4. toEmpty = Combination(r, p, v, q)
  <2>1. /\ ecc.x = (r.x * (p - mu)) - (v.x * (d * s))
        /\ ecc.y = (r.y * (p - mu)) - (v.y * (d * s))
        /\ ecc.z = (r.z * (p - mu)) - (v.z * (d * s))
    <3>1. ecc = Combination(r, p - mu, v, d * s)
      BY EccentricityIs
    <3> HIDE DEF ecc, p, d, s
    <3> QED BY <3>1 DEF Combination, Subtract, Scale, Vector
  <2>2. o.unit = (2 * mu) - p
    BY DEF Binding
  <2>3. /\ r.x \in Int /\ r.y \in Int /\ r.z \in Int
        /\ v.x \in Int /\ v.y \in Int /\ v.z \in Int
    BY DEF Vectors
  <2>4. toEmpty = Vector((r.x * o.unit) - ((ecc.x * (-1)) * 2),
                         (r.y * o.unit) - ((ecc.y * (-1)) * 2),
                         (r.z * o.unit) - ((ecc.z * (-1)) * 2))
    <3>1. o.ellipseCenter = Scale(ecc, -1)
      OBVIOUS
    <3>2. Scale(ecc, -1) = Vector(ecc.x * (-1), ecc.y * (-1), ecc.z * (-1))
      BY DEF Scale
    <3> HIDE DEF ecc
    <3> QED BY <3>1, <3>2 DEF FromEmptyFocus, Subtract, Scale, Vector
  <2>5. \A x, u \in Int :
          (x * ((2 * mu) - p)) - ((((x * (p - mu)) - (u * (d * s))) * (-1)) * 2)
            = (x * p) - (u * q)
    <3> HIDE DEF d, s, p
    <3> QED BY <1>1, <1>2
  <2>6. /\ (r.x * o.unit) - ((ecc.x * (-1)) * 2) = (r.x * p) - (v.x * q)
        /\ (r.y * o.unit) - ((ecc.y * (-1)) * 2) = (r.y * p) - (v.y * q)
        /\ (r.z * o.unit) - ((ecc.z * (-1)) * 2) = (r.z * p) - (v.z * q)
    <3> HIDE DEF d, s, p, q, ecc
    <3> QED BY <2>1, <2>2, <2>3, <2>5
  <2>7. Combination(r, p, v, q) = Vector((r.x * p) - (v.x * q), (r.y * p) - (v.y * q),
                                         (r.z * p) - (v.z * q))
    BY DEF Combination, Subtract, Scale, Vector
  <2> HIDE DEF toEmpty, p, q
  <2> QED BY <2>4, <2>6, <2>7
<1>5. Dot(toEmpty, toEmpty) = second * second
  <2>1. Dot(toEmpty, toEmpty) = (((p * p) * (d * d)) + ((q * q) * V)) - ((2 * (p * q)) * s)
    <3> HIDE DEF toEmpty, d, V, s, p, q
    <3>1. Dot(Combination(r, p, v, q), Combination(r, p, v, q))
            = (((p * p) * Dot(r, r)) + ((q * q) * Dot(v, v))) - ((2 * (p * q)) * Dot(r, v))
      BY <1>2, CombinationDots
    <3> QED BY <1>1, <1>4, <3>1 DEF V, s
  <2>2. (((p * p) * (d * d)) + ((q * q) * V)) - ((2 * (p * q)) * s)
        = ((d * d) * V) * ((d * d) * V)
    <3> HIDE DEF V, s, d
    <3> QED BY <1>1, <1>2, FocusSquare
  <2> HIDE DEF toEmpty, second, d, V, s, p, q
  <2> QED BY <1>3, <2>1, <2>2
<1>6. (Dot(v, toEmpty) * d) + (Dot(v, r) * second) = 0
  <2>1. Dot(v, toEmpty) = (p * s) - (q * V)
    <3> HIDE DEF toEmpty, d, V, s, p, q
    <3>1. Dot(v, Combination(r, p, v, q)) = (p * Dot(r, v)) - (q * Dot(v, v))
      BY <1>2, CombinationDots
    <3> QED BY <1>4, <3>1 DEF V, s
  <2>2. (((p * s) - (q * V)) * d) + (s * ((d * d) * V)) = 0
    <3> HIDE DEF V, s, d
    <3> QED BY <1>1, <1>2, FocusDot
  <2>3. Dot(v, r) = s
    BY DotCommutes
  <2> HIDE DEF toEmpty, second, d, V, s, p, q
  <2> QED BY <1>3, <2>1, <2>2, <2>3
<1> QED BY <1>3, <1>5, <1>6

\* Every fit is an orbit of its ship, and there is a fit for the ships that have an
\* orbit.
LEMMA FitIsRight ==
  ASSUME NEW r \in Vectors, NEW v \in Vectors, NEW mu \in Nat \ {0},
         \E d \in 1..Dot(r, r) : d * d = Dot(r, r)
  PROVE  LET o == FitOrbit(r, v, mu)
         IN  /\ o.isElliptic <=> HasOrbit(r, v, mu)
             /\ o.isElliptic => IsOrbitOf(o, r, v)
<1> DEFINE d == Distance(r)
           k == Binding(r, v, mu)
           h == Cross(r, v)
           ecc == Eccentricity(r, v, mu)
           major == mu * d
           toward == PeriapsisDirection(r, ecc)
           fitted == [isElliptic |-> TRUE,
                      unit |-> k,
                      semiMajor |-> major,
                      semiMinorSquared |-> (major * major) - Dot(ecc, ecc),
                      orbitNormal |-> h,
                      periapsis |-> toward,
                      side |-> Cross(h, toward),
                      ellipseCenter |-> Scale(ecc, -1),
                      cosAnomaly |-> Dot(toward, r),
                      sinAnomaly |-> Dot(h, Cross(toward, r))]
<1>1. /\ d \in Nat \ {0} /\ k \in Int /\ h \in Vectors /\ ecc \in Vectors
      /\ Dot(h, h) \in Nat /\ (h # Zero => Dot(h, h) > 0) /\ Dot(r, v) \in Int
  <2>1. d \in Nat \ {0}
    BY DistanceIsLength
  <2>2. Dot(r, v) \in Int /\ Dot(v, v) \in Int /\ h \in Vectors
    BY VectorTypes
  <2>3. k \in Int
    BY <2>1, <2>2 DEF Binding
  <2>4. Dot(h, h) \in Nat /\ (Dot(h, h) = 0 <=> h = Zero)
    <3> HIDE DEF h
    <3> QED BY <2>2, SelfDot
  <2>5. ecc \in Vectors
    BY EccentricityIs
  <2> HIDE DEF d, k, h, ecc
  <2> QED BY <2>1, <2>2, <2>3, <2>4, <2>5
<1>2. (major * major) - Dot(ecc, ecc) = (d * k) * Dot(h, h)
  <2>1. Dot(ecc, ecc) = (major * major) - ((d * k) * Dot(h, h))
    BY EccentricityIs
  <2>2. major * major \in Int /\ (d * k) * Dot(h, h) \in Int
    <3> HIDE DEF d, k, h, ecc
    <3> QED BY <1>1
  <2> HIDE DEF major, d, k, h, ecc
  <2> QED BY <2>1, <2>2
<1>3. CASE ~HasOrbit(r, v, mu)
  <2>1. h = Zero \/ k <= 0
    BY <1>1, <1>3 DEF HasOrbit
  <2>2. FitOrbit(r, v, mu) = NoOrbit
    BY <2>1 DEF FitOrbit
  <2>3. ~NoOrbit.isElliptic
    BY DEF NoOrbit
  <2> QED BY <1>3, <2>2, <2>3
<1>4. CASE HasOrbit(r, v, mu)
  <2>1. h # Zero /\ k > 0 /\ Dot(h, h) > 0
    BY <1>1, <1>4 DEF HasOrbit
  <2>2. (major * major) - Dot(ecc, ecc) > 0
    <3>1. \A x, y, z \in Nat : x > 0 /\ y > 0 /\ z > 0 => (x * y) * z > 0
      OBVIOUS
    <3> HIDE DEF major, d, k, h, ecc
    <3> QED BY <1>1, <1>2, <2>1, <3>1
  <2>3. FitOrbit(r, v, mu) = fitted
    <3>1. major * major \in Int /\ Dot(ecc, ecc) \in Int
      <4>1. major * major \in Int
        BY <1>1
      <4>2. Dot(ecc, ecc) \in Int
        <5> HIDE DEF ecc
        <5> QED BY <1>1, VectorTypes
      <4> QED BY <4>1, <4>2
    <3>2. ~(Dot(ecc, ecc) >= major * major)
      <4> HIDE DEF major, ecc
      <4> QED BY <2>2, <3>1
    <3>3. ~(h = Zero \/ k <= 0 \/ Dot(ecc, ecc) >= major * major)
      <4> HIDE DEF d, k, h, ecc, major
      <4> QED BY <1>1, <2>1, <3>2
    <3> QED BY <3>3, Zenon DEF FitOrbit
  <2>4. IsOrbitOf(fitted, r, v)
    <3>1. /\ fitted.unit = k /\ fitted.semiMajor = major /\ fitted.isElliptic
          /\ fitted.semiMinorSquared = (major * major) - Dot(ecc, ecc)
          /\ fitted.periapsis = toward /\ fitted.side = Cross(h, toward)
          /\ fitted.ellipseCenter = Scale(ecc, -1)
          /\ fitted.sinAnomaly = Dot(h, Cross(toward, r))
      <4> HIDE DEF d, k, h, ecc, major, toward
      <4> QED OBVIOUS
    <3>2. LET toEmpty == FromEmptyFocus(fitted, r)
              second == DistanceFromEmptyFocus(fitted, r)
          IN  /\ second >= 0
              /\ Dot(toEmpty, toEmpty) = second * second
              /\ (Dot(v, toEmpty) * Distance(r)) + (Dot(v, r) * second) = 0
      <4>1. /\ fitted.unit = Binding(r, v, mu)
            /\ fitted.semiMajor = mu * Distance(r)
            /\ fitted.ellipseCenter = Scale(Eccentricity(r, v, mu), -1)
        BY <3>1
      <4> HIDE DEF fitted
      <4> QED BY <4>1, EmptyFocus
    <3>3. toward \in Vectors /\ Dot(Cross(h, toward), toward) = 0
      <4>1. toward \in Vectors
        BY <1>1 DEF PeriapsisDirection
      <4> HIDE DEF h, toward
      <4> QED BY <1>1, <4>1, CrossDots
    <3>4. /\ Dot(Scale(ecc, -1), Scale(ecc, -1)) = Dot(ecc, ecc)
          /\ Dot(toward, Scale(ecc, -1)) <= 0
          /\ Cross(toward, Scale(ecc, -1)) = Zero
          /\ Scale(ecc, -1) # Zero => ecc # Zero
      <4> DEFINE minus == Scale(ecc, -1)
      <4> HIDE DEF ecc, h, d, k
      <4> SUFFICES /\ Dot(minus, minus) = Dot(ecc, ecc)
                   /\ Dot(toward, minus) <= 0
                   /\ Cross(toward, minus) = Zero
                   /\ minus # Zero => ecc # Zero
        OBVIOUS
      <4>1. /\ ecc.x \in Int /\ ecc.y \in Int /\ ecc.z \in Int
            /\ minus = Vector(ecc.x * (-1), ecc.y * (-1), ecc.z * (-1))
        BY <1>1 DEF Vectors, Scale
      <4>2. minus.x = -ecc.x /\ minus.y = -ecc.y /\ minus.z = -ecc.z
        <5> HIDE DEF minus
        <5> QED BY <4>1 DEF Vector
      <4>3. Dot(minus, minus) = Dot(ecc, ecc) /\ Dot(ecc, minus) = -Dot(ecc, ecc)
        <5>1. \A x, y, z \in Int :
                /\ ((-x) * (-x)) + ((-y) * (-y)) + ((-z) * (-z)) = (x * x) + (y * y) + (z * z)
                /\ (x * (-x)) + (y * (-y)) + (z * (-z)) = -((x * x) + (y * y) + (z * z))
          OBVIOUS
        <5> HIDE DEF minus
        <5> QED BY <4>1, <4>2, <5>1 DEF Dot
      <4>4. ecc = Zero => minus = Zero
        BY DEF Scale, Zero, Vector
      <4>5. CASE ecc # Zero
        <5>1. toward = ecc
          BY <4>5 DEF PeriapsisDirection
        <5>2. Cross(ecc, minus) = Zero
          <6>1. \A x, y \in Int : (x * (-y)) - (y * (-x)) = 0
            OBVIOUS
          <6>2. /\ (ecc.y * minus.z) - (ecc.z * minus.y) = 0
                /\ (ecc.z * minus.x) - (ecc.x * minus.z) = 0
                /\ (ecc.x * minus.y) - (ecc.y * minus.x) = 0
            <7> HIDE DEF minus
            <7> QED BY <4>1, <4>2, <6>1
          <6> HIDE DEF minus
          <6> QED BY <6>2 DEF Cross, Zero
        <5>3. Dot(ecc, ecc) \in Nat
          BY <1>1, SelfDot
        <5> HIDE DEF minus, toward
        <5> QED BY <4>3, <4>5, <5>1, <5>2, <5>3
      <4>6. CASE ecc = Zero
        <5>1. toward = r /\ minus = Zero
          BY <4>4, <4>6 DEF PeriapsisDirection
        <5>2. Dot(r, Zero) = 0 /\ Cross(r, Zero) = Zero
          <6>1. \A x, y \in Int : (x * 0) - (y * 0) = 0 /\ x * 0 = 0
            OBVIOUS
          <6>2. r.x \in Int /\ r.y \in Int /\ r.z \in Int
            BY DEF Vectors
          <6> QED BY <6>1, <6>2 DEF Dot, Cross, Zero, Vector
        <5> HIDE DEF minus, toward
        <5> QED BY <4>3, <4>6, <5>1, <5>2
      <4> QED BY <4>5, <4>6
    <3>5. Scale(ecc, -1) # Zero => (Dot(h, Cross(toward, r)) > 0 <=> Dot(v, r) > 0)
      <4> SUFFICES ASSUME Scale(ecc, -1) # Zero
                   PROVE  Dot(h, Cross(toward, r)) > 0 <=> Dot(v, r) > 0
        OBVIOUS
      <4>1. toward = ecc
        BY <3>4 DEF PeriapsisDirection
      <4>2. Cross(ecc, r) = Scale(h, d * Dot(r, v))
        BY EccentricityIs
      <4>3. Dot(h, Cross(ecc, r)) = Dot(h, h) * (d * Dot(r, v))
        <5> HIDE DEF h, ecc, d
        <5> QED BY <1>1, <4>2, DotScales
      <4>4. \A x, y \in Nat, s \in Int : x > 0 /\ y > 0 => (x * (y * s) > 0 <=> s > 0)
        OBVIOUS
      <4>5. Dot(h, h) * (d * Dot(r, v)) > 0 <=> Dot(r, v) > 0
        <5> HIDE DEF h, d
        <5> QED BY <1>1, <2>1, <4>4
      <4>6. Dot(v, r) = Dot(r, v)
        BY DotCommutes
      <4> HIDE DEF h, ecc, d, toward
      <4> QED BY <4>1, <4>3, <4>5, <4>6
    <3>6. /\ fitted.unit > 0 /\ fitted.semiMinorSquared > 0
          /\ Dot(fitted.ellipseCenter, fitted.ellipseCenter) + fitted.semiMinorSquared
               = fitted.semiMajor * fitted.semiMajor
      <4>1. major * major \in Int /\ Dot(ecc, ecc) \in Int
        <5>1. major * major \in Int
          BY <1>1
        <5>2. Dot(ecc, ecc) \in Int
          <6> HIDE DEF ecc
          <6> QED BY <1>1, VectorTypes
        <5> QED BY <5>1, <5>2
      <4> HIDE DEF fitted, major, ecc, d, k, h, toward
      <4> QED BY <2>1, <2>2, <3>1, <3>4, <4>1
    <3> HIDE DEF fitted, major, ecc, d, k, h, toward
    <3> QED BY <3>1, <3>2, <3>3, <3>4, <3>5, <3>6 DEF IsOrbitOf
  <2>5. fitted.isElliptic
    <3> HIDE DEF d, k, h, ecc, major, toward
    <3> QED OBVIOUS
  <2> HIDE DEF fitted
  <2> QED BY <1>4, <2>3, <2>4, <2>5
<1> QED BY <1>3, <1>4

\* What is cached is the fit of one ship around a body.
OrbitInv ==
  /\ current \in Motion!BodyIds
  /\ tickCount > 0 =>
       /\ cache.referenceBodyId \in Motion!BodyIds
       /\ \E rel \in Relatives : cache.position = rel.position /\ cache.velocity = rel.velocity
       /\ cache.orbit =
            FitOrbit(cache.position, cache.velocity, Mu[cache.referenceBodyId])

LEMMA ScoredAreBodies ==
  /\ Scored \subseteq Motion!BodyIds
  /\ Scored # {}
  /\ Bodies[1] \in Motion!BodyIds
<1> DEFINE last == IF Len(Bodies) < MaxBodies THEN Len(Bodies) ELSE MaxBodies
<1>1. Len(Bodies) \in Nat \ {0} /\ MaxBodies \in Nat \ {0}
  BY ScoreAssumption
<1>2. last \in Nat \ {0} /\ last <= Len(Bodies)
  BY <1>1
<1>3. \A i \in 1..last : Bodies[i] \in Motion!BodyIds
  BY <1>1, <1>2, ScoreAssumption
<1> HIDE DEF last
<1>4. 1 \in 1..last
  BY <1>2
<1> QED BY <1>3, <1>4 DEF Scored, last

LEMMA OrbitInit == Init => OrbitInv
BY ScoredAreBodies DEF Init, OrbitInv

LEMMA OrbitStep ==
  ASSUME CacheInv, OrbitInv, [Next]_vars
  PROVE  OrbitInv'
<1>1. CASE \E on \in BOOLEAN : UpdateShipControl(on)
  BY <1>1 DEF UpdateShipControl, OrbitInv
<1>2. CASE UNCHANGED vars
  BY <1>2 DEF vars, OrbitInv
<1>3. ASSUME NEW score \in [Scored -> Scores], NEW rel \in Relatives, Tick(score, rel)
      PROVE  OrbitInv'
  <2>1. current' \in Motion!BodyIds
    <3>1. CASE SelectFirst(score)
      BY <3>1, ScoredAreBodies, StrongestIsThere DEF SelectFirst
    <3>2. CASE Select(score, Challengers(score))
      <4>1. CASE current' = current
        BY <4>1 DEF OrbitInv
      <4>2. CASE current' # current
        <5>1. /\ Challengers(score) # {}
              /\ current' = Strongest(Scored \ {current}, score)
          BY <3>2, <4>2 DEF Select
        <5>2. Scored \ {current} # {}
          BY <5>1 DEF Challengers
        <5> QED BY <5>1, <5>2, ScoredAreBodies, StrongestIsThere
      <4> QED BY <4>1, <4>2
    <3> QED BY <1>3, <3>1, <3>2 DEF Tick
  <2>2. CASE Invalidated \/ tickCount + 1 >= cache.validUntilTick \/ cache.epoch = 0
    <3>1. /\ cache'.referenceBodyId = current'
          /\ cache'.position = rel.position /\ cache'.velocity = rel.velocity
          /\ cache'.orbit = FitOrbit(rel.position, rel.velocity, Mu[current'])
      BY <1>3, <2>2 DEF Tick, UpdateCache
    <3> QED BY <2>1, <3>1 DEF OrbitInv
  <2>3. CASE ~(Invalidated \/ tickCount + 1 >= cache.validUntilTick \/ cache.epoch = 0)
    <3>1. cache' = cache /\ cache.epoch # 0
      BY <1>3, <2>3 DEF Tick, UpdateCache
    <3>2. tickCount > 0
      BY <3>1 DEF CacheInv
    <3> QED BY <2>1, <3>1, <3>2 DEF OrbitInv
  <2> QED BY <2>2, <2>3
<1> QED BY <1>1, <1>2, <1>3 DEF Next

LEMMA TelemetryOrbit == Spec => []OrbitInv
<1> QED BY OrbitInit, OrbitStep, TelemetryCache, PTL DEF Spec

\* Whatever is selected, controlled and pulled, an orbit that is read is around the
\* body that is selected. It is the ellipse of the ship it was fitted for, and there
\* is one exactly for what is bound and does not fall straight, for all integer
\* positions at an integer distance and all integer velocities.
THEOREM TelemetryOrbitIsOfItsShip == Spec => []OrbitIsOfItsShip
<1>1. CacheInv /\ OrbitInv => OrbitIsOfItsShip
  <2> SUFFICES ASSUME CacheInv, OrbitInv, tickCount > 0
               PROVE  LET r == cache.position
                          v == cache.velocity
                      IN  /\ ~cache.dirty /\ cache.referenceBodyId = current
                          /\ cache.orbit.isElliptic <=> HasOrbit(r, v, Mu[current])
                          /\ cache.orbit.isElliptic => IsOrbitOf(cache.orbit, r, v)
    BY DEF OrbitIsOfItsShip
  <2>1. PICK rel \in Relatives : cache.position = rel.position /\ cache.velocity = rel.velocity
    BY DEF OrbitInv
  <2>2. rel.position \in Vectors /\ rel.velocity \in Vectors
    <3>1. ASSUME NEW a, a.x \in Int, a.y \in Int, a.z \in Int, a = Vector(a.x, a.y, a.z)
          PROVE  a \in Vectors
      BY <3>1 DEF Vector, Vectors
    <3> QED BY <3>1, FitAssumption
  <2>3. \E d \in 1..Dot(rel.position, rel.position) : d * d = Dot(rel.position, rel.position)
    BY FitAssumption
  <2>4. Mu[current] \in Nat \ {0}
    BY FitAssumption DEF OrbitInv
  <2>5. ~cache.dirty /\ cache.referenceBodyId = current
    BY DEF CacheInv, CacheIsValid
  <2>6. cache.orbit = FitOrbit(rel.position, rel.velocity, Mu[current])
    BY <2>1, <2>5 DEF OrbitInv
  <2> QED BY <2>1, <2>2, <2>3, <2>4, <2>5, <2>6, FitIsRight
<1> QED BY <1>1, TelemetryCache, TelemetryOrbit, PTL

-----------------------------------------------------------------------------
(* The motion of the bodies.                                               *)

LEMMA LeastExists ==
  ASSUME NEW n \in Nat, NEW S, S \subseteq 0..n, S # {}
  PROVE  \E x \in S : \A y \in S : x <= y
<1> DEFINE Below(x) == {y \in S : y < x}
           R == StrictSubsetOrdering(S)
           F == {Below(x) : x \in S}
<1>1. F \subseteq FiniteSubsetsOf(S) /\ F # {}
  <2>1. FiniteSubsetsOf(S) = SUBSET S
    BY FS_BoundedSetOfNaturals, FS_FiniteSubsetsOfFinite
  <2>2. F \subseteq SUBSET S /\ F # {}
    OBVIOUS
  <2> QED BY <2>1, <2>2
<1>2. PICK b \in F : \A c \in F : <<c, b>> \notin R
  <2>1. IsWellFoundedOn(R, FiniteSubsetsOf(S))
    BY FS_StrictSubsetOrderingWellFounded
  <2> HIDE DEF R, F
  <2> QED BY <1>1, <2>1, WFMin
<1>3. PICK x \in S : b = Below(x)
  OBVIOUS
<1>4. ASSUME NEW y \in S, y < x PROVE FALSE
  <2>1. Below(y) \subseteq Below(x) /\ Below(y) # Below(x)
    <3>1. y \in Below(x) /\ y \notin Below(y)
      BY <1>4
    <3>2. ASSUME NEW z \in S, z < y PROVE z < x
      BY <1>4, <3>2
    <3>3. Below(y) \subseteq Below(x)
      BY <3>2
    <3> QED BY <3>1, <3>3, Zenon
  <2>2. <<Below(y), Below(x)>> \in R
    BY <2>1 DEF StrictSubsetOrdering
  <2> QED BY <1>2, <1>3, <2>2
<1> QED BY <1>4

\* The index of a body, and of the centre of the body at an index.
IndexOf(b) == CHOOSE i \in 1..Len(Bodies) : Bodies[i] = b

CentreIndex(i) == CHOOSE j \in 1..(i - 1) : Bodies[j] = CentreOf[Bodies[i]]

LEMMA IndexTypes ==
  /\ Len(Bodies) \in Nat \ {0}
  /\ \A i \in 1..Len(Bodies) : Bodies[i] \in Motion!BodyIds /\ IndexOf(Bodies[i]) = i
  /\ \A b \in Motion!BodyIds : IndexOf(b) \in 1..Len(Bodies) /\ Bodies[IndexOf(b)] = b
  /\ \A i \in 1..Len(Bodies) : Bodies[i] \in Motion!Orbiting =>
       /\ CentreIndex(i) \in 1..(i - 1) /\ CentreIndex(i) \in 1..Len(Bodies)
       /\ Bodies[CentreIndex(i)] = CentreOf[Bodies[i]]
<1>1. Len(Bodies) \in Nat \ {0}
  BY ScoreAssumption
<1>2. \A b \in Motion!BodyIds : IndexOf(b) \in 1..Len(Bodies) /\ Bodies[IndexOf(b)] = b
  BY DEF IndexOf, Motion!BodyIds
<1>3. \A i \in 1..Len(Bodies) : Bodies[i] \in Motion!BodyIds
  BY DEF Motion!BodyIds
<1>4. \A i \in 1..Len(Bodies) : IndexOf(Bodies[i]) = i
  BY <1>2, <1>3, BodiesAssumption
<1>5. ASSUME NEW i \in 1..Len(Bodies), Bodies[i] \in Motion!Orbiting
      PROVE  /\ CentreIndex(i) \in 1..(i - 1) /\ CentreIndex(i) \in 1..Len(Bodies)
             /\ Bodies[CentreIndex(i)] = CentreOf[Bodies[i]]
  <2>1. \E j \in 1..(i - 1) : Bodies[j] = CentreOf[Bodies[i]]
    BY <1>5, BodiesAssumption DEF Motion!CentresFirst
  <2>2. CentreIndex(i) \in 1..(i - 1) /\ Bodies[CentreIndex(i)] = CentreOf[Bodies[i]]
    BY <2>1 DEF CentreIndex
  <2> QED BY <1>1, <2>2
<1> QED BY <1>1, <1>2, <1>3, <1>4, <1>5

\* A set of bodies that has the centres of all its members.
Closed(bs) == \A b \in bs : b \in Motion!Orbiting => CentreOf[b] \in bs

\* The orbiting bodies of every closed set that has a body: it and its centres.
Ancestry(b) ==
  {c \in Motion!Orbiting :
     \A bs \in SUBSET Motion!BodyIds : Closed(bs) /\ b \in bs => c \in bs}

LEMMA AncestryStep ==
  ASSUME NEW b \in Motion!BodyIds
  PROVE  Ancestry(b) = IF b \in Motion!Orbiting THEN {b} \cup Ancestry(CentreOf[b]) ELSE {}
<1>1. CASE b \notin Motion!Orbiting
  <2>1. Closed({b}) /\ {b} \in SUBSET Motion!BodyIds
    BY <1>1 DEF Closed
  <2> QED BY <1>1, <2>1 DEF Ancestry
<1>2. CASE b \in Motion!Orbiting
  <2>1. ASSUME NEW c \in Ancestry(CentreOf[b]) PROVE c \in Ancestry(b)
    BY <1>2, <2>1 DEF Ancestry, Closed
  <2>2. b \in Ancestry(b)
    BY <1>2 DEF Ancestry
  <2>3. ASSUME NEW c \in Ancestry(b), c # b PROVE c \in Ancestry(CentreOf[b])
    <3> SUFFICES ASSUME NEW bs \in SUBSET Motion!BodyIds, Closed(bs), CentreOf[b] \in bs
                 PROVE  c \in bs
      BY <2>3 DEF Ancestry
    <3>1. Closed(bs \cup {b}) /\ bs \cup {b} \in SUBSET Motion!BodyIds
      BY DEF Closed
    <3> QED BY <2>3, <3>1 DEF Ancestry
  <2> QED BY <1>2, <2>1, <2>2, <2>3
<1> QED BY <1>1, <1>2

\* The circles a body moves on are those of its centre and its own. The recursive
\* function that collects them has such values because there are such sets.
LEMMA CirclesEquation ==
  ASSUME NEW b \in Motion!BodyIds
  PROVE  Motion!Circles(b) =
           IF b \in Motion!Orbiting THEN {b} \cup Motion!Circles(CentreOf[b]) ELSE {}
<1> DEFINE n == Len(Bodies)
           G == [i \in 1..n |-> Ancestry(Bodies[i])]
<1>1. G = [i \in 1..n |-> IF Bodies[i] \in Motion!Orbiting
                           THEN {Bodies[i]} \cup G[CentreIndex(i)] ELSE {}]
  BY IndexTypes, AncestryStep
<1>2. Motion!CirclesAt =
        [i \in 1..n |-> IF Bodies[i] \in Motion!Orbiting
                        THEN {Bodies[i]} \cup Motion!CirclesAt[CentreIndex(i)] ELSE {}]
  <2> HIDE DEF G
  <2> QED BY <1>1 DEF Motion!CirclesAt, CentreIndex
<1>3. \A a \in Motion!BodyIds : Motion!Circles(a) = Motion!CirclesAt[IndexOf(a)]
  BY DEF Motion!Circles, IndexOf
<1>4. PICK i \in 1..n : i = IndexOf(b) /\ Bodies[i] = b
  BY IndexTypes
<1>5. Motion!Circles(b) = IF b \in Motion!Orbiting
                          THEN {b} \cup Motion!CirclesAt[CentreIndex(i)] ELSE {}
  BY <1>2, <1>3, <1>4
<1>6. b \in Motion!Orbiting => /\ CentreOf[b] \in Motion!BodyIds
                              /\ IndexOf(CentreOf[b]) = CentreIndex(i)
  BY <1>4, IndexTypes
<1> QED BY <1>3, <1>5, <1>6

\* The positions of the bodies whose circles are all at one time.
PosesOf(t) == [b \in Motion!BodyIds |-> [c \in Motion!Circles(b) |-> t]]

\* A pass over the vector takes all the bodies from one time to another: after each
\* step, the bodies so far are at the new time and the others at the old one.
LEMMA PassMovesAll ==
  ASSUME NEW old, NEW t, position = PosesOf(old)
  PROVE  Motion!Moved(t) = PosesOf(t)
<1> DEFINE n == Len(Bodies)
           TimeOf(b, i) == IF IndexOf(b) <= i THEN t ELSE old
           At(i) == [b \in Motion!BodyIds |-> [c \in Motion!Circles(b) |-> TimeOf(b, i)]]
           After(i, seen) ==
             IF Bodies[i] \in Motion!Orbiting
             THEN [seen EXCEPT ![Bodies[i]] =
                     Motion!Around(seen[CentreOf[Bodies[i]]], Bodies[i], t)]
             ELSE seen
           Pass == Motion!Passing(t)
<1>1. n \in Nat \ {0}
  BY IndexTypes
<1>2. At(0) = position
  BY <1>1, IndexTypes DEF PosesOf
<1>3. At(n) = PosesOf(t)
  BY <1>1, IndexTypes DEF PosesOf
<1>4. ASSUME NEW i \in 1..n PROVE At(i) = After(i, At(i - 1))
  <2> DEFINE b == Bodies[i]
             a == CentreOf[b]
  <2>1. b \in Motion!BodyIds /\ IndexOf(b) = i
    BY IndexTypes
  <2>2. ASSUME NEW e \in Motion!BodyIds, e # b PROVE TimeOf(e, i) = TimeOf(e, i - 1)
    <3>1. IndexOf(e) \in 1..n /\ IndexOf(e) # i
      BY <2>2, IndexTypes
    <3> QED BY <1>1, <3>1
  <2>3. TimeOf(b, i) = t
    BY <2>1
  <2>4. CASE b \notin Motion!Orbiting
    <3>1. Motion!Circles(b) = {}
      BY <2>1, <2>4, CirclesEquation
    <3>2. ASSUME NEW e \in Motion!BodyIds PROVE At(i)[e] = At(i - 1)[e]
      BY <2>2, <3>1
    <3>3. At(i) = At(i - 1)
      BY <3>2
    <3> HIDE DEF At
    <3> QED BY <2>4, <3>3
  <2>5. CASE b \in Motion!Orbiting
    <3>1. a \in Motion!BodyIds /\ IndexOf(a) \in 1..(i - 1)
      BY <2>1, <2>5, IndexTypes
    <3>2. Motion!Circles(b) = {b} \cup Motion!Circles(a)
      BY <2>1, <2>5, CirclesEquation
    <3>3. At(i - 1)[a] = [c \in Motion!Circles(a) |-> t]
      BY <1>1, <3>1
    <3>4. Motion!Around(At(i - 1)[a], b, t) = [c \in Motion!Circles(b) |-> t]
      <4> HIDE DEF At
      <4> QED BY <3>2, <3>3 DEF Motion!Around
    <3>5. At(i)[b] = Motion!Around(At(i - 1)[a], b, t)
      BY <2>1, <2>3, <3>4
    <3>6. ASSUME NEW e \in Motion!BodyIds, e # b PROVE At(i)[e] = At(i - 1)[e]
      BY <2>2, <3>6
    <3>7. /\ At(i) = [e \in Motion!BodyIds |-> At(i)[e]]
          /\ At(i - 1) = [e \in Motion!BodyIds |-> At(i - 1)[e]]
      OBVIOUS
    <3> HIDE DEF At
    <3> QED BY <2>1, <2>5, <3>5, <3>6, <3>7
  <2> QED BY <2>4, <2>5
<1> HIDE DEF At
<1>5. Pass = [i \in 0..n |-> IF i = 0 THEN position ELSE After(i, Pass[i - 1])]
  <2> DEFINE G == [i \in 0..n |-> At(i)]
  <2>1. G = [i \in 0..n |-> IF i = 0 THEN position ELSE After(i, G[i - 1])]
    <3>1. ASSUME NEW i \in 0..n, i # 0 PROVE At(i) = After(i, G[i - 1])
      <4>1. i \in 1..n /\ i - 1 \in 0..n
        BY <1>1, <3>1
      <4> QED BY <1>4, <4>1
    <3> HIDE DEF After
    <3> QED BY <1>2, <3>1
  <2> HIDE DEF G
  <2> QED BY <2>1 DEF Motion!Passing
<1>6. \A i \in 0..n : Pass[i] = At(i)
  <2> DEFINE Wrong == {i \in 0..n : Pass[i] # At(i)}
  <2> SUFFICES ASSUME Wrong # {} PROVE FALSE
    OBVIOUS
  <2> HIDE DEF Pass, After
  <2>1. PICK i \in Wrong : \A j \in Wrong : i <= j
    BY <1>1, LeastExists
  <2>2. i # 0
    BY <1>2, <1>5
  <2>3. i \in 1..n /\ i - 1 \in 0..n /\ ~(i <= i - 1)
    BY <1>1, <2>2
  <2>4. Pass[i - 1] = At(i - 1)
    BY <2>1, <2>3
  <2>5. Pass[i] = After(i, At(i - 1))
    BY <1>5, <2>2, <2>4
  <2> QED BY <1>4, <2>3, <2>5
<1> QED BY <1>1, <1>3, <1>6 DEF Motion!Moved

\* All the bodies' circles are at the time of the last tick.
MotionInv ==
  /\ tickCount \in Nat
  /\ position = PosesOf(FixedDt * tickCount)
  /\ velocity \in [Motion!BodyIds -> SUBSET Motion!BodyIds]

LEMMA MotionInit == Init => MotionInv
<1>1. FixedDt * 0 = 0
  BY TickAssumption
<1> QED BY <1>1, BodiesAssumption DEF Init, Motion!Init, MotionInv, PosesOf

LEMMA MotionStep == MotionInv /\ [Next]_vars => MotionInv'
<1> SUFFICES ASSUME MotionInv, [Next]_vars PROVE MotionInv'
  OBVIOUS
<1>1. CASE UNCHANGED vars
  BY <1>1 DEF vars, MotionInv
<1>2. CASE \E on \in BOOLEAN : UpdateShipControl(on)
  BY <1>2 DEF UpdateShipControl, bodyVars, MotionInv
<1>3. ASSUME NEW score \in [Scored -> Scores], NEW rel \in Relatives, Tick(score, rel)
      PROVE  MotionInv'
  <2>1. tickCount' = tickCount + 1 /\ Motion!Update(FixedDt * (tickCount + 1))
    BY <1>3 DEF Tick
  <2>2. position' = PosesOf(FixedDt * (tickCount + 1))
    BY <2>1, PassMovesAll DEF MotionInv, Motion!Update
  <2>3. velocity' \in [Motion!BodyIds -> SUBSET Motion!BodyIds]
    BY <2>1 DEF MotionInv, Motion!Update
  <2> QED BY <2>1, <2>2, <2>3 DEF MotionInv
<1> QED BY <1>1, <1>2, <1>3 DEF Next

LEMMA TelemetryMotion == Spec => []MotionInv
BY MotionInit, MotionStep, PTL DEF Spec

\* However many bodies there are, and however they are centred on one another, a
\* tick leaves none of them, and none of the centres a satellite's position is made
\* of, at the time of another tick.
THEOREM TelemetryBodiesAreOnTime == Spec => []BodiesAreOnTime
<1>1. MotionInv => BodiesAreOnTime
  BY DEF MotionInv, PosesOf, BodiesAreOnTime, Motion!BodiesAreAt
<1> QED BY <1>1, TelemetryMotion, PTL

-----------------------------------------------------------------------------
(* Types.                                                                  *)

\* A lead is not remembered for longer than there have been ticks.
TypeInv == TypeOK /\ past.led <= tickCount

LEMMA TypeInit == Init => TypeInv
<1> SUFFICES ASSUME Init PROVE TypeInv
  OBVIOUS
<1>1. MotionInv
  BY MotionInit
<1>2. MaxTicks \in Nat /\ 0 \in 0..MaxTicks
  BY TickAssumption
<1>3. Bodies[1] \in Motion!BodyIds
  BY ScoredAreBodies
<1>4. cache \in CacheType
  BY <1>2, <1>3 DEF Init, CacheType
<1>5. past \in [led : 0..MaxTicks, on : BOOLEAN, thrust : 0..MaxTicks] /\ past.led <= tickCount
  BY <1>2 DEF Init
<1>6. /\ DOMAIN position = Motion!BodyIds
      /\ \A b \in Motion!BodyIds : position[b] \in [Motion!Circles(b) -> Nat]
  BY DEF Init, Motion!Init
<1> QED BY <1>1, <1>2, <1>3, <1>4, <1>5, <1>6 DEF Init, MotionInv, TypeInv, TypeOK

LEMMA TypeStep ==
  ASSUME TypeInv, CacheInv, [Next]_vars, MotionInv', OrbitInv', LeadInv'
  PROVE  TypeInv'
<1>1. CASE UNCHANGED vars
  BY <1>1 DEF vars, TypeInv, TypeOK, CacheType
<1>2. CASE \E on \in BOOLEAN : UpdateShipControl(on)
  BY <1>2 DEF UpdateShipControl, bodyVars, TypeInv, TypeOK, CacheType
<1>3. ASSUME NEW score \in [Scored -> Scores], NEW rel \in Relatives, Tick(score, rel)
      PROVE  TypeInv'
  <2>1. /\ tickCount' = tickCount + 1 /\ tickCount' \in 0..MaxTicks
        /\ tickCount \in Nat /\ tickCount + 1 \in 0..MaxTicks
    BY <1>3, TickAssumption DEF Tick, TypeInv, TypeOK
  <2>2. active' \in BOOLEAN /\ active \in BOOLEAN /\ active' = active
    BY <1>3 DEF Tick, TypeInv, TypeOK
  <2>3. initialized' \in BOOLEAN
    BY <1>3 DEF Tick, Select, SelectFirst, TypeInv, TypeOK
  <2>4. /\ past' \in [led : 0..MaxTicks, on : BOOLEAN, thrust : 0..MaxTicks]
        /\ past'.led <= tickCount'
    <3>1. /\ past.led \in 0..MaxTicks /\ past.led <= tickCount /\ past.thrust \in 0..MaxTicks
      BY DEF TypeInv, TypeOK
    <3>2. past.led + 1 \in 0..MaxTicks /\ past.led + 1 <= tickCount' /\ 0 <= tickCount'
      BY <2>1, <3>1, TickAssumption
    <3> DEFINE led == IF initialized /\ Challengers(score) # {} /\ current' = current
                      THEN past.led + 1 ELSE 0
               thrust == IF active \/ past.on THEN tickCount + 1 ELSE past.thrust
    <3>3. led \in 0..MaxTicks /\ led <= tickCount'
      BY <2>1, <3>1, <3>2, TickAssumption
    <3>4. thrust \in 0..MaxTicks
      BY <2>1, <3>1
    <3>5. past' = [led |-> led, on |-> active, thrust |-> thrust]
      BY <1>3 DEF Tick, Remember
    <3> HIDE DEF led, thrust
    <3> QED BY <2>2, <3>3, <3>4, <3>5
  <2>5. cache' \in CacheType
    <3>1. CASE cache' = cache
      BY <3>1 DEF CacheType, TypeInv, TypeOK
    <3>2. CASE cache' # cache
      <4> DEFINE validUntil == tickCount + 1 + IF active THEN RefreshActive ELSE RefreshInactive
      <4>1. cache' = [referenceBodyId |-> current', epoch |-> tickCount + 1,
                      validUntilTick |-> validUntil, dirty |-> FALSE,
                      wasThrusting |-> active, position |-> rel.position,
                      velocity |-> rel.velocity,
                      orbit |-> FitOrbit(rel.position, rel.velocity, Mu[current'])]
        BY <1>3, <3>2 DEF Tick, UpdateCache
      <4>2. validUntil \in Nat
        BY <2>1, TickAssumption
      <4>3. current' \in Motion!BodyIds
        BY DEF OrbitInv
      <4>4. FitOrbit(rel.position, rel.velocity, Mu[current']) \in
              {FitOrbit(r.position, r.velocity, Mu[b]) : r \in Relatives, b \in Motion!BodyIds}
        BY <4>3
      <4> HIDE DEF validUntil
      <4> QED BY <2>1, <2>2, <4>1, <4>2, <4>3, <4>4 DEF CacheType
    <3> QED BY <3>1, <3>2
  <2>6. dwell' \in Nat
    <3>1. \A a, b \in Nat : a * b \in Nat
      OBVIOUS
    <3> QED BY <3>1, TickAssumption DEF LeadInv
  <2>7. /\ DOMAIN position' = Motion!BodyIds
        /\ \A b \in Motion!BodyIds : position'[b] \in [Motion!Circles(b) -> Nat]
    <3>1. FixedDt * tickCount' \in Nat
      BY <2>1, TickAssumption
    <3> QED BY <3>1 DEF MotionInv, PosesOf
  <2> QED BY <2>1, <2>2, <2>3, <2>4, <2>5, <2>6, <2>7
       DEF MotionInv, OrbitInv, TypeInv, TypeOK, CacheType
<1> QED BY <1>1, <1>2, <1>3 DEF Next

\* Every quantity keeps its type, for any number of ticks: the history and the
\* accumulator that count them are bounded by it.
THEOREM TelemetryTypes == Spec => []TypeOK
<1>1. TypeInv => TypeOK
  BY DEF TypeInv
<1> QED BY <1>1, TypeInit, TypeStep, TelemetryCache, TelemetryMotion, TelemetryOrbit,
           TelemetryLead, PTL DEF Spec
=============================================================================
