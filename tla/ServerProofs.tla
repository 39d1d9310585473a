--------------------------- MODULE ServerProofs ---------------------------
(***************************************************************************)
(* Proofs about SimulationServer. The invariant of the tick, IInv, holds   *)
(* for every frame length, every set of substep plans and any number of    *)
(* ships, projectiles and ticks. From it: the index is exact, a control    *)
(* reaches its ship and no other, no NetId is used twice, clock, bodies    *)
(* and forces agree between ticks, projectiles live their Ttl, and the     *)
(* snapshots are those of SnapshotFeed.                                    *)
(*                                                                         *)
(* The one idea beyond arithmetic is that of a rank: both the slots a      *)
(* vector has after erase_if and the NetIds the ships that fire in a tick  *)
(* hand out count the elements before one's own.                           *)
(***************************************************************************)
EXTENDS SimulationServer, FiniteSetTheorems, TLAPS

Rank(S, f, s) == Cardinality({r \in S : f[r] < f[s]})

\* A rank is below the number of elements, and ranks are ordered as f is.
LEMMA RankIsAnOrder ==
  ASSUME NEW T, NEW S \in SUBSET T, IsFiniteSet(S), NEW f \in [T -> Nat]
  PROVE  \A s \in S :
           /\ Rank(S, f, s) \in Nat
           /\ Rank(S, f, s) < Cardinality(S)
           /\ \A r \in S : f[r] < f[s] => Rank(S, f, r) < Rank(S, f, s)
<1> SUFFICES ASSUME NEW s \in S
             PROVE  /\ Rank(S, f, s) \in Nat
                    /\ Rank(S, f, s) < Cardinality(S)
                    /\ \A r \in S : f[r] < f[s] => Rank(S, f, r) < Rank(S, f, s)
  OBVIOUS
<1> DEFINE Below(x) == {r \in S : f[r] < f[x]}
<1>1. \A x \in S : /\ Below(x) \in SUBSET S /\ x \notin Below(x)
                   /\ f[x] \in Nat
  OBVIOUS
<1>2. \A x \in S : IsFiniteSet(Below(x)) /\ Cardinality(Below(x)) \in Nat
  BY <1>1, FS_Subset, FS_CardinalityType
<1>3. Cardinality(Below(s)) < Cardinality(S)
  <2>1. Cardinality(Below(s)) <= Cardinality(S) /\ Cardinality(Below(s)) # Cardinality(S)
    BY <1>1, FS_Subset
  <2> QED BY <1>2, <2>1, FS_CardinalityType
<1>4. ASSUME NEW r \in S, f[r] < f[s] PROVE Cardinality(Below(r)) < Cardinality(Below(s))
  <2>1. Below(r) \in SUBSET Below(s)
    <3> SUFFICES ASSUME NEW x \in Below(r) PROVE x \in Below(s)
      OBVIOUS
    <3>1. x \in S /\ f[x] < f[r] /\ f[x] \in Nat /\ f[r] \in Nat /\ f[s] \in Nat
      BY <1>1
    <3> QED BY <3>1, <1>4
  <2>2. Below(r) # Below(s)
    BY <1>1, <1>4
  <2>3. Cardinality(Below(r)) <= Cardinality(Below(s)) /\ Cardinality(Below(r)) # Cardinality(Below(s))
    BY <1>2, <2>1, <2>2, FS_Subset
  <2> HIDE DEF Below
  <2> QED BY <1>2, <2>3
<1> QED BY <1>2, <1>3, <1>4 DEF Rank

\* Where f tells the elements apart, their ranks are the numbers from 0 on.
LEMMA RanksAreConsecutive ==
  ASSUME NEW T, NEW S \in SUBSET T, IsFiniteSet(S), NEW f \in [T -> Nat],
         \A r, s \in S : f[r] = f[s] => r = s
  PROVE  /\ {Rank(S, f, s) : s \in S} = 0..(Cardinality(S) - 1)
         /\ \A r, s \in S : Rank(S, f, r) = Rank(S, f, s) => r = s
<1> DEFINE R == {Rank(S, f, s) : s \in S}
           g == [s \in S |-> Rank(S, f, s)]
           n == Cardinality(S)
<1>1. n \in Nat
  BY FS_CardinalityType
<1>2. \A r, s \in S : Rank(S, f, r) = Rank(S, f, s) => r = s
  <2> SUFFICES ASSUME NEW r \in S, NEW s \in S, r # s
               PROVE  Rank(S, f, r) # Rank(S, f, s)
    OBVIOUS
  <2>1. f[r] \in Nat /\ f[s] \in Nat /\ f[r] # f[s]
    OBVIOUS
  <2>2. f[r] < f[s] \/ f[s] < f[r]
    BY <2>1
  <2> HIDE DEF R, g, n
  <2>3. /\ Rank(S, f, r) \in Nat /\ Rank(S, f, s) \in Nat
        /\ f[r] < f[s] => Rank(S, f, r) < Rank(S, f, s)
        /\ f[s] < f[r] => Rank(S, f, s) < Rank(S, f, r)
    BY RankIsAnOrder
  <2> QED BY <2>2, <2>3
<1>3. g \in Bijection(S, R)
  BY <1>2 DEF Bijection, Injection, Surjection, IsInjective
<1>4. IsFiniteSet(R) /\ Cardinality(R) = n
  BY <1>3, FS_Bijection DEF ExistsBijection
<1>5. R \in SUBSET (0..(n - 1))
  <2> SUFFICES ASSUME NEW s \in S PROVE Rank(S, f, s) \in 0..(n - 1)
    OBVIOUS
  <2>1. Rank(S, f, s) \in Nat /\ Rank(S, f, s) < n
    BY RankIsAnOrder
  <2> HIDE DEF n
  <2> QED BY <1>1, <2>1
<1>6. IsFiniteSet(0..(n - 1)) /\ Cardinality(0..(n - 1)) = n
  <2> HIDE DEF n
  <2>1. 0 \in Int /\ n - 1 \in Int
    BY <1>1
  <2>2. /\ IsFiniteSet(0..(n - 1))
        /\ Cardinality(0..(n - 1)) = IF 0 > n - 1 THEN 0 ELSE (n - 1) - 0 + 1
    BY <2>1, FS_Interval
  <2> QED BY <1>1, <2>2
<1>7. R = 0..(n - 1)
  <2> HIDE DEF R, n
  <2> QED BY <1>4, <1>5, <1>6, FS_Subset
<1> QED BY <1>2, <1>7

-----------------------------------------------------------------------------
\* What TypeOK says of one ship and of one projectile.
LEMMA ShipFacts ==
  ASSUME TypeOK, NEW s \in DOMAIN ships
  PROVE  /\ s \in ShipIds
         /\ ships[s] = [slot |-> ships[s].slot, fire |-> ships[s].fire,
                        motion |-> ships[s].motion]
         /\ ships[s].slot \in Nat
         /\ ships[s].fire \in BOOLEAN
         /\ ships[s].motion \in MotionType
BY DEF TypeOK, ShipType

LEMMA ProjectileFacts ==
  ASSUME TypeOK, NEW p \in DOMAIN projectiles
  PROVE  /\ p \in ProjectileIds
         /\ projectiles[p] \in ProjectileType
         /\ projectiles[p].owner \in ShipIds
         /\ projectiles[p].ttl \in Int
         /\ projectiles[p].born \in Nat
         /\ projectiles[p].motion \in MotionType
BY DEF TypeOK, ProjectileType

LEMMA MotionFacts ==
  ASSUME NEW a \in Int, NEW b \in Int, NEW c \in Int
  PROVE  /\ Motion(a, b, c) \in MotionType
         /\ Motion(a, b, c).at = a
BY DEF Motion, MotionType, Time

LEMMA ShipTypeIntro ==
  ASSUME NEW i \in Nat, NEW b \in BOOLEAN, NEW m \in MotionType
  PROVE  [slot |-> i, fire |-> b, motion |-> m] \in ShipType
BY DEF ShipType

\* There are finitely many ships, and no projectile is a ship.
LEMMA WorldIsFinite ==
  ASSUME TypeOK
  PROVE  /\ IsFiniteSet(DOMAIN ships)
         /\ IsFiniteSet(Firing)
         /\ Cardinality(DOMAIN ships) \in Nat
         /\ Cardinality(Firing) \in Nat
<1>1. /\ FirstShip \in Int /\ FirstShip + MaxShips - 1 \in Int
  BY IdsAssumption, BoundsAssumption
<1>2. IsFiniteSet(ShipIds)
  BY <1>1, FS_Interval DEF ShipIds
<1>3. DOMAIN ships \in SUBSET ShipIds /\ Firing \in SUBSET ShipIds
  BY DEF TypeOK, Firing
<1> QED BY <1>2, <1>3, FS_Subset, FS_CardinalityType

LEMMA IdRanges ==
  /\ FirstShip \in Nat /\ FirstProjectile \in Nat
  /\ MaxShips \in Nat /\ MaxShots \in Nat /\ MaxTicks \in Nat
  /\ FirstShip + MaxShips <= FirstProjectile
  /\ ShipIds \cap ProjectileIds = {}
BY IdsAssumption, BoundsAssumption DEF ShipIds, ProjectileIds

Slots == [s \in DOMAIN ships |-> ships[s].slot]

LEMMA SlotFacts ==
  ASSUME TypeOK
  PROVE  Slots \in [DOMAIN ships -> Nat] /\ \A s \in DOMAIN ships : Slots[s] = ships[s].slot
BY ShipFacts DEF Slots

\* The invariant holds of a world with nothing in it.
LEMMA InitEstablishes == Init => IInv
<1> SUFFICES ASSUME Init PROVE IInv
  OBVIOUS
<1>0. Frame \in Nat /\ Frame * 0 = 0
  BY FrameAssumption
<1>1. /\ DOMAIN ships = {} /\ DOMAIN projectiles = {} /\ DOMAIN leftIn = {}
      /\ DOMAIN shipIndex = {} /\ shipIndex = << >>
  BY DEF Init
<1>2. TypeOK
  <2>1. lastSnapshot \in SnapshotType
    BY DEF Init, SnapshotType, Time
  <2> QED BY <1>1, <2>1, IdRanges DEF Init, TypeOK
<1>3. SlotsAreAVector /\ IndexIsExact /\ EntitiesOnSchedule /\ AgesAreRight
  BY <1>1 DEF SlotsAreAVector, IndexIsExact, EntitiesOnSchedule, AgesAreRight
<1>4. TriggersAreAsked
  <2>1. Firing = {}
    BY <1>1 DEF Firing
  <2> QED BY <2>1, FS_EmptySet, IdRanges DEF Init, TriggersAreAsked
<1>5. NetIdsAreNotReused
  <2>1. FirstShip..(FirstShip - 1) = {} /\ FirstProjectile..(FirstProjectile - 1) = {}
    BY IdRanges
  <2> QED BY <1>1, <2>1 DEF NetIdsAreNotReused, Small, Init
<1>6. OnSchedule
  BY <1>0 DEF OnSchedule, Init
<1> QED BY <1>2, <1>3, <1>4, <1>5, <1>6 DEF IInv

-----------------------------------------------------------------------------
\* A ship spawned is the last of its vector.
LEMMA SpawnShipKeeps == ASSUME IInv, SpawnShip PROVE IInv'
<1> DEFINE slot == Cardinality(DOMAIN ships)
           new == [slot |-> slot, fire |-> FALSE, motion |-> Motion(elapsed, elapsed, bodyTime)]
<1>t. TypeOK
  BY DEF IInv
<1>n. nextShipNetId \in ShipIds /\ nextShipNetId \in Nat /\ nextShipNetId < FirstShip + MaxShips
  <2>1. nextShipNetId \in FirstShip..(FirstShip + MaxShips)
    BY <1>t DEF TypeOK
  <2>2. nextShipNetId < FirstShip + MaxShips
    BY DEF SpawnShip
  <2> QED BY <2>1, <2>2, IdRanges DEF ShipIds
<1>f. nextShipNetId \notin DOMAIN ships /\ nextShipNetId \notin DOMAIN leftIn
  <2>1. nextShipNetId \notin FirstProjectile..(nextProjectileNetId - 1)
    BY <1>n, IdRanges
  <2>2. nextShipNetId \notin FirstShip..(nextShipNetId - 1)
    BY <1>n
  <2> QED BY <2>1, <2>2 DEF IInv, NetIdsAreNotReused, Small
<1>r. new \in ShipType /\ slot \in Nat /\ Motion(elapsed, elapsed, bodyTime) \in MotionType
  <2>1. slot \in Nat
    BY <1>t, WorldIsFinite
  <2>2. Motion(elapsed, elapsed, bodyTime) \in MotionType
    BY <1>t, MotionFacts DEF TypeOK
  <2> QED BY <2>1, <2>2, ShipTypeIntro
<1>u. /\ UNCHANGED <<mode, pc, left, step, elapsed, bodyTime, projectiles,
                    nextProjectileNetId, tickCount, collisionEvents, lastSnapshot, leftIn,
                    asked>>
      /\ ships' = With(ships, nextShipNetId, new)
      /\ shipIndex' = With(shipIndex, nextShipNetId, slot)
      /\ nextShipNetId' = nextShipNetId + 1
      /\ pc = "ready"
  BY DEF SpawnShip, planVars
<1>s. /\ DOMAIN ships' = DOMAIN ships \cup {nextShipNetId}
      /\ ships'[nextShipNetId] = new
      /\ \A s \in DOMAIN ships : ships'[s] = ships[s]
  BY <1>u, <1>f DEF With
<1>c. Cardinality(DOMAIN ships') = slot + 1
  BY <1>t, <1>s, <1>f, WorldIsFinite, FS_AddElement
<1> HIDE DEF new, slot
<1>1. TypeOK'
  <2>1. ships' \in [DOMAIN ships' -> ShipType]
    <3>1. \A s \in DOMAIN ships' : ships'[s] \in ShipType
      BY <1>t, <1>s, <1>r DEF TypeOK
    <3> QED BY <1>u, <3>1 DEF With
  <2>2. DOMAIN ships' \subseteq ShipIds
    BY <1>t, <1>s, <1>n DEF TypeOK
  <2>3. nextShipNetId' \in FirstShip..(FirstShip + MaxShips)
    BY <1>u, <1>n, IdRanges DEF ShipIds
  <2> QED BY <1>t, <1>u, <2>1, <2>2, <2>3 DEF TypeOK
<1>2. SlotsAreAVector'
  <2>1. new.slot = slot
    BY DEF new
  <2>2. \A s \in DOMAIN ships : ships[s].slot \in Nat /\ ships[s].slot < slot
    BY <1>t, ShipFacts DEF IInv, SlotsAreAVector, slot
  <2>3. ASSUME NEW s \in DOMAIN ships' PROVE ships'[s].slot < slot + 1
    BY <1>s, <1>r, <2>1, <2>2
  <2>4. ASSUME NEW r \in DOMAIN ships', NEW s \in DOMAIN ships', ships'[r].slot = ships'[s].slot
        PROVE  r = s
    <3>1. \A a, b \in DOMAIN ships : ships[a].slot = ships[b].slot => a = b
      BY DEF IInv, SlotsAreAVector
    <3> QED BY <1>s, <1>r, <2>1, <2>2, <2>4, <3>1
  <2> QED BY <1>c, <2>3, <2>4 DEF SlotsAreAVector
<1>3. IndexIsExact'
  <2>1. shipIndex = [s \in DOMAIN ships |-> ships[s].slot]
    BY DEF IInv, IndexIsExact
  <2>2. new.slot = slot
    BY DEF new
  <2>3. shipIndex' = [s \in DOMAIN ships' |-> ships'[s].slot]
    BY <1>u, <1>s, <1>f, <2>1, <2>2 DEF With
  <2> QED BY <2>3 DEF IndexIsExact
<1>4. TriggersAreAsked'
  <2>1. new.fire = FALSE
    BY DEF new
  <2>2. Firing' = Firing
    BY <1>s, <1>f, <2>1 DEF Firing
  <2> QED BY <1>u, <2>2 DEF IInv, TriggersAreAsked
<1>5. NetIdsAreNotReused'
  <2>1. FirstShip..(nextShipNetId' - 1) = (FirstShip..(nextShipNetId - 1)) \cup {nextShipNetId}
    BY <1>u, <1>n, IdRanges DEF ShipIds
  <2>2. Small' = Small \cup {nextShipNetId}
    BY <1>s, <1>u DEF Small
  <2> QED BY <1>u, <1>f, <2>1, <2>2 DEF IInv, NetIdsAreNotReused
<1>6. OnSchedule'
  BY <1>u DEF IInv, OnSchedule
<1>7. EntitiesOnSchedule'
  <2>1. new.motion = Motion(elapsed, elapsed, elapsed)
    BY <1>u DEF new, IInv, OnSchedule
  <2>2. \A m : MotionOnSchedule(m)' <=> m = Motion(elapsed, elapsed, elapsed)
    BY <1>u DEF MotionOnSchedule
  <2>3. \A m : MotionOnSchedule(m) <=> m = Motion(elapsed, elapsed, elapsed)
    BY <1>u DEF MotionOnSchedule
  <2> QED BY <1>s, <1>u, <2>1, <2>2, <2>3 DEF IInv, EntitiesOnSchedule
<1>8. AgesAreRight'
  BY <1>u DEF IInv, AgesAreRight
<1> QED BY <1>1, <1>2, <1>3, <1>4, <1>5, <1>6, <1>7, <1>8 DEF IInv

\* The index leads to the ship with the NetId, or there is none.
LEMMA TheShipIsFound ==
  ASSUME IInv, NEW netId \in ShipIds
  PROVE  FindShip(netId) = {netId} \cap DOMAIN ships
<1>1. /\ DOMAIN shipIndex = DOMAIN ships
      /\ \A s \in DOMAIN ships : shipIndex[s] = ships[s].slot
  BY DEF IInv, IndexIsExact
<1>2. \A r, s \in DOMAIN ships : ships[r].slot = ships[s].slot => r = s
  BY DEF IInv, SlotsAreAVector
<1> QED BY <1>1, <1>2 DEF FindShip

\* A control changes the trigger of the ship it names, if that is there.
LEMMA ControlFindsItsShip ==
  ASSUME IInv, NEW netId \in ShipIds, NEW fire \in BOOLEAN, UpdateShipControl(netId, fire)
  PROVE  ships' = [s \in DOMAIN ships |->
                     IF s = netId THEN [ships[s] EXCEPT !.fire = fire] ELSE ships[s]]
BY TheShipIsFound DEF UpdateShipControl

LEMMA UpdateShipControlKeeps ==
  ASSUME IInv, NEW netId \in ShipIds, NEW fire \in BOOLEAN, UpdateShipControl(netId, fire)
  PROVE  IInv'
<1>t. TypeOK
  BY DEF IInv
<1>u. /\ UNCHANGED <<mode, pc, left, step, elapsed, bodyTime, projectiles, shipIndex,
                    nextShipNetId, nextProjectileNetId, tickCount, collisionEvents,
                    lastSnapshot, leftIn>>
      /\ pc = "ready"
  BY DEF UpdateShipControl, planVars
<1>a. asked' = DOMAIN ships \cap IF fire THEN asked \cup {netId} ELSE asked \ {netId}
  BY DEF UpdateShipControl
<1>s. /\ DOMAIN ships' = DOMAIN ships
      /\ netId \in DOMAIN ships => ships'[netId].fire = fire
      /\ \A s \in DOMAIN ships \ {netId} : ships'[s] = ships[s]
      /\ \A s \in DOMAIN ships : /\ ships'[s].slot = ships[s].slot
                                 /\ ships'[s].motion = ships[s].motion
                                 /\ ships'[s] \in ShipType
      /\ ships' \in [DOMAIN ships -> ShipType]
  <2>1. ships' = [s \in DOMAIN ships |->
                    IF s = netId THEN [ships[s] EXCEPT !.fire = fire] ELSE ships[s]]
    BY ControlFindsItsShip
  <2>2. \A s \in DOMAIN ships :
          ships[s] = [slot |-> ships[s].slot, fire |-> ships[s].fire, motion |-> ships[s].motion]
    BY <1>t, ShipFacts
  <2>3. \A s \in DOMAIN ships :
          [ships[s] EXCEPT !.fire = fire]
            = [slot |-> ships[s].slot, fire |-> fire, motion |-> ships[s].motion]
    BY <2>2
  <2>4. \A s \in DOMAIN ships : ships[s] \in ShipType
    BY <1>t DEF TypeOK
  <2>5. ASSUME NEW s \in DOMAIN ships
        PROVE  /\ ships'[s].slot = ships[s].slot
               /\ ships'[s].motion = ships[s].motion
               /\ ships'[s] \in ShipType
               /\ s = netId => ships'[s].fire = fire
               /\ s # netId => ships'[s] = ships[s]
    <3>1. CASE s = netId
      <4>1. ships'[s] = [slot |-> ships[s].slot, fire |-> fire, motion |-> ships[s].motion]
        BY <2>1, <2>3, <3>1
      <4> QED BY <1>t, <3>1, <4>1, ShipFacts, ShipTypeIntro
    <3>2. CASE s # netId
      BY <2>1, <2>4, <3>2
    <3> QED BY <3>1, <3>2
  <2>6. DOMAIN ships' = DOMAIN ships /\ ships' = [s \in DOMAIN ships |-> ships'[s]]
    BY <2>1
  <2> HIDE <2>1
  <2> QED BY <2>5, <2>6
<1>1. TypeOK'
  <2>1. asked' \in SUBSET ShipIds
    BY <1>t, <1>a DEF TypeOK
  <2> QED BY <1>t, <1>u, <1>s, <2>1 DEF TypeOK
<1>2. SlotsAreAVector' /\ IndexIsExact'
  BY <1>s, <1>u DEF IInv, SlotsAreAVector, IndexIsExact
<1>4. TriggersAreAsked'
  <2>1. asked = Firing /\ nextProjectileNetId + Cardinality(Firing) <= FirstProjectile + MaxShots
    BY <1>u DEF IInv, TriggersAreAsked
  <2>2. asked' = Firing'
    <3>1. \A s \in DOMAIN ships : s \in Firing' <=> IF s = netId THEN fire ELSE s \in Firing
      BY <1>s DEF Firing
    <3>2. Firing' \subseteq DOMAIN ships
      BY <1>s DEF Firing
    <3> QED BY <1>a, <2>1, <3>1, <3>2
  <2>3. nextProjectileNetId \in Nat /\ Cardinality(Firing) \in Nat /\ IsFiniteSet(Firing)
    BY <1>t, WorldIsFinite, IdRanges DEF TypeOK
  <2>4. CASE fire /\ netId \in DOMAIN ships
    <3>1. Firing' = Firing \cup {netId}
      BY <1>s, <2>4 DEF Firing
    <3>2. nextProjectileNetId + Cardinality(Firing') <= FirstProjectile + MaxShots
      BY <2>4, <3>1 DEF UpdateShipControl
    <3> QED BY <1>u, <2>2, <3>2 DEF TriggersAreAsked
  <2>5. CASE ~(fire /\ netId \in DOMAIN ships)
    <3>1. Firing' \in SUBSET Firing
      BY <1>s, <2>5 DEF Firing
    <3>2. Cardinality(Firing') <= Cardinality(Firing) /\ Cardinality(Firing') \in Nat
      BY <2>3, <3>1, FS_Subset, FS_CardinalityType
    <3>3. nextProjectileNetId + Cardinality(Firing') <= FirstProjectile + MaxShots
      BY <2>1, <2>3, <3>2, IdRanges
    <3> QED BY <1>u, <2>2, <3>3 DEF TriggersAreAsked
  <2> QED BY <2>4, <2>5
<1>5. NetIdsAreNotReused'
  BY <1>s, <1>u DEF IInv, NetIdsAreNotReused, Small
<1>6. OnSchedule' /\ AgesAreRight'
  BY <1>u DEF IInv, OnSchedule, AgesAreRight
<1>7. EntitiesOnSchedule'
  BY <1>s, <1>u DEF IInv, EntitiesOnSchedule, MotionOnSchedule
<1> QED BY <1>1, <1>2, <1>4, <1>5, <1>6, <1>7 DEF IInv

-----------------------------------------------------------------------------
\* The NetIds the shots of a tick get are the next ones, one for each ship that
\* fires.
ShotIds == nextProjectileNetId..(nextProjectileNetId + Cardinality(Firing) - 1)

LEMMA ShotsGetTheNextIds ==
  ASSUME IInv, pc = "ready"
  PROVE  /\ {ShotId(s) : s \in Firing} = ShotIds
         /\ \A r, s \in Firing : ShotId(r) = ShotId(s) => r = s
         /\ ShotIds \subseteq ProjectileIds
         /\ ShotIds \cap (Small \cup DOMAIN leftIn) = {}
         /\ nextProjectileNetId + Cardinality(Firing) \in
              FirstProjectile..(FirstProjectile + MaxShots)
<1>t. TypeOK
  BY DEF IInv
<1>1. Firing \in SUBSET DOMAIN ships /\ IsFiniteSet(Firing) /\ Cardinality(Firing) \in Nat
  BY <1>t, WorldIsFinite DEF Firing
<1>2. Slots \in [DOMAIN ships -> Nat] /\ \A s \in DOMAIN ships : Slots[s] = ships[s].slot
  BY <1>t, SlotFacts
<1>3. \A r, s \in Firing : Slots[r] = Slots[s] => r = s
  BY <1>1, <1>2 DEF IInv, SlotsAreAVector
<1>4. /\ {Rank(Firing, Slots, s) : s \in Firing} = 0..(Cardinality(Firing) - 1)
      /\ \A r, s \in Firing : Rank(Firing, Slots, r) = Rank(Firing, Slots, s) => r = s
  BY <1>1, <1>2, <1>3, RanksAreConsecutive
<1>5. \A s \in Firing : ShotId(s) = nextProjectileNetId + Rank(Firing, Slots, s)
  <2> SUFFICES ASSUME NEW s \in Firing
               PROVE  ShotId(s) = nextProjectileNetId + Rank(Firing, Slots, s)
    OBVIOUS
  <2>1. {r \in Firing : ships[r].slot < ships[s].slot} = {r \in Firing : Slots[r] < Slots[s]}
    BY <1>1, <1>2
  <2> QED BY <2>1 DEF ShotId, Rank
<1>6. nextProjectileNetId \in FirstProjectile..(FirstProjectile + MaxShots)
  BY <1>t DEF TypeOK
<1>7. PICK n \in Nat : n = Cardinality(Firing)
  BY <1>1
<1>8. PICK c \in Nat : c = nextProjectileNetId
  BY <1>6, IdRanges
<1>9. \A s \in Firing : Rank(Firing, Slots, s) \in 0..(n - 1)
  BY <1>4, <1>7
<1>10. {ShotId(s) : s \in Firing} = ShotIds
  <2>1. ASSUME NEW s \in Firing PROVE ShotId(s) \in c..(c + n - 1)
    <3>1. Rank(Firing, Slots, s) \in 0..(n - 1)
      BY <1>9
    <3> QED BY <1>5, <1>8, <3>1
  <2>2. ASSUME NEW i \in c..(c + n - 1) PROVE \E s \in Firing : ShotId(s) = i
    <3>1. i - c \in 0..(n - 1)
      OBVIOUS
    <3>2. PICK s \in Firing : Rank(Firing, Slots, s) = i - c
      BY <1>4, <1>7, <3>1
    <3> QED BY <1>5, <1>8, <3>2
  <2> QED BY <1>7, <1>8, <2>1, <2>2 DEF ShotIds
<1>11. \A r, s \in Firing : ShotId(r) = ShotId(s) => r = s
  <2> SUFFICES ASSUME NEW r \in Firing, NEW s \in Firing, ShotId(r) = ShotId(s) PROVE r = s
    OBVIOUS
  <2>1. c + Rank(Firing, Slots, r) = c + Rank(Firing, Slots, s)
    BY <1>5, <1>8
  <2>2. Rank(Firing, Slots, r) \in 0..(n - 1) /\ Rank(Firing, Slots, s) \in 0..(n - 1)
    BY <1>9
  <2>3. Rank(Firing, Slots, r) = Rank(Firing, Slots, s)
    BY <2>1, <2>2
  <2> QED BY <1>4, <2>3
<1>12. c + n <= FirstProjectile + MaxShots /\ FirstProjectile <= c
  BY <1>6, <1>7, <1>8, IdRanges DEF IInv, TriggersAreAsked
<1>13. ShotIds \subseteq ProjectileIds
  BY <1>7, <1>8, <1>12, IdRanges DEF ShotIds, ProjectileIds
<1>14. ShotIds \cap (Small \cup DOMAIN leftIn) = {}
  <2>1. nextShipNetId \in FirstShip..(FirstShip + MaxShips)
    BY <1>t DEF TypeOK
  <2>2. (FirstShip..(nextShipNetId - 1)) \cap ShotIds = {}
    BY <1>7, <1>8, <1>12, <2>1, IdRanges DEF ShotIds
  <2>3. (FirstProjectile..(nextProjectileNetId - 1)) \cap ShotIds = {}
    BY <1>7, <1>8, <1>12, IdRanges DEF ShotIds
  <2> QED BY <2>2, <2>3 DEF IInv, NetIdsAreNotReused
<1>15. nextProjectileNetId + Cardinality(Firing) \in FirstProjectile..(FirstProjectile + MaxShots)
  BY <1>7, <1>8, <1>12, IdRanges
<1> QED BY <1>10, <1>11, <1>13, <1>14, <1>15

\* What spawning and control leave: every ship where it was and none with its
\* trigger pulled, the projectiles there were, and one shot of each that fired.
LEMMA SpawnAndControlEffect ==
  ASSUME IInv, pc = "ready", NEW bodies \in Nat, SpawnAndControl(bodies)
  PROVE  /\ DOMAIN ships' = DOMAIN ships
         /\ \A s \in DOMAIN ships :
              ships'[s] = [slot |-> ships[s].slot, fire |-> FALSE, motion |-> ships[s].motion]
         /\ ships' \in [DOMAIN ships' -> ShipType]
         /\ DOMAIN projectiles' = DOMAIN projectiles \cup ShotIds
         /\ \A p \in DOMAIN projectiles : projectiles'[p] = projectiles[p]
         /\ \A s \in Firing : projectiles'[ShotId(s)] = ShotOf(s, bodies)
         /\ \A p \in ShotIds : \E s \in Firing : p = ShotId(s) /\ projectiles'[p] = ShotOf(s, bodies)
         /\ projectiles' \in [DOMAIN projectiles' -> ProjectileType]
         /\ nextProjectileNetId' = nextProjectileNetId + Cardinality(Firing)
         /\ collisionEvents' = {}
<1>t. TypeOK
  BY DEF IInv
<1>i. /\ {ShotId(s) : s \in Firing} = ShotIds
      /\ \A r, s \in Firing : ShotId(r) = ShotId(s) => r = s
      /\ ShotIds \cap DOMAIN projectiles = {}
  BY ShotsGetTheNextIds DEF Small
<1>u. /\ ships' = [s \in DOMAIN ships |-> [ships[s] EXCEPT !.fire = FALSE]]
      /\ projectiles' =
           [p \in DOMAIN projectiles \cup {ShotId(s) : s \in Firing} |->
              IF p \in DOMAIN projectiles
              THEN projectiles[p]
              ELSE ShotOf(CHOOSE s \in Firing : ShotId(s) = p, bodies)]
      /\ nextProjectileNetId' = nextProjectileNetId + Cardinality(Firing)
      /\ collisionEvents' = {}
  BY DEF SpawnAndControl
<1>1. ASSUME NEW s \in DOMAIN ships
      PROVE  /\ ships'[s] = [slot |-> ships[s].slot, fire |-> FALSE, motion |-> ships[s].motion]
             /\ ships'[s] \in ShipType
  <2>1. ships[s] = [slot |-> ships[s].slot, fire |-> ships[s].fire, motion |-> ships[s].motion]
    BY <1>t, ShipFacts
  <2>2. ships'[s] = [ships[s] EXCEPT !.fire = FALSE]
    BY <1>u
  <2>3. ships'[s] = [slot |-> ships[s].slot, fire |-> FALSE, motion |-> ships[s].motion]
    BY <2>1, <2>2
  <2> QED BY <1>t, <2>3, ShipFacts, ShipTypeIntro
<1>2. DOMAIN ships' = DOMAIN ships /\ ships' \in [DOMAIN ships' -> ShipType]
  BY <1>u, <1>1
<1>3. DOMAIN projectiles' = DOMAIN projectiles \cup ShotIds
  BY <1>u, <1>i
<1>4. \A p \in DOMAIN projectiles : projectiles'[p] = projectiles[p]
  BY <1>u
<1>5. ASSUME NEW s \in Firing PROVE projectiles'[ShotId(s)] = ShotOf(s, bodies)
  <2>1. ShotId(s) \in ShotIds /\ ShotId(s) \notin DOMAIN projectiles
    BY <1>i
  <2>2. (CHOOSE r \in Firing : ShotId(r) = ShotId(s)) = s
    BY <1>i
  <2> QED BY <1>u, <2>1, <2>2
<1>6. \A p \in ShotIds : \E s \in Firing : p = ShotId(s) /\ projectiles'[p] = ShotOf(s, bodies)
  BY <1>i, <1>5
<1>7. ASSUME NEW s \in Firing PROVE ShotOf(s, bodies) \in ProjectileType
  <2>1. s \in ShipIds /\ ships[s].motion.at \in Int
    BY <1>t, ShipFacts DEF Firing, MotionType, Time
  <2>2. Motion(ships[s].motion.at, ships[s].motion.at, bodies) \in MotionType
    BY <2>1, MotionFacts
  <2>3. Ttl \in Int /\ tickCount \in Nat
    BY <1>t, ConfigAssumption DEF TypeOK
  <2> QED BY <2>1, <2>2, <2>3 DEF ShotOf, ProjectileType
<1>8. projectiles' \in [DOMAIN projectiles' -> ProjectileType]
  <2>1. \A p \in DOMAIN projectiles : projectiles[p] \in ProjectileType
    BY <1>t DEF TypeOK
  <2>2. \A p \in DOMAIN projectiles' : projectiles'[p] \in ProjectileType
    BY <1>3, <1>4, <1>6, <1>7, <2>1
  <2>3. projectiles' = [p \in DOMAIN projectiles' |-> projectiles'[p]]
    BY <1>u
  <2> QED BY <2>2, <2>3
<1> QED BY <1>u, <1>1, <1>2, <1>3, <1>4, <1>5, <1>6, <1>8

\* The arithmetic of ticks and substeps.
LEMMA FrameFacts ==
  /\ Frame \in Nat /\ Frame > 0
  /\ \A t \in Int : Frame * t \in Int /\ Frame * (t + 1) = Frame * t + Frame
  /\ \A n \in SubstepCounts :
       /\ n \in Nat /\ n > 0
       /\ Frame \div n \in Nat
       /\ n * (Frame \div n) = Frame
<1>1. Frame \in Nat /\ Frame > 0
  BY FrameAssumption
<1>2. \A t \in Int : Frame * t \in Int /\ Frame * (t + 1) = Frame * t + Frame
  BY <1>1
<1>3. ASSUME NEW n \in SubstepCounts
      PROVE  n \in Nat /\ n > 0 /\ Frame \div n \in Nat /\ n * (Frame \div n) = Frame
  <2>1. n \in Nat /\ n > 0 /\ n * (Frame \div n) = Frame
    BY FrameAssumption
  <2>2. Frame \div n \in Nat
    BY <1>1, <2>1
  <2> QED BY <2>1, <2>2
<1> QED BY <1>1, <1>2, <1>3

\* The parts of the invariant a tick's beginning changes in the same way on both
\* paths.
LEMMA TickBegins ==
  ASSUME IInv, pc = "ready", pc' \in {"substep", "collide"}, NEW bodies \in Nat,
         SpawnAndControl(bodies), bodyTime' = bodies, elapsed' \in Nat,
         left' \in Nat, step' \in Nat, asked' = {},
         UNCHANGED <<mode, shipIndex, nextShipNetId, tickCount, lastSnapshot, leftIn>>
  PROVE  /\ TypeOK' /\ SlotsAreAVector' /\ IndexIsExact' /\ TriggersAreAsked'
         /\ NetIdsAreNotReused' /\ AgesAreRight'
         /\ \A s \in DOMAIN ships' : ships'[s].motion.at = elapsed
         /\ \A p \in DOMAIN projectiles' : projectiles'[p].motion.at = elapsed
<1>t. TypeOK
  BY DEF IInv
<1>s. /\ DOMAIN ships' = DOMAIN ships
      /\ \A s \in DOMAIN ships :
           ships'[s] = [slot |-> ships[s].slot, fire |-> FALSE, motion |-> ships[s].motion]
      /\ ships' \in [DOMAIN ships' -> ShipType]
      /\ collisionEvents' = {}
  BY SpawnAndControlEffect
<1>p. /\ DOMAIN projectiles' = DOMAIN projectiles \cup ShotIds
      /\ \A p \in DOMAIN projectiles : projectiles'[p] = projectiles[p]
      /\ \A p \in ShotIds : \E s \in Firing : projectiles'[p] = ShotOf(s, bodies)
      /\ projectiles' \in [DOMAIN projectiles' -> ProjectileType]
      /\ nextProjectileNetId' = nextProjectileNetId + Cardinality(Firing)
  BY SpawnAndControlEffect
<1>i. /\ ShotIds \subseteq ProjectileIds
      /\ nextProjectileNetId + Cardinality(Firing) \in
           FirstProjectile..(FirstProjectile + MaxShots)
  BY ShotsGetTheNextIds
<1>1. TypeOK'
  <2>1. DOMAIN projectiles' \subseteq ProjectileIds
    BY <1>t, <1>p, <1>i DEF TypeOK
  <2>2. DOMAIN ships' \subseteq ShipIds
    BY <1>t, <1>s DEF TypeOK
  <2> QED BY <1>t, <1>s, <1>p, <1>i, <2>1, <2>2 DEF TypeOK
<1>2. \A s \in DOMAIN ships : ships'[s].slot = ships[s].slot /\ ships'[s].motion = ships[s].motion
  BY <1>s
<1>3. SlotsAreAVector' /\ IndexIsExact'
  BY <1>s, <1>2 DEF IInv, SlotsAreAVector, IndexIsExact
<1>4. TriggersAreAsked'
  <2>1. Firing' = {}
    BY <1>s DEF Firing
  <2> QED BY <2>1 DEF TriggersAreAsked
<1>5. NetIdsAreNotReused'
  <2>1. PICK n \in Nat : n = Cardinality(Firing)
    BY <1>t, WorldIsFinite
  <2>2. PICK c \in Nat : c = nextProjectileNetId /\ FirstProjectile <= c
    BY <1>t, IdRanges DEF TypeOK
  <2>3. FirstProjectile..(c + n - 1) = (FirstProjectile..(c - 1)) \cup (c..(c + n - 1))
    BY <2>2, IdRanges
  <2>4. Small' = Small \cup ShotIds
    BY <1>s, <1>p DEF Small
  <2>5. Small' \cap DOMAIN leftIn = {}
    BY <2>4, ShotsGetTheNextIds DEF IInv, NetIdsAreNotReused
  <2>6. Small' \cup DOMAIN leftIn =
          (FirstShip..(nextShipNetId - 1)) \cup (FirstProjectile..(c - 1)) \cup (c..(c + n - 1))
    BY <2>1, <2>2, <2>4 DEF IInv, NetIdsAreNotReused, ShotIds
  <2> QED BY <1>p, <2>1, <2>2, <2>3, <2>5, <2>6 DEF NetIdsAreNotReused
<1>6. AgesAreRight'
  <2>1. ASSUME NEW p \in ShotIds
        PROVE  /\ projectiles'[p].born <= tickCount
               /\ projectiles'[p].ttl = Ttl - Frame * (tickCount - projectiles'[p].born)
    <3>1. projectiles'[p].born = tickCount /\ projectiles'[p].ttl = Ttl
      BY <1>p DEF ShotOf
    <3>2. tickCount \in Nat /\ Ttl \in Nat /\ Frame * 0 = 0
      BY <1>t, ConfigAssumption, FrameFacts DEF TypeOK
    <3> QED BY <3>1, <3>2
  <2> QED BY <1>p, <2>1 DEF IInv, AgesAreRight
<1>7. \A s \in DOMAIN ships : ships[s].motion = Motion(elapsed, elapsed, elapsed)
  BY DEF IInv, EntitiesOnSchedule, MotionOnSchedule
<1>8. \A s \in DOMAIN ships' : ships'[s].motion.at = elapsed
  BY <1>s, <1>2, <1>7 DEF Motion
<1>9. ASSUME NEW p \in DOMAIN projectiles' PROVE projectiles'[p].motion.at = elapsed
  <2>1. CASE p \in DOMAIN projectiles
    BY <1>p, <2>1 DEF IInv, EntitiesOnSchedule, MotionOnSchedule, Motion
  <2>2. CASE p \in ShotIds
    <3>1. PICK s \in Firing : projectiles'[p] = ShotOf(s, bodies)
      BY <1>p, <2>2
    <3> QED BY <1>7, <3>1 DEF ShotOf, Motion, Firing
  <2> QED BY <1>p, <2>1, <2>2
<1> QED BY <1>1, <1>3, <1>4, <1>5, <1>6, <1>8, <1>9

LEMMA BeginFixedTickKeeps == ASSUME IInv, BeginFixedTick PROVE IInv'
<1>t. TypeOK
  BY DEF IInv
<1>u. /\ elapsed' = elapsed + Frame /\ bodyTime' = elapsed + Frame
      /\ tickCount < MaxTicks /\ left' = 1 /\ step' = Frame /\ pc = "ready" /\ pc' = "collide"
      /\ SpawnAndControl(elapsed + Frame) /\ asked' = {}
      /\ UNCHANGED <<mode, shipIndex, nextShipNetId, tickCount, lastSnapshot, leftIn>>
  BY DEF BeginFixedTick
<1>1. elapsed \in Nat /\ elapsed + Frame \in Nat /\ tickCount \in Nat
  BY <1>t, FrameFacts, IdRanges DEF TypeOK
<1>2. elapsed = Frame * tickCount
  BY <1>u DEF IInv, OnSchedule
<1>3. /\ TypeOK' /\ SlotsAreAVector' /\ IndexIsExact' /\ TriggersAreAsked'
      /\ NetIdsAreNotReused' /\ AgesAreRight'
      /\ \A s \in DOMAIN ships' : ships'[s].motion.at = elapsed
      /\ \A p \in DOMAIN projectiles' : projectiles'[p].motion.at = elapsed
  <2>1. /\ bodyTime' = elapsed + Frame /\ elapsed' \in Nat /\ left' \in Nat /\ step' \in Nat
        /\ pc' \in {"substep", "collide"}
    BY <1>u, <1>1, FrameFacts
  <2> QED BY <1>u, <1>1, <2>1, TickBegins
<1>4. OnSchedule'
  <2>1. elapsed' + (left' - 1) * step' = Frame * (tickCount' + 1)
    <3>1. (left' - 1) * step' = 0
      BY <1>u, FrameFacts
    <3>2. Frame * (tickCount + 1) = Frame * tickCount + Frame
      BY <1>1, FrameFacts
    <3> QED BY <1>u, <1>1, <1>2, <3>1, <3>2
  <2> QED BY <1>u, <2>1 DEF OnSchedule
<1>5. EntitiesOnSchedule'
  <2>1. elapsed' - step' = elapsed
    BY <1>u, <1>1, FrameFacts
  <2> QED BY <1>u, <1>3, <2>1 DEF EntitiesOnSchedule, MotionOnSchedule
<1> QED BY <1>3, <1>4, <1>5 DEF IInv

LEMMA BeginAdaptiveTickKeeps ==
  ASSUME IInv, NEW n \in SubstepCounts, BeginAdaptiveTick(n) PROVE IInv'
<1>t. TypeOK
  BY DEF IInv
<1>u. /\ elapsed' = elapsed /\ bodyTime' = elapsed
      /\ tickCount < MaxTicks /\ left' = n /\ step' = Frame \div n /\ pc = "ready" /\ pc' = "substep"
      /\ SpawnAndControl(elapsed) /\ asked' = {}
      /\ UNCHANGED <<mode, shipIndex, nextShipNetId, tickCount, lastSnapshot, leftIn>>
  BY DEF BeginAdaptiveTick
<1>1. /\ elapsed \in Nat /\ tickCount \in Nat /\ n \in Nat /\ n > 0
      /\ Frame \div n \in Nat /\ n * (Frame \div n) = Frame
  BY <1>t, FrameFacts, IdRanges DEF TypeOK
<1>2. elapsed = Frame * tickCount
  BY <1>u DEF IInv, OnSchedule
<1>3. /\ TypeOK' /\ SlotsAreAVector' /\ IndexIsExact' /\ TriggersAreAsked'
      /\ NetIdsAreNotReused' /\ AgesAreRight'
      /\ \A s \in DOMAIN ships' : ships'[s].motion.at = elapsed
      /\ \A p \in DOMAIN projectiles' : projectiles'[p].motion.at = elapsed
  <2>1. /\ bodyTime' = elapsed /\ elapsed' \in Nat /\ left' \in Nat /\ step' \in Nat
        /\ pc' \in {"substep", "collide"}
    BY <1>u, <1>1
  <2> QED BY <1>u, <1>1, <2>1, TickBegins
<1>4. OnSchedule'
  <2>1. Frame * (tickCount + 1) = Frame * tickCount + Frame
    BY <1>1, FrameFacts
  <2>2. elapsed' + left' * step' = Frame * (tickCount' + 1)
    BY <1>u, <1>1, <1>2, <2>1
  <2> QED BY <1>u, <1>1, <2>2 DEF OnSchedule
<1>5. EntitiesOnSchedule'
  BY <1>u, <1>3 DEF EntitiesOnSchedule, MotionOnSchedule
<1> QED BY <1>3, <1>4, <1>5 DEF IInv

LEMMA BeginSubstepKeeps == ASSUME IInv, BeginSubstep PROVE IInv'
<1>t. TypeOK
  BY DEF IInv
<1>u. /\ elapsed' = elapsed + step /\ bodyTime' = elapsed + step
      /\ pc = "substep" /\ pc' = "collide"
      /\ UNCHANGED <<mode, left, step, ships, projectiles, shipIndex, nextShipNetId,
                     nextProjectileNetId, tickCount, collisionEvents, lastSnapshot, leftIn,
                     asked>>
  BY DEF BeginSubstep, planVars
<1>1. elapsed \in Nat /\ step \in Nat /\ left \in Nat
  BY <1>t DEF TypeOK
<1>2. TypeOK'
  BY <1>t, <1>u, <1>1 DEF TypeOK
<1>3. /\ SlotsAreAVector' /\ IndexIsExact' /\ TriggersAreAsked' /\ NetIdsAreNotReused'
      /\ AgesAreRight'
  BY <1>u DEF IInv, SlotsAreAVector, IndexIsExact, TriggersAreAsked, Firing,
              NetIdsAreNotReused, Small, AgesAreRight
<1>4. OnSchedule'
  <2>1. /\ left > 0 /\ elapsed + left * step = Frame * (tickCount + 1)
        /\ tickCount < MaxTicks
    BY <1>u DEF IInv, OnSchedule
  <2>2. (elapsed + step) + (left - 1) * step = elapsed + left * step
    BY <1>1
  <2> QED BY <1>u, <2>1, <2>2 DEF OnSchedule
<1>5. EntitiesOnSchedule'
  <2>1. elapsed' - step' = elapsed
    BY <1>u, <1>1
  <2> QED BY <1>u, <2>1 DEF IInv, EntitiesOnSchedule, MotionOnSchedule
<1> QED BY <1>2, <1>3, <1>4, <1>5 DEF IInv

-----------------------------------------------------------------------------
\* What is left of a vector after erase_if is a vector.
LEMMA DetectAndResolveKeeps ==
  ASSUME IInv, NEW dead \in SUBSET Small, DetectAndResolve(dead) PROVE IInv'
<1> DEFINE S == DOMAIN ships \ dead
<1>t. TypeOK
  BY DEF IInv
<1>u. /\ pc = "collide" /\ pc' = "integrate"
      /\ ships' = [s \in S |-> [ships[s] EXCEPT !.slot = SlotAfter(s, dead)]]
      /\ projectiles' = Without(projectiles, dead)
      /\ collisionEvents' = collisionEvents \cup dead
      /\ shipIndex' = [s \in DOMAIN ships' |-> ships'[s].slot]
      /\ leftIn' = [e \in DOMAIN leftIn \cup dead |->
                      IF e \in dead THEN tickCount + 1 ELSE leftIn[e]]
      /\ UNCHANGED <<mode, left, step, elapsed, bodyTime, nextShipNetId,
                     nextProjectileNetId, tickCount, lastSnapshot, asked>>
  BY DEF DetectAndResolve, planVars
<1>1. S \in SUBSET DOMAIN ships /\ IsFiniteSet(S)
  BY <1>t, WorldIsFinite, FS_Subset
<1>2. Slots \in [DOMAIN ships -> Nat] /\ \A s \in DOMAIN ships : Slots[s] = ships[s].slot
  BY <1>t, SlotFacts
<1>3. \A s \in S : SlotAfter(s, dead) = Rank(S, Slots, s)
  <2> SUFFICES ASSUME NEW s \in S PROVE SlotAfter(s, dead) = Rank(S, Slots, s)
    OBVIOUS
  <2>1. {r \in S : ships[r].slot < ships[s].slot} = {r \in S : Slots[r] < Slots[s]}
    BY <1>2
  <2> QED BY <2>1 DEF SlotAfter, Rank
<1>4. \A s \in S : Rank(S, Slots, s) \in Nat /\ Rank(S, Slots, s) < Cardinality(S)
  <2> HIDE DEF S
  <2> QED BY <1>1, <1>2, RankIsAnOrder
<1>5. \A r, s \in S : Rank(S, Slots, r) = Rank(S, Slots, s) => r = s
  <2>1. \A r, s \in S : Slots[r] = Slots[s] => r = s
    BY <1>2 DEF IInv, SlotsAreAVector
  <2> HIDE DEF S
  <2> QED BY <1>1, <1>2, <2>1, RanksAreConsecutive
<1>6. DOMAIN ships' = S
  BY <1>u
<1>7. ASSUME NEW s \in S
      PROVE  /\ ships'[s] = [slot |-> Rank(S, Slots, s), fire |-> ships[s].fire,
                             motion |-> ships[s].motion]
             /\ ships'[s].slot = Rank(S, Slots, s)
             /\ ships'[s].fire = ships[s].fire
             /\ ships'[s].motion = ships[s].motion
             /\ ships'[s] \in ShipType
  <2>1. ships'[s] = [ships[s] EXCEPT !.slot = Rank(S, Slots, s)]
    BY <1>u, <1>3
  <2>2. ships[s] = [slot |-> ships[s].slot, fire |-> ships[s].fire, motion |-> ships[s].motion]
    BY <1>t, ShipFacts
  <2>3. ships'[s] = [slot |-> Rank(S, Slots, s), fire |-> ships[s].fire,
                     motion |-> ships[s].motion]
    BY <2>1, <2>2
  <2> QED BY <1>t, <1>4, <2>3, ShipFacts, ShipTypeIntro
<1>8. ships' \in [DOMAIN ships' -> ShipType]
  <2>1. ships' = [s \in S |-> ships'[s]]
    BY <1>u
  <2> QED BY <1>6, <1>7, <2>1
<1>p. /\ DOMAIN projectiles' = DOMAIN projectiles \ dead
      /\ \A p \in DOMAIN projectiles' : projectiles'[p] = projectiles[p]
  BY <1>u DEF Without
<1>d. dead \subseteq SmallIds
  BY <1>t DEF TypeOK, Small, SmallIds
<1>9. TypeOK'
  <2>1. projectiles' \in [DOMAIN projectiles' -> ProjectileType]
    <3>1. \A p \in DOMAIN projectiles' : projectiles'[p] \in ProjectileType
      BY <1>t, <1>p DEF TypeOK
    <3> QED BY <1>u, <3>1 DEF Without
  <2>2. leftIn' \in [DOMAIN leftIn' -> Nat]
    <3>1. tickCount + 1 \in Nat
      BY <1>t, IdRanges DEF TypeOK
    <3>2. \A e \in DOMAIN leftIn : leftIn[e] \in Nat
      BY <1>t DEF TypeOK
    <3> QED BY <1>u, <3>1, <3>2
  <2>3. DOMAIN ships' \subseteq ShipIds /\ DOMAIN projectiles' \subseteq ProjectileIds
    BY <1>t, <1>6, <1>p DEF TypeOK
  <2>4. DOMAIN leftIn' \subseteq SmallIds /\ collisionEvents' \subseteq SmallIds
    BY <1>t, <1>u, <1>d DEF TypeOK
  <2> QED BY <1>t, <1>u, <1>8, <2>1, <2>2, <2>3, <2>4 DEF TypeOK
<1>10. SlotsAreAVector'
  <2>1. \A s \in S : ships'[s].slot = Rank(S, Slots, s)
    BY <1>7
  <2> HIDE DEF S
  <2> QED BY <1>4, <1>5, <1>6, <2>1 DEF SlotsAreAVector
<1>11. IndexIsExact'
  BY <1>u DEF IndexIsExact
<1>12. TriggersAreAsked'
  <2>1. Firing = {} /\ asked = {}
    BY <1>u DEF IInv, TriggersAreAsked
  <2>2. \A s \in S : ships'[s].fire = ships[s].fire
    BY <1>7
  <2> QED BY <1>u, <1>6, <2>1, <2>2 DEF TriggersAreAsked, Firing
<1>13. NetIdsAreNotReused'
  <2>1. Small' = Small \ dead
    BY <1>6, <1>p DEF Small
  <2>2. DOMAIN leftIn' = DOMAIN leftIn \cup dead
    BY <1>u
  <2> QED BY <1>u, <2>1, <2>2 DEF IInv, NetIdsAreNotReused
<1>14. OnSchedule'
  BY <1>u DEF IInv, OnSchedule
<1>15. EntitiesOnSchedule'
  <2>1. \A s \in S : ships'[s].motion = ships[s].motion
    BY <1>7
  <2> QED BY <1>u, <1>6, <1>p, <2>1 DEF IInv, EntitiesOnSchedule, MotionOnSchedule
<1>16. AgesAreRight'
  BY <1>u, <1>p DEF IInv, AgesAreRight
<1> QED BY <1>9, <1>10, <1>11, <1>12, <1>13, <1>14, <1>15, <1>16 DEF IInv

LEMMA IntegrateKeeps == ASSUME IInv, Integrate PROVE IInv'
<1>t. TypeOK
  BY DEF IInv
<1>u. /\ pc = "integrate" /\ pc' = (IF left = 1 THEN "finish" ELSE "substep")
      /\ ships' = [s \in DOMAIN ships |-> [ships[s] EXCEPT !.motion = Moved(ships[s].motion)]]
      /\ projectiles' = [p \in DOMAIN projectiles |->
                           [projectiles[p] EXCEPT !.motion = Moved(projectiles[p].motion)]]
      /\ left' = left - 1
      /\ UNCHANGED <<mode, step, elapsed, bodyTime, shipIndex, nextShipNetId,
                     nextProjectileNetId, tickCount, collisionEvents, lastSnapshot, leftIn,
                     asked>>
  BY DEF Integrate
<1>n. elapsed \in Nat /\ step \in Nat /\ left \in Nat /\ tickCount \in Nat
  BY <1>t, IdRanges DEF TypeOK
<1>o. /\ left > 0 /\ elapsed + (left - 1) * step = Frame * (tickCount + 1)
      /\ bodyTime = elapsed /\ tickCount < MaxTicks
  BY <1>u DEF IInv, OnSchedule
<1>m. \A m \in MotionType :
        m.at = elapsed - step => Moved(m) = Motion(elapsed, elapsed, elapsed)
  BY <1>n, <1>o DEF Moved
<1>e. Motion(elapsed, elapsed, elapsed) \in MotionType
  BY <1>n, MotionFacts
<1>s. ASSUME NEW s \in DOMAIN ships
      PROVE  /\ ships'[s] = [slot |-> ships[s].slot, fire |-> ships[s].fire,
                             motion |-> Motion(elapsed, elapsed, elapsed)]
             /\ ships'[s].slot = ships[s].slot
             /\ ships'[s].fire = ships[s].fire
             /\ ships'[s].motion = Motion(elapsed, elapsed, elapsed)
             /\ ships'[s] \in ShipType
  <2>1. ships[s] = [slot |-> ships[s].slot, fire |-> ships[s].fire, motion |-> ships[s].motion]
    BY <1>t, ShipFacts
  <2>2. Moved(ships[s].motion) = Motion(elapsed, elapsed, elapsed)
    BY <1>t, <1>u, <1>m, ShipFacts DEF IInv, EntitiesOnSchedule, MotionOnSchedule
  <2>3. ships'[s] = [ships[s] EXCEPT !.motion = Motion(elapsed, elapsed, elapsed)]
    BY <1>u, <2>2
  <2>4. ships'[s] = [slot |-> ships[s].slot, fire |-> ships[s].fire,
                     motion |-> Motion(elapsed, elapsed, elapsed)]
    BY <2>1, <2>3
  <2> QED BY <1>t, <1>e, <2>4, ShipFacts, ShipTypeIntro
<1>p. ASSUME NEW p \in DOMAIN projectiles
      PROVE  /\ projectiles'[p].owner = projectiles[p].owner
             /\ projectiles'[p].ttl = projectiles[p].ttl
             /\ projectiles'[p].born = projectiles[p].born
             /\ projectiles'[p].motion = Motion(elapsed, elapsed, elapsed)
             /\ projectiles'[p] \in ProjectileType
  <2>1. projectiles[p] \in ProjectileType
    BY <1>t, ProjectileFacts
  <2>2. Moved(projectiles[p].motion) = Motion(elapsed, elapsed, elapsed)
    BY <1>t, <1>u, <1>m, ProjectileFacts DEF IInv, EntitiesOnSchedule, MotionOnSchedule
  <2>3. projectiles'[p] = [projectiles[p] EXCEPT !.motion = Motion(elapsed, elapsed, elapsed)]
    BY <1>u, <2>2
  <2> QED BY <1>e, <2>1, <2>3 DEF ProjectileType
<1>d. DOMAIN ships' = DOMAIN ships /\ DOMAIN projectiles' = DOMAIN projectiles
  BY <1>u
<1>1. TypeOK'
  <2>1. ships' \in [DOMAIN ships' -> ShipType]
    <3>1. ships' = [s \in DOMAIN ships |-> ships'[s]]
      BY <1>u
    <3> QED BY <1>d, <1>s, <3>1
  <2>2. projectiles' \in [DOMAIN projectiles' -> ProjectileType]
    <3>1. projectiles' = [p \in DOMAIN projectiles |-> projectiles'[p]]
      BY <1>u
    <3> QED BY <1>d, <1>p, <3>1
  <2>3. left' \in Nat /\ pc' \in {"ready", "substep", "collide", "integrate", "finish"}
    BY <1>u, <1>n, <1>o
  <2> QED BY <1>t, <1>u, <1>d, <2>1, <2>2, <2>3 DEF TypeOK
<1>2. \A s \in DOMAIN ships : ships'[s].slot = ships[s].slot
  BY <1>s
<1>3. SlotsAreAVector' /\ IndexIsExact' /\ NetIdsAreNotReused'
  BY <1>d, <1>u, <1>2 DEF IInv, SlotsAreAVector, IndexIsExact, NetIdsAreNotReused, Small
<1>4. TriggersAreAsked'
  <2>1. Firing = {} /\ asked = {}
    BY <1>u DEF IInv, TriggersAreAsked
  <2>2. Firing' = {}
    BY <1>d, <1>s, <2>1 DEF Firing
  <2> QED BY <1>u, <2>1, <2>2 DEF TriggersAreAsked
<1>5. OnSchedule'
  <2>1. CASE left = 1
    <3>1. (left - 1) * step = 0
      BY <1>n, <2>1
    <3> QED BY <1>n, <1>o, <1>u, <2>1, <3>1 DEF OnSchedule
  <2>2. CASE left # 1
    BY <1>n, <1>o, <1>u, <2>2 DEF OnSchedule
  <2> QED BY <2>1, <2>2
<1>6. EntitiesOnSchedule'
  <2>1. Motion(elapsed, elapsed, elapsed).at = elapsed
    BY <1>n, MotionFacts
  <2>2. pc' \notin {"collide", "integrate"}
    BY <1>u
  <2>3. MotionOnSchedule(Motion(elapsed, elapsed, elapsed))'
    BY <1>u, <2>1, <2>2 DEF MotionOnSchedule, Motion
  <2>4. \A s \in DOMAIN ships' : MotionOnSchedule(ships[s].motion)'
    BY <1>d, <1>s, <1>u, <2>1, <2>2 DEF MotionOnSchedule
  <2>5. \A p \in DOMAIN projectiles' : MotionOnSchedule(projectiles[p].motion)'
    BY <1>d, <1>p, <1>u, <2>1, <2>2 DEF MotionOnSchedule
  <2> QED BY <2>4, <2>5 DEF EntitiesOnSchedule
<1>7. AgesAreRight'
  BY <1>d, <1>p, <1>u DEF IInv, AgesAreRight
<1> QED BY <1>1, <1>3, <1>4, <1>5, <1>6, <1>7 DEF IInv

\* A tick's end ages the projectiles by one tick and drops those of age Ttl.
LEMMA FinishTickKeeps == ASSUME IInv, FinishTick PROVE IInv'
<1>t. TypeOK
  BY DEF IInv
<1>u. /\ pc = "finish" /\ pc' = "ready"
      /\ projectiles' = [p \in DOMAIN projectiles \ Expired |->
                           [projectiles[p] EXCEPT !.ttl = projectiles[p].ttl - Frame]]
      /\ leftIn' = [e \in DOMAIN leftIn \cup Expired |->
                      IF e \in Expired THEN tickCount + 1 ELSE leftIn[e]]
      /\ tickCount' = tickCount + 1
      /\ lastSnapshot' = IF SnapshotInterval > 0 /\ (tickCount + 1) % SnapshotInterval = 0
                         THEN BuildSnapshot(DOMAIN projectiles \ Expired, tickCount + 1)
                         ELSE lastSnapshot
      /\ UNCHANGED <<mode, left, step, elapsed, bodyTime, ships, shipIndex, nextShipNetId,
                     nextProjectileNetId, collisionEvents, asked>>
  BY DEF FinishTick, planVars, shipVars
<1>n. /\ elapsed \in Nat /\ tickCount \in Nat /\ tickCount + 1 \in Nat
      /\ tickCount + 1 <= MaxTicks
  <2>1. tickCount < MaxTicks
    BY <1>u DEF IInv, OnSchedule
  <2> QED BY <1>t, <2>1, IdRanges DEF TypeOK
<1>f. Frame \in Nat /\ Frame > 0
  BY FrameFacts
<1>x. Expired \subseteq DOMAIN projectiles
  BY DEF Expired
<1>p. ASSUME NEW p \in DOMAIN projectiles'
      PROVE  /\ p \in DOMAIN projectiles /\ p \notin Expired
             /\ projectiles'[p].ttl = projectiles[p].ttl - Frame
             /\ projectiles'[p].ttl > 0
             /\ projectiles'[p].born = projectiles[p].born
             /\ projectiles'[p].motion = projectiles[p].motion
             /\ projectiles'[p] \in ProjectileType
  <2>1. p \in DOMAIN projectiles /\ p \notin Expired
    BY <1>u
  <2>2. projectiles[p] \in ProjectileType /\ projectiles[p].ttl \in Int
    BY <1>t, <2>1, ProjectileFacts
  <2>3. projectiles'[p] = [projectiles[p] EXCEPT !.ttl = projectiles[p].ttl - Frame]
    BY <1>u, <2>1
  <2>4. projectiles[p].ttl - Frame \in Int /\ projectiles[p].ttl - Frame > 0
    BY <1>f, <2>1, <2>2 DEF Expired
  <2> QED BY <2>1, <2>2, <2>3, <2>4 DEF ProjectileType
<1>1. TypeOK'
  <2>1. DOMAIN projectiles' \subseteq ProjectileIds
    BY <1>t, <1>p DEF TypeOK
  <2>2. projectiles' \in [DOMAIN projectiles' -> ProjectileType]
    <3>1. projectiles' = [p \in DOMAIN projectiles' |-> projectiles'[p]]
      BY <1>u
    <3> QED BY <1>p, <3>1
  <2>3. DOMAIN leftIn' \subseteq SmallIds
    BY <1>t, <1>u, <1>x DEF TypeOK, SmallIds
  <2>4. leftIn' \in [DOMAIN leftIn' -> Nat]
    <3>1. \A e \in DOMAIN leftIn : leftIn[e] \in Nat
      BY <1>t DEF TypeOK
    <3> QED BY <1>u, <1>n, <3>1
  <2>5. lastSnapshot' \in SnapshotType
    <3>1. BuildSnapshot(DOMAIN projectiles \ Expired, tickCount + 1) \in SnapshotType
      BY <1>t, <1>n DEF TypeOK, BuildSnapshot, SnapshotType, Time
    <3>2. lastSnapshot \in SnapshotType
      BY <1>t DEF TypeOK
    <3> QED BY <1>u, <3>1, <3>2
  <2>6. tickCount' \in 0..MaxTicks
    BY <1>u, <1>n, IdRanges
  <2> QED BY <1>t, <1>u, <2>1, <2>2, <2>3, <2>4, <2>5, <2>6 DEF TypeOK
<1>2. SlotsAreAVector' /\ IndexIsExact'
  BY <1>u DEF IInv, SlotsAreAVector, IndexIsExact
<1>3. TriggersAreAsked'
  <2>1. Firing' = {} /\ asked' = {}
    BY <1>u DEF IInv, TriggersAreAsked, Firing
  <2>2. nextProjectileNetId + 0 <= FirstProjectile + MaxShots
    BY <1>t, IdRanges DEF TypeOK
  <2> QED BY <1>u, <2>1, <2>2, FS_EmptySet DEF TriggersAreAsked
<1>4. NetIdsAreNotReused'
  <2>1. Small' = Small \ Expired
    <3>1. DOMAIN projectiles' = DOMAIN projectiles \ Expired
      BY <1>u
    <3>2. DOMAIN ships \cap Expired = {}
      BY <1>t, <1>x, IdRanges DEF TypeOK
    <3> QED BY <1>u, <3>1, <3>2 DEF Small
  <2>2. DOMAIN leftIn' = DOMAIN leftIn \cup Expired
    BY <1>u
  <2>3. Expired \subseteq Small
    BY <1>x DEF Small
  <2> QED BY <1>u, <2>1, <2>2, <2>3 DEF IInv, NetIdsAreNotReused
<1>5. OnSchedule'
  <2>1. elapsed = Frame * (tickCount + 1) /\ bodyTime = elapsed
    BY <1>u DEF IInv, OnSchedule
  <2> QED BY <1>u, <2>1 DEF OnSchedule
<1>6. EntitiesOnSchedule'
  BY <1>u, <1>p DEF IInv, EntitiesOnSchedule, MotionOnSchedule
<1>7. AgesAreRight'
  <2> SUFFICES ASSUME NEW p \in DOMAIN projectiles'
               PROVE  /\ projectiles'[p].born <= tickCount'
                      /\ projectiles'[p].ttl = Ttl - Frame * (tickCount' - projectiles'[p].born)
                      /\ projectiles'[p].ttl > 0
    BY DEF AgesAreRight
  <2>1. PICK b \in Nat : b = projectiles[p].born
    BY <1>t, <1>p, ProjectileFacts
  <2>2. b <= tickCount /\ projectiles[p].ttl = Ttl - Frame * (tickCount - b)
    BY <1>p, <2>1 DEF IInv, AgesAreRight
  <2>a. tickCount + 1 - b = (tickCount - b) + 1 /\ tickCount - b \in Int
    BY <1>n, <2>1
  <2>b. \A t \in Int : Frame * t \in Int /\ Frame * (t + 1) = Frame * t + Frame
    BY FrameFacts
  <2>c. /\ Frame * (tickCount - b) \in Int
        /\ Frame * ((tickCount - b) + 1) = Frame * (tickCount - b) + Frame
    BY <2>a, <2>b
  <2>3. Frame * (tickCount + 1 - b) = Frame * (tickCount - b) + Frame
    BY <2>a, <2>c
  <2>4. Ttl \in Int
    BY ConfigAssumption
  <2>5. projectiles'[p].ttl = Ttl - Frame * (tickCount + 1 - b)
    BY <1>f, <1>p, <2>2, <2>3, <2>4, <2>c
  <2>6. projectiles'[p].born = b /\ projectiles'[p].ttl > 0
    BY <1>p, <2>1
  <2>7. b <= tickCount' /\ tickCount' = tickCount + 1
    BY <1>n, <1>u, <2>1, <2>2
  <2>8. Frame * (tickCount' - projectiles'[p].born) = Frame * (tickCount + 1 - b)
    <3>1. tickCount' - projectiles'[p].born = tickCount + 1 - b
      BY <1>n, <2>6, <2>7
    <3> QED BY <3>1
  <2>9. projectiles'[p].ttl = Ttl - Frame * (tickCount' - projectiles'[p].born)
    BY <2>5, <2>8
  <2>10. projectiles'[p].born <= tickCount'
    BY <2>6, <2>7
  <2> QED BY <2>6, <2>9, <2>10
<1> QED BY <1>1, <1>2, <1>3, <1>4, <1>5, <1>6, <1>7 DEF IInv

-----------------------------------------------------------------------------
LEMMA StutterKeeps == ASSUME IInv, UNCHANGED vars PROVE IInv'
<1> USE DEF vars
<1>1. TypeOK'
  BY DEF IInv, TypeOK
<1>2. SlotsAreAVector' /\ IndexIsExact' /\ TriggersAreAsked' /\ NetIdsAreNotReused'
  BY DEF IInv, SlotsAreAVector, IndexIsExact, TriggersAreAsked, Firing, NetIdsAreNotReused, Small
<1>3. OnSchedule' /\ EntitiesOnSchedule' /\ AgesAreRight'
  BY DEF IInv, OnSchedule, EntitiesOnSchedule, MotionOnSchedule, AgesAreRight
<1> QED BY <1>1, <1>2, <1>3 DEF IInv

LEMMA NextKeeps == ASSUME IInv, [Next]_vars PROVE IInv'
<1>1. ASSUME NEW netId \in ShipIds, NEW fire \in BOOLEAN, UpdateShipControl(netId, fire)
      PROVE  IInv'
  BY <1>1, UpdateShipControlKeeps
<1>2. ASSUME NEW n \in SubstepCounts, BeginAdaptiveTick(n) PROVE IInv'
  BY <1>2, BeginAdaptiveTickKeeps
<1>3. ASSUME NEW dead \in SUBSET Small, DetectAndResolve(dead) PROVE IInv'
  BY <1>3, DetectAndResolveKeeps
<1> QED BY <1>1, <1>2, <1>3, SpawnShipKeeps, BeginFixedTickKeeps, BeginSubstepKeeps,
           IntegrateKeeps, FinishTickKeeps, StutterKeeps DEF Next, TickStep

\* The server keeps its invariant, whatever ships are spawned and controlled,
\* whatever each collision pass destroys and whatever substeps a tick is cut into.
THEOREM ServerInvariant == Spec => []IInv
<1>1. Init => IInv
  BY InitEstablishes
<1>2. IInv /\ [Next]_vars => IInv'
  BY NextKeeps
<1> QED BY <1>1, <1>2, PTL DEF Spec

\* The index from NetIds to ships is exact in every state a caller can see.
THEOREM ServerIndexIsExact == Spec => []IndexIsExact
<1>1. IInv => IndexIsExact
  BY DEF IInv
<1> QED BY <1>1, ServerInvariant, PTL

\* No NetId is used twice, by a ship or by a projectile.
THEOREM ServerNetIdsAreNotReused == Spec => []NetIdsAreNotReused
<1>1. IInv => NetIdsAreNotReused
  BY DEF IInv
<1> QED BY <1>1, ServerInvariant, PTL

\* Between ticks clock, bodies, positions and forces belong to the time the count
\* of ticks says, for every frame length and every substep plan that covers it.
THEOREM ServerKeepsTime == Spec => []AllBelongsToOneTime
<1>1. IInv => AllBelongsToOneTime
  BY DEF IInv, OnSchedule, EntitiesOnSchedule, MotionOnSchedule, AllBelongsToOneTime
<1> QED BY <1>1, ServerInvariant, PTL

\* A control reaches the ship it names and changes no other.
THEOREM ServerControlReachesItsShip == Spec => ControlReachesItsShip
<1> DEFINE Reach == \A netId \in ShipIds, fire \in BOOLEAN :
                      UpdateShipControl(netId, fire) =>
                        /\ netId \in DOMAIN ships => ships'[netId].fire = fire
                        /\ \A s \in DOMAIN ships \ {netId} : ships'[s] = ships[s]
<1>1. IInv /\ [Next]_vars => [Reach]_vars
  <2> SUFFICES ASSUME IInv, NEW netId \in ShipIds, NEW fire \in BOOLEAN,
                      UpdateShipControl(netId, fire)
               PROVE  /\ netId \in DOMAIN ships => ships'[netId].fire = fire
                      /\ \A s \in DOMAIN ships \ {netId} : ships'[s] = ships[s]
    OBVIOUS
  <2>1. ships' = [s \in DOMAIN ships |->
                    IF s = netId THEN [ships[s] EXCEPT !.fire = fire] ELSE ships[s]]
    BY ControlFindsItsShip
  <2>2. ASSUME netId \in DOMAIN ships PROVE ships'[netId].fire = fire
    <3>1. ships[netId] = [slot |-> ships[netId].slot, fire |-> ships[netId].fire,
                          motion |-> ships[netId].motion]
      BY <2>2, ShipFacts DEF IInv
    <3>2. ships'[netId] = [slot |-> ships[netId].slot, fire |-> fire,
                           motion |-> ships[netId].motion]
      BY <2>1, <2>2, <3>1
    <3> QED BY <3>2
  <2>3. \A s \in DOMAIN ships \ {netId} : ships'[s] = ships[s]
    BY <2>1
  <2> QED BY <2>2, <2>3
<1>2. Spec => [][Reach]_vars
  BY <1>1, ServerInvariant, PTL DEF Spec
<1> QED BY <1>2 DEF ControlReachesItsShip

\* A projectile leaves the world by a hit or, at the end of a tick, by its age;
\* one of age Ttl is in the world no longer.
THEOREM ServerShotsLiveTheirTtl == Spec => ShotsLiveTheirTtl
<1> DEFINE Leave == \A p \in DOMAIN projectiles \ DOMAIN projectiles' :
                      \/ p \in collisionEvents'
                      \/ Frame * (tickCount' - projectiles[p].born) >= Ttl
           Young == pc = "ready" => \A p \in DOMAIN projectiles :
                                      Frame * (tickCount - projectiles[p].born) < Ttl
<1>1. ASSUME IInv, NEW p \in DOMAIN projectiles
      PROVE  /\ projectiles[p].ttl = Ttl - Frame * (tickCount - projectiles[p].born)
             /\ Frame * (tickCount - projectiles[p].born) \in Int
             /\ Frame * (tickCount + 1 - projectiles[p].born)
                  = Frame * (tickCount - projectiles[p].born) + Frame
  <2>1. PICK b \in Nat : b = projectiles[p].born
    BY <1>1, ProjectileFacts DEF IInv
  <2>2. tickCount \in Nat
    BY <1>1, IdRanges DEF IInv, TypeOK
  <2>3. tickCount + 1 - b = (tickCount - b) + 1 /\ tickCount - b \in Int
    BY <2>1, <2>2
  <2>4. \A t \in Int : Frame * t \in Int /\ Frame * (t + 1) = Frame * t + Frame
    BY FrameFacts
  <2>5. /\ Frame * (tickCount - b) \in Int
        /\ Frame * ((tickCount - b) + 1) = Frame * (tickCount - b) + Frame
    BY <2>3, <2>4
  <2>6. projectiles[p].ttl = Ttl - Frame * (tickCount - projectiles[p].born)
    BY <1>1 DEF IInv, AgesAreRight
  <2> QED BY <2>1, <2>3, <2>5, <2>6
<1>2. ASSUME IInv PROVE Young
  <2> SUFFICES ASSUME pc = "ready", NEW p \in DOMAIN projectiles
               PROVE  Frame * (tickCount - projectiles[p].born) < Ttl
    OBVIOUS
  <2>1. projectiles[p].ttl > 0
    BY <1>2 DEF IInv, AgesAreRight
  <2>2. PICK x \in Int : x = Frame * (tickCount - projectiles[p].born)
    BY <1>1, <1>2
  <2>3. projectiles[p].ttl = Ttl - x
    BY <1>1, <1>2, <2>2
  <2> QED BY <2>1, <2>2, <2>3, ConfigAssumption
<1>3. ASSUME IInv, [Next]_vars PROVE [Leave]_vars
  <2> SUFFICES ASSUME Next, NEW p \in DOMAIN projectiles \ DOMAIN projectiles'
               PROVE  \/ p \in collisionEvents'
                      \/ Frame * (tickCount' - projectiles[p].born) >= Ttl
    BY <1>3
  <2>1. CASE \E dead \in SUBSET Small : DetectAndResolve(dead)
    BY <2>1 DEF DetectAndResolve, Without
  <2>2. CASE FinishTick
    <3>1. p \in Expired /\ tickCount' = tickCount + 1
      BY <2>2 DEF FinishTick
    <3>2. projectiles[p].ttl - Frame <= 0
      BY <3>1 DEF Expired
    <3>3. PICK x \in Int : x = Frame * (tickCount - projectiles[p].born)
      BY <1>1, <1>3
    <3>4. /\ projectiles[p].ttl = Ttl - x
          /\ Frame * (tickCount + 1 - projectiles[p].born) = x + Frame
      BY <1>1, <1>3, <3>3
    <3>5. Frame \in Int /\ Ttl \in Int
      BY ConfigAssumption, FrameFacts
    <3>6. (Ttl - x) - Frame <= 0
      BY <3>2, <3>4
    <3>7. x + Frame >= Ttl
      BY <3>3, <3>5, <3>6
    <3>8. Frame * (tickCount' - projectiles[p].born) = x + Frame
      <4>0. tickCount \in Nat /\ projectiles[p].born \in Nat
        BY <1>3, ProjectileFacts, IdRanges DEF IInv, TypeOK
      <4>1. tickCount' - projectiles[p].born = tickCount + 1 - projectiles[p].born
        BY <3>1, <4>0
      <4> QED BY <3>4, <4>1
    <3> QED BY <3>7, <3>8
  <2>3. CASE BeginFixedTick \/ \E n \in SubstepCounts : BeginAdaptiveTick(n)
    BY <2>3 DEF BeginFixedTick, BeginAdaptiveTick, SpawnAndControl
  <2>4. CASE SpawnShip \/ BeginSubstep \/ Integrate
             \/ \E netId \in ShipIds, fire \in BOOLEAN : UpdateShipControl(netId, fire)
    BY <2>4 DEF SpawnShip, BeginSubstep, Integrate, UpdateShipControl
  <2> QED BY <2>1, <2>2, <2>3, <2>4 DEF Next, TickStep
<1>4. Spec => [][Leave]_vars /\ []Young
  <2> HIDE DEF Leave, Young
  <2> QED BY <1>2, <1>3, ServerInvariant, PTL DEF Spec
<1> QED BY <1>4 DEF ShotsLiveTheirTtl

\* In every tick that begins, each ship whose last control said so gets one shot and
\* no other ship does, whatever the order of the vector.
THEOREM ServerAnswersTriggers == Spec => EachTriggerGivesOneShot
<1> DEFINE NewOf(s) == {p \in DOMAIN projectiles' \ DOMAIN projectiles :
                          projectiles'[p].owner = s}
<1>1. ASSUME IInv, [Next]_vars PROVE [ShotsAnswerTriggers]_vars
  <2> SUFFICES ASSUME Next, pc = "ready", pc' # "ready", NEW s \in DOMAIN ships
               PROVE  Cardinality(NewOf(s)) = IF s \in asked THEN 1 ELSE 0
    BY <1>1 DEF ShotsAnswerTriggers
  <2>1. \E bodies \in Nat : SpawnAndControl(bodies)
    <3>1. elapsed \in Nat /\ elapsed + Frame \in Nat
      BY <1>1, FrameFacts DEF IInv, TypeOK
    <3>2. CASE BeginFixedTick
      BY <3>1, <3>2 DEF BeginFixedTick
    <3>3. CASE \E n \in SubstepCounts : BeginAdaptiveTick(n)
      BY <3>1, <3>3 DEF BeginAdaptiveTick
    <3>4. ~SpawnShip /\ ~TickStep
          /\ \A netId \in ShipIds, fire \in BOOLEAN : ~UpdateShipControl(netId, fire)
      BY DEF SpawnShip, TickStep, UpdateShipControl, BeginSubstep, DetectAndResolve,
             Integrate, FinishTick
    <3> QED BY <3>2, <3>3, <3>4 DEF Next
  <2>2. PICK bodies \in Nat : SpawnAndControl(bodies)
    BY <2>1
  <2>3. /\ DOMAIN projectiles' = DOMAIN projectiles \cup ShotIds
        /\ \A r \in Firing : projectiles'[ShotId(r)] = ShotOf(r, bodies)
        /\ \A p \in ShotIds : \E r \in Firing : p = ShotId(r) /\ projectiles'[p] = ShotOf(r, bodies)
    BY <1>1, <2>2, SpawnAndControlEffect
  <2>4. /\ {ShotId(r) : r \in Firing} = ShotIds
        /\ ShotIds \cap DOMAIN projectiles = {}
    BY <1>1, ShotsGetTheNextIds DEF Small
  <2>5. \A r : ShotOf(r, bodies).owner = r
    BY DEF ShotOf
  <2>6. CASE s \in asked
    <3>1. s \in Firing
      BY <1>1, <2>6 DEF IInv, TriggersAreAsked
    <3>2. NewOf(s) = {ShotId(s)}
      BY <2>3, <2>4, <2>5, <3>1
    <3> QED BY <2>6, <3>2, FS_Singleton
  <2>7. CASE s \notin asked
    <3>1. s \notin Firing
      BY <1>1, <2>7 DEF IInv, TriggersAreAsked
    <3>2. NewOf(s) = {}
      BY <2>3, <2>4, <2>5, <3>1
    <3> QED BY <2>7, <3>2, FS_EmptySet
  <2> QED BY <2>6, <2>7
<1>2. Spec => [][ShotsAnswerTriggers]_vars
  BY <1>1, ServerInvariant, PTL DEF Spec
<1> QED BY <1>2 DEF EachTriggerGivesOneShot

-----------------------------------------------------------------------------
(* The snapshot.                                                           *)

\* The tick the world is of, or is on the way to.
TickOfWorld == IF pc = "ready" THEN tickCount ELSE tickCount + 1

DueTick(t) == SnapshotInterval > 0 =>
  lastSnapshot.tick = SnapshotInterval * (t \div SnapshotInterval)

\* Despawns are reported in the tick they happen in; a snapshot is not later than
\* the last tick, and what it shows and reports stays true while it is the last.
SnapshotInv ==
  /\ \A e \in collisionEvents : e \in DOMAIN leftIn /\ leftIn[e] = TickOfWorld
  /\ lastSnapshot.tick <= tickCount
  /\ DueTick(tickCount)
  /\ lastSnapshot.elapsed = Frame * lastSnapshot.tick
  /\ \A e \in lastSnapshot.ships \cup lastSnapshot.projectiles :
       e \in DOMAIN leftIn => leftIn[e] > lastSnapshot.tick
  /\ \A e \in lastSnapshot.gone : e \in DOMAIN leftIn /\ leftIn[e] = lastSnapshot.tick

LEMMA SnapshotFacts ==
  ASSUME IInv
  PROVE  /\ lastSnapshot.tick \in Nat /\ tickCount \in Nat
         /\ SnapshotInterval \in Nat /\ Frame \in Nat
         /\ Small \cap DOMAIN leftIn = {}
         /\ \A e \in DOMAIN leftIn : leftIn[e] \in Nat
<1>1. lastSnapshot \in SnapshotType /\ tickCount \in 0..MaxTicks
      /\ leftIn \in [DOMAIN leftIn -> Nat]
  BY DEF IInv, TypeOK
<1>2. lastSnapshot.tick \in Nat
  BY <1>1 DEF SnapshotType
<1> QED BY <1>1, <1>2, BoundsAssumption, FrameAssumption, ConfigAssumption
        DEF IInv, NetIdsAreNotReused

\* The multiples of an interval, counted tick by tick.
LEMMA NextDueTick ==
  ASSUME NEW i \in Nat, i > 0, NEW t \in Nat
  PROVE  IF (t + 1) % i = 0 THEN t + 1 = i * ((t + 1) \div i)
                            ELSE (t + 1) \div i = t \div i
<1>1. t + 1 = i * ((t + 1) \div i) + ((t + 1) % i)
  OBVIOUS
<1>2. t = i * (t \div i) + (t % i) /\ t % i \in 0..(i - 1)
  OBVIOUS
<1>3. ASSUME (t + 1) % i # 0 PROVE (t + 1) \div i = t \div i
  <2> DEFINE r == t % i
             q == t \div i
  <2>1. r + 1 < i
    <3>1. ASSUME r + 1 = i PROVE FALSE
      <4>1. t + 1 = i * (q + 1)
        <5>1. i * (q + 1) = i * q + i /\ q \in Nat
          OBVIOUS
        <5> QED BY <1>2, <3>1, <5>1
      <4>2. q + 1 \in Nat
        OBVIOUS
      <4>3. \A a \in Nat : (i * a) % i = 0
        OBVIOUS
      <4> QED BY <1>3, <4>1, <4>2, <4>3
    <3> QED BY <1>2, <3>1
  <2>2. t + 1 = i * q + (r + 1) /\ q \in Nat /\ r + 1 \in 0..(i - 1)
    BY <1>2, <2>1
  <2>3. \A a \in Nat, b \in 0..(i - 1) : (i * a + b) \div i = a
    OBVIOUS
  <2> QED BY <2>2, <2>3
<1> QED BY <1>1, <1>3

LEMMA SnapshotInit == Init => SnapshotInv
<1> SUFFICES ASSUME Init PROVE SnapshotInv
  OBVIOUS
<1>1. /\ collisionEvents = {} /\ tickCount = 0
      /\ lastSnapshot.tick = 0 /\ lastSnapshot.elapsed = 0
      /\ lastSnapshot.ships = {} /\ lastSnapshot.projectiles = {} /\ lastSnapshot.gone = {}
  BY DEF Init
<1>2. Frame * 0 = 0 /\ \A i \in Nat \ {0} : i * (0 \div i) = 0
  BY FrameAssumption
<1> QED BY <1>1, <1>2, ConfigAssumption DEF SnapshotInv, DueTick

\* A step that neither takes a snapshot nor changes the tick count keeps the
\* invariant if what leaves in it leaves in the tick under way.
LEMMA SnapshotStays ==
  ASSUME IInv, SnapshotInv, tickCount' = tickCount, lastSnapshot' = lastSnapshot,
         NEW gone \in SUBSET Small, gone # {} => pc # "ready",
         leftIn' = [e \in DOMAIN leftIn \cup gone |->
                      IF e \in gone THEN tickCount + 1 ELSE leftIn[e]],
         \A e \in collisionEvents' : e \in DOMAIN leftIn' /\ leftIn'[e] = TickOfWorld'
  PROVE  SnapshotInv'
<1>1. /\ lastSnapshot.tick \in Nat /\ tickCount \in Nat
      /\ Small \cap DOMAIN leftIn = {} /\ \A e \in DOMAIN leftIn : leftIn[e] \in Nat
      /\ lastSnapshot.tick <= tickCount
  BY SnapshotFacts DEF SnapshotInv
<1>2. \A e \in DOMAIN leftIn : e \in DOMAIN leftIn' /\ leftIn'[e] = leftIn[e]
  BY <1>1
<1>3. \A e \in DOMAIN leftIn' \ DOMAIN leftIn : leftIn'[e] = tickCount + 1
  OBVIOUS
<1>4. \A e \in lastSnapshot.ships \cup lastSnapshot.projectiles :
        e \in DOMAIN leftIn' => leftIn'[e] > lastSnapshot.tick
  BY <1>1, <1>2, <1>3 DEF SnapshotInv
<1>5. \A e \in lastSnapshot.gone : e \in DOMAIN leftIn' /\ leftIn'[e] = lastSnapshot.tick
  BY <1>2 DEF SnapshotInv
<1> QED BY <1>4, <1>5 DEF SnapshotInv, DueTick

\* The end of a tick: what the snapshot shows has not left, by NetIdsAreNotReused.
LEMMA SnapshotFinish ==
  ASSUME IInv, SnapshotInv, IInv', FinishTick
  PROVE  SnapshotInv'
<1> DEFINE t == tickCount + 1
           due == SnapshotInterval > 0 /\ t % SnapshotInterval = 0
<1>1. /\ lastSnapshot.tick \in Nat /\ tickCount \in Nat /\ t \in Nat
      /\ SnapshotInterval \in Nat /\ Frame \in Nat
      /\ Small \cap DOMAIN leftIn = {} /\ \A e \in DOMAIN leftIn : leftIn[e] \in Nat
      /\ lastSnapshot.tick <= tickCount
  BY SnapshotFacts DEF SnapshotInv
<1>2. /\ pc = "finish" /\ pc' = "ready" /\ tickCount' = t
      /\ collisionEvents' = collisionEvents /\ DOMAIN ships' = DOMAIN ships
      /\ DOMAIN projectiles' = DOMAIN projectiles \ Expired
      /\ leftIn' = [e \in DOMAIN leftIn \cup Expired |->
                      IF e \in Expired THEN t ELSE leftIn[e]]
      /\ lastSnapshot' = IF due THEN BuildSnapshot(DOMAIN projectiles \ Expired, t)
                         ELSE lastSnapshot
  BY DEF FinishTick, shipVars
<1>3. Expired \subseteq Small
  BY DEF Expired, Small
<1>4. \A e \in DOMAIN leftIn : e \in DOMAIN leftIn' /\ leftIn'[e] = leftIn[e]
  BY <1>1, <1>2, <1>3
<1>5. \A e \in DOMAIN leftIn' \ DOMAIN leftIn : leftIn'[e] = t
  BY <1>2
<1>6. TickOfWorld = t /\ TickOfWorld' = t
  BY <1>2 DEF TickOfWorld
<1>7. \A e \in collisionEvents' : e \in DOMAIN leftIn' /\ leftIn'[e] = t
  BY <1>2, <1>4, <1>6 DEF SnapshotInv
<1>8. CASE due
  <2>1. /\ lastSnapshot'.tick = t /\ lastSnapshot'.elapsed = elapsed
        /\ lastSnapshot'.ships = DOMAIN ships
        /\ lastSnapshot'.projectiles = DOMAIN projectiles \ Expired
        /\ lastSnapshot'.gone = collisionEvents
    BY <1>2, <1>8 DEF BuildSnapshot
  <2>2. elapsed = Frame * t
    BY <1>2 DEF IInv, OnSchedule
  <2>3. (DOMAIN ships' \cup DOMAIN projectiles') \cap DOMAIN leftIn' = {}
    BY DEF IInv, NetIdsAreNotReused, Small
  <2>4. t = SnapshotInterval * (t \div SnapshotInterval)
    BY <1>1, <1>8, NextDueTick
  <2>5. DueTick(tickCount)'
    BY <1>2, <2>1, <2>4 DEF DueTick
  <2>6. lastSnapshot'.tick <= tickCount'
    BY <1>1, <1>2, <2>1
  <2> QED BY <1>2, <1>6, <1>7, <2>1, <2>2, <2>3, <2>5, <2>6 DEF SnapshotInv
<1>9. CASE ~due
  <2>1. lastSnapshot' = lastSnapshot
    BY <1>2, <1>9
  <2>2. DueTick(tickCount)'
    <3>1. ASSUME SnapshotInterval > 0
          PROVE  lastSnapshot.tick = SnapshotInterval * (t \div SnapshotInterval)
      <4>1. t \div SnapshotInterval = tickCount \div SnapshotInterval
        BY <1>1, <1>9, <3>1, NextDueTick
      <4> QED BY <3>1, <4>1 DEF SnapshotInv, DueTick
    <3> QED BY <1>2, <2>1, <3>1 DEF DueTick
  <2>3. lastSnapshot'.tick <= tickCount'
    BY <1>1, <1>2, <2>1
  <2>4. \A e \in lastSnapshot.ships \cup lastSnapshot.projectiles :
          e \in DOMAIN leftIn' => leftIn'[e] > lastSnapshot.tick
    BY <1>1, <1>4, <1>5 DEF SnapshotInv
  <2>5. \A e \in lastSnapshot.gone : e \in DOMAIN leftIn' /\ leftIn'[e] = lastSnapshot.tick
    BY <1>4 DEF SnapshotInv
  <2>6. lastSnapshot'.elapsed = Frame * lastSnapshot'.tick
    BY <2>1 DEF SnapshotInv
  <2> QED BY <1>6, <1>7, <2>1, <2>2, <2>3, <2>4, <2>5, <2>6 DEF SnapshotInv
<1> QED BY <1>8, <1>9

LEMMA SnapshotStep ==
  ASSUME IInv, SnapshotInv, IInv', [Next]_vars
  PROVE  SnapshotInv'
<1>1. leftIn = [e \in DOMAIN leftIn \cup {} |-> IF e \in {} THEN tickCount + 1 ELSE leftIn[e]]
  BY DEF IInv, TypeOK
<1>2. CASE FinishTick
  BY <1>2, SnapshotFinish
<1>3. ASSUME NEW dead \in SUBSET Small, DetectAndResolve(dead) PROVE SnapshotInv'
  <2>1. /\ pc = "collide" /\ pc' = "integrate" /\ tickCount' = tickCount
        /\ lastSnapshot' = lastSnapshot
        /\ collisionEvents' = collisionEvents \cup dead
        /\ leftIn' = [e \in DOMAIN leftIn \cup dead |->
                        IF e \in dead THEN tickCount + 1 ELSE leftIn[e]]
    BY <1>3 DEF DetectAndResolve
  <2>2. TickOfWorld = tickCount + 1 /\ TickOfWorld' = tickCount + 1
    BY <2>1 DEF TickOfWorld
  <2>3. \A e \in collisionEvents' : e \in DOMAIN leftIn' /\ leftIn'[e] = TickOfWorld'
    BY <2>1, <2>2 DEF SnapshotInv
  <2> QED BY <2>1, <2>3, SnapshotStays
<1>4. ASSUME tickCount' = tickCount, lastSnapshot' = lastSnapshot, leftIn' = leftIn,
             \/ collisionEvents' = {}
             \/ collisionEvents' = collisionEvents /\ (pc' = "ready" <=> pc = "ready")
      PROVE  SnapshotInv'
  <2>1. \A e \in collisionEvents' : e \in DOMAIN leftIn' /\ leftIn'[e] = TickOfWorld'
    BY <1>4 DEF SnapshotInv, TickOfWorld
  <2> DEFINE gone == {}
  <2>2. gone \in SUBSET Small /\ (gone # {} => pc # "ready")
    OBVIOUS
  <2>3. leftIn' = [e \in DOMAIN leftIn \cup gone |->
                    IF e \in gone THEN tickCount + 1 ELSE leftIn[e]]
    BY <1>1, <1>4
  <2> HIDE DEF gone
  <2> QED BY <1>4, <2>1, <2>2, <2>3, SnapshotStays
<1>5. CASE BeginFixedTick \/ \E n \in SubstepCounts : BeginAdaptiveTick(n)
  BY <1>4, <1>5 DEF BeginFixedTick, BeginAdaptiveTick, SpawnAndControl
<1>6. CASE SpawnShip \/ BeginSubstep
           \/ \E netId \in ShipIds, fire \in BOOLEAN : UpdateShipControl(netId, fire)
  BY <1>4, <1>6 DEF SpawnShip, BeginSubstep, UpdateShipControl
<1>7. CASE Integrate
  <2>1. pc = "integrate" /\ pc' # "ready"
    BY <1>7 DEF Integrate
  <2> QED BY <1>4, <1>7, <2>1 DEF Integrate
<1>8. CASE UNCHANGED vars
  BY <1>4, <1>8 DEF vars
<1> QED BY <1>2, <1>3, <1>5, <1>6, <1>7, <1>8 DEF Next, TickStep

LEMMA ServerSnapshots == Spec => []SnapshotInv
<1>1. IInv /\ IInv' /\ SnapshotInv /\ [Next]_vars => SnapshotInv'
  BY SnapshotStep
<1> QED BY <1>1, SnapshotInit, ServerInvariant, PTL DEF Spec

\* A snapshot is of the last tick that is due one, shows no entity that had left by
\* then and reports the despawns of its own tick and no other, for any interval.
THEOREM ServerSnapshotsAreTimely == Spec => []SnapshotsAreTimely
<1>1. SnapshotInv => SnapshotsAreTimely
  BY DEF SnapshotInv, SnapshotsAreTimely, DueTick
<1> QED BY <1>1, ServerSnapshots, PTL

-----------------------------------------------------------------------------
(* The feed.                                                               *)

\* What a snapshot shows has been in the world, and whatever has left it did so by
\* the tick the world is of.
DepartureInv ==
  /\ lastSnapshot.ships \cup lastSnapshot.projectiles \subseteq Small \cup DOMAIN leftIn
  /\ \A e \in DOMAIN leftIn : leftIn[e] <= TickOfWorld

\* leftIn after some entities leave in the tick under way.
LeftAfter(gone) ==
  [e \in DOMAIN leftIn \cup gone |-> IF e \in gone THEN tickCount + 1 ELSE leftIn[e]]

\* Before its end, a tick changes nothing that shows outside: entities leave, but no
\* snapshot tells.
LEMMA OnlyTheEndShows ==
  ASSUME IInv, [Next]_vars, ~FinishTick
  PROVE  /\ tickCount' = tickCount /\ lastSnapshot' = lastSnapshot
         /\ pc' = "ready" => pc = "ready"
         /\ \E gone \in SUBSET Small :
              /\ gone # {} => pc # "ready" /\ pc' # "ready"
              /\ leftIn' = LeftAfter(gone)
<1>1. leftIn = LeftAfter({})
  BY DEF IInv, TypeOK, LeftAfter
<1>2. ASSUME NEW dead \in SUBSET Small, DetectAndResolve(dead)
      PROVE  /\ tickCount' = tickCount /\ lastSnapshot' = lastSnapshot
             /\ pc = "collide" /\ pc' = "integrate" /\ leftIn' = LeftAfter(dead)
  BY <1>2 DEF DetectAndResolve, LeftAfter
<1>3. ASSUME tickCount' = tickCount, lastSnapshot' = lastSnapshot, leftIn' = leftIn,
             pc' = "ready" => pc = "ready"
      PROVE  /\ tickCount' = tickCount /\ lastSnapshot' = lastSnapshot
             /\ pc' = "ready" => pc = "ready"
             /\ \E gone \in SUBSET Small :
                  /\ gone # {} => pc # "ready" /\ pc' # "ready"
                  /\ leftIn' = LeftAfter(gone)
  BY <1>1, <1>3
<1>4. CASE BeginFixedTick \/ \E n \in SubstepCounts : BeginAdaptiveTick(n)
  BY <1>3, <1>4 DEF BeginFixedTick, BeginAdaptiveTick
<1>5. CASE SpawnShip \/ \E netId \in ShipIds, fire \in BOOLEAN : UpdateShipControl(netId, fire)
  BY <1>3, <1>5 DEF SpawnShip, UpdateShipControl
<1>6. CASE BeginSubstep \/ Integrate
  BY <1>3, <1>6 DEF BeginSubstep, Integrate
<1>7. CASE UNCHANGED vars
  BY <1>3, <1>7 DEF vars
<1>8. CASE \E dead \in SUBSET Small : DetectAndResolve(dead)
  BY <1>2, <1>8
<1> QED BY <1>4, <1>5, <1>6, <1>7, <1>8 DEF Next, TickStep

LEMMA RangesGrow ==
  ASSUME NEW a \in Nat, NEW b \in Nat, NEW c \in Nat, b <= c
  PROVE  a..(b - 1) \subseteq a..(c - 1)
OBVIOUS

\* No NetId is taken back.
LEMMA IdsStayGiven ==
  ASSUME IInv, IInv', [Next]_vars
  PROVE  Small \cup DOMAIN leftIn \subseteq (Small \cup DOMAIN leftIn)'
<1>1. nextShipNetId' \in {nextShipNetId, nextShipNetId + 1}
  BY DEF Next, TickStep, vars, SpawnShip, UpdateShipControl, BeginFixedTick,
         BeginAdaptiveTick, BeginSubstep, DetectAndResolve, Integrate, FinishTick, shipVars
<1>2. nextProjectileNetId' \in {nextProjectileNetId, nextProjectileNetId + Cardinality(Firing)}
  BY DEF Next, TickStep, vars, SpawnShip, UpdateShipControl, BeginFixedTick,
         BeginAdaptiveTick, SpawnAndControl, BeginSubstep, DetectAndResolve, Integrate,
         FinishTick
<1>3. /\ nextShipNetId \in Nat /\ nextProjectileNetId \in Nat
      /\ FirstShip \in Nat /\ FirstProjectile \in Nat /\ Cardinality(Firing) \in Nat
  BY WorldIsFinite, IdRanges DEF IInv, TypeOK
<1>4. nextShipNetId' >= nextShipNetId /\ nextProjectileNetId' >= nextProjectileNetId
  BY <1>1, <1>2, <1>3
<1>5. /\ FirstShip..(nextShipNetId - 1) \subseteq FirstShip..(nextShipNetId' - 1)
      /\ FirstProjectile..(nextProjectileNetId - 1)
           \subseteq FirstProjectile..(nextProjectileNetId' - 1)
  <2>1. nextShipNetId' \in Nat /\ nextProjectileNetId' \in Nat
    BY <1>1, <1>2, <1>3
  <2> QED BY <1>3, <1>4, <2>1, RangesGrow
<1>6. Small \cup DOMAIN leftIn
        = (FirstShip..(nextShipNetId - 1)) \cup (FirstProjectile..(nextProjectileNetId - 1))
  BY DEF IInv, NetIdsAreNotReused
<1>7. (Small \cup DOMAIN leftIn)'
        = (FirstShip..(nextShipNetId' - 1)) \cup (FirstProjectile..(nextProjectileNetId' - 1))
  BY DEF IInv, NetIdsAreNotReused
<1> QED BY <1>5, <1>6, <1>7, Zenon

LEMMA DepartureInit == Init => DepartureInv
BY DEF Init, DepartureInv

LEMMA DepartureStep ==
  ASSUME IInv, IInv', DepartureInv, [Next]_vars
  PROVE  DepartureInv'
<1>1. /\ tickCount \in Nat /\ Small \cap DOMAIN leftIn = {}
      /\ \A e \in DOMAIN leftIn : leftIn[e] \in Nat
  BY SnapshotFacts
<1>2. TickOfWorld \in Nat /\ TickOfWorld <= tickCount + 1
  BY <1>1 DEF TickOfWorld
<1>3. CASE FinishTick
  <2>1. /\ pc = "finish" /\ pc' = "ready" /\ tickCount' = tickCount + 1
        /\ DOMAIN ships' = DOMAIN ships /\ DOMAIN projectiles' = DOMAIN projectiles \ Expired
        /\ leftIn' = LeftAfter(Expired)
        /\ \/ lastSnapshot' = lastSnapshot
           \/ /\ lastSnapshot'.ships = DOMAIN ships
              /\ lastSnapshot'.projectiles = DOMAIN projectiles \ Expired
    BY <1>3 DEF FinishTick, shipVars, BuildSnapshot, LeftAfter
  <2>2. lastSnapshot'.ships \cup lastSnapshot'.projectiles \subseteq (Small \cup DOMAIN leftIn)'
    BY <2>1, IdsStayGiven DEF DepartureInv, Small
  <2>3. \A e \in DOMAIN leftIn' : leftIn'[e] <= TickOfWorld'
    <3>1. TickOfWorld' = tickCount + 1
      BY <2>1 DEF TickOfWorld
    <3>2. \A e \in DOMAIN leftIn : leftIn[e] <= tickCount + 1
      BY <1>1, <1>2 DEF DepartureInv
    <3> QED BY <1>1, <2>1, <3>1, <3>2 DEF LeftAfter
  <2> QED BY <2>2, <2>3 DEF DepartureInv
<1>4. CASE ~FinishTick
  <2>1. tickCount' = tickCount /\ lastSnapshot' = lastSnapshot
    BY <1>4, OnlyTheEndShows
  <2>2. PICK gone \in SUBSET Small :
          /\ gone # {} => pc # "ready" /\ pc' # "ready"
          /\ leftIn' = LeftAfter(gone)
    BY <1>4, OnlyTheEndShows
  <2>3. TickOfWorld' >= TickOfWorld /\ (gone # {} => TickOfWorld' = tickCount + 1)
    BY <1>1, <1>4, <2>1, <2>2, OnlyTheEndShows DEF TickOfWorld
  <2>4. lastSnapshot'.ships \cup lastSnapshot'.projectiles \subseteq (Small \cup DOMAIN leftIn)'
    BY <2>1, IdsStayGiven DEF DepartureInv
  <2>5. TickOfWorld' \in Nat
    BY <1>1, <2>1 DEF TickOfWorld
  <2>6. \A e \in DOMAIN leftIn' : leftIn'[e] <= TickOfWorld'
    BY <1>1, <1>2, <2>2, <2>3, <2>5 DEF DepartureInv, LeftAfter
  <2> QED BY <2>4, <2>6 DEF DepartureInv
<1> QED BY <1>3, <1>4

\* The departures a follower knows of.
Departed == [e \in {x \in DOMAIN leftIn : leftIn[x] <= lastSnapshot.tick} |-> leftIn[e]]

LEMMA FeedInit == Init => Feed!Init
<1> SUFFICES ASSUME Init PROVE Feed!Init
  OBVIOUS
<1>1. /\ tickCount = 0 /\ leftIn = << >>
      /\ lastSnapshot.tick = 0 /\ lastSnapshot.elapsed = 0
      /\ lastSnapshot.ships = {} /\ lastSnapshot.projectiles = {} /\ lastSnapshot.gone = {}
  BY DEF Init
<1>2. Frame * 0 = 0 /\ \A i \in Nat \ {0} : i * (0 \div i) = 0
  BY FrameAssumption
<1>3. Feed!LastDue(tickCount) = 0
  BY <1>1, <1>2, ConfigAssumption DEF Feed!LastDue
<1>4. Departed = << >>
  BY <1>1 DEF Departed
<1> DEFINE latest == [tick    |-> lastSnapshot.tick,
                      elapsed |-> lastSnapshot.elapsed,
                      shown   |-> lastSnapshot.ships \cup lastSnapshot.projectiles,
                      gone    |-> lastSnapshot.gone]
<1>5. latest = Feed!Snapshot(Feed!LastDue(tickCount), {}, {})
  <2>1. Frame * Feed!LastDue(tickCount) = 0
    BY <1>2, <1>3
  <2> QED BY <1>1, <1>3, <2>1 DEF Feed!Snapshot
<1> HIDE DEF latest
<1>6. \E shown \in SUBSET SmallIds : latest = Feed!Snapshot(Feed!LastDue(tickCount), shown, {})
  BY <1>5
<1> QED BY <1>1, <1>4, <1>6 DEF Feed!Init, Departed, latest

LEMMA FeedStep ==
  ASSUME IInv, IInv', SnapshotInv, SnapshotInv', DepartureInv, DepartureInv', [Next]_vars
  PROVE  [Feed!Next]_(Feed!vars)
<1> DEFINE t == tickCount + 1
<1>1. /\ tickCount \in Nat /\ Small \cap DOMAIN leftIn = {}
      /\ lastSnapshot.tick \in Nat /\ lastSnapshot.tick <= tickCount
      /\ \A e \in DOMAIN leftIn : leftIn[e] \in Nat
      /\ SnapshotInterval \in Nat
  BY SnapshotFacts DEF SnapshotInv
<1>2. ASSUME NEW gone \in SUBSET Small, leftIn' = LeftAfter(gone), lastSnapshot' = lastSnapshot
      PROVE  Departed' = Departed
  <2>1. {x \in DOMAIN leftIn' : leftIn'[x] <= lastSnapshot'.tick}
          = {x \in DOMAIN leftIn : leftIn[x] <= lastSnapshot.tick}
    BY <1>1, <1>2 DEF LeftAfter
  <2>2. \A x \in DOMAIN leftIn : leftIn'[x] = leftIn[x]
    BY <1>1, <1>2 DEF LeftAfter
  <2> QED BY <2>1, <2>2 DEF Departed
<1>3. CASE ~FinishTick
  <2>1. tickCount' = tickCount /\ lastSnapshot' = lastSnapshot
    BY <1>3, OnlyTheEndShows
  <2>2. Departed' = Departed
    BY <1>2, <1>3, <2>1, OnlyTheEndShows
  <2> QED BY <2>1, <2>2 DEF Feed!vars, Departed
<1>4. CASE FinishTick
  <2>1. /\ tickCount' = t /\ leftIn' = LeftAfter(Expired) /\ Expired \in SUBSET Small
        /\ DOMAIN ships' = DOMAIN ships /\ DOMAIN projectiles' = DOMAIN projectiles \ Expired
        /\ pc = "finish" /\ pc' = "ready"
    BY <1>4 DEF FinishTick, shipVars, LeftAfter, Expired, Small
  <2>2. CASE ~(SnapshotInterval > 0 /\ t % SnapshotInterval = 0)
    <3>1. lastSnapshot' = lastSnapshot
      BY <1>4, <2>2 DEF FinishTick
    <3>2. Departed' = Departed
      BY <1>2, <2>1, <3>1
    <3>3. Feed!Quiet
      BY <2>1, <2>2, <3>1, <3>2 DEF Feed!Quiet, Feed!Due, Departed
    <3> QED BY <3>3 DEF Feed!Next
  <2>3. CASE SnapshotInterval > 0 /\ t % SnapshotInterval = 0
    <3> DEFINE news == [e \in DOMAIN leftIn' \ DOMAIN Departed |-> leftIn'[e]]
               shown == DOMAIN ships' \cup DOMAIN projectiles'
    <3>1. /\ lastSnapshot'.tick = t /\ lastSnapshot'.elapsed = elapsed
          /\ lastSnapshot'.ships = DOMAIN ships
          /\ lastSnapshot'.projectiles = DOMAIN projectiles \ Expired
          /\ lastSnapshot'.gone = collisionEvents
      BY <1>4, <2>3 DEF FinishTick, BuildSnapshot
    <3>2. Departed' = leftIn'
      <4>1. \A e \in DOMAIN leftIn' : leftIn'[e] <= t
        BY <2>1 DEF DepartureInv, TickOfWorld
      <4>2. leftIn' = [e \in DOMAIN leftIn' |-> leftIn'[e]]
        BY <2>1 DEF LeftAfter
      <4> QED BY <3>1, <4>1, <4>2 DEF Departed
    <3>3. /\ DOMAIN Departed \subseteq DOMAIN leftIn'
          /\ \A e \in DOMAIN Departed : Departed[e] = leftIn'[e]
      BY <1>1, <2>1 DEF Departed, LeftAfter
    <3>4. Departed' = [e \in DOMAIN Departed \cup DOMAIN news |->
                        IF e \in DOMAIN news THEN news[e] ELSE Departed[e]]
      <4>1. leftIn' = [e \in DOMAIN leftIn' |-> leftIn'[e]]
        BY <2>1 DEF LeftAfter
      <4> QED BY <3>2, <3>3, <4>1
    <3>5. news \in Feed!Departures
      <4>1. DOMAIN leftIn' \ DOMAIN Departed \in SUBSET (SmallIds \ DOMAIN Departed)
        BY DEF IInv, TypeOK
      <4>2. ASSUME NEW e \in DOMAIN leftIn' \ DOMAIN Departed
            PROVE  leftIn'[e] \in (lastSnapshot.tick + 1)..t
        <5>1. leftIn'[e] \in Nat /\ leftIn'[e] <= t
          BY <2>1 DEF IInv, TypeOK, DepartureInv, TickOfWorld
        <5>2. CASE e \in DOMAIN leftIn
          <6>1. leftIn[e] > lastSnapshot.tick /\ leftIn'[e] = leftIn[e]
            BY <1>1, <2>1, <5>2 DEF Departed, LeftAfter
          <6> QED BY <1>1, <5>1, <6>1
        <5>3. CASE e \notin DOMAIN leftIn
          <6>1. leftIn'[e] = t
            BY <2>1, <5>3 DEF LeftAfter
          <6> QED BY <1>1, <6>1
        <5> QED BY <5>2, <5>3
      <4>3. news \in [DOMAIN leftIn' \ DOMAIN Departed -> (lastSnapshot.tick + 1)..t]
        BY <4>2
      <4> HIDE DEF news
      <4> QED BY <4>1, <4>3 DEF Feed!Departures, Departed
    <3>6. Feed!Show(shown, lastSnapshot'.gone)
      <4>1. shown \cap DOMAIN Departed' = {}
        BY <3>2 DEF IInv, NetIdsAreNotReused, Small
      <4>2. lastSnapshot.ships \cup lastSnapshot.projectiles \subseteq shown \cup DOMAIN Departed'
        BY <3>2, IdsStayGiven DEF DepartureInv, Small
      <4>3. \A e \in lastSnapshot'.gone : e \in DOMAIN Departed' /\ Departed'[e] = t
        BY <3>1, <3>2 DEF SnapshotInv
      <4>4. lastSnapshot'.elapsed = Frame * t /\ lastSnapshot'.ships \cup lastSnapshot'.projectiles = shown
        BY <2>1, <3>1 DEF SnapshotInv
      <4> HIDE DEF shown
      <4> QED BY <3>1, <4>1, <4>2, <4>3, <4>4 DEF Feed!Show, Feed!Snapshot, Departed
    <3>7. Feed!Publish
      <4>1. shown \in SUBSET SmallIds /\ lastSnapshot'.gone \in SUBSET SmallIds
        BY DEF IInv, TypeOK, SmallIds, SnapshotType
      <4>2. \E away \in Feed!Departures :
              Departed' = [e \in DOMAIN Departed \cup DOMAIN away |->
                             IF e \in DOMAIN away THEN away[e] ELSE Departed[e]]
        <5> HIDE DEF news
        <5> QED BY <3>4, <3>5
      <4>3. \E seen \in SUBSET SmallIds, gone \in SUBSET SmallIds : Feed!Show(seen, gone)
        <5> HIDE DEF shown
        <5> QED BY <3>6, <4>1 DEF Feed!Show
      <4>4. Feed!Due(tickCount + 1)
        BY <2>3 DEF Feed!Due
      <4> QED BY <2>1, <4>2, <4>3, <4>4, Zenon DEF Feed!Publish, Departed
    <3> QED BY <3>7 DEF Feed!Next
  <2> QED BY <2>2, <2>3
<1> QED BY <1>3, <1>4
\* The server implements the feed, for any interval, any frame length and any number
\* of ships, projectiles and ticks: a client may rely on what SnapshotFeed says
\* without knowing anything else of the server.
THEOREM ServerImplementsFeed == Spec => ImplementsFeed
<1>1. Spec => []DepartureInv
  <2>1. IInv /\ IInv' /\ DepartureInv /\ [Next]_vars => DepartureInv'
    BY DepartureStep
  <2> QED BY <2>1, DepartureInit, ServerInvariant, PTL DEF Spec
<1>2. /\ IInv /\ IInv' /\ SnapshotInv /\ SnapshotInv' /\ DepartureInv /\ DepartureInv'
      /\ [Next]_vars
      => [Feed!Next]_(Feed!vars)
  BY FeedStep
<1>3. Spec => Feed!Spec
  BY <1>1, <1>2, FeedInit, ServerInvariant, ServerSnapshots, PTL DEF Spec, Feed!Spec
<1> QED BY <1>3 DEF ImplementsFeed

=============================================================================
