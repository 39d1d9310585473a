------------------------- MODULE SimulationServer -------------------------
(***************************************************************************)
(* SimulationServer: the authoritative world and its tick. Callers spawn   *)
(* ships and send controls between ticks; a tick runs the systems in a     *)
(* fixed order, once on the fixed path and, for the integration, once per  *)
(* substep on the adaptive one.                                            *)
(*                                                                         *)
(* Time is counted in units of which a tick has Frame. What a position, a  *)
(* body or a force belongs to is the time it was computed for; that is all *)
(* of the geometry that is kept. Which entities a collision pass destroys  *)
(* is left open: CollisionResolution says how it chooses them. How many    *)
(* substeps a tick takes is left open too: TimestepController says.        *)
(*                                                                         *)
(* A vector of entities is the function from their NetIds to records; the  *)
(* position of a ship in its vector is its slot.                           *)
(***************************************************************************)
EXTENDS Integers, FiniteSets

CONSTANTS
  Frame,             \* config.fixedDeltaSeconds
  SubstepCounts,     \* the counts a substep plan may have
  Ttl,               \* config.projectileDefaultTtlSeconds
  SnapshotInterval,  \* config.snapshotIntervalTicks
  FirstShip,         \* kFirstShipNetId
  FirstProjectile,   \* kFirstProjectileNetId
  MaxShips,          \* bound: ships spawned in a session
  MaxShots,          \* bound: projectiles spawned in a session
  MaxTicks           \* bound: ticks run

ASSUME FrameAssumption ==
  /\ Frame \in Nat \ {0}
  /\ SubstepCounts \subseteq Nat \ {0}
  /\ \A n \in SubstepCounts : n * (Frame \div n) = Frame
ASSUME ConfigAssumption == Ttl \in Nat /\ SnapshotInterval \in Nat
ASSUME BoundsAssumption == MaxShips \in Nat /\ MaxShots \in Nat /\ MaxTicks \in Nat

\* The two counters do not meet: no session spawns FirstProjectile - FirstShip ships.
ASSUME IdsAssumption ==
  /\ FirstShip \in Nat
  /\ FirstProjectile \in Nat
  /\ FirstShip + MaxShips <= FirstProjectile

ShipIds       == FirstShip..(FirstShip + MaxShips - 1)
ProjectileIds == FirstProjectile..(FirstProjectile + MaxShots - 1)
SmallIds      == ShipIds \cup ProjectileIds

VARIABLES
  mode,                \* config.useAdaptiveTimestep
  pc,                  \* where in a tick the server is, "ready" between ticks
  left,                \* substeps still to run
  step,                \* plan.dt
  elapsed,             \* elapsedSeconds
  bodyTime,            \* the time the massive bodies' positions belong to
  ships,               \* world.ships
  projectiles,         \* world.projectiles
  shipIndex,           \* shipIndex
  nextShipNetId,
  nextProjectileNetId,
  tickCount,
  collisionEvents,     \* the entities world.collisionEvents reports despawned
  lastSnapshot,
  leftIn,              \* history: the tick each former entity left the world in
  asked                \* history: the ships last told to fire, since the last tick began

shipVars == <<ships, shipIndex, nextShipNetId>>
planVars == <<left, step>>
vars == <<mode, pc, left, step, elapsed, bodyTime, ships, projectiles, shipIndex,
          nextShipNetId, nextProjectileNetId, tickCount, collisionEvents,
          lastSnapshot, leftIn, asked>>

\* An entity's position belongs to time at; its acceleration was computed from a
\* position of time from, with the bodies where they are at time bodies.
Motion(at, from, bodies) == [at |-> at, from |-> from, bodies |-> bodies]

\* f with x mapped to y, whether or not it was before, and f without the xs.
With(f, x, y) == [z \in DOMAIN f \cup {x} |-> IF z = x THEN y ELSE f[z]]
Without(f, xs) == [z \in DOMAIN f \ xs |-> f[z]]

Small == DOMAIN ships \cup DOMAIN projectiles

Init ==
  /\ mode \in {"fixed", "adaptive"}
  /\ pc = "ready"
  /\ left = 0
  /\ step = 0
  /\ elapsed = 0
  /\ bodyTime = 0
  /\ ships = << >>
  /\ projectiles = << >>
  /\ shipIndex = << >>
  /\ nextShipNetId = FirstShip
  /\ nextProjectileNetId = FirstProjectile
  /\ tickCount = 0
  /\ collisionEvents = {}
  /\ lastSnapshot = [tick |-> 0, elapsed |-> 0, ships |-> {}, projectiles |-> {}, gone |-> {}]
  /\ leftIn = << >>
  /\ asked = {}

-----------------------------------------------------------------------------
\* Mutant of SpawnShip: the index entry is the vector's size after push_back.
SpawnShipBug ==
  /\ pc = "ready"
  /\ nextShipNetId < FirstShip + MaxShips
  /\ LET slot == Cardinality(DOMAIN ships)
     IN  /\ ships' = With(ships, nextShipNetId,
                          [slot |-> slot, fire |-> FALSE,
                           motion |-> Motion(elapsed, elapsed, bodyTime)])
         /\ shipIndex' = With(shipIndex, nextShipNetId, slot + 1)
  /\ nextShipNetId' = nextShipNetId + 1
  /\ UNCHANGED <<mode, pc, planVars, elapsed, bodyTime, projectiles,
                 nextProjectileNetId, tickCount, collisionEvents, lastSnapshot, leftIn,
                 asked>>

\* push_back, and the index entry of the new last element. The ship has the pull of
\* the bodies: a request with an initialAcceleration of its own is left out.
SpawnShip ==
  /\ pc = "ready"
  /\ nextShipNetId < FirstShip + MaxShips
  /\ LET slot == Cardinality(DOMAIN ships)
     IN  /\ ships' = With(ships, nextShipNetId,
                          [slot |-> slot, fire |-> FALSE,
                           motion |-> Motion(elapsed, elapsed, bodyTime)])
         /\ shipIndex' = With(shipIndex, nextShipNetId, slot)
  /\ nextShipNetId' = nextShipNetId + 1
  /\ UNCHANGED <<mode, pc, planVars, elapsed, bodyTime, projectiles,
                 nextProjectileNetId, tickCount, collisionEvents, lastSnapshot, leftIn,
                 asked>>

Firing == {s \in DOMAIN ships : ships[s].fire}

\* The ship the index leads to, if it has the NetId.
FindShip(netId) ==
  {s \in DOMAIN ships : netId \in DOMAIN shipIndex /\ ships[s].slot = shipIndex[netId]}

\* Mutant of UpdateShipControl: a trigger once pulled stays pulled.
UpdateShipControlBug(netId, fire) ==
  /\ pc = "ready"
  /\ fire => nextProjectileNetId + Cardinality(Firing \cup {netId})
               <= FirstProjectile + MaxShots
  /\ ships' = [s \in DOMAIN ships |->
                 IF s \in FindShip(netId)
                 THEN [ships[s] EXCEPT !.fire = ships[s].fire \/ fire]
                 ELSE ships[s]]
  /\ asked' = DOMAIN ships \cap IF fire THEN asked \cup {netId} ELSE asked \ {netId}
  /\ UNCHANGED <<mode, pc, planVars, elapsed, bodyTime, projectiles, shipIndex,
                 nextShipNetId, nextProjectileNetId, tickCount, collisionEvents,
                 lastSnapshot, leftIn>>

\* The control replaces that of the ship it finds; if there is none, it is dropped.
\* A trigger is pulled within MaxShots only.
UpdateShipControl(netId, fire) ==
  /\ pc = "ready"
  /\ fire => nextProjectileNetId + Cardinality(Firing \cup {netId})
               <= FirstProjectile + MaxShots
  /\ ships' = [s \in DOMAIN ships |->
                 IF s \in FindShip(netId) THEN [ships[s] EXCEPT !.fire = fire]
                 ELSE ships[s]]
  /\ asked' = DOMAIN ships \cap IF fire THEN asked \cup {netId} ELSE asked \ {netId}
  /\ UNCHANGED <<mode, pc, planVars, elapsed, bodyTime, projectiles, shipIndex,
                 nextShipNetId, nextProjectileNetId, tickCount, collisionEvents,
                 lastSnapshot, leftIn>>

\* Mutant of ShotId: every shot of a tick takes the counter's value.
ShotIdBug(s) == nextProjectileNetId

\* The ships that fire do so in vector order, and get the next NetIds in turn.
ShotId(s) ==
  nextProjectileNetId + Cardinality({r \in Firing : ships[r].slot < ships[s].slot})

\* A projectile starts where its ship is, with the pull of the bodies where they
\* are. born is history: the ticks there were.
ShotOf(s, bodies) ==
  [owner  |-> s,
   ttl    |-> Ttl,
   born   |-> tickCount,
   motion |-> Motion(ships[s].motion.at, ships[s].motion.at, bodies)]

\* Mutants of SpawnAndControl: the counter advances by one however many fire; the
\* last tick's collision events are kept.
SpawnAndControlBugCounter(bodies) ==
  /\ projectiles' =
       [p \in DOMAIN projectiles \cup {ShotId(s) : s \in Firing} |->
          IF p \in DOMAIN projectiles
          THEN projectiles[p]
          ELSE ShotOf(CHOOSE s \in Firing : ShotId(s) = p, bodies)]
  /\ nextProjectileNetId' = nextProjectileNetId + IF Firing = {} THEN 0 ELSE 1
  /\ ships' = [s \in DOMAIN ships |-> [ships[s] EXCEPT !.fire = FALSE]]
  /\ collisionEvents' = {}

SpawnAndControlBugEvents(bodies) ==
  /\ projectiles' =
       [p \in DOMAIN projectiles \cup {ShotId(s) : s \in Firing} |->
          IF p \in DOMAIN projectiles
          THEN projectiles[p]
          ELSE ShotOf(CHOOSE s \in Firing : ShotId(s) = p, bodies)]
  /\ nextProjectileNetId' = nextProjectileNetId + Cardinality(Firing)
  /\ ships' = [s \in DOMAIN ships |-> [ships[s] EXCEPT !.fire = FALSE]]
  /\ UNCHANGED collisionEvents

\* SpawningSystem::update, then ShipControlSystem::update, which sets headings
\* and thrusts, then the clearing of the last tick's collision events.
SpawnAndControl(bodies) ==
  /\ projectiles' =
       [p \in DOMAIN projectiles \cup {ShotId(s) : s \in Firing} |->
          IF p \in DOMAIN projectiles
          THEN projectiles[p]
          ELSE ShotOf(CHOOSE s \in Firing : ShotId(s) = p, bodies)]
  /\ nextProjectileNetId' = nextProjectileNetId + Cardinality(Firing)
  /\ ships' = [s \in DOMAIN ships |-> [ships[s] EXCEPT !.fire = FALSE]]
  /\ collisionEvents' = {}

\* The fixed path: the clock and the bodies first, then one interval.
BeginFixedTick ==
  /\ pc = "ready"
  /\ tickCount < MaxTicks
  /\ mode = "fixed"
  /\ elapsed' = elapsed + Frame
  /\ bodyTime' = elapsed + Frame
  /\ left' = 1
  /\ step' = Frame
  /\ SpawnAndControl(elapsed + Frame)
  /\ asked' = {}
  /\ pc' = "collide"
  /\ UNCHANGED <<mode, shipIndex, nextShipNetId, tickCount, lastSnapshot, leftIn>>

\* The adaptive path: bodies where they are now, then a plan of n substeps.
BeginAdaptiveTick(n) ==
  /\ pc = "ready"
  /\ tickCount < MaxTicks
  /\ mode = "adaptive"
  /\ bodyTime' = elapsed
  /\ left' = n
  /\ step' = Frame \div n
  /\ SpawnAndControl(elapsed)
  /\ asked' = {}
  /\ pc' = "substep"
  /\ UNCHANGED <<mode, elapsed, shipIndex, nextShipNetId, tickCount, lastSnapshot, leftIn>>

\* Mutant of BeginSubstep: the bodies are moved before the clock.
BeginSubstepBug ==
  /\ pc = "substep"
  /\ elapsed' = elapsed + step
  /\ bodyTime' = elapsed
  /\ pc' = "collide"
  /\ UNCHANGED <<mode, planVars, ships, projectiles, shipIndex, nextShipNetId,
                 nextProjectileNetId, tickCount, collisionEvents, lastSnapshot, leftIn,
                 asked>>

BeginSubstep ==
  /\ pc = "substep"
  /\ elapsed' = elapsed + step
  /\ bodyTime' = elapsed + step
  /\ pc' = "collide"
  /\ UNCHANGED <<mode, planVars, ships, projectiles, shipIndex, nextShipNetId,
                 nextProjectileNetId, tickCount, collisionEvents, lastSnapshot, leftIn,
                 asked>>

\* erase_if closes the gaps: a survivor's slot counts the survivors before it.
SlotAfter(s, dead) ==
  Cardinality({r \in DOMAIN ships \ dead : ships[r].slot < ships[s].slot})

\* Mutant of DetectAndResolve: the dead are taken out of the index, which is not
\* rebuilt.
DetectAndResolveBugIndex(dead) ==
  /\ pc = "collide"
  /\ ships' = [s \in DOMAIN ships \ dead |-> [ships[s] EXCEPT !.slot = SlotAfter(s, dead)]]
  /\ projectiles' = Without(projectiles, dead)
  /\ collisionEvents' = collisionEvents \cup dead
  /\ shipIndex' = Without(shipIndex, dead)
  /\ leftIn' = [e \in DOMAIN leftIn \cup dead |->
                  IF e \in dead THEN tickCount + 1 ELSE leftIn[e]]
  /\ pc' = "integrate"
  /\ UNCHANGED <<mode, planVars, elapsed, bodyTime, nextShipNetId, nextProjectileNetId,
                 tickCount, lastSnapshot, asked>>

\* CollisionSystem::detectAndResolve, then the index is rebuilt.
DetectAndResolve(dead) ==
  /\ pc = "collide"
  /\ ships' = [s \in DOMAIN ships \ dead |-> [ships[s] EXCEPT !.slot = SlotAfter(s, dead)]]
  /\ projectiles' = Without(projectiles, dead)
  /\ collisionEvents' = collisionEvents \cup dead
  /\ shipIndex' = [s \in DOMAIN ships' |-> ships'[s].slot]
  /\ leftIn' = [e \in DOMAIN leftIn \cup dead |->
                  IF e \in dead THEN tickCount + 1 ELSE leftIn[e]]
  /\ pc' = "integrate"
  /\ UNCHANGED <<mode, planVars, elapsed, bodyTime, nextShipNetId, nextProjectileNetId,
                 tickCount, lastSnapshot, asked>>

\* An entity moved by the step, then pulled from where it has come to.
Moved(m) == Motion(m.at + step, m.at + step, bodyTime)

\* integratePositions, GravitySystem::update, integrateVelocities.
Integrate ==
  /\ pc = "integrate"
  /\ ships' = [s \in DOMAIN ships |-> [ships[s] EXCEPT !.motion = Moved(ships[s].motion)]]
  /\ projectiles' = [p \in DOMAIN projectiles |->
                       [projectiles[p] EXCEPT !.motion = Moved(projectiles[p].motion)]]
  /\ left' = left - 1
  /\ pc' = IF left = 1 THEN "finish" ELSE "substep"
  /\ UNCHANGED <<mode, step, elapsed, bodyTime, shipIndex, nextShipNetId,
                 nextProjectileNetId, tickCount, collisionEvents, lastSnapshot, leftIn,
                 asked>>

\* Mutant of Expired: a projectile with nothing left lives another tick.
ExpiredBug == {p \in DOMAIN projectiles : projectiles[p].ttl - Frame < 0}

Expired == {p \in DOMAIN projectiles : projectiles[p].ttl - Frame <= 0}

\* Mutant of BuildSnapshot: it is taken before the expiry.
BuildSnapshotBug(projs, tick) ==
  [tick |-> tick, elapsed |-> elapsed, ships |-> DOMAIN ships,
   projectiles |-> DOMAIN projectiles, gone |-> collisionEvents]

\* WorldSnapshot of the world as the tick leaves it.
BuildSnapshot(projs, tick) ==
  [tick |-> tick, elapsed |-> elapsed, ships |-> DOMAIN ships,
   projectiles |-> projs, gone |-> collisionEvents]

\* Mutant of FinishTick: the time to live goes down by a substep.
FinishTickBug ==
  /\ pc = "finish"
  /\ projectiles' = [p \in DOMAIN projectiles \ Expired |->
                       [projectiles[p] EXCEPT !.ttl = projectiles[p].ttl - step]]
  /\ leftIn' = [e \in DOMAIN leftIn \cup Expired |->
                  IF e \in Expired THEN tickCount + 1 ELSE leftIn[e]]
  /\ tickCount' = tickCount + 1
  /\ lastSnapshot' = IF SnapshotInterval > 0 /\ (tickCount + 1) % SnapshotInterval = 0
                     THEN BuildSnapshot(DOMAIN projectiles \ Expired, tickCount + 1)
                     ELSE lastSnapshot
  /\ pc' = "ready"
  /\ UNCHANGED <<mode, planVars, elapsed, bodyTime, shipVars, nextProjectileNetId,
                 collisionEvents, asked>>

\* decrementTtl, the expiry, the tick count and, every so many ticks, a snapshot.
FinishTick ==
  /\ pc = "finish"
  /\ projectiles' = [p \in DOMAIN projectiles \ Expired |->
                       [projectiles[p] EXCEPT !.ttl = projectiles[p].ttl - Frame]]
  /\ leftIn' = [e \in DOMAIN leftIn \cup Expired |->
                  IF e \in Expired THEN tickCount + 1 ELSE leftIn[e]]
  /\ tickCount' = tickCount + 1
  /\ lastSnapshot' = IF SnapshotInterval > 0 /\ (tickCount + 1) % SnapshotInterval = 0
                     THEN BuildSnapshot(DOMAIN projectiles \ Expired, tickCount + 1)
                     ELSE lastSnapshot
  /\ pc' = "ready"
  /\ UNCHANGED <<mode, planVars, elapsed, bodyTime, shipVars, nextProjectileNetId,
                 collisionEvents, asked>>

\* Everything of a tick once it has begun.
TickStep ==
  \/ BeginSubstep
  \/ \E dead \in SUBSET Small : DetectAndResolve(dead)
  \/ Integrate
  \/ FinishTick

Next ==
  \/ SpawnShip
  \/ \E netId \in ShipIds, fire \in BOOLEAN : UpdateShipControl(netId, fire)
  \/ BeginFixedTick
  \/ \E n \in SubstepCounts : BeginAdaptiveTick(n)
  \/ TickStep

Spec == Init /\ [][Next]_vars

-----------------------------------------------------------------------------
Time == Int

MotionType == [at : Time, from : Time, bodies : Time]

ShipType == [slot : Nat, fire : BOOLEAN, motion : MotionType]

ProjectileType == [owner : ShipIds, ttl : Int, born : Nat, motion : MotionType]

SnapshotType ==
  [tick : Nat, elapsed : Time, ships : SUBSET ShipIds,
   projectiles : SUBSET ProjectileIds, gone : SUBSET SmallIds]

TypeOK ==
  /\ mode \in {"fixed", "adaptive"}
  /\ pc \in {"ready", "substep", "collide", "integrate", "finish"}
  /\ left \in Nat
  /\ step \in Nat
  /\ elapsed \in Nat
  /\ bodyTime \in Nat
  /\ DOMAIN ships \subseteq ShipIds
  /\ ships \in [DOMAIN ships -> ShipType]
  /\ DOMAIN projectiles \subseteq ProjectileIds
  /\ projectiles \in [DOMAIN projectiles -> ProjectileType]
  /\ nextShipNetId \in FirstShip..(FirstShip + MaxShips)
  /\ nextProjectileNetId \in FirstProjectile..(FirstProjectile + MaxShots)
  /\ tickCount \in 0..MaxTicks
  /\ collisionEvents \in SUBSET SmallIds
  /\ lastSnapshot \in SnapshotType
  /\ DOMAIN leftIn \subseteq SmallIds
  /\ leftIn \in [DOMAIN leftIn -> Nat]
  /\ asked \in SUBSET ShipIds

\* The slots of the ships are the positions of a vector: distinct, without gaps.
SlotsAreAVector ==
  /\ \A s \in DOMAIN ships : ships[s].slot < Cardinality(DOMAIN ships)
  /\ \A r, s \in DOMAIN ships : ships[r].slot = ships[s].slot => r = s

\* The index is exact whenever anybody can read it: it has every ship of the
\* world, at its place, and no other, although ships spawn and are destroyed in
\* the middle of the vector.
IndexIsExact == shipIndex = [s \in DOMAIN ships |-> ships[s].slot]

\* A control reaches the ship it names, if that is still there, and no other ship.
ControlReachesItsShip ==
  [][\A netId \in ShipIds, fire \in BOOLEAN :
       UpdateShipControl(netId, fire) =>
         /\ netId \in DOMAIN ships => ships'[netId].fire = fire
         /\ \A s \in DOMAIN ships \ {netId} : ships'[s] = ships[s]]_vars

\* NetIds are never reused: what is in the world never left it before, and a
\* NetId not yet given out has never been in it.
NetIdsAreNotReused ==
  /\ Small \cap DOMAIN leftIn = {}
  /\ Small \cup DOMAIN leftIn =
       (FirstShip..(nextShipNetId - 1)) \cup (FirstProjectile..(nextProjectileNetId - 1))

\* A ship fires in a tick, once, if the last control sent to it since the tick before
\* began pulls the trigger, and not otherwise: neither a shot answered already nor a
\* trigger released again gives one, whatever was spawned, hit or fired meanwhile.
ShotsAnswerTriggers ==
  pc = "ready" /\ pc' # "ready" =>
    \A s \in DOMAIN ships :
      Cardinality({p \in DOMAIN projectiles' \ DOMAIN projectiles :
                     projectiles'[p].owner = s})
        = IF s \in asked THEN 1 ELSE 0

EachTriggerGivesOneShot == [][ShotsAnswerTriggers]_vars

\* Between ticks clock, bodies, positions and forces all belong to one time, the
\* one the count of ticks says: substeps cover a tick exactly, and the forces an
\* entity carries into the next interval are those of where it is.
AllBelongsToOneTime ==
  pc = "ready" =>
    /\ elapsed = Frame * tickCount
    /\ bodyTime = elapsed
    /\ \A s \in DOMAIN ships : ships[s].motion = Motion(elapsed, elapsed, elapsed)
    /\ \A p \in DOMAIN projectiles :
         projectiles[p].motion = Motion(elapsed, elapsed, elapsed)

\* A projectile is in the world for its Ttl and no tick longer, however many
\* substeps its ticks have: it leaves by a hit or by age.
ShotsLiveTheirTtl ==
  /\ [][\A p \in DOMAIN projectiles \ DOMAIN projectiles' :
          \/ p \in collisionEvents'
          \/ Frame * (tickCount' - projectiles[p].born) >= Ttl]_vars
  /\ [](pc = "ready" => \A p \in DOMAIN projectiles :
                           Frame * (tickCount - projectiles[p].born) < Ttl)

\* A snapshot is of the last tick that is due one. It shows no entity that had
\* left by then, and the despawns it reports are those of its own tick.
SnapshotsAreTimely ==
  pc = "ready" =>
    /\ SnapshotInterval > 0 =>
         lastSnapshot.tick = SnapshotInterval * (tickCount \div SnapshotInterval)
    /\ lastSnapshot.elapsed = Frame * lastSnapshot.tick
    /\ \A e \in lastSnapshot.ships \cup lastSnapshot.projectiles :
         e \in DOMAIN leftIn => leftIn[e] > lastSnapshot.tick
    /\ \A e \in lastSnapshot.gone :
         e \in DOMAIN leftIn /\ leftIn[e] = lastSnapshot.tick

\* The server as whoever follows its snapshots sees it. The departures of a tick
\* under way are not known before its snapshot.
Feed == INSTANCE SnapshotFeed WITH
          Dt       <- Frame,
          Interval <- SnapshotInterval,
          Entities <- SmallIds,
          latest   <- [tick    |-> lastSnapshot.tick,
                       elapsed |-> lastSnapshot.elapsed,
                       shown   |-> lastSnapshot.ships \cup lastSnapshot.projectiles,
                       gone    |-> lastSnapshot.gone],
          departed <- [e \in {x \in DOMAIN leftIn : leftIn[x] <= lastSnapshot.tick} |-> leftIn[e]]

\* The snapshots are the feed a client is promised: whatever spawns, collides and
\* expires within and between the ticks of an interval, none is late or early, none
\* shows again what a snapshot has stopped showing, and the despawns each reports
\* are those of its own tick.
ImplementsFeed == Feed!Spec

\* The comment on the clock: it is advanced first so that all systems operate at
\* the same time. A collision pass would sweep bodies and entities from where
\* they are at one time.
SweepStartsAtOneTime ==
  pc = "collide" =>
    /\ \A s \in DOMAIN ships : ships[s].motion.at = bodyTime
    /\ \A p \in DOMAIN projectiles : projectiles[p].motion.at = bodyTime

\* Where clock, bodies and entities are in each part of a tick.
OnSchedule ==
  /\ pc = "ready" => elapsed = Frame * tickCount
  /\ pc = "substep" => left > 0 /\ elapsed + left * step = Frame * (tickCount + 1)
  /\ pc \in {"collide", "integrate"} =>
       left > 0 /\ elapsed + (left - 1) * step = Frame * (tickCount + 1)
  /\ pc = "finish" => elapsed = Frame * (tickCount + 1)
  /\ pc # "substep" => bodyTime = elapsed
  /\ pc # "ready" => tickCount < MaxTicks

MotionOnSchedule(m) ==
  /\ pc \in {"ready", "finish"} => m = Motion(elapsed, elapsed, elapsed)
  /\ pc = "substep" => m.at = elapsed
  /\ pc \in {"collide", "integrate"} => m.at = elapsed - step

EntitiesOnSchedule ==
  /\ \A s \in DOMAIN ships : MotionOnSchedule(ships[s].motion)
  /\ \A p \in DOMAIN projectiles : MotionOnSchedule(projectiles[p].motion)

\* What is left of a projectile's Ttl is what its age leaves.
AgesAreRight ==
  \A p \in DOMAIN projectiles :
    /\ projectiles[p].born <= tickCount
    /\ projectiles[p].ttl = Ttl - Frame * (tickCount - projectiles[p].born)
    /\ pc = "ready" => projectiles[p].ttl > 0

\* The triggers pulled are those asked for, within the bound of this model, and a
\* tick that has begun has answered them.
TriggersAreAsked ==
  /\ asked = Firing
  /\ pc = "ready" => nextProjectileNetId + Cardinality(Firing) <= FirstProjectile + MaxShots
  /\ pc # "ready" => Firing = {}

\* The inductive invariant of the server.
IInv ==
  /\ TypeOK
  /\ SlotsAreAVector
  /\ IndexIsExact
  /\ TriggersAreAsked
  /\ NetIdsAreNotReused
  /\ OnSchedule
  /\ EntitiesOnSchedule
  /\ AgesAreRight
=============================================================================
