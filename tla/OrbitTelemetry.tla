--------------------------- MODULE OrbitTelemetry ---------------------------
(***************************************************************************)
(* What a tick keeps about a ship's orbit: ReferenceBodySelector says      *)
(* which massive body the orbit is around, and OrbitCacheSystem decides    *)
(* when to fit the orbit again, which is costly, instead of keeping the    *)
(* one fitted before. The ships' telemetries are independent of each       *)
(* other; this is the telemetry of one ship. The bodies move first in a    *)
(* tick, as MassiveBodyMotion says.                                        *)
(*                                                                         *)
(* The pull of a body on the ship is an input: scores are natural numbers  *)
(* in place of fractions of the total pull, of which only ratios matter.   *)
(* So is where the ship is, and how it moves, relative to the body.        *)
(***************************************************************************)
EXTENDS Integers, Sequences, FiniteSets, OrbitFitting

CONSTANTS
  Bodies, CentreOf, BootVelocity,   \* see MassiveBodyMotion
  MaxBodies,        \* kMaxBodies, the bodies that are scored
  Scores,           \* the pulls there may be
  Mu,               \* muMetersCubedPerSecondSquared of each body
  Relatives,        \* the positions and velocities relative to the body
  MarginPercent,    \* referenceBodyHysteresisDelta, in hundredths
  FixedDt,          \* fixedDeltaSeconds
  DwellTime,        \* referenceBodyDwellTimeSeconds
  RefreshActive,    \* kActiveShipRefreshIntervalTicks
  RefreshInactive,  \* kInactiveShipRefreshIntervalTicks
  MaxTicks          \* bound: ticks run

VARIABLES
  position, velocity,   \* of the bodies
  tickCount,
  active,        \* whether the ship's throttle is open
  current,       \* currentBodyId_
  dwell,         \* dwellAccumulator_
  initialized,   \* initialized_
  cache,         \* orbitCache
  past           \* history of the telemetry, see Remember

bodyVars == <<position, velocity>>
vars == <<position, velocity, tickCount, active, current, dwell, initialized, cache, past>>

Motion == INSTANCE MassiveBodyMotion

\* The bodies the selector looks at: the first ones of the vector.
Scored == {Bodies[i] : i \in 1..(IF Len(Bodies) < MaxBodies THEN Len(Bodies) ELSE MaxBodies)}

\* The bodies are distinct, and the bootstrap's velocities are made of their circles.
\* The code asserts that a centre comes before what orbits it.
ASSUME BodiesAssumption ==
  /\ BootVelocity \in [Motion!BodyIds -> SUBSET Motion!BodyIds]
  /\ \A i, j \in 1..Len(Bodies) : Bodies[i] = Bodies[j] => i = j
  /\ Motion!Orbiting \subseteq Motion!BodyIds
  /\ Motion!CentresFirst

ASSUME ScoreAssumption ==
  /\ Bodies \in Seq(Motion!BodyIds)
  /\ Bodies # << >>
  /\ MaxBodies \in Nat \ {0}
  /\ Scores \subseteq Nat
  /\ MarginPercent \in Nat
ASSUME FitAssumption ==
  /\ Mu \in [Motion!BodyIds -> Nat \ {0}]
  /\ \A rel \in Relatives :
       /\ \A a \in {rel.position, rel.velocity} :
            a.x \in Int /\ a.y \in Int /\ a.z \in Int /\ a = Vector(a.x, a.y, a.z)
       /\ \E d \in 1..Dot(rel.position, rel.position) :
            d * d = Dot(rel.position, rel.position)
ASSUME TickAssumption ==
  /\ FixedDt \in Nat \ {0}
  /\ DwellTime \in Nat
  /\ RefreshActive \in Nat \ {0}
  /\ RefreshInactive \in Nat \ {0}
  /\ RefreshActive <= RefreshInactive
  /\ MaxTicks \in Nat

Init ==
  /\ Motion!Init
  /\ tickCount = 0
  /\ active \in BOOLEAN
  /\ current = Bodies[1]        \* a default NetId, not read before it is set
  /\ dwell = 0
  /\ initialized = FALSE
  /\ cache = [referenceBodyId |-> Bodies[1], epoch |-> 0, validUntilTick |-> 0,
              dirty |-> FALSE, wasThrusting |-> FALSE,
              position |-> Zero, velocity |-> Zero, orbit |-> NoOrbit]
  /\ past = [led |-> 0, on |-> FALSE, thrust |-> 0]

-----------------------------------------------------------------------------
\* A control from the player opens or closes the throttle.
UpdateShipControl(on) ==
  /\ tickCount < MaxTicks
  /\ active' = on
  /\ UNCHANGED <<bodyVars, tickCount, current, dwell, initialized, cache, past>>

\* The strongest of a set of bodies; of equals, the first in the vector.
Strongest(bs, score) ==
  Bodies[CHOOSE i \in 1..Len(Bodies) :
           /\ Bodies[i] \in bs
           /\ \A j \in 1..Len(Bodies) :
                Bodies[j] \in bs =>
                  \/ score[Bodies[i]] > score[Bodies[j]]
                  \/ score[Bodies[i]] = score[Bodies[j]] /\ i <= j]

\* The bodies that pull more than the current one by the margin.
Challengers(score) ==
  {b \in Scored \ {current} : score[b] * 100 > score[current] * (100 + MarginPercent)}

\* Mutant of DwellAfter: a lost lead keeps the dwell time.
DwellAfterBug(led) == IF led THEN dwell + FixedDt ELSE dwell

\* The accumulator before it is compared: a lost lead starts it again.
DwellAfter(led) == IF led THEN dwell + FixedDt ELSE 0

\* Mutant of DwellIsOver: the time must be exceeded.
DwellIsOverBug(stays) == stays > DwellTime

DwellIsOver(stays) == stays >= DwellTime

\* ReferenceBodySelector::update, after its first call: a challenger is taken
\* after its kind has led for the dwell time.
Select(score, challengers) ==
  /\ initialized
  /\ LET stays == DwellAfter(challengers # {})
         switch == challengers # {} /\ DwellIsOver(stays)
     IN  /\ current' = IF switch THEN Strongest(Scored \ {current}, score) ELSE current
         /\ dwell' = IF switch THEN 0 ELSE stays
  /\ UNCHANGED initialized

\* Its first call takes the strongest body.
SelectFirst(score) ==
  /\ ~initialized
  /\ current' = Strongest(Scored, score)
  /\ dwell' = 0
  /\ initialized' = TRUE

\* Mutants of Invalidated: a change of the throttle goes unnoticed; a change of the
\* reference body does.
InvalidatedBugThrust == cache.dirty \/ current' # current \/ ~initialized

InvalidatedBugBody == cache.dirty \/ cache.wasThrusting # active

\* The throttle was opened or closed, or the selection has changed.
Invalidated ==
  \/ cache.dirty
  \/ cache.wasThrusting # active
  \/ current' # current
  \/ ~initialized

\* Mutant of UpdateCache: the two ticks of the cache entry are swapped.
UpdateCacheBug(tick, rel) ==
  cache' =
    IF Invalidated \/ tick >= cache.validUntilTick \/ cache.epoch = 0
    THEN [referenceBodyId |-> current',
          epoch           |-> tick + IF active THEN RefreshActive ELSE RefreshInactive,
          validUntilTick  |-> tick,
          dirty           |-> FALSE,
          wasThrusting    |-> active,
          position        |-> rel.position,
          velocity        |-> rel.velocity,
          orbit           |-> FitOrbit(rel.position, rel.velocity, Mu[current'])]
    ELSE cache

\* OrbitCacheSystem::update at a tick: the orbit is fitted again if it is invalid,
\* has expired or has never been fitted.
UpdateCache(tick, rel) ==
  cache' =
    IF Invalidated \/ tick >= cache.validUntilTick \/ cache.epoch = 0
    THEN [referenceBodyId |-> current',
          epoch           |-> tick,
          validUntilTick  |-> tick + IF active THEN RefreshActive ELSE RefreshInactive,
          dirty           |-> FALSE,
          wasThrusting    |-> active,
          position        |-> rel.position,
          velocity        |-> rel.velocity,
          orbit           |-> FitOrbit(rel.position, rel.velocity, Mu[current'])]
    ELSE cache

\* What is remembered: for how many ticks on end the reference body has had a
\* challenger, whether the last tick found the throttle open, and the last tick
\* that found it open or just closed.
Remember(challengers, tick) ==
  past' = [led    |-> IF initialized /\ challengers # {} /\ current' = current
                      THEN past.led + 1 ELSE 0,
           on     |-> active,
           thrust |-> IF active \/ past.on THEN tick ELSE past.thrust]

\* A tick, as far as bodies and telemetry go, with the pulls it finds and where it
\* finds the ship.
Tick(score, rel) ==
  /\ tickCount < MaxTicks
  /\ tickCount' = tickCount + 1
  /\ Motion!Update(FixedDt * (tickCount + 1))
  /\ \/ SelectFirst(score)
     \/ Select(score, Challengers(score))
  /\ UpdateCache(tickCount + 1, rel)
  /\ Remember(Challengers(score), tickCount + 1)
  /\ UNCHANGED active

Next ==
  \/ \E on \in BOOLEAN : UpdateShipControl(on)
  \/ \E score \in [Scored -> Scores], rel \in Relatives : Tick(score, rel)

Spec == Init /\ [][Next]_vars

-----------------------------------------------------------------------------
CacheType ==
  [referenceBodyId : Motion!BodyIds, epoch : 0..MaxTicks,
   validUntilTick : Nat, dirty : BOOLEAN, wasThrusting : BOOLEAN,
   position : {Zero} \cup {rel.position : rel \in Relatives},
   velocity : {Zero} \cup {rel.velocity : rel \in Relatives},
   orbit : {NoOrbit} \cup
           {FitOrbit(rel.position, rel.velocity, Mu[b]) : rel \in Relatives, b \in Motion!BodyIds}]

TypeOK ==
  /\ DOMAIN position = Motion!BodyIds
  /\ \A b \in Motion!BodyIds : position[b] \in [Motion!Circles(b) -> Nat]
  /\ velocity \in [Motion!BodyIds -> SUBSET Motion!BodyIds]
  /\ tickCount \in 0..MaxTicks
  /\ active \in BOOLEAN
  /\ current \in Motion!BodyIds
  /\ dwell \in Nat
  /\ initialized \in BOOLEAN
  /\ cache \in CacheType
  /\ past \in [led : 0..MaxTicks, on : BOOLEAN, thrust : 0..MaxTicks]

\* The bodies a tick measures its pulls and orbits against are all where they
\* belong at its time, centres and their satellites alike.
BodiesAreOnTime == Motion!BodiesAreAt(FixedDt * tickCount)

\* The cached orbit lags behind a thrust that has bent it by less than the interval
\* of a thrusting ship, however the throttle is opened and closed between ticks;
\* and by less than that of a coasting one behind anything else, such as a collision.
OrbitIsUpToDate ==
  /\ cache.epoch + RefreshActive > past.thrust
  /\ tickCount > 0 => cache.epoch > 0 /\ tickCount - cache.epoch < RefreshInactive

\* The cached orbit is around the body that is selected, whenever it may be read,
\* although selecting a body and fitting an orbit are done at different rates. An
\* ellipse is given for the ships that neither fall straight nor escape from that
\* body, and it is the one the ship was on when it was fitted.
OrbitIsOfItsShip ==
  tickCount > 0 =>
    /\ ~cache.dirty /\ cache.referenceBodyId = current
    /\ cache.orbit.isElliptic <=> HasOrbit(cache.position, cache.velocity, Mu[current])
    /\ cache.orbit.isElliptic => IsOrbitOf(cache.orbit, cache.position, cache.velocity)

\* The comment on a body's velocity: it is the derivative of its position.
BodyVelocityIsDerivative == Motion!VelocityIsDerivative

\* A reference body is given up only after it has been led by the margin for the
\* whole dwell time on end, counted from the last switch at the earliest, so that
\* the selection cannot flap at a boundary.
SwitchIsEarned ==
  initialized /\ current' # current => (past.led + 1) * FixedDt >= DwellTime

SwitchesAreEarned == [][SwitchIsEarned]_vars

\* Nor is it kept any longer: no lead lasts for the dwell time without a switch.
LeadIsRewarded == past.led = 0 \/ past.led * FixedDt < DwellTime
=============================================================================
