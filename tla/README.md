# Verification of the spaceship simulator

TLA+ models of the simulation core under
`src/SpaceshipSimulator/Source/SpaceshipSimulator/` (below: `Sim/` for its `Sim`
directory), the TLC runs that check them, and TLAPS proofs about them. The
modules are translated from the source; where a comment of the source says
something else than the code does, a run shows it (see *Findings*).

    tlc -config SimulationServer.cfg MCSimulationServer    # a run, see the table
    tlapm ServerProofs.tla                                 # a proof module

## The system

A server advances an authoritative world at a fixed rate; a runner in the same
process turns frame times into server ticks and keeps the resulting snapshots in
a buffer; an engine subsystem shows the world a little in the past, interpolated
between two snapshots. Everything runs in the engine's game thread: there is no
preemption, no network and no persistence. What is hard is *order*: many systems
that share a world are called one after the other, each at the time of another's
result, and most state outlives the call that made it (indices, counters, caches,
accumulators, histories).

| Component (source) | State it keeps | Operations | What makes it correct |
|---|---|---|---|
| `SimulationServer` (`server/simulation/simulation_server.cpp`) | world, clock, tick count, ship index, last snapshot | `spawnShip`, `updateShipControl`, `tick` (fixed or adaptive path) | the index follows the vector; controls reach their ship; clock, bodies and forces belong to one time between ticks |
| `SpawningSystem` (`server/spawning`) | the two NetId counters | spawn a ship, spawn the projectiles of ships that fire | NetIds are never reused; one trigger, one shot |
| `CollisionSystem` (`server/collision`) | none between passes; a destroyed set, a write-back map and events within one | `detectAndResolve`, `decrementTtl`, `update` | nothing passes through anything and nothing is hit from afar; sorted resolution is deterministic; events and despawns agree; the destroyed hit nothing; survivors get a velocity of their own hits |
| `TimestepController`, heuristics (`server/simulation/timestep`) | per entity: ladder level, stable time, last acceleration | quantize, hysteresis, substep plan | substeps fine enough; refinement prompt; coarsening neither starved nor premature |
| `MassiveBodyMotionSystem` (`server/simulation/gravity`) | positions and velocities of bodies | one pass per interval | centres before satellites, all at one time |
| `ReferenceBodySelector`, `OrbitCacheSystem` (same) | per ship: reference body, dwell time, cached orbit | one update per tick | no flapping; never an orbit from before a thrust, around another body or other than the ship's |
| `SnapshotSystem` (`server/snapshot`) | none | build a snapshot | contents of one tick, events of that tick only |
| `ClientSnapshotBuffer` (`client`) | a ring of snapshots | `push`, `interpolate`, `latest` | the newest snapshots in time order; the right two around a render time |
| `SimulationRunner` (`client`) | accumulator, server, buffer | `advance`, `setTimeScaleFactor` | no time lost; every snapshot buffered |
| `USimulationSubsystem` (`Subsystems`) | runner, weak pointers to planet actors by NetId, render origin, zoom | `Initialize`, `Tick`, `Deinitialize` | something is shown at every frame, at a steady delay; one actor per body and all at one moment; the lost come back |
| sweeps (`server/collision`), orbit fitting (`server/simulation/gravity`), interpolation (`client`) | none | pure functions | complete and sound; an orbit of its ship; between the two ends |
| gravity, integration, trigonometry | none | pure functions | numerical; not modelled |

Calls go one way: subsystem -> runner -> server -> systems; snapshots come back
through the buffer. `PROJECT.json` lists the components with what is modelled of
each, and, under `hazards`, every place found where a fault would be hard to test
for, with the properties that would catch it.

## Modules

| Module | Models | How state and actions correspond |
|---|---|---|
| `SnapshotWindow` | what `client_snapshot_buffer.hpp` promises | a sequence `window` of the newest `Capacity` snapshots; `Push`, `Interpolate` |
| `SnapshotBuffer` | the ring that implements it | `ring`, `head`, `count`; one disjunct of `push` per branch; the binary search of `interpolate` one iteration per step (`SearchStep`), with `lo` and `hi` |
| `CollisionPass` | what a collision pass promises: one step after the hits are found, its outcome that of the one set of hits that take effect | `alive`, `hits`, `velocity` and what the passes done have `reported`; `TakesEffect`, `Outcome` |
| `SnapshotFeed` | what the server promises whoever follows its snapshots: one at each tick due and of that tick; who is no longer shown has left for good, and is reported for its own tick only | `tickCount`, `latest`, `departed`; `TickInBetween`, `SnapshotTick` |
| `CollisionDetection` | the first half of `detectAndResolve`: which pairs collide | `ReturnEarly`, `BroadPhase` with the boxes of the paths, `NarrowPhase` with the quadratic and its early returns; `candidates`, `hits` |
| `CollisionResolution` | the second half: what the hits do | `hits`, `pending`, `destroyed`, `vcmWriteBack`, `events`; `BeginPass` is the phases that find and sort hits, then one action per hit by kind of pair, then `ApplyAndErase` |
| `SimulationServer` | `SimulationServer` with the systems it calls | vectors are functions from NetId to a record that has the element's `slot`; `pc` walks through a tick; one action per system or per run of systems between which nothing can be observed |
| `SimulationRunner` | `SimulationRunner` and the frame that drives it | `accumulated`, one `RunTick` per turn of the loop of `advance`, then `EndAdvance`, then `Render`; the buffer is `SnapshotWindow`, instantiated |
| `SnapshotInterpolation` | `interpolateWorldState` and `fromSnapshot` | operators on the worlds of two snapshots |
| `SimulationSubsystem` | `USimulationSubsystem` on top of `SimulationRunner` and the two modules above | `placed` is the level, `planetActors` the map of weak pointers; `Present` is `Tick` after `advance`; `EngineDestroysActor` and a refused spawn are what the engine may do, `Deinitialize` the end |
| `TimestepController` | ladder, hysteresis, plan and the part of the adaptive tick around them | `control` is `timestepState`; `PlanTick` is the two loops over entities with the plan; `Substep` and `UpdateJerkHistory` the body of the substep loop |
| `MassiveBodyMotion` | the pass that moves the bodies | a position is the set of circles it is made of with the time of each |
| `OrbitFitting` | `fitOrbit` up to the true anomaly | operators on integer vectors; what the code divides by is kept as a factor (`orbit.unit`) |
| `OrbitTelemetry` | reference body and orbit cache of one ship | `Tick` is motion, selection and cache update in that order; extends `OrbitFitting`, instantiates `MassiveBodyMotion` |
| `*Proofs` | theorems about the module named | |
| `MC*` | instances for TLC | model values, inputs and bounds |

**What is abstracted.** Where two modules share a system, the one leaves open what
the other says: `CollisionResolution` takes any set of hits and energies,
`CollisionDetection` says which there are. Which pulls and which step lengths the
heuristics see are inputs, chosen freely at every step. A velocity after a pass is
*named* by the entities whose momenta it combines. In `SimulationServer` a
position, a force or a body is represented by the time it belongs to, which is
what a wrong order of calls would confuse. Doubles that are only added and compared are
integers in a unit that makes all values exact; rounding is therefore not in any
model. A root of a quadratic and a length are compared through their squares.
Definitions with `Bug` in their names are the definition below them with
one plausible mistake; each property is violated when one of them takes the place
of the original, so every property is known to be able to fail.

**History variables.** `passStart`, `leftIn`, `born`, `asked`, `past`, `requested` and `faults`
record what has happened so that a property can speak of it; no modelled variable
reads them, and guards read only `requested` and `faults`, which bound a run.

## Runs

| Run (cfg) | Bounds | Checks |
|---|---|---|
| `SnapshotBuffer` | ring of 4, times 0..6, 2 contents | the ring's invariant, times in order, every search ends, implements `SnapshotWindow` |
| `CollisionDetection` (86,460 states) | 1 ship, 1 projectile, 1 body, an interval of 4 units, 6 positions, 5 velocities | the boxes and the sweep against what is in contact at an instant |
| `CollisionResolution` | 2 ships, 2 projectiles, 1 body, 2 times of impact, up to 3 hits a pass, 2 passes | events, despawns, skips, velocities and the outcome of all sets of hits; implements `CollisionPass` |
| `SimulationServer` (316,340 states) | 3 ships, 2 shots, 4 ticks of 1 or 2 substeps, both paths | index, NetIds, controls, triggers, ages, times; implements `SnapshotFeed` |
| `SimulationSubsystem` (153,194 states) | tick of 3 units, frames of 0, 1, 2, 5, 7 at scale 0, 1 and 2, cap 3, up to 36 units asked for; 3 bodies, 2 actors of each, 2 faults, 2 altitudes | the runner's time accounting, cap and snapshots; the picture; the actors; the lost come back |
| `TimestepController` (73,459 states) | 2 entities, ladder of 3 levels | step lengths and hysteresis |
| `OrbitTelemetry` (4,682 states) | 4 bodies of which 3 are scored, 4 ways to move relative to a body, 8 ticks | bodies on time, cache, orbit and selection |
| `CollisionMomentum`, `ServerSweep`, `RunnerCustomDelta`, `TimestepJerk`, `MoonVelocity` | as small as shows it | one statement of the source each, which the code does not keep: see *Findings* |

Why the bounds are enough:

- *Buffer.* Four slots are the least with a search of two iterations in both
  directions; more times than slots let the ring turn and `head` come back to 0.
- *Detection.* Entities that cross within the interval and are apart at both ends,
  that touch at an end, that meet after it, that move alike, that start inside one
  another and that pass in parallel all occur, against another entity and a body.
  Instants are the integers of the interval; the theorems hold for a unit of time
  as fine as one likes.
- *Resolution.* Three hits let an entity be hit before, between and after two hits
  of others; two equal or different times of impact give every tie. One ship has
  a NetId above a projectile's, as the 9,902nd ship of a session would, so that the
  projectile is the A of the event. Two passes let the second work on what the first
  left. The second pass ends the run, which is why it may stop (`MaxPasses`).
- *Server.* Three ships let one be destroyed before, after and between the others,
  with a spawn afterwards; two may fire in one tick; a shot lives two ticks
  exactly, the boundary; a snapshot is due every second tick, so that there are
  events of a tick with and of a tick without. The bounds `MaxShips`, `MaxShots`
  and `MaxTicks` only end the run.
- *Client.* Frames leave every remainder of a tick; the longest owes more than the
  cap, repeatedly; the scale may be set to 0, a pause with the backlog still there; the buffer of three snapshots wraps and just spans the delay,
  as the code's 64 snapshots amply span its 0.1 s. The three bodies are the
  bootstrap's: the Sun, which is placed at a fixed distance and whose light turns
  as the camera passes it, Earth, which moves on and carries the camera, and a Moon
  that crosses the camera. Two faults let an actor be destroyed while the spawn of
  another is refused, or one be lost twice. `Serials` allows two actors of a body,
  so that a duplicate would show. `MaxRequested` ends the runner's part of the run.
- *Timestep.* Frame and ladder do not divide each other, so the substep count is
  really rounded; the dwell time ends inside a frame; needs lie above, below and
  within the ladder, once between two levels. The state space is finite
  without a bound, because the code caps the stable time and the histories are
  capped where nothing more is said of them; deadlock is checked.
- *Telemetry.* Among four pulls there are pairs within and beyond the margin of
  15 %, a tie and none at all; the dwell time is three ticks, a cached orbit lives
  four, and eight ticks are enough for both to run out. Of the four
  ships one falls straight, one is on a circle around the Sun, and two are on
  ellipses, before and after the periapsis; what is bound to the Sun may escape
  the Moon. `MaxTicks` ends the run.

Symmetry is not used: ships, projectiles and slots are ordered by their NetIds.

## Fairness

Two specifications state weak fairness. `SnapshotBuffer` has it of the steps of a
search: nothing in the call waits, so a search that has been made goes on, and nobody
need ever push again. On it rests `InterpolateReturns` (the search shrinks its
interval in every iteration). `SimulationSubsystem` has it of
`EngineFrame`: the engine keeps calling `Tick` as long as the subsystem is there,
which is what a tickable subsystem is registered for, and a `Tick` that has begun
goes on. Which wall-clock time a frame brings is not assumed, and once
`MaxRequested` is reached frames that bring none remain. `LostPlanetsComeBack`
rests on it: after the
faults, of which a run has at most `MaxFaults`, the next frames put every body
back. That an engine which destroys and refuses for ever shows nothing is not
excluded, and should not be.

Half of it is proved as well: `SearchHalves` and, for the loop of `advance`,
`FramesRunDown` say that every step of a call takes it nearer its end by a measure in
the natural numbers, which is 0 exactly when the call has returned, and that nothing
else happens meanwhile. What fairness adds is only that the next step is taken. The
loops of the server's tick are counted, over finite vectors: that they end
needs no property. All other runs use the specification without fairness.

## Proofs

Eight modules hold proofs, each from an inductive invariant: `IInv` (also an
invariant of the corresponding run), or, where a property needs less, one named
for it. They are for all values of the constants that satisfy the named
assumptions of the module, and TLC evaluates these assumptions on its instances.

- **`SnapshotBufferProofs`.** `IInv` adds to the types that the times are in
  order, that a ring not yet full starts at slot 0 (otherwise writing at
  `head + count` could not be told from overwriting), and that during a search
  the render time lies between the times at `lo` and `hi`. Theorems:
  `BufferInvariant`, `BufferTimeOrdered`, `BufferSearchHalves` (each iteration leaves at
  most half of the interval, rounded up), and `BufferImplementsWindow`, the
  refinement: each step of the ring is a step of the window or changes nothing it
  shows. Its core are two lemmas on how logical indices shift when `head` moves by
  one modulo the capacity. Assumptions: a capacity above 0 (asserted by the
  constructor), natural times, and that `nullopt` is no answer.
- **`CollisionProofs`.** `IInv` relates the containers of a pass to the events:
  what is destroyed is what the pass's events report, and the write-back map has
  exactly the survivors. All four resolvers are instances of one description
  (`Resolves`), so that preservation is proved once. Theorems: `PassInvariant`, `ReportsAreExact`,
  `NoHitOfTheDestroyed`, `HitsAlwaysCost`, `SurvivorVelocities`; and, with a second
  invariant `OrderInv` that the hits are taken in sorted order and one per pair,
  `OutcomesAreDetermined`. The refinement is `PassIsAtomic`: the loop with its skips,
  its deferred write-back and its erasure at the end is one step of `CollisionPass`,
  `Finish`, taken at `ApplyAndErase`; every turn of the loop before it is a stutter. `VerdictInv` carries it
  through the loop: an event says whom its hit kills, a hit without an event had lost
  a participant to an earlier one, and the write-back map holds the velocity of the
  last hit survived. That the set of hits that take effect is the only one
  (`PassHasOneOutcome`) needs no induction over the hits: if two sets differed, they
  would differ first at some hit, by time and NetIds, and there they cannot. Assumptions: NetIds are numbers, those of ships,
  projectiles and bodies are disjoint, one hit per pair (the broad phase emits each pair
  once).
- **`ServerProofs`.** `IInv` says of each part of a tick where clock, bodies and
  entities are in time (`OnSchedule`, `EntitiesOnSchedule`), that slots are those of a
  vector, what a projectile's age is, and that triggers are answered: the ships that a tick
  is about to serve are those whose last control pulled the trigger (`asked`), so a
  trigger released before the tick gives no shot. The
  arithmetic of vectors rests on one idea, the rank of an element (the number of
  elements before it): `erase_if` and the handing out of NetIds both compute ranks.
  Theorems: `ServerInvariant`, `ServerIndexIsExact`, `ServerNetIdsAreNotReused`,
  `ServerKeepsTime`, `ServerControlReachesItsShip`, `ServerAnswersTriggers`,
  `ServerShotsLiveTheirTtl`; and `ServerSnapshotsAreTimely` from `SnapshotInv`, which
  says at which step of a tick the last snapshot is of which tick and that the
  events it may still take are those of the tick that runs. `ServerImplementsFeed` is the
  refinement of `SnapshotFeed`: a tick with all its systems and substeps is one step of
  the feed, at the step that ends it, and spawns and controls are stutters. What
  it needs is that NetIds do not come back: who has left is told from who is not there
  yet by the counters. Assumptions: the substep
  counts divide the tick (the code divides a double), and the two ranges of NetIds do not meet (`IdsAssumption`, which
  the code does not check: see *Known limits*).
- **`RunnerProofs`.** `IInv` adds what holds inside the loop: the ticks of this
  advance that have run are still in the accumulator. Theorems: `RunnerInvariant`,
  `RunnerLosesNoTime`, `RunnerOwesOnlyAtTheCap`, for every tick length, cap, frame
  and scale. `PictureInv` says that the buffer is a row of the server's snapshots
  that ends with the last one due, and that what is shown once stays in it. From it
  follow `RunnerMissesNoSnapshot` and, if the buffer spans the delay,
  `RunnerPictureDoesNotFreeze`. The runner's model has a server of its own, as a count
  of ticks and a last snapshot; `RunnerServerIsAFeed` shows that it is the `SnapshotFeed`
  that `ServerImplementsFeed` proves of the server, for a world without ships, as
  the client's session is. So the two models meet in one specification. `RunnerFramesRunDown` is
  the measure of a frame: no more steps than the cap and two, for any delta and scale.
- **`SubsystemProofs`.** The subsystem only adds to the runner
  (`SubsystemRunsTheRunner`: what it does is a behaviour of the runner), so that
  all of the above holds of it. Its own invariant, `LevelInv`, says that every actor
  is the one its body's pointer names and that all were placed for the time of the
  scene. The row of snapshots is what makes the two that are blended the server's around
  the render time, so that the level shows where the server had the bodies.
  Theorems: `InterpolationStaysBetween`, `SubsystemRunsTheRunner`,
  `SubsystemInvariant`, `SubsystemHoldsEveryActor`, `SubsystemShowsOneMoment`, for
  any bodies, motions, faults and zoom.
- **`DetectionProofs`.** That nothing is missed rests on two lemmas. If two spheres
  are in contact at an instant, their distance on each axis is at most the sum of
  the radii, so the boxes of the two paths overlap. If a quadratic is positive at
  the start and not at a later instant, its discriminant is not negative, the first
  root is not negative and not later than that instant, hence no early return of the
  sweep is taken. Theorems: `NothingPassesThrough`, and `NothingIsHitFromAfar` the
  other way round, for any number of entities, radii, positions, velocities and
  length of the interval.
- **`TimestepProofs`.** `IInv` ties an entity's level and stable time to what it has asked for:
  a level is no coarser than the finest of the recent demands
  (`FollowsFiner`), under a coarser demand it comes down once in a dwell time and
  the stable time shows how far the next step is (`FollowsCoarser`), and no stable
  time was counted twice (`StableTimeWasSpent`). Theorems: `TimestepInvariant`,
  `TimestepTypes`, `TimestepSubstepsAreFine`, `TimestepRefinesInTime`,
  `TimestepCoarsensInTime`, `TimestepRaisesWait`, for every ladder, frame, dwell
  time and set of entities. `PowersAssumption` states what is needed of `2^k`, about
  which the prover knows nothing. Extremes of finite sets are found without
  induction: a least element is one whose set of lesser elements is minimal.
- **`TelemetryProofs`.** `CacheInv` says that the cache goes with the selected body
  and the throttle and when it expires; `LeadInv` that the accumulator is the time
  of the current lead; `OrbitInv` that the cached orbit is the fit of one ship. The
  rest is algebra of vectors: the eccentricity vector is a combination of position
  and velocity, its square is below that of the major axis by the product of the
  binding energy and the angular momentum (so the test `eccentricity >= 1` never
  decides anything that the energy has not), and the way to the empty focus has the
  length the major axis leaves. Theorems: `TelemetryOrbitIsUpToDate`,
  `TelemetryOrbitIsOfItsShip`, `TelemetryLeadIsRewarded`,
  `TelemetrySwitchesAreEarned`, `TelemetryBodiesAreOnTime`, `TelemetryTypes`, for any bodies, pulls, intervals, and all integer
  positions at an integer distance and integer velocities. The positions of bodies are
  functions defined by recursion over the vector of bodies. A recursive definition
  chooses a function that solves its equation; that there is one is shown without
  induction by writing it down (the circles a body moves on are what is orbiting in
  every set that has the body and the centres of all its members), and then
  the equation is all that is needed.

**Only model-checked.** The two liveness properties `InterpolateReturns` and
`LostPlanetsComeBack`: fairness is beyond the prover. Every other property of a
passing run is stated by a theorem. The runs that end in a violation are
counterexamples on an instance, and no theorem is claimed about them.

## Findings

Each is a run that ends with a counterexample.

1. `collision_momentum`: a ship that survives two hits in one interval gets the
   common velocity of the *last* only (`collision_system.cpp:262`, 153), computed
   from the velocities at the start of the interval; the comment at lines 67-68
   says momentum is conserved.
2. `server_sweep`: bodies are moved to the end of an interval before the collision
   pass sweeps them from there, against entities still at its start
   (`simulation_server.cpp:113`, 222). Comments at 108 and 120-121 say otherwise. The
   Earth is swept about 500 m ahead of where it is, on the fixed path.
3. `runner_custom_delta`: `advance` takes the tick length from a default
   configuration, not from the server's (`simulation_runner.cpp:34`).
4. `timestep_jerk`: the acceleration kept "from previous substep (for jerk)"
   (`timestep_types.hpp:53`) is the current one whenever the heuristics look
   (`simulation_server.cpp:251`, 256), so the jerk is always zero.
5. `moon_velocity`: from the first update on, the Moon's velocity is without the
   Earth's (`massive_body_motion_system.cpp:64`), although the comment calls it the
   derivative of the position and `bootstrap.cpp:45` starts it with the sum.

Noted without a run: after a capped advance the accumulator keeps whole ticks,
and at the default scale every frame at 60 Hz owes 100,000 ticks against a cap of
10,000, so that the backlog only grows (`simulation_runner.cpp:36`); a change of
the zoom shows one frame later, because the render origin is chosen before the
camera reads its input; `quantizeToLadder` returns the *smallest* level whose step is
short enough, where its comments (`timestep_controller.cpp:20`,
`timestep_controller.hpp:31`) say largest; the comment at
`client_snapshot_buffer.cpp:62` has `renderTime < at(hi)`, which is `<=` at the
newest snapshot (the model's `SearchInvariant` says `<=`); the comment at
`simulation_server.cpp:35` has the ship index valid "as long as ships are never removed
mid-vector", although the code removes them there and rebuilds the index after (line 132;
`IndexIsExact`); the comment at `simulation_runner.hpp:20` asks how many real seconds
make a simulation second, where its own example, the tests and the code have it the
other way round; the constructor of the runner asserts a positive time scale, while
`setTimeScaleFactor` (`simulation_runner.hpp:52`) takes any.

## Known limits

- *Rounding.* Times, coordinates and speeds are integers in the models. The proofs
  and runs say nothing about the drift of sums of doubles, nor about the thresholds
  that stand for zero in the sweeps and in the orbit fit.
- *NetIds.* The 9,901st ship of a session has the NetId 10,000 of the first
  projectile. The server's properties hold up to there. The collision run does
  have a ship above a projectile, but never two entities with one NetId.
- *Starting state.* The server's model starts from a world without ships, as all
  callers do; a `SimulationWorld` with ships would leave the index empty until the
  first tick. A ship spawned with an `initialAcceleration` of its own has
  whatever force the caller says for half a step; the model takes the default.
- *Composition.* `SimulationServer` leaves open which entities a pass destroys and
  how many substeps a tick has; `CollisionResolution` and `TimestepController` say
  how these are chosen, and `CollisionDetection` which hits there are. Anything they
  can choose is included, so the server's properties hold of the composition. What
  the pass is to the server is `CollisionPass`, and what the server is to the
  client `SnapshotFeed`: each is implemented by the module behind it. That the
  server's `collide` step is a step of `CollisionPass` is by inspection, not by a
  refinement: the server does not have hits or velocities. The
  telemetry is modelled without collisions as such: where the ship is and how it
  moves at a tick is free, so that it may have been hit, and `OrbitIsUpToDate` bounds
  how long the orbit from before the hit is kept.
- *A pass is one sweep.* A survivor's way after its first hit is not swept again
  in the interval, and the energy of its second hit is that of its old velocity.
- *Time scale.* 0, which the setter lets in, is in the model: nothing more is owed
  then, and a backlog is still worked off. A negative one, which no caller has, is not.
- *Order of bodies.* The vector has centres before their satellites
  (`CentresFirst`), as `bootstrap.cpp` builds it and the code asserts, in debug builds
  only. What a vector out of order would do is not modelled.
- *Client.* Space is one axis in `SimulationSubsystem`. The client's session spawns
  no ships, as in the code, so that the kinds other than bodies are in the
  interpolation only.
- *Not modelled.* Gravity and integration as arithmetic, trigonometry (spin,
  geographic coordinates, eccentric and mean anomaly), the orbit's quality score,
  slerp and headings: numbers on which no control depends. View rotation, the scale
  of actors and the cleanup of a level at start-up; the planet actors, pawn and game
  mode, which are engine I/O; the build scripts; `injectProjectile`, which exists in
  test builds only.

## Plan

Done, in this order: buffer and its refinement; collision pass; server tick; runner
and frame; timestep controller; bodies and telemetry; the presentation and the
interpolation, composed with the runner; detection of collisions; orbit fitting;
proofs of each; the abstract pass and the abstract feed of snapshots, with the
refinements proved.

What could follow:

1. The callers' side of `SnapshotFeed`: spawns and controls as promises of the server
   (the ship is in the next snapshot, the control takes effect in the next tick).
2. `SimulationServer` with `CollisionPass` and `TimestepController` in place of
   the open choices, at two entities, for energy and velocity properties across
   substeps.
3. Headings and thrusts of `ShipControlSystem` in `SimulationServer`, once it is settled
   whether a shot should leave with the old heading or the new.
