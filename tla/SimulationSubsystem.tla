------------------------- MODULE SimulationSubsystem -------------------------
(***************************************************************************)
(* USimulationSubsystem: the runner of SimulationRunner and the planet     *)
(* actors its Tick keeps in the level. A frame advances the runner, asks   *)
(* the buffer for the world at the render time and, if there is one,       *)
(* spawns, places and removes actors until the level has one for each body *)
(* of it. The engine owns the actors: between frames it may destroy one,   *)
(* and it may refuse to spawn one; the subsystem holds weak pointers.      *)
(*                                                                         *)
(* Space is one axis, the one the camera looks down: Earth's position plus *)
(* the altitude is the render origin, at which the pawn is pinned. Actors  *)
(* are named by the NetId they were spawned for and a serial.              *)
(***************************************************************************)
EXTENDS SimulationRunner, SnapshotInterpolation

CONSTANTS
  Bodies,             \* NetIds of the massive bodies
  Sun, Earth,         \* the two NetIds the presentation knows
  PositionOf(_, _),   \* where the server has a body at a tick
  Serials,            \* bound: actors of one NetId in the level at a time
  SunDisplayDistance, \* kSunDisplayDistanceCm
  MinAltitude,        \* kMinAltitudeAU, in steps of the scroll wheel
  MaxAltitude,        \* kMaxAltitudeAU
  CameraOffset,       \* kCameraOffsetAU
  MaxFaults,          \* bound: actors the engine destroys or refuses to spawn
  stale               \* a weak pointer whose actor is gone

ASSUME BodiesAssumption ==
  /\ Bodies \subseteq Nat
  /\ Sun \in Bodies
  /\ Earth \in Bodies
  /\ Sun # Earth
\* Every tick a session reaches: the first ones, and one per unit of time at most.
ASSUME PositionAssumption ==
  \A b \in Bodies, tick \in 0..(Interval + MaxRequested) : PositionOf(b, tick) \in Int
\* Initialize takes the default config, which makes snapshots.
ASSUME IntervalAssumption == Interval > 0
ASSUME ActorAssumption ==
  /\ Serials # {}
  /\ stale \notin [netId : Bodies, serial : Serials]
  /\ MaxFaults \in Nat
ASSUME CameraAssumption ==
  /\ MinAltitude \in Nat
  /\ MaxAltitude \in Nat
  /\ CameraOffset \in MinAltitude..MaxAltitude
  /\ SunDisplayDistance \in Nat \ {0}

Actor == [netId : Bodies, serial : Serials]

VARIABLES
  running,       \* between Initialize and Deinitialize: Runner is set
  placed,        \* the planet actors in the level, and where each one is
  planetActors,  \* PlanetActors: from a NetId to a weak pointer
  renderOrigin,  \* RenderOriginSim
  altitude,      \* CameraAltitudeAU
  faults         \* history: what the engine has destroyed or refused

levelVars == <<placed, planetActors>>
cameraVars == <<renderOrigin, altitude>>
presentationVars == <<placed, planetActors, renderOrigin, altitude, faults>>
subsystemVars == <<vars, running, presentationVars>>

SubsystemInit ==
  /\ Init
  /\ running = TRUE
  /\ placed = << >>
  /\ planetActors = << >>
  /\ renderOrigin = 0
  /\ altitude = CameraOffset
  /\ faults = 0

-----------------------------------------------------------------------------
\* The world of a snapshot: nothing in the client's session spawns a ship.
WorldOf(s) ==
  [elapsedSeconds |-> s.elapsedSeconds,
   world |-> [massiveBodies |-> [b \in Bodies |-> PositionOf(b, s.world)],
              ships         |-> << >>,
              projectiles   |-> << >>]]

renderTime == latest.elapsedSeconds - Delay

HasPicture == window # << >> /\ Buffer!InRange(renderTime)

\* What the buffer answers: neighbours around the render time, blended.
Pictures ==
  IF Len(window) = 1
  THEN {FromSnapshot(WorldOf(window[1]), renderTime)}
  ELSE {InterpolateWorldState(WorldOf(window[i]), WorldOf(window[i + 1]), renderTime) :
          i \in {j \in 1..(Len(window) - 1) :
                   /\ window[j].elapsedSeconds <= renderTime
                   /\ renderTime <= window[j + 1].elapsedSeconds}}

\* With a camera position of zero, as Tick passes it, the origin is Earth's.
SelectRenderOrigin(bodies) == IF Earth \in DOMAIN bodies THEN bodies[Earth] ELSE 0

Sign(x) == IF x > 0 THEN 1 ELSE IF x < 0 THEN -1 ELSE 0

ToRenderPosition(simPos, origin) == simPos - origin

\* Where an actor is placed: the Sun at a fixed distance in its direction, all
\* others as far from the camera as they are.
ToUEPosition(simPos, origin, netId) ==
  IF netId = Sun THEN SunDisplayDistance * Sign(simPos - origin)
  ELSE ToRenderPosition(simPos, origin)

\* The actor, and the direction of its light: only the Sun's has one, and is turned
\* from where the actor is to the camera.
Placement(simPos, origin, netId) ==
  LET location == ToUEPosition(simPos, origin, netId)
  IN  [location |-> location, light |-> IF netId = Sun THEN -Sign(location) ELSE 0]

NewActor(netId) == CHOOSE a \in Actor : a.netId = netId /\ a \notin DOMAIN placed

\* Mutants of IsHeld: an entry in the map is enough; no pointer is good.
IsHeldBugFind(netId) == netId \in DOMAIN planetActors

IsHeldBugGet(netId) == FALSE

\* The pointer under a NetId is there and its actor too.
IsHeld(netId) == netId \in DOMAIN planetActors /\ planetActors[netId] # stale

\* The bodies of the picture for which there is an actor to be spawned.
Missing(bodies) == {b \in DOMAIN bodies : ~IsHeld(b)}

\* Where the map points after the pass: to the new actors, where one was spawned.
Repointed(bodies, spawned) ==
  [b \in (DOMAIN planetActors \cup spawned) \cap DOMAIN bodies |->
     IF b \in spawned THEN NewActor(b) ELSE planetActors[b]]

\* The actors in the level after the pass: those spawned are added, those under the
\* NetId of no body are destroyed.
Remaining(bodies, spawned) ==
  (DOMAIN placed \ {planetActors[b] : b \in DOMAIN planetActors \ DOMAIN bodies})
    \cup {NewActor(b) : b \in spawned}

\* Mutant of ReconcilePlanets: a new actor is left where it was spawned.
ReconcilePlanetsBug(bodies, origin, spawned) ==
  /\ planetActors' = Repointed(bodies, spawned)
  /\ placed' = [a \in Remaining(bodies, spawned) |->
                  IF a.netId \in spawned THEN [location |-> 0, light |-> 0]
                  ELSE Placement(bodies[a.netId], origin, a.netId)]

\* One pass over the bodies of the picture, then one over the map. A body without
\* an actor gets one, unless the engine refuses: then its pointer stays what it
\* was. Every actor the map points to is placed; what is under the NetId of no body
\* is destroyed and removed.
ReconcilePlanets(bodies, origin, spawned) ==
  /\ planetActors' = Repointed(bodies, spawned)
  /\ placed' = [a \in Remaining(bodies, spawned) |->
                  IF a.netId \in DOMAIN planetActors' /\ planetActors'[a.netId] = a
                  THEN Placement(bodies[a.netId], origin, a.netId)
                  ELSE placed[a]]

\* UpdateOrbitCamera: the scroll wheel takes the altitude a step up or down, within
\* its limits; the view's rotation is left out.
UpdateOrbitCamera(scroll) == altitude' = Clamp(altitude + scroll, MinAltitude, MaxAltitude)

\* The rest of Tick when the buffer has an answer: the engine spawns some of the
\* missing actors. The render origin is chosen before the camera reads its input.
ShowPicture(bodies, spawned, scroll) ==
  /\ renderOrigin' = SelectRenderOrigin(bodies) + altitude
  /\ UpdateOrbitCamera(scroll)
  /\ ReconcilePlanets(bodies, renderOrigin', spawned)
  /\ faults' = IF spawned = Missing(bodies) THEN faults ELSE faults + 1

\* Tick's early return when it has none: everything stays where it is.
KeepPicture ==
  /\ ~HasPicture
  /\ UNCHANGED presentationVars

\* The rest of Tick. A pass in which a spawn is refused counts as a fault.
Present ==
  /\ running
  /\ Render
  /\ \/ /\ HasPicture
        /\ \E picture \in Pictures, scroll \in {-1, 0, 1} :
             \E spawned \in SUBSET Missing(picture.massiveBodies) :
               /\ spawned = Missing(picture.massiveBodies) \/ faults < MaxFaults
               /\ ShowPicture(picture.massiveBodies, spawned, scroll)
     \/ KeepPicture
  /\ UNCHANGED running

\* What the runner does leaves the level alone: the first half of Tick, and a change
\* of the time scale, which the runner takes at any time between frames.
Run(step) ==
  /\ running
  /\ step
  /\ UNCHANGED <<running, presentationVars>>

\* The engine destroys a planet actor between two frames.
EngineDestroysActor(a) ==
  /\ running
  /\ pc = "idle"
  /\ faults < MaxFaults
  /\ faults' = faults + 1
  /\ placed' = [x \in DOMAIN placed \ {a} |-> placed[x]]
  /\ planetActors' = [b \in DOMAIN planetActors |->
                        IF planetActors[b] = a THEN stale ELSE planetActors[b]]
  /\ UNCHANGED <<vars, running, cameraVars>>

DestroyAllPlanets ==
  /\ placed' = [a \in DOMAIN placed \ {planetActors[b] : b \in DOMAIN planetActors} |->
                  placed[a]]
  /\ planetActors' = << >>

\* The actors go, then the runner: no later Tick does anything.
Deinitialize ==
  /\ running
  /\ pc = "idle"
  /\ running' = FALSE
  /\ DestroyAllPlanets
  /\ UNCHANGED <<vars, cameraVars, faults>>

BeginFrame == \E delta \in Deltas : Run(Advance(delta) \/ AdvanceNothing(delta))

EngineFrame == BeginFrame \/ Run(RunTick) \/ Run(EndAdvance) \/ Present

SubsystemNext ==
  \/ EngineFrame
  \/ \E factor \in Scales : Run(SetTimeScaleFactor(factor))
  \/ \E a \in DOMAIN placed : EngineDestroysActor(a)
  \/ Deinitialize

SubsystemSpec == SubsystemInit /\ [][SubsystemNext]_subsystemVars

\* The engine keeps calling Tick as long as the subsystem is there.
FairSubsystemSpec == SubsystemSpec /\ WF_subsystemVars(EngineFrame)

-----------------------------------------------------------------------------
SubsystemTypeOK ==
  /\ running \in BOOLEAN
  /\ DOMAIN placed \subseteq Actor
  /\ \A a \in DOMAIN placed : placed[a] \in [location : Int, light : {-1, 0, 1}]
  /\ DOMAIN planetActors \subseteq Bodies
  /\ \A b \in DOMAIN planetActors : planetActors[b] \in Actor \cup {stale}
  /\ renderOrigin \in Int
  /\ altitude \in MinAltitude..MaxAltitude
  /\ faults \in 0..MaxFaults

\* The level has no actor the subsystem has lost sight of, and never two for one
\* body: whatever was destroyed, respawned or refused, each planet actor in the
\* level is the one under its body's NetId, and every good pointer has its actor.
\* After the subsystem is gone there is none.
EveryActorIsHeld ==
  /\ \A a \in DOMAIN placed :
       a.netId \in DOMAIN planetActors /\ planetActors[a.netId] = a
  /\ \A b \in DOMAIN planetActors :
       planetActors[b] # stale => planetActors[b] \in DOMAIN placed
  /\ ~running => DOMAIN placed = {}

\* Where the server had a body at a time, between the snapshots around it.
ServerPosition(b, time) ==
  LET dt    == Interval * ServerDt
      tick0 == Interval * (time \div dt)
  IN  Lerp(PositionOf(b, tick0), PositionOf(b, tick0 + Interval), time % dt, dt)

\* The level shows one moment: between frames all actors, old and new, are where
\* the server had their bodies at the time of the scene, seen from the one camera
\* that was above Earth at that time, and the Sun lights them from where it is.
LevelShowsOneMoment ==
  running /\ DOMAIN placed # {} =>
    /\ scene # nullopt
    /\ renderOrigin - ServerPosition(Earth, scene) \in MinAltitude..MaxAltitude
    /\ \A a \in DOMAIN placed :
         placed[a] = Placement(ServerPosition(a.netId, scene), renderOrigin, a.netId)

\* The type of the level, and what the runner keeps.
SubsystemInv == IInv /\ SubsystemTypeOK

IsShown(b) == \E a \in DOMAIN placed : a.netId = b

\* Once there is a picture, a body whose actor was destroyed or could not be spawned
\* gets one again: the level comes to show all bodies, as long as the subsystem lives
\* and the engine does not destroy and refuse for ever.
LostPlanetsComeBack ==
  scene # nullopt ~> (\A b \in Bodies : IsShown(b)) \/ ~running

=============================================================================
