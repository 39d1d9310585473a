------------------------- MODULE CollisionDetection -------------------------
(***************************************************************************)
(* The first half of CollisionSystem::detectAndResolve: which pairs of     *)
(* entities it finds to collide within an interval, by sweeping spheres in *)
(* straight lines. Ships and projectiles are compared with each other      *)
(* through the boxes of their paths first, massive bodies are not. What    *)
(* CollisionResolution takes as its Geometries is what is found here.      *)
(*                                                                         *)
(* Coordinates and speeds are integers. A time of impact is a root of a    *)
(* quadratic and seldom a number with a name: a pair is found or not, and  *)
(* comparisons with the root are made between squares.                     *)
(***************************************************************************)
EXTENDS Integers

CONSTANTS
  Small,       \* NetIds of the ships and projectiles
  Bodies,      \* NetIds of the massive bodies
  Radius,      \* radiusMeters of each
  Dt,          \* length of the interval
  Positions,   \* vectors an entity may be at
  Velocities   \* vectors an entity may move by, in a unit of time

Vector == [x : Int, y : Int, z : Int]

ASSUME EntitiesAssumption ==
  /\ Small \cap Bodies = {}
  /\ Radius \in [Small \cup Bodies -> Nat]
ASSUME MotionAssumption ==
  /\ Dt \in Nat
  /\ Positions \subseteq Vector
  /\ Velocities \subseteq Vector

VARIABLES
  pc,          \* "start", "sweep" after the broad phase, "found" at the end
  world,       \* where each entity is at the start of the interval, and its velocity
  candidates,  \* pairs of small entities the broad phase lets through
  hits         \* pairs for which the narrow phase has a time of impact

vars == <<pc, world, candidates, hits>>

State == [position : Vector, velocity : Vector]

Ids == DOMAIN world
SmallIds == Ids \cap Small

\* Each pair once: the loops take the second index above the first, and which of the
\* two a pair is asked for first makes no difference to it.
PairsOf(S, T) == {{a, b} : a \in S, b \in T} \ {{a} : a \in S \cup T}

-----------------------------------------------------------------------------
Add(u, v) == [x |-> u.x + v.x, y |-> u.y + v.y, z |-> u.z + v.z]
Subtract(u, v) == [x |-> u.x - v.x, y |-> u.y - v.y, z |-> u.z - v.z]
Scale(u, k) == [x |-> k * u.x, y |-> k * u.y, z |-> k * u.z]
Dot(u, v) == u.x * v.x + u.y * v.y + u.z * v.z

Lower(i, j) == IF i < j THEN i ELSE j
Upper(i, j) == IF i < j THEN j ELSE i

\* Where an entity is after t, by its velocity at the start.
At(s, t) == Add(s.position, Scale(s.velocity, t))

\* The span of a sphere's path along one axis. Mutant: the radius is left out.
SpanBug(start, end, radius) == [min |-> Lower(start, end), max |-> Upper(start, end)]

Span(start, end, radius) ==
  [min |-> Lower(start, end) - radius, max |-> Upper(start, end) + radius]

SpansOverlap(a, b) == a.max >= b.min /\ a.min <= b.max

\* The box around a sphere's path, one span per axis.
SweptAabb(s, radius) ==
  LET end == At(s, Dt)
  IN  [x |-> Span(s.position.x, end.x, radius),
       y |-> Span(s.position.y, end.y, radius),
       z |-> Span(s.position.z, end.z, radius)]

AabbsOverlap(a, b) ==
  SpansOverlap(a.x, b.x) /\ SpansOverlap(a.y, b.y) /\ SpansOverlap(a.z, b.z)

\* Whether a*t*t + b*t + c, positive at the start, comes to zero within dt. Mutant:
\* spheres that part are not turned down.
RootWithinBug(a, b, c, dt) ==
  LET discriminant == b * b - 4 * (a * c)
      rest         == -b - 2 * (a * dt)
  IN  /\ a # 0
      /\ discriminant >= 0
      /\ ~(rest > 0 /\ rest * rest > discriminant)

\* The first root is after the interval if the way to it is longer at the end still
\* than half of what lies between the roots.
RootWithin(a, b, c, dt) ==
  LET discriminant == b * b - 4 * (a * c)
      rest         == -b - 2 * (a * dt)
  IN  /\ a # 0
      /\ b < 0
      /\ discriminant >= 0
      /\ ~(rest > 0 /\ rest * rest > discriminant)

\* sphereSweepTOI has a value: the spheres overlap at the start, or come to touch.
Touches(s1, s2, radius, dt) ==
  LET p == Subtract(s1.position, s2.position)
      u == Subtract(s1.velocity, s2.velocity)
      c == Dot(p, p) - radius * radius
  IN  c <= 0 \/ RootWithin(Dot(u, u), 2 * Dot(p, u), c, dt)

\* sphereSweepTOI of a pair. It has the same value in either order.
Swept(pair) ==
  \E a, b \in pair :
    /\ a # b
    /\ Touches(world[a], world[b], Radius[a] + Radius[b], Dt)

-----------------------------------------------------------------------------
Init ==
  /\ pc = "start"
  /\ \E alive \in SUBSET Small :
       world \in [alive \cup Bodies -> [position : Positions, velocity : Velocities]]
  /\ candidates = {}
  /\ hits = {}

\* Without ships and projectiles there is nothing to do.
ReturnEarly ==
  /\ pc = "start"
  /\ SmallIds = {}
  /\ pc' = "found"
  /\ UNCHANGED <<world, candidates, hits>>

\* broadPhaseSmallObjects: the pairs whose boxes overlap.
BroadPhase ==
  /\ pc = "start"
  /\ SmallIds # {}
  /\ candidates' =
       {pair \in PairsOf(SmallIds, SmallIds) :
          \A a, b \in pair : AabbsOverlap(SweptAabb(world[a], Radius[a]),
                                          SweptAabb(world[b], Radius[b]))}
  /\ pc' = "sweep"
  /\ UNCHANGED <<world, hits>>

\* The candidates are swept, and every small entity against every massive body.
NarrowPhase ==
  /\ pc = "sweep"
  /\ hits' = {pair \in candidates \cup PairsOf(SmallIds, Bodies) : Swept(pair)}
  /\ pc' = "found"
  /\ UNCHANGED <<world, candidates>>

Next == ReturnEarly \/ BroadPhase \/ NarrowPhase

Spec == Init /\ [][Next]_vars

-----------------------------------------------------------------------------
\* All pairs that can collide: two massive bodies never do.
Collidable == PairsOf(SmallIds, Ids)

Distance2(a, b, t) ==
  LET d == Subtract(At(world[a], t), At(world[b], t)) IN Dot(d, d)

InContact(a, b, t) == Distance2(a, b, t) <= (Radius[a] + Radius[b]) * (Radius[a] + Radius[b])

TypeOK ==
  /\ pc \in {"start", "sweep", "found"}
  /\ \E alive \in SUBSET Small : Ids = alive \cup Bodies
  /\ \A a \in Ids : world[a] \in State
  /\ candidates \subseteq PairsOf(SmallIds, SmallIds)
  /\ hits \subseteq Collidable

\* Nothing passes through anything: a pair that is in contact at any instant of the
\* interval, if only in its middle, is found, whatever the boxes and the early
\* returns of the sweep let through.
NoContactIsMissed ==
  pc = "found" =>
    \A pair \in Collidable : \A a, b \in pair : \A t \in 0..Dt :
      a # b /\ InContact(a, b, t) => pair \in hits

\* Twice the scalar product of distance and velocity at an instant: negative while a
\* pair comes nearer.
Approach(a, b, t) ==
  Dot(Subtract(At(world[a], t), At(world[b], t)),
      Subtract(world[a].velocity, world[b].velocity))

\* Nothing is hit from afar: the pairs that are found are in contact at the start, or
\* at the end, or they come nearer and part again within the interval and in between
\* are as near as that; so that nothing is destroyed by what passes it.
NoHitWithoutContact ==
  \A pair \in hits : \E a, b \in pair :
    /\ a # b
    /\ \/ InContact(a, b, 0) \/ InContact(a, b, Dt)
       \/ /\ Approach(a, b, 0) < 0 /\ Approach(a, b, Dt) > 0
          /\ LET u == Subtract(world[a].velocity, world[b].velocity)
                 r == Radius[a] + Radius[b]
             IN  Distance2(a, b, 0) * Dot(u, u) - Approach(a, b, 0) * Approach(a, b, 0)
                   <= r * r * Dot(u, u)

DetectionInv == TypeOK /\ NoContactIsMissed
=============================================================================
