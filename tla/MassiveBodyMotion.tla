------------------------- MODULE MassiveBodyMotion -------------------------
(***************************************************************************)
(* MassiveBodyMotionSystem: the massive bodies move on circles around each *)
(* other, one after the other in the order of the world's vector, each     *)
(* around where the vector then has its centre.                            *)
(*                                                                         *)
(* A position is the sum of the circular motions it is made of: a function *)
(* from the bodies whose circles they are to the times their phases are    *)
(* of. A velocity is the set of the bodies whose circles it is made of.    *)
(***************************************************************************)
EXTENDS Naturals, Sequences

CONSTANTS
  Bodies,        \* world.massiveBodies, as the sequence of their NetIds
  CentreOf,      \* orbital.centerNetId of the bodies with an orbit radius
  BootVelocity   \* the circles the bootstrap's velocities are made of

BodyIds == {Bodies[i] : i \in 1..Len(Bodies)}

Orbiting == DOMAIN CentreOf

\* What the code asserts of the vector: a centre comes before what orbits it.
CentresFirst ==
  \A i \in 1..Len(Bodies) :
    Bodies[i] \in Orbiting => \E j \in 1..(i - 1) : Bodies[j] = CentreOf[Bodies[i]]

VARIABLES
  position,   \* transform.position of each body
  velocity    \* velocity.linear of each body

\* A circle of body b, at its phase of time t, around a centre.
Around(centre, b, t) ==
  [c \in DOMAIN centre \cup {b} |-> IF c = b THEN t ELSE centre[c]]

\* Mutant of Moved: all centres are where the last pass left them.
MovedBug(t) ==
  [b \in BodyIds |->
     IF b \in Orbiting THEN Around(position[CentreOf[b]], b, t) ELSE position[b]]

\* The positions after each step of a pass over the vector, body by body.
Passing(t) ==
  LET after[i \in 0..Len(Bodies)] ==
        IF i = 0 THEN position
        ELSE LET b    == Bodies[i]
                 seen == after[i - 1]
             IN  IF b \in Orbiting
                 THEN [seen EXCEPT ![b] = Around(seen[CentreOf[b]], b, t)]
                 ELSE seen
  IN  after

\* The positions after a whole pass.
Moved(t) == Passing(t)[Len(Bodies)]

\* MassiveBodyMotionSystem::update at time t.
Update(t) ==
  /\ position' = Moved(t)
  /\ velocity' = [b \in BodyIds |-> IF b \in Orbiting THEN {b} ELSE velocity[b]]

\* The bodies whose circles the body at an index moves on: its own and those of
\* its centres.
CirclesAt[i \in 1..Len(Bodies)] ==
  IF Bodies[i] \in Orbiting
  THEN {Bodies[i]} \cup
       CirclesAt[CHOOSE j \in 1..(i - 1) : Bodies[j] = CentreOf[Bodies[i]]]
  ELSE {}

Circles(b) == CirclesAt[CHOOSE i \in 1..Len(Bodies) : Bodies[i] = b]

\* The bootstrap's world is that of time 0.
Init ==
  /\ position = [b \in BodyIds |-> [c \in Circles(b) |-> 0]]
  /\ velocity = BootVelocity

-----------------------------------------------------------------------------
\* Every body is where it belongs at time t: all the circles its position is made
\* of are at their phases of t, its centre's as well as its own.
BodiesAreAt(t) ==
  \A b \in BodyIds : position[b] = [c \in Circles(b) |-> t]

\* The comment on the velocity: it is the derivative of the position.
VelocityIsDerivative == \A b \in BodyIds : velocity[b] = DOMAIN position[b]
=============================================================================
