--------------------------- MODULE MCOrbitTelemetry ---------------------------
(* The bootstrap's world of Sun, Earth and Moon, and a fourth body, which is   *)
(* one too many for the selector. Among the pulls, one is above another by     *)
(* less than the margin and one by more. The dwell time is three ticks, and    *)
(* an orbit is kept for four.                                                  *)
EXTENDS OrbitTelemetry

CONSTANTS sun, earth, moon, mars

MCBodies == <<sun, earth, moon, mars>>

MCCentreOf ==
  [b \in {earth, moon, mars} |-> IF b = moon THEN earth ELSE sun]

\* The bootstrap gives the Moon the Earth's velocity and its own.
MCBootVelocity ==
  [b \in {sun, earth, moon, mars} |->
     CASE b = sun -> {} [] b = moon -> {earth, moon} [] OTHER -> {b}]

\* What is bound to the Sun may escape the Moon.
MCMu == [b \in {sun, earth, moon, mars} |->
           CASE b = sun -> 4 [] b = moon -> 1 [] OTHER -> 2]

Relative(p, v) == [position |-> p, velocity |-> v]

\* A ship that falls straight, one on a circle around the Sun, and two on ellipses,
\* one of which approaches while the other recedes.
MCRelatives ==
  {Relative(Vector(2, 0, 0), Vector(1, 0, 0)),
   Relative(Vector(2, 0, 0), Vector(0, 1, 1)),
   Relative(Vector(1, 2, 2), Vector(1, 0, -1)),
   Relative(Vector(1, 2, 2), Vector(1, 0, 0))}
===============================================================================
