------------------------ MODULE MCCollisionDetection ------------------------
(* A ship, a projectile and a massive body. An interval is four units of    *)
(* time long, enough to fly through the largest sphere and out again, and   *)
(* to stop short of the next.                                               *)
EXTENDS CollisionDetection

MCRadius == [a \in Small \cup Bodies |-> IF a \in Bodies THEN 2 ELSE 1]

MCPositions == {[x |-> x, y |-> y, z |-> 0] : x \in {-4, 0, 5}, y \in {0, 3}}

MCVelocities ==
  {[x |-> x, y |-> y, z |-> 0] : x \in {-2, 0, 2}, y \in {0}} \cup
  {[x |-> 1, y |-> -1, z |-> 0], [x |-> -3, y |-> 1, z |-> 1]}
=============================================================================
