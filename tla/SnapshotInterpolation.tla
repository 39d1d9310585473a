----------------------- MODULE SnapshotInterpolation -----------------------
(***************************************************************************)
(* client::interpolator: the world a client shows between two snapshots.   *)
(* A snapshot's world has, for each kind of entity, a function from NetIds *)
(* to states. A state is one number: positions, velocities, radii and      *)
(* throttles are all blended alike, component by component, and an         *)
(* orientation by slerp, which has the same ends.                          *)
(***************************************************************************)
EXTENDS Integers

Clamp(x, low, high) == IF x < low THEN low ELSE IF x > high THEN high ELSE x

\* The blending factor is alpha over dt, in 0..dt: the share of the interval that
\* has passed at the render time.
Alpha(s0, s1, renderTime) ==
  LET dt == s1.elapsedSeconds - s0.elapsedSeconds
  IN  IF dt > 0 THEN Clamp(renderTime - s0.elapsedSeconds, 0, dt) ELSE 0

\* The way from a to b, of which alpha out of dt is behind; in a unit in which
\* the result is an integer, and rounded down in any other.
Lerp(a, b, alpha, dt) == IF alpha = 0 THEN a ELSE a + (alpha * (b - a)) \div dt

\* One kind of entity. Those in both snapshots are blended, those only in the
\* later one are shown where that has them, those only in the earlier are not.
Blended(from, to, alpha, dt) ==
  [id \in DOMAIN to |->
     IF id \in DOMAIN from THEN Lerp(from[id], to[id], alpha, dt) ELSE to[id]]

InterpolateWorldState(s0, s1, renderTime) ==
  LET dt    == s1.elapsedSeconds - s0.elapsedSeconds
      alpha == Alpha(s0, s1, renderTime)
      w0    == s0.world
      w1    == s1.world
  IN  [renderTime    |-> renderTime,
       massiveBodies |-> Blended(w0.massiveBodies, w1.massiveBodies, alpha, dt),
       ships         |-> Blended(w0.ships, w1.ships, alpha, dt),
       projectiles   |-> Blended(w0.projectiles, w1.projectiles, alpha, dt)]

FromSnapshot(s, renderTime) ==
  [renderTime    |-> renderTime,
   massiveBodies |-> s.world.massiveBodies,
   ships         |-> s.world.ships,
   projectiles   |-> s.world.projectiles]

=============================================================================
