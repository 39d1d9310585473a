----------------------- MODULE MCCollisionResolution -----------------------
(* Geometries of at most three hits: enough for an entity to be hit before,  *)
(* between and after two hits of others. The server gives ships the NetIds   *)
(* from 100 and projectiles those from 10000: a ship with a NetId above a    *)
(* projectile's is one of a session that has spawned more than 9900 ships,   *)
(* and makes the projectile the A of its event.                              *)
EXTENDS CollisionResolution

\* The energy plays no part in a hit on a massive body, so one value is enough.
MCHit == {h \in Hit : Massive(h) => ~h.energetic}

MCGeometries ==
  {hs \in {{}} \cup {{f, g, h} : f, g, h \in MCHit} : OneHitPerPair(hs)}
=============================================================================
