---------------------------- MODULE CollisionPass ----------------------------
(***************************************************************************)
(* What a collision pass promises, whatever the order its phases find the  *)
(* hits in and however its loop goes through them: its outcome is that of  *)
(* the one set of hits that take effect, in one step. A hit takes effect   *)
(* unless an earlier one that does has killed one of its participants;     *)
(* whom it kills depends on the hit alone. All that are killed are         *)
(* reported and gone; a survivor leaves with the common velocity of the    *)
(* last hit it survived, or with its own.                                  *)
(***************************************************************************)
EXTENDS Naturals

CONSTANTS
  Ships, Projectiles, Bodies,   \* NetIds
  Tois                          \* times of impact

VARIABLES
  alive,      \* the ships and projectiles there are
  pc,         \* "idle", or "resolve" once the hits of a pass have been found
  hits,       \* the hits of the last pass
  velocity,   \* of each entity alive, the entities whose momenta it combines
  reported    \* the entities the passes done have reported gone

vars == <<alive, pc, hits, velocity, reported>>

NetId == Ships \cup Projectiles \cup Bodies

Hit == {h \in [toi : Tois, low : NetId, high : NetId, energetic : BOOLEAN] : h.low < h.high}

Participants(h) == {h.low, h.high}

OneHitPerPair(hs) ==
  \A g, h \in hs : Participants(g) = Participants(h) => g = h

\* By time of impact, then by the ids of the pair.
Earlier(g, h) ==
  \/ g.toi < h.toi
  \/ g.toi = h.toi /\ g.low < h.low
  \/ g.toi = h.toi /\ g.low = h.low /\ g.high < h.high

\* Whom a hit kills if it takes effect. Bodies last; a hit on one, or one above
\* the threshold, kills all else. Of two alike the one with the higher id goes, of
\* a ship and a projectile the projectile.
Kills(h) ==
  IF h.energetic \/ Participants(h) \cap Bodies # {}
  THEN Participants(h) \ Bodies
  ELSE IF Participants(h) \subseteq Ships \/ Participants(h) \subseteq Projectiles
       THEN {h.high}
       ELSE Participants(h) \cap Projectiles

\* E is the set of the hits that take effect.
TakesEffect(E) ==
  \A h \in hits :
    h \in E <=> ~\E g \in E : Earlier(g, h) /\ Kills(g) \cap Participants(h) # {}

Dead(E) == UNION {Kills(h) : h \in E}

Survived(e, E) == {h \in E : e \in Participants(h) \ Kills(h)}

Last(S) == CHOOSE h \in S : \A g \in S \ {h} : Earlier(g, h)

LeavesWith(e, E) ==
  IF Survived(e, E) = {} THEN velocity[e] ELSE Participants(Last(Survived(e, E)))

Init ==
  /\ alive = Ships \cup Projectiles
  /\ pc = "idle"
  /\ hits = {}
  /\ velocity = [e \in alive |-> {e}]
  /\ reported = {}

\* A pass finds hits among what is there, one of a pair at most.
Begin ==
  /\ pc = "idle"
  /\ alive # {}
  /\ pc' = "resolve"
  /\ hits' \in SUBSET Hit
  /\ OneHitPerPair(hits')
  /\ \A h \in hits' : Participants(h) \subseteq alive \cup Bodies
  /\ velocity' = [e \in alive |-> {e}]
  /\ UNCHANGED <<alive, reported>>

\* All of its outcome, in one step.
Finish ==
  /\ pc = "resolve"
  /\ pc' = "idle"
  /\ \E E \in SUBSET hits :
       /\ TakesEffect(E)
       /\ alive' = alive \ Dead(E)
       /\ reported' = reported \cup Dead(E)
       /\ velocity' = [e \in alive \ Dead(E) |-> LeavesWith(e, E)]
  /\ UNCHANGED hits

Next == Begin \/ Finish

Spec == Init /\ [][Next]_vars
=============================================================================
