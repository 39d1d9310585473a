------------------------ MODULE CollisionResolution ------------------------
(***************************************************************************)
(* CollisionSystem::detectAndResolve: one collision pass over one          *)
(* integration interval, run once per tick on the fixed path and once per  *)
(* substep on the adaptive one. The narrow phase yields at most one hit    *)
(* per pair; the hits are resolved in ascending (toi, pairIdLow,           *)
(* pairIdHigh) order, a hit that names an entity destroyed earlier in the  *)
(* pass is skipped, and only after the last hit are the survivors'         *)
(* velocities written back and the destroyed entities erased.              *)
(*                                                                         *)
(* The geometry is abstract: Geometries are the sets of hits a narrow      *)
(* phase may return. The energies are abstract too: energetic says whether *)
(* the impact energy is above the threshold of its kind of pair. It is     *)
(* fixed with the hit, as the code computes it from the velocities at the  *)
(* start of the interval.                                                  *)
(***************************************************************************)
EXTENDS Integers, Sequences, FiniteSets

CONSTANTS
  Ships,         \* NetIds of the ships
  Projectiles,   \* NetIds of the projectiles
  Bodies,        \* NetIds of the massive bodies
  Tois,          \* times of impact within an interval; only their order matters
  Geometries,    \* the sets of hits a pass may find
  MaxPasses      \* bound: passes explored

Small == Ships \cup Projectiles
NetId == Small \cup Bodies

\* PendingHit. Which of the two is a massive body follows from the ids.
Hit == {h \in [toi : Tois, low : NetId, high : NetId, energetic : BOOLEAN] :
          /\ h.low < h.high
          /\ ~(h.low \in Bodies /\ h.high \in Bodies)}

Participants(h) == {h.low, h.high}

OneHitPerPair(hs) ==
  \A g, h \in hs : Participants(g) = Participants(h) => g = h

ASSUME IdsAssumption ==
  /\ NetId \subseteq Nat
  /\ Ships \cap Projectiles = {}
  /\ Small \cap Bodies = {}
ASSUME ToisAssumption   == Tois \subseteq Nat
ASSUME PassesAssumption == MaxPasses \in Nat
ASSUME GeometriesAssumption ==
  \A hs \in Geometries : hs \subseteq Hit /\ OneHitPerPair(hs)

VARIABLES
  alive,         \* the ships and projectiles in the world's vectors
  pc,            \* "idle" between passes, "resolve" inside resolveHits
  hits,          \* what the narrow phase found in this pass
  pending,       \* the hits not reached yet
  destroyed,     \* the pass's set of NetIds to erase
  vcmWriteBack,  \* the pass's map from a survivor to its new velocity
  velocity,      \* velocity of each entity alive, see Combined below
  events,        \* outEvents of the passes so far
  passes,        \* passes begun
  passStart      \* history: events there were when the pass began

passVars == <<hits, pending, destroyed, vcmWriteBack>>
vars == <<alive, pc, hits, pending, destroyed, vcmWriteBack, velocity, events,
          passes, passStart>>

\* A velocity is named by the entities whose momenta at the start of the pass it
\* is the common velocity of: {e} is e's own velocity.
Own(e) == {e}
Combined(a, b) == {a, b}

Init ==
  /\ alive = Small
  /\ pc = "idle"
  /\ hits = {}
  /\ pending = {}
  /\ destroyed = {}
  /\ vcmWriteBack = << >>
  /\ velocity = [e \in Small |-> Own(e)]
  /\ events = << >>
  /\ passes = 0
  /\ passStart = 0

-----------------------------------------------------------------------------
\* Snapshots of the entities, broad phase and narrow phase: any geometry, over
\* the entities there are. With no small entity the pass returns at once.
BeginPass(hs) ==
  /\ pc = "idle"
  /\ passes < MaxPasses
  /\ alive # {}
  /\ \A h \in hs : Participants(h) \subseteq alive \cup Bodies
  /\ pc' = "resolve"
  /\ hits' = hs
  /\ pending' = hs
  /\ destroyed' = {}
  /\ vcmWriteBack' = << >>
  /\ velocity' = [e \in alive |-> Own(e)]
  /\ passes' = passes + 1
  /\ passStart' = Len(events)
  /\ UNCHANGED <<alive, events>>

\* Mutant of HitBefore: hits of one time are in no particular order.
HitBeforeBug(g, h) == g.toi < h.toi

\* The order the hits are sorted in.
HitBefore(g, h) ==
  \/ g.toi < h.toi
  \/ g.toi = h.toi /\ g.low < h.low
  \/ g.toi = h.toi /\ g.low = h.low /\ g.high < h.high

\* A hit the sorted sequence may have next.
Next1(h) == h \in pending /\ \A g \in pending : ~HitBefore(g, h)

\* Mutants of Skipped: only the first participant is looked up; a survivor's later
\* hits are skipped as well.
SkippedBugFirst(h) == h.low \in destroyed

SkippedBugSurvivor(h) == Participants(h) \cap (destroyed \cup DOMAIN vcmWriteBack) # {}

Skipped(h) == Participants(h) \cap destroyed # {}

Massive(h) == Participants(h) \cap Bodies # {}

SamePairKind(h) == Participants(h) \subseteq Ships \/ Participants(h) \subseteq Projectiles

MakeEvent(h, outcome) ==
  [toi |-> h.toi, netIdA |-> h.low, netIdB |-> h.high, outcome |-> outcome]

\* f with x mapped to y, whether or not it was before.
With(f, x, y) == [z \in DOMAIN f \cup {x} |-> IF z = x THEN y ELSE f[z]]

\* An entity destroyed by an earlier hit of this pass takes part in no later one.
ResolveSkip(h) ==
  /\ Skipped(h)
  /\ UNCHANGED <<destroyed, vcmWriteBack, events>>

\* Mutant of ResolveSmallVsMassive: the massive body is marked destroyed too.
ResolveSmallVsMassiveBug(h) ==
  /\ ~Skipped(h)
  /\ Massive(h)
  /\ destroyed' = destroyed \cup Participants(h)
  /\ events' = Append(events, MakeEvent(h, "SmallDespawned"))
  /\ UNCHANGED vcmWriteBack

\* A small entity does not survive a massive body.
ResolveSmallVsMassive(h) ==
  /\ ~Skipped(h)
  /\ Massive(h)
  /\ destroyed' = destroyed \cup (Participants(h) \ Bodies)
  /\ events' = Append(events, MakeEvent(h, "SmallDespawned"))
  /\ UNCHANGED vcmWriteBack

\* Two ships or two projectiles: both are destroyed, or the higher NetId is.
ResolveSymmetricSmallPair(h) ==
  /\ ~Skipped(h)
  /\ ~Massive(h)
  /\ SamePairKind(h)
  /\ \/ /\ h.energetic
        /\ destroyed' = destroyed \cup Participants(h)
        /\ events' = Append(events, MakeEvent(h, "BothDespawned"))
        /\ UNCHANGED vcmWriteBack
     \/ /\ ~h.energetic
        /\ destroyed' = destroyed \cup {h.high}
        /\ events' = Append(events, MakeEvent(h, "BDespawned"))
        /\ vcmWriteBack' = With(vcmWriteBack, h.low, Combined(h.low, h.high))

\* Mutant of ResolveShipVsProjectile: the event always reports B.
ResolveShipVsProjectileBug(h) ==
  /\ ~Skipped(h)
  /\ ~Massive(h)
  /\ ~SamePairKind(h)
  /\ LET ship == IF h.low \in Ships THEN h.low ELSE h.high
         proj == IF h.low \in Ships THEN h.high ELSE h.low
     IN  \/ /\ h.energetic
            /\ destroyed' = destroyed \cup {ship, proj}
            /\ events' = Append(events, MakeEvent(h, "BothDespawned"))
            /\ UNCHANGED vcmWriteBack
         \/ /\ ~h.energetic
            /\ destroyed' = destroyed \cup {proj}
            /\ events' = Append(events, MakeEvent(h, "BDespawned"))
            /\ vcmWriteBack' = With(vcmWriteBack, ship, Combined(h.low, h.high))

\* The projectile is destroyed in any case, the ship in an energetic hit only.
ResolveShipVsProjectile(h) ==
  /\ ~Skipped(h)
  /\ ~Massive(h)
  /\ ~SamePairKind(h)
  /\ LET ship == IF h.low \in Ships THEN h.low ELSE h.high
         proj == IF h.low \in Ships THEN h.high ELSE h.low
     IN  \/ /\ h.energetic
            /\ destroyed' = destroyed \cup {ship, proj}
            /\ events' = Append(events, MakeEvent(h, "BothDespawned"))
            /\ UNCHANGED vcmWriteBack
         \/ /\ ~h.energetic
            /\ destroyed' = destroyed \cup {proj}
            /\ events' = Append(events,
                 MakeEvent(h, IF h.high = proj THEN "BDespawned" ELSE "ADespawned"))
            /\ vcmWriteBack' = With(vcmWriteBack, ship, Combined(h.low, h.high))

\* One turn of the loop of resolveHits.
ResolveHit(h) ==
  /\ pc = "resolve"
  /\ Next1(h)
  /\ pending' = pending \ {h}
  /\ \/ ResolveSkip(h)
     \/ ResolveSmallVsMassive(h)
     \/ ResolveSymmetricSmallPair(h)
     \/ ResolveShipVsProjectile(h)
  /\ UNCHANGED <<alive, pc, hits, velocity, passes, passStart>>

\* Mutant of ApplyAndErase: the new velocities are not written back.
ApplyAndEraseBug ==
  /\ pc = "resolve"
  /\ pending = {}
  /\ alive' = alive \ destroyed
  /\ velocity' = [e \in alive \ destroyed |-> velocity[e]]
  /\ pc' = "idle"
  /\ UNCHANGED <<passVars, events, passes, passStart>>

\* After the last hit the survivors get their velocities, then the destroyed
\* entities are erased. The pass's own containers die with it.
ApplyAndErase ==
  /\ pc = "resolve"
  /\ pending = {}
  /\ alive' = alive \ destroyed
  /\ velocity' = [e \in alive \ destroyed |->
                    IF e \in DOMAIN vcmWriteBack THEN vcmWriteBack[e] ELSE velocity[e]]
  /\ pc' = "idle"
  /\ UNCHANGED <<passVars, events, passes, passStart>>

Next ==
  \/ \E hs \in Geometries : BeginPass(hs)
  \/ \E h \in pending : ResolveHit(h)
  \/ ApplyAndErase

Spec == Init /\ [][Next]_vars

-----------------------------------------------------------------------------
Outcome == {"BothDespawned", "ADespawned", "BDespawned", "SmallDespawned"}

Event == [toi : Tois, netIdA : NetId, netIdB : NetId, outcome : Outcome]

TypeOK ==
  /\ alive \subseteq Small
  /\ pc \in {"idle", "resolve"}
  /\ hits \in SUBSET Hit
  /\ pending \subseteq hits
  /\ destroyed \subseteq Small
  /\ DOMAIN vcmWriteBack \subseteq Small
  /\ \A e \in DOMAIN vcmWriteBack : vcmWriteBack[e] \subseteq Small
  /\ velocity \in [alive -> SUBSET Small]
  /\ events \in Seq(Event)
  /\ passes \in 0..MaxPasses
  /\ passStart \in 0..Len(events)

\* The entities an event says are gone, as a client reads its outcome.
Victims(ev) ==
  CASE ev.outcome = "ADespawned" -> {ev.netIdA}
    [] ev.outcome = "BDespawned" -> {ev.netIdB}
    [] OTHER                     -> {ev.netIdA, ev.netIdB} \ Bodies

\* The entities a sequence of events reports gone.
Reported(evs) == UNION {Victims(evs[i]) : i \in 1..Len(evs)}

\* What the events report and what is erased agree, at every point of every pass:
\* no despawn goes unreported, none is reported that does not happen.
EventsAccountForDespawns ==
  Reported(events) = (Small \ alive) \cup destroyed

\* An entity destroyed by a hit is in no later hit, of this pass or of any other:
\* nothing is despawned twice, and the dead destroy nobody.
TheDestroyedHitNothing ==
  \A i, j \in 1..Len(events) :
    i < j => Victims(events[i]) \cap {events[j].netIdA, events[j].netIdB} = {}

\* Every hit found costs a participant its life, in that hit or an earlier one,
\* and no small entity that hits a massive body survives the pass.
EveryHitCosts ==
  \A h \in hits \ pending :
    /\ Participants(h) \cap destroyed # {}
    /\ Massive(h) => Participants(h) \ Bodies \subseteq destroyed

\* The event of hit h in the current pass, if it was not skipped.
EventOf(h, i) ==
  /\ i \in (passStart + 1)..Len(events)
  /\ events[i].toi = h.toi
  /\ events[i].netIdA = h.low
  /\ events[i].netIdB = h.high

Preempts(g, h) ==
  /\ HitBefore(g, h)
  /\ \E i \in DOMAIN events :
       EventOf(g, i) /\ Victims(events[i]) \cap Participants(h) # {}

\* Which hits take effect depends on the geometry alone, not on the order the
\* phases found them in: a resolved hit has its event exactly when no hit sorted
\* before it destroyed one of its participants.
OutcomeIsDetermined ==
  \A h \in hits \ pending :
    (\E i \in DOMAIN events : EventOf(h, i)) <=> ~\E g \in hits : Preempts(g, h)

\* The entities e destroyed in the current pass and survived.
AbsorbedBy(e) ==
  {x \in Small :
     \E i \in (passStart + 1)..Len(events) :
       /\ {events[i].netIdA, events[i].netIdB} = {e, x}
       /\ Victims(events[i]) = {x}}

\* A survivor keeps its velocity if it hit nothing in the pass, and otherwise
\* leaves with the common velocity of itself and an entity it destroyed.
SurvivorsMoveWithWhatTheyHit ==
  pc = "idle" =>
    \A e \in alive :
      IF AbsorbedBy(e) = {}
      THEN velocity[e] = Own(e)
      ELSE \E x \in AbsorbedBy(e) : velocity[e] = Combined(e, x)

\* The comment on computeCentreOfMassVelocity: a survivor is assigned the common
\* velocity so that momentum is conserved. A survivor of two hits would have to
\* carry the momenta of both entities it absorbed.
SurvivorConservesMomentum ==
  pc = "idle" => \A e \in alive : velocity[e] = Own(e) \cup AbsorbedBy(e)

\* Inside a pass the containers speak of the entities the pass started with, and
\* no velocity has been touched yet.
PassIsOverTheLiving ==
  /\ pc = "resolve" =>
       /\ destroyed \subseteq alive
       /\ \A h \in hits : Participants(h) \subseteq alive \cup Bodies
       /\ velocity = [e \in alive |-> Own(e)]
  /\ pc = "idle" => destroyed \cap alive = {} /\ pending = {}

\* The entities with a velocity to write back are those that survived a hit of
\* this pass with another small entity, and the velocity is that of such a hit.
WriteBackHasEvent ==
  /\ DOMAIN vcmWriteBack = {e \in Small : AbsorbedBy(e) # {}}
  /\ \A e \in DOMAIN vcmWriteBack :
       \E x \in AbsorbedBy(e) : vcmWriteBack[e] = Combined(e, x)

\* The inductive invariant of a collision pass.
IInv ==
  /\ TypeOK
  /\ PassIsOverTheLiving
  /\ EventsAccountForDespawns
  /\ TheDestroyedHitNothing
  /\ EveryHitCosts
  /\ WriteBackHasEvent
  /\ SurvivorsMoveWithWhatTheyHit

\* What OutcomeIsDetermined needs to be inductive: the hits are taken in their
\* sort order, each event of the pass is that of a hit already taken, and the
\* pass has destroyed nothing but its events' victims.
ResolvedInOrder == \A g \in hits \ pending, h \in pending : HitBefore(g, h)

EventsHaveHits ==
  \A i \in (passStart + 1)..Len(events) : \E g \in hits \ pending : EventOf(g, i)

DestroyedHaveEvents ==
  destroyed = UNION {Victims(events[i]) : i \in (passStart + 1)..Len(events)}

OrderInv ==
  /\ OneHitPerPair(hits)
  /\ ResolvedInOrder
  /\ EventsHaveHits
  /\ DestroyedHaveEvents
  /\ OutcomeIsDetermined

-----------------------------------------------------------------------------
\* What the events of the passes done report; those of one that runs are not out.
Told == 1..(IF pc = "idle" THEN Len(events) ELSE passStart)

ReportedByPasses == UNION {Victims(events[i]) : i \in Told}

Pass == INSTANCE CollisionPass WITH reported <- ReportedByPasses

\* The loop over the sorted hits, with its skips and its deferred write-back and
\* erasure, computes the outcome of CollisionPass: the hits that take effect
\* are determined by the geometry, and all that follows is determined by them.
ImplementsPass == Pass!Spec

\* The hits of a pass leave its outcome no choice: one set of them takes effect.
OutcomeIsUnique ==
  \A E, F \in SUBSET hits : Pass!TakesEffect(E) /\ Pass!TakesEffect(F) => E = F

\* The hits taken that were not skipped.
Effective == {h \in hits \ pending : \E i \in DOMAIN events : EventOf(h, i)}

\* What ImplementsPass rests on inside a pass: an event says whom its hit kills,
\* and what is to be written back is of the last hit taken that its entity survived.
EventsTellWhoDies ==
  \A h \in hits \ pending :
    \A i \in DOMAIN events : EventOf(h, i) => Victims(events[i]) = Pass!Kills(h)

WriteBackIsOfTheLastHit ==
  /\ DOMAIN vcmWriteBack = {e \in Small : Pass!Survived(e, Effective) # {}}
  /\ \A e \in DOMAIN vcmWriteBack :
       \E h \in Pass!Survived(e, Effective) :
         /\ vcmWriteBack[e] = Participants(h)
         /\ \A g \in Pass!Survived(e, Effective) \ {h} : HitBefore(g, h)

VerdictInv == EventsTellWhoDies /\ WriteBackIsOfTheLastHit

=============================================================================
