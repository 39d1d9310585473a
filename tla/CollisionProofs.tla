--------------------------- MODULE CollisionProofs ---------------------------
(***************************************************************************)
(* For any entities, any geometry and any number of passes: what the       *)
(* collision events report is what is erased, nothing destroyed takes part *)
(* in a later hit, every hit costs a participant, and survivors leave with *)
(* the velocity of a hit they survived. The pass implements CollisionPass: *)
(* its outcome is that of the one set of hits that take effect.            *)
(***************************************************************************)
EXTENDS CollisionResolution, SequenceTheorems, WellFoundedInduction, TLAPS

\* A hit that is not skipped adds one event, destroys what the event says, and
\* writes a velocity back for the participant the event leaves alive, if any.
Resolves(h, ev) ==
  /\ ev \in Event
  /\ ev.toi = h.toi /\ ev.netIdA = h.low /\ ev.netIdB = h.high
  /\ events' = Append(events, ev)
  /\ destroyed' = destroyed \cup Victims(ev)
  /\ Victims(ev) = Pass!Kills(h)
  /\ Victims(ev) # {}
  /\ Victims(ev) \subseteq Participants(h) \ Bodies
  /\ Massive(h) => Victims(ev) = Participants(h) \ Bodies
  /\ \/ /\ vcmWriteBack' = vcmWriteBack
        /\ ~\E e \in Small, x \in Small : Participants(h) = {e, x} /\ Victims(ev) = {x}
     \/ \E e \in Small, x \in Small :
          /\ e # x
          /\ Participants(h) = {e, x}
          /\ Victims(ev) = {x}
          /\ vcmWriteBack' = With(vcmWriteBack, e, Combined(e, x))

\* Facts about one hit that the resolvers' case splits rest on.
LEMMA HitFacts ==
  ASSUME NEW h \in Hit
  PROVE  /\ h.low \in NetId /\ h.high \in NetId /\ h.low # h.high
         /\ h.toi \in Tois /\ h.energetic \in BOOLEAN
         /\ ~Massive(h) => Participants(h) \subseteq Small
         /\ Massive(h) => \/ h.low \in Bodies /\ h.high \in Small
                          \/ h.low \in Small /\ h.high \in Bodies
<1>1. h \in [toi : Tois, low : NetId, high : NetId, energetic : BOOLEAN]
  BY DEF Hit
<1>2. h.low < h.high /\ ~(h.low \in Bodies /\ h.high \in Bodies)
  BY DEF Hit
<1>3. h.low \in Nat /\ h.high \in Nat
  BY <1>1, IdsAssumption
<1>4. h.low # h.high
  BY <1>2, <1>3
<1> QED BY <1>1, <1>2, <1>4 DEF Massive, Participants, NetId

\* The event an unskipped hit of id pair a, b makes, by outcome.
LEMMA MadeEvent ==
  ASSUME NEW h \in Hit, NEW o \in Outcome
  PROVE  LET ev == MakeEvent(h, o)
         IN  /\ ev \in Event
             /\ ev.toi = h.toi /\ ev.netIdA = h.low /\ ev.netIdB = h.high
             /\ Victims(ev) = IF o = "ADespawned" THEN {h.low}
                              ELSE IF o = "BDespawned" THEN {h.high}
                              ELSE Participants(h) \ Bodies
<1>1. h.toi \in Tois /\ h.low \in NetId /\ h.high \in NetId
  BY HitFacts
<1>2. MakeEvent(h, o) \in Event
  BY <1>1 DEF MakeEvent, Event
<1> QED BY <1>2 DEF MakeEvent, Victims, Participants, Outcome

\* Whom the abstract pass has a hit kill, by the kinds the resolvers tell apart.
LEMMA KillsByKind ==
  ASSUME NEW h \in Hit
  PROVE  /\ Massive(h) \/ h.energetic => Pass!Kills(h) = Participants(h) \ Bodies
         /\ ~Massive(h) /\ ~h.energetic /\ SamePairKind(h) => Pass!Kills(h) = {h.high}
         /\ ~Massive(h) /\ ~h.energetic /\ ~SamePairKind(h) =>
              Pass!Kills(h) = {IF h.low \in Ships THEN h.high ELSE h.low}
<1>1. Pass!Participants(h) = Participants(h)
  BY DEF Pass!Participants, Participants
<1>2. /\ Massive(h) \/ h.energetic => Pass!Kills(h) = Participants(h) \ Bodies
      /\ ~Massive(h) /\ ~h.energetic /\ SamePairKind(h) => Pass!Kills(h) = {h.high}
      /\ ~Massive(h) /\ ~h.energetic /\ ~SamePairKind(h) =>
           Pass!Kills(h) = Participants(h) \cap Projectiles
  BY <1>1 DEF Pass!Kills, Massive, SamePairKind
<1>3. ~Massive(h) /\ ~SamePairKind(h) =>
        Participants(h) \cap Projectiles = {IF h.low \in Ships THEN h.high ELSE h.low}
  <2> SUFFICES ASSUME ~Massive(h), ~SamePairKind(h)
               PROVE  Participants(h) \cap Projectiles = {IF h.low \in Ships THEN h.high ELSE h.low}
    OBVIOUS
  <2>1. Participants(h) = {h.low, h.high} /\ {h.low, h.high} \subseteq Ships \cup Projectiles
    BY HitFacts DEF Participants, Small
  <2>2. /\ ~(h.low \in Ships /\ h.high \in Ships)
        /\ ~(h.low \in Projectiles /\ h.high \in Projectiles)
    BY <2>1 DEF SamePairKind
  <2> QED BY <2>1, <2>2, IdsAssumption
<1> QED BY <1>2, <1>3

LEMMA UnskippedResolves ==
  ASSUME NEW h \in Hit,
         \/ ResolveSmallVsMassive(h)
         \/ ResolveSymmetricSmallPair(h)
         \/ ResolveShipVsProjectile(h)
  PROVE  \E ev \in Event : Resolves(h, ev)
<1>1. CASE ResolveSmallVsMassive(h)
  <2>1. /\ destroyed' = destroyed \cup (Participants(h) \ Bodies)
        /\ events' = Append(events, MakeEvent(h, "SmallDespawned"))
        /\ vcmWriteBack' = vcmWriteBack /\ Massive(h)
    BY <1>1 DEF ResolveSmallVsMassive
  <2>2. "SmallDespawned" \in Outcome
    BY DEF Outcome
  <2> DEFINE ev == MakeEvent(h, "SmallDespawned")
  <2>3. /\ ev \in Event /\ ev.toi = h.toi /\ ev.netIdA = h.low /\ ev.netIdB = h.high
        /\ Victims(ev) = Participants(h) \ Bodies
    BY <2>2, MadeEvent
  <2>4. Participants(h) \ Bodies # {}
    BY <2>1, HitFacts, IdsAssumption DEF Participants
  <2>5. ~\E e \in Small, x \in Small : Participants(h) = {e, x}
    BY <2>1, IdsAssumption DEF Massive
  <2>6. Victims(ev) = Pass!Kills(h)
    BY <2>1, <2>3, KillsByKind
  <2> HIDE DEF ev
  <2>7. Resolves(h, ev)
    BY <2>1, <2>3, <2>4, <2>5, <2>6 DEF Resolves, ev
  <2> QED BY <2>3, <2>7
<1>2. ASSUME ~Massive(h), NEW e \in Participants(h), NEW x \in Participants(h), e # x,
             NEW o \in {"ADespawned", "BDespawned"},
             x = IF o = "ADespawned" THEN h.low ELSE h.high,
             Pass!Kills(h) = {x},
             destroyed' = destroyed \cup {x},
             events' = Append(events, MakeEvent(h, o)),
             vcmWriteBack' = With(vcmWriteBack, e, Combined(h.low, h.high))
      PROVE  \E ev \in Event : Resolves(h, ev)
  <2> DEFINE ev == MakeEvent(h, o)
  <2>1. o \in Outcome
    BY DEF Outcome
  <2>2. /\ ev \in Event /\ ev.toi = h.toi /\ ev.netIdA = h.low /\ ev.netIdB = h.high
        /\ Victims(ev) = {x}
    BY <1>2, <2>1, MadeEvent
  <2>3. Participants(h) = {e, x} /\ e \in Small /\ x \in Small /\ x \notin Bodies
    BY <1>2, HitFacts, IdsAssumption DEF Participants
  <2>4. Combined(h.low, h.high) = Combined(e, x)
    BY <2>3 DEF Combined, Participants
  <2>5. events' = Append(events, ev)
    BY <1>2
  <2> HIDE DEF ev
  <2>6. Resolves(h, ev)
    BY <1>2, <2>2, <2>3, <2>4, <2>5 DEF Resolves
  <2> QED BY <2>2, <2>6
<1>3. ASSUME ~Massive(h), h.energetic,
             destroyed' = destroyed \cup Participants(h),
             events' = Append(events, MakeEvent(h, "BothDespawned")),
             vcmWriteBack' = vcmWriteBack
      PROVE  \E ev \in Event : Resolves(h, ev)
  <2> DEFINE ev == MakeEvent(h, "BothDespawned")
  <2>1. "BothDespawned" \in Outcome
    BY DEF Outcome
  <2>2. Participants(h) \subseteq Small /\ Participants(h) \ Bodies = Participants(h)
    BY <1>3, HitFacts, IdsAssumption
  <2>3. /\ ev \in Event /\ ev.toi = h.toi /\ ev.netIdA = h.low /\ ev.netIdB = h.high
        /\ Victims(ev) = Participants(h)
    BY <2>1, <2>2, MadeEvent
  <2>4. Participants(h) # {} /\ ~\E e, x \in Small : Participants(h) = {e, x} /\ Participants(h) = {x}
    BY HitFacts DEF Participants
  <2>5. events' = Append(events, ev)
    BY <1>3
  <2>6. Victims(ev) = Pass!Kills(h)
    BY <1>3, <2>2, <2>3, KillsByKind
  <2> HIDE DEF ev
  <2>7. Resolves(h, ev)
    BY <1>3, <2>2, <2>3, <2>4, <2>5, <2>6 DEF Resolves
  <2> QED BY <2>3, <2>7
<1>4. CASE ResolveSymmetricSmallPair(h)
  <2>1. CASE h.energetic
    BY <1>3, <1>4, <2>1 DEF ResolveSymmetricSmallPair
  <2>2. CASE ~h.energetic
    <3>1. /\ ~Massive(h) /\ destroyed' = destroyed \cup {h.high}
          /\ events' = Append(events, MakeEvent(h, "BDespawned"))
          /\ vcmWriteBack' = With(vcmWriteBack, h.low, Combined(h.low, h.high))
      BY <1>4, <2>2 DEF ResolveSymmetricSmallPair
    <3>2. h.low \in Participants(h) /\ h.high \in Participants(h) /\ h.low # h.high
      BY HitFacts DEF Participants
    <3>3. Pass!Kills(h) = {h.high}
      BY <1>4, <2>2, KillsByKind DEF ResolveSymmetricSmallPair
    <3> QED BY <1>2, <3>1, <3>2, <3>3
  <2> QED BY <2>1, <2>2
<1>5. CASE ResolveShipVsProjectile(h)
  <2> DEFINE ship == IF h.low \in Ships THEN h.low ELSE h.high
             proj == IF h.low \in Ships THEN h.high ELSE h.low
  <2>1. ~Massive(h) /\ h.low # h.high
    BY <1>5, HitFacts DEF ResolveShipVsProjectile
  <2>2. Participants(h) = {ship, proj} /\ ship # proj
    BY <2>1 DEF Participants
  <2>3. CASE h.energetic
    <3>1. /\ destroyed' = destroyed \cup {ship, proj}
          /\ events' = Append(events, MakeEvent(h, "BothDespawned"))
          /\ vcmWriteBack' = vcmWriteBack
      BY <1>5, <2>3 DEF ResolveShipVsProjectile
    <3> QED BY <1>3, <2>1, <2>2, <2>3, <3>1
  <2>4. CASE ~h.energetic
    <3> DEFINE o == IF h.high = proj THEN "BDespawned" ELSE "ADespawned"
    <3>1. /\ destroyed' = destroyed \cup {proj}
          /\ events' = Append(events, MakeEvent(h, o))
          /\ vcmWriteBack' = With(vcmWriteBack, ship, Combined(h.low, h.high))
      BY <1>5, <2>4 DEF ResolveShipVsProjectile
    <3>2. /\ o \in {"ADespawned", "BDespawned"}
          /\ proj = IF o = "ADespawned" THEN h.low ELSE h.high
      BY <2>1
    <3>3. ship \in Participants(h) /\ proj \in Participants(h)
      BY <2>2
    <3>4. Pass!Kills(h) = {proj}
      BY <1>5, <2>1, <2>4, KillsByKind DEF ResolveShipVsProjectile
    <3> HIDE DEF o, ship, proj
    <3> QED BY <1>2, <2>1, <2>2, <3>1, <3>2, <3>3, <3>4
  <2> QED BY <2>3, <2>4
<1> QED BY <1>1, <1>4, <1>5

-----------------------------------------------------------------------------
\* Events already there keep their place when one is added.
LEMMA EventAdded ==
  ASSUME events \in Seq(Event), NEW ev \in Event, events' = Append(events, ev)
  PROVE  /\ events' \in Seq(Event)
         /\ Len(events) \in Nat
         /\ Len(events') = Len(events) + 1
         /\ \A i \in 1..Len(events) : events'[i] = events[i]
         /\ events'[Len(events) + 1] = ev
BY AppendProperties, LenProperties

\* What the events report grows by the victims of the new one.
LEMMA ReportAdded ==
  ASSUME events \in Seq(Event), NEW ev \in Event, events' = Append(events, ev)
  PROVE  Reported(events') = Reported(events) \cup Victims(ev)
<1>1. /\ Len(events) \in Nat /\ Len(events') = Len(events) + 1
      /\ \A i \in 1..Len(events) : events'[i] = events[i]
      /\ events'[Len(events) + 1] = ev
  BY EventAdded
<1>2. 1..Len(events') = 1..Len(events) \cup {Len(events) + 1}
  BY <1>1
<1>3. \A x : (\E i \in 1..Len(events') : x \in Victims(events'[i]))
             <=> (\E i \in 1..Len(events) : x \in Victims(events[i])) \/ x \in Victims(ev)
  BY <1>1, <1>2
<1>4. \A x : x \in Reported(events') <=> \E i \in 1..Len(events') : x \in Victims(events'[i])
  BY DEF Reported
<1>5. \A x : x \in Reported(events) <=> \E i \in 1..Len(events) : x \in Victims(events[i])
  BY DEF Reported
<1> QED BY <1>3, <1>4, <1>5

\* What an entity has absorbed grows by the victim of the new event if that event
\* is between the two.
LEMMA AbsorbedAdded ==
  ASSUME TypeOK, NEW h \in Hit, NEW ev \in Event, Resolves(h, ev), passStart' = passStart,
         NEW e \in Small
  PROVE  AbsorbedBy(e)' = AbsorbedBy(e) \cup
           {x \in Small : Participants(h) = {e, x} /\ Victims(ev) = {x}}
<1>1. /\ Len(events) \in Nat /\ Len(events') = Len(events) + 1
      /\ \A i \in 1..Len(events) : events'[i] = events[i]
      /\ events'[Len(events) + 1] = ev
  BY EventAdded DEF Resolves, TypeOK
<1>2. passStart \in Nat /\ passStart <= Len(events) /\ passStart' = passStart
  BY <1>1 DEF TypeOK
<1>3. (passStart' + 1)..Len(events') = (passStart + 1)..Len(events) \cup {Len(events) + 1}
  BY <1>1, <1>2
<1>4. \A i \in (passStart + 1)..Len(events) : events'[i] = events[i]
  BY <1>1, <1>2
<1>5. {ev.netIdA, ev.netIdB} = Participants(h)
  BY DEF Resolves, Participants
<1>6. ASSUME NEW x \in Small
      PROVE  x \in AbsorbedBy(e)' <=>
               \/ x \in AbsorbedBy(e)
               \/ Participants(h) = {e, x} /\ Victims(ev) = {x}
  <2>1. x \in AbsorbedBy(e)' <=>
          \E i \in (passStart' + 1)..Len(events') :
            /\ {events'[i].netIdA, events'[i].netIdB} = {e, x}
            /\ Victims(events'[i]) = {x}
    BY DEF AbsorbedBy, Victims
  <2>2. x \in AbsorbedBy(e) <=>
          \E i \in (passStart + 1)..Len(events) :
            /\ {events[i].netIdA, events[i].netIdB} = {e, x}
            /\ Victims(events[i]) = {x}
    BY DEF AbsorbedBy
  <2> QED BY <1>1, <1>3, <1>4, <1>5, <2>1, <2>2
<1>7. AbsorbedBy(e) \subseteq Small /\ AbsorbedBy(e)' \subseteq Small
  BY DEF AbsorbedBy
<1> QED BY <1>6, <1>7

\* One turn of the loop, as seen by the proofs.
LEMMA ResolveHitCases ==
  ASSUME NEW h \in pending, IInv, ResolveHit(h)
  PROVE  /\ h \in Hit /\ h \in hits /\ pc = "resolve"
         /\ pending' = pending \ {h}
         /\ UNCHANGED <<alive, pc, hits, velocity, passes, passStart>>
         /\ \/ /\ Skipped(h)
               /\ UNCHANGED <<destroyed, vcmWriteBack, events>>
            \/ /\ ~Skipped(h)
               /\ \E ev \in Event : Resolves(h, ev)
<1>1. h \in Hit /\ h \in hits
  BY DEF IInv, TypeOK
<1>2. \/ ResolveSkip(h)
      \/ ResolveSmallVsMassive(h)
      \/ ResolveSymmetricSmallPair(h)
      \/ ResolveShipVsProjectile(h)
  BY DEF ResolveHit
<1>3. ResolveSkip(h) \/ (~Skipped(h) /\ \E ev \in Event : Resolves(h, ev))
  BY <1>1, <1>2, UnskippedResolves
     DEF ResolveSmallVsMassive, ResolveSymmetricSmallPair, ResolveShipVsProjectile
<1> QED BY <1>1, <1>3 DEF ResolveHit, ResolveSkip

-----------------------------------------------------------------------------
LEMMA InitInvariant == Init => IInv
<1> SUFFICES ASSUME Init PROVE IInv
  OBVIOUS
<1>1. TypeOK
  <2>1. velocity \in [alive -> SUBSET Small]
    BY DEF Init, Own
  <2>2. events \in Seq(Event) /\ Len(events) = 0
    BY DEF Init
  <2>3. DOMAIN vcmWriteBack = {}
    BY DEF Init
  <2> QED BY <2>1, <2>2, <2>3, PassesAssumption DEF Init, TypeOK
<1>2. PassIsOverTheLiving
  BY DEF Init, PassIsOverTheLiving
<1>3. Len(events) = 0 /\ events = << >> /\ hits = {} /\ destroyed = {} /\ alive = Small
  BY DEF Init
<1>4. 1..Len(events) = {} /\ (passStart + 1)..Len(events) = {}
  BY <1>3 DEF Init
<1>5. EventsAccountForDespawns /\ TheDestroyedHitNothing /\ EveryHitCosts
  BY <1>3, <1>4 DEF EventsAccountForDespawns, Reported, TheDestroyedHitNothing, EveryHitCosts
<1>6. \A e : AbsorbedBy(e) = {}
  BY <1>4 DEF AbsorbedBy
<1>7. DOMAIN vcmWriteBack = {} /\ velocity = [e \in Small |-> Own(e)]
  BY DEF Init
<1>8. WriteBackHasEvent /\ SurvivorsMoveWithWhatTheyHit
  BY <1>3, <1>6, <1>7 DEF WriteBackHasEvent, SurvivorsMoveWithWhatTheyHit
<1> QED BY <1>1, <1>2, <1>5, <1>8 DEF IInv

\* A new pass starts from the entities alive, with nothing destroyed or absorbed.
LEMMA BeginPassKeepsInvariant ==
  ASSUME IInv, NEW hs \in Geometries, BeginPass(hs)
  PROVE  IInv'
<1>1. /\ alive' = alive /\ events' = events /\ passStart' = Len(events)
      /\ hits' = hs /\ pending' = hs /\ destroyed' = {} /\ pc' = "resolve" /\ pc = "idle"
      /\ vcmWriteBack' = << >> /\ velocity' = [e \in alive |-> Own(e)]
      /\ passes' = passes + 1 /\ passes < MaxPasses
      /\ \A h \in hs : Participants(h) \subseteq alive \cup Bodies
  BY DEF BeginPass
<1>2. alive \subseteq Small /\ events \in Seq(Event) /\ passes \in 0..MaxPasses
  BY DEF IInv, TypeOK
<1>3. Len(events) \in Nat /\ (Len(events) + 1)..Len(events) = {}
  BY <1>2, LenProperties
<1>4. DOMAIN vcmWriteBack' = {}
  BY <1>1
<1>5. TypeOK'
  <2>1. hs \in SUBSET Hit
    BY GeometriesAssumption
  <2>2. velocity' \in [alive -> SUBSET Small]
    BY <1>1, <1>2 DEF Own
  <2>3. passes' \in 0..MaxPasses
    BY <1>1, <1>2, PassesAssumption
  <2>4. passStart' \in 0..Len(events')
    BY <1>1, <1>3
  <2> QED BY <1>1, <1>2, <1>4, <2>1, <2>2, <2>3, <2>4 DEF TypeOK
<1>6. PassIsOverTheLiving'
  BY <1>1 DEF PassIsOverTheLiving, Participants
<1>7. EventsAccountForDespawns'
  BY <1>1 DEF IInv, PassIsOverTheLiving, EventsAccountForDespawns, TypeOK
<1>8. TheDestroyedHitNothing'
  BY <1>1 DEF IInv, TheDestroyedHitNothing
<1>9. EveryHitCosts' /\ SurvivorsMoveWithWhatTheyHit'
  BY <1>1 DEF EveryHitCosts, SurvivorsMoveWithWhatTheyHit
<1>10. WriteBackHasEvent'
  <2>1. ASSUME NEW e PROVE AbsorbedBy(e)' = {}
    BY <1>1, <1>3 DEF AbsorbedBy
  <2> QED BY <1>4, <2>1 DEF WriteBackHasEvent
<1> QED BY <1>5, <1>6, <1>7, <1>8, <1>9, <1>10 DEF IInv

\* Erasing the destroyed at the end of a pass, with the survivors' velocities.
LEMMA ApplyKeepsInvariant ==
  ASSUME IInv, ApplyAndErase
  PROVE  IInv'
<1>1. /\ pc = "resolve" /\ pc' = "idle" /\ pending = {} /\ alive' = alive \ destroyed
      /\ velocity' = [e \in alive \ destroyed |->
                        IF e \in DOMAIN vcmWriteBack THEN vcmWriteBack[e] ELSE velocity[e]]
      /\ UNCHANGED <<hits, pending, destroyed, vcmWriteBack, events, passes, passStart>>
  BY DEF ApplyAndErase, passVars
<1>2. TypeOK'
  <2>1. velocity' \in [alive' -> SUBSET Small]
    BY <1>1 DEF IInv, TypeOK
  <2> QED BY <1>1, <2>1 DEF IInv, TypeOK
<1>3. PassIsOverTheLiving'
  BY <1>1 DEF PassIsOverTheLiving
<1>4. EventsAccountForDespawns'
  BY <1>1 DEF IInv, TypeOK, PassIsOverTheLiving, EventsAccountForDespawns
<1>5. TheDestroyedHitNothing' /\ EveryHitCosts'
  BY <1>1 DEF IInv, TheDestroyedHitNothing, EveryHitCosts
<1>6. \A e : AbsorbedBy(e)' = AbsorbedBy(e)
  BY <1>1 DEF AbsorbedBy
<1>7. WriteBackHasEvent'
  BY <1>1, <1>6 DEF IInv, WriteBackHasEvent
<1>8. SurvivorsMoveWithWhatTheyHit'
  <2> SUFFICES ASSUME NEW e \in alive'
               PROVE  IF AbsorbedBy(e)' = {}
                      THEN velocity'[e] = Own(e)
                      ELSE \E x \in AbsorbedBy(e)' : velocity'[e] = Combined(e, x)
    BY DEF SurvivorsMoveWithWhatTheyHit
  <2>1. e \in alive \ destroyed /\ e \in Small
    BY <1>1 DEF IInv, TypeOK
  <2>2. velocity[e] = Own(e)
    BY <1>1, <2>1 DEF IInv, PassIsOverTheLiving
  <2>3. e \in DOMAIN vcmWriteBack <=> AbsorbedBy(e) # {}
    BY <2>1 DEF IInv, WriteBackHasEvent
  <2>4. e \in DOMAIN vcmWriteBack =>
          \E x \in AbsorbedBy(e) : vcmWriteBack[e] = Combined(e, x)
    BY DEF IInv, WriteBackHasEvent
  <2>5. velocity'[e] = IF e \in DOMAIN vcmWriteBack THEN vcmWriteBack[e] ELSE velocity[e]
    BY <1>1, <2>1
  <2> QED BY <1>6, <2>2, <2>3, <2>4, <2>5
<1> QED BY <1>2, <1>3, <1>4, <1>5, <1>7, <1>8 DEF IInv

\* One turn of the loop: a skipped hit had lost a participant already; any other
\* destroys entities that were alive and unreported, and reports them.
LEMMA ResolveHitKeepsInvariant ==
  ASSUME IInv, NEW h \in pending, ResolveHit(h)
  PROVE  IInv'
<1>1. /\ h \in Hit /\ h \in hits /\ pc = "resolve" /\ pending' = pending \ {h}
      /\ alive' = alive /\ pc' = pc /\ hits' = hits /\ velocity' = velocity
      /\ passes' = passes /\ passStart' = passStart
  BY ResolveHitCases
<1>2. /\ destroyed \subseteq alive /\ Participants(h) \subseteq alive \cup Bodies
      /\ alive \subseteq Small /\ events \in Seq(Event) /\ Small \cap Bodies = {}
  BY <1>1, IdsAssumption DEF IInv, PassIsOverTheLiving, TypeOK
<1>3. SurvivorsMoveWithWhatTheyHit'
  BY <1>1 DEF SurvivorsMoveWithWhatTheyHit
<1>4. CASE Skipped(h) /\ UNCHANGED <<destroyed, vcmWriteBack, events>>
  <2>1. TypeOK' /\ PassIsOverTheLiving'
    BY <1>1, <1>4 DEF IInv, TypeOK, PassIsOverTheLiving
  <2>2. EventsAccountForDespawns' /\ TheDestroyedHitNothing'
    BY <1>1, <1>4 DEF IInv, EventsAccountForDespawns, TheDestroyedHitNothing
  <2>3. EveryHitCosts'
    <3>1. Participants(h) \cap destroyed # {}
      BY <1>4 DEF Skipped
    <3>2. Massive(h) => Participants(h) \ Bodies \subseteq destroyed
      BY <1>1, <1>2, <3>1, HitFacts DEF Participants
    <3> QED BY <1>1, <1>4, <3>1, <3>2 DEF IInv, EveryHitCosts
  <2>4. WriteBackHasEvent'
    <3>1. \A e : AbsorbedBy(e)' = AbsorbedBy(e)
      BY <1>1, <1>4 DEF AbsorbedBy
    <3> QED BY <1>4, <3>1 DEF IInv, WriteBackHasEvent
  <2> QED BY <1>3, <2>1, <2>2, <2>3, <2>4 DEF IInv
<1>5. ASSUME ~Skipped(h), NEW ev \in Event, Resolves(h, ev)
      PROVE  IInv'
  <2>1. /\ {ev.netIdA, ev.netIdB} = Participants(h)
        /\ events' = Append(events, ev)
        /\ destroyed' = destroyed \cup Victims(ev)
        /\ Victims(ev) # {} /\ Victims(ev) \subseteq Participants(h) \ Bodies
        /\ Massive(h) => Victims(ev) = Participants(h) \ Bodies
    BY <1>5 DEF Resolves, Participants
  <2>2. Participants(h) \cap destroyed = {} /\ Victims(ev) \subseteq alive
    BY <1>2, <1>5, <2>1 DEF Skipped
  <2>3. /\ events' \in Seq(Event) /\ Len(events) \in Nat /\ Len(events') = Len(events) + 1
        /\ \A i \in 1..Len(events) : events'[i] = events[i]
        /\ events'[Len(events) + 1] = ev
    BY <1>2, <2>1, EventAdded
  <2>4. TypeOK'
    <3>1. /\ DOMAIN vcmWriteBack' \subseteq Small
          /\ \A e \in DOMAIN vcmWriteBack' : vcmWriteBack'[e] \subseteq Small
      <4>1. /\ DOMAIN vcmWriteBack \subseteq Small
            /\ \A e \in DOMAIN vcmWriteBack : vcmWriteBack[e] \subseteq Small
        BY DEF IInv, TypeOK
      <4>2. CASE vcmWriteBack' = vcmWriteBack
        BY <4>1, <4>2
      <4>3. ASSUME NEW a \in Small, NEW b \in Small,
                   vcmWriteBack' = With(vcmWriteBack, a, Combined(a, b))
            PROVE  /\ DOMAIN vcmWriteBack' \subseteq Small
                   /\ \A e \in DOMAIN vcmWriteBack' : vcmWriteBack'[e] \subseteq Small
        BY <4>1, <4>3 DEF With, Combined
      <4> QED BY <1>5, <4>2, <4>3 DEF Resolves
    <3>2. passStart' \in 0..Len(events')
      BY <1>1, <2>3 DEF IInv, TypeOK
    <3>3. velocity' \in [alive' -> SUBSET Small]
      BY <1>1 DEF IInv, TypeOK
    <3>4. destroyed' \subseteq Small
      BY <1>2, <2>1, <2>2
    <3> QED BY <1>1, <2>3, <3>1, <3>2, <3>3, <3>4 DEF IInv, TypeOK
  <2>5. PassIsOverTheLiving'
    BY <1>1, <1>2, <2>1, <2>2 DEF IInv, PassIsOverTheLiving
  <2>6. EventsAccountForDespawns'
    <3>1. Reported(events') = Reported(events) \cup Victims(ev)
      BY <1>2, <2>1, ReportAdded
    <3> QED BY <1>1, <2>1, <3>1 DEF IInv, EventsAccountForDespawns
  <2>7. TheDestroyedHitNothing'
    <3> SUFFICES ASSUME NEW i \in 1..Len(events'), NEW j \in 1..Len(events'), i < j
                 PROVE  Victims(events'[i]) \cap {events'[j].netIdA, events'[j].netIdB} = {}
      BY DEF TheDestroyedHitNothing, Victims
    <3>1. CASE j \in 1..Len(events)
      <4>1. i \in 1..Len(events)
        BY <2>3, <3>1
      <4> QED BY <2>3, <3>1, <4>1 DEF IInv, TheDestroyedHitNothing
    <3>2. CASE j = Len(events) + 1
      <4>1. i \in 1..Len(events) /\ events'[i] = events[i] /\ events'[j] = ev
        BY <2>3, <3>2
      <4>2. Victims(events[i]) \subseteq Reported(events)
        BY <4>1 DEF Reported
      <4>3. Reported(events) = (Small \ alive) \cup destroyed
        BY DEF IInv, EventsAccountForDespawns
      <4>4. Participants(h) \cap Reported(events) = {}
        BY <1>2, <2>2, <4>3
      <4> QED BY <2>1, <4>1, <4>2, <4>4
    <3> QED BY <2>3, <3>1, <3>2
  <2>8. EveryHitCosts'
    <3>1. Participants(h) \cap destroyed' # {}
      BY <2>1
    <3>2. Massive(h) => Participants(h) \ Bodies \subseteq destroyed'
      BY <2>1
    <3> QED BY <1>1, <2>1, <3>1, <3>2 DEF IInv, EveryHitCosts
  <2>9. WriteBackHasEvent'
    <3>1. \A e \in Small : AbsorbedBy(e)' = AbsorbedBy(e) \cup
            {x \in Small : Participants(h) = {e, x} /\ Victims(ev) = {x}}
      BY <1>1, <1>5, AbsorbedAdded DEF IInv
    <3>2. /\ DOMAIN vcmWriteBack = {e \in Small : AbsorbedBy(e) # {}}
          /\ \A e \in DOMAIN vcmWriteBack :
               \E x \in AbsorbedBy(e) : vcmWriteBack[e] = Combined(e, x)
      BY DEF IInv, WriteBackHasEvent
    <3>3. CASE /\ vcmWriteBack' = vcmWriteBack
               /\ ~\E e \in Small, x \in Small : Participants(h) = {e, x} /\ Victims(ev) = {x}
      <4>1. \A e \in Small : AbsorbedBy(e)' = AbsorbedBy(e)
        BY <3>1, <3>3
      <4> QED BY <3>2, <3>3, <4>1 DEF WriteBackHasEvent
    <3>4. ASSUME NEW a \in Small, NEW b \in Small, a # b, Participants(h) = {a, b},
                 Victims(ev) = {b}, vcmWriteBack' = With(vcmWriteBack, a, Combined(a, b))
          PROVE  WriteBackHasEvent'
      <4>1. AbsorbedBy(a)' = AbsorbedBy(a) \cup {b}
        BY <3>1, <3>4
      <4>2. \A e \in Small \ {a} : AbsorbedBy(e)' = AbsorbedBy(e)
        <5>1. ASSUME NEW e \in Small \ {a}, NEW x \in Small
              PROVE  ~(Participants(h) = {e, x} /\ Victims(ev) = {x})
          <6>1. SUFFICES ASSUME {a, b} = {e, x}, {b} = {x} PROVE FALSE
            BY <3>4
          <6>2. x = b /\ a \in {e, x}
            BY <6>1
          <6> QED BY <3>4, <6>2
        <5> QED BY <3>1, <5>1
      <4>3. DOMAIN vcmWriteBack' = DOMAIN vcmWriteBack \cup {a}
        BY <3>4 DEF With
      <4>4. \A e \in DOMAIN vcmWriteBack' :
              vcmWriteBack'[e] = IF e = a THEN Combined(a, b) ELSE vcmWriteBack[e]
        BY <3>4 DEF With
      <4>5. DOMAIN vcmWriteBack' = {e \in Small : AbsorbedBy(e)' # {}}
        BY <3>2, <4>1, <4>2, <4>3
      <4>6. \A e \in DOMAIN vcmWriteBack' :
              \E x \in AbsorbedBy(e)' : vcmWriteBack'[e] = Combined(e, x)
        BY <3>2, <4>1, <4>2, <4>3, <4>4
      <4> QED BY <4>5, <4>6 DEF WriteBackHasEvent, Combined
    <3> QED BY <1>5, <3>3, <3>4 DEF Resolves
  <2> QED BY <1>3, <2>4, <2>5, <2>6, <2>7, <2>8, <2>9 DEF IInv
<1> QED BY <1>4, <1>5, ResolveHitCases

\* The inductive invariant holds in every reachable state.
THEOREM PassInvariant == Spec => []IInv
<1>1. IInv /\ [Next]_vars => IInv'
  <2> SUFFICES ASSUME IInv, [Next]_vars PROVE IInv'
    OBVIOUS
  <2>1. ASSUME NEW hs \in Geometries, BeginPass(hs) PROVE IInv'
    BY <2>1, BeginPassKeepsInvariant
  <2>2. ASSUME NEW h \in pending, ResolveHit(h) PROVE IInv'
    BY <2>2, ResolveHitKeepsInvariant
  <2>3. CASE ApplyAndErase
    BY <2>3, ApplyKeepsInvariant
  <2>4. CASE UNCHANGED vars
    <3>1. \A e : AbsorbedBy(e)' = AbsorbedBy(e)
      BY <2>4 DEF vars, AbsorbedBy
    <3> QED BY <2>4, <3>1
            DEF vars, IInv, TypeOK, PassIsOverTheLiving, EventsAccountForDespawns,
                TheDestroyedHitNothing, EveryHitCosts, WriteBackHasEvent,
                SurvivorsMoveWithWhatTheyHit
  <2> QED BY <2>1, <2>2, <2>3, <2>4 DEF Next
<1> QED BY <1>1, InitInvariant, PTL DEF Spec

\* Whatever the geometry, the events of every pass report exactly the entities
\* it erases.
THEOREM ReportsAreExact == Spec => []EventsAccountForDespawns
<1>1. IInv => EventsAccountForDespawns
  BY DEF IInv
<1> QED BY <1>1, PassInvariant, PTL

\* No entity is destroyed twice or hits anything after it was destroyed, within a
\* pass or across the passes of a tick.
THEOREM NoHitOfTheDestroyed == Spec => []TheDestroyedHitNothing
<1>1. IInv => TheDestroyedHitNothing
  BY DEF IInv
<1> QED BY <1>1, PassInvariant, PTL

\* No hit is without consequence, and nothing survives a massive body, however
\* the hits that come first turn out.
THEOREM HitsAlwaysCost == Spec => []EveryHitCosts
<1>1. IInv => EveryHitCosts
  BY DEF IInv
<1> QED BY <1>1, PassInvariant, PTL

\* A survivor's velocity after a pass is its own or that of a hit it survived.
THEOREM SurvivorVelocities == Spec => []SurvivorsMoveWithWhatTheyHit
<1>1. IInv => SurvivorsMoveWithWhatTheyHit
  BY DEF IInv
<1> QED BY <1>1, PassInvariant, PTL

-----------------------------------------------------------------------------
\* The sort key tells any two hits of different pairs apart.
LEMMA HitOrderIsTotal ==
  ASSUME NEW g \in Hit, NEW h \in Hit
  PROVE  /\ ~HitBefore(g, g)
         /\ ~(HitBefore(g, h) /\ HitBefore(h, g))
         /\ Participants(g) # Participants(h) => HitBefore(g, h) \/ HitBefore(h, g)
<1>1. /\ g.toi \in Nat /\ g.low \in Nat /\ g.high \in Nat
      /\ h.toi \in Nat /\ h.low \in Nat /\ h.high \in Nat
  BY HitFacts, ToisAssumption, IdsAssumption
<1>2. Participants(g) # Participants(h) => g.low # h.low \/ g.high # h.high
  BY DEF Participants
<1> QED BY <1>1, <1>2 DEF HitBefore

\* An event belongs to one hit of the pass at most.
LEMMA EventOfOneHit ==
  ASSUME OneHitPerPair(hits), NEW g \in hits, NEW h \in hits, NEW i,
         EventOf(g, i), EventOf(h, i)
  PROVE  g = h
<1>1. Participants(g) = Participants(h)
  BY DEF EventOf, Participants
<1> QED BY <1>1 DEF OneHitPerPair

\* A skipped hit was preempted; the other hits' events and causes stay as they are.
LEMMA SkipKeepsOrder ==
  ASSUME IInv, OrderInv, NEW h \in pending, ResolveHit(h),
         Skipped(h), UNCHANGED <<destroyed, vcmWriteBack, events>>
  PROVE  OrderInv'
<1>1. /\ h \in Hit /\ h \in hits /\ pending' = pending \ {h} /\ hits' = hits
      /\ passStart' = passStart /\ events' = events /\ hits' \ pending' = (hits \ pending) \cup {h}
      /\ hits \subseteq Hit /\ pending \subseteq hits
  BY ResolveHitCases DEF IInv, TypeOK
<1>2. OneHitPerPair(hits)' /\ EventsHaveHits' /\ DestroyedHaveEvents'
  BY <1>1 DEF OrderInv, OneHitPerPair, EventsHaveHits, DestroyedHaveEvents, EventOf
<1>3. ResolvedInOrder'
  <2>1. ASSUME NEW k \in pending \ {h} PROVE HitBefore(h, k)
    <3>1. ~HitBefore(k, h)
      BY DEF ResolveHit, Next1
    <3>2. Participants(k) # Participants(h)
      BY <1>1 DEF OrderInv, OneHitPerPair
    <3> QED BY <1>1, <3>1, <3>2, HitOrderIsTotal
  <2> QED BY <1>1, <2>1 DEF OrderInv, ResolvedInOrder
<1>4. \A g : \A k : Preempts(g, k)' <=> Preempts(g, k)
  BY <1>1 DEF Preempts, EventOf
<1>5. ~\E i \in DOMAIN events : EventOf(h, i)
  <2> SUFFICES ASSUME NEW i \in DOMAIN events, EventOf(h, i) PROVE FALSE
    OBVIOUS
  <2>1. PICK g \in hits \ pending : EventOf(g, i)
    BY DEF OrderInv, EventsHaveHits, EventOf
  <2>2. g = h
    BY <1>1, <2>1, EventOfOneHit DEF OrderInv
  <2> QED BY <2>1, <2>2
<1>6. \E g \in hits : Preempts(g, h)
  <2>1. PICK x \in destroyed : x \in Participants(h)
    BY DEF Skipped
  <2>2. PICK i \in (passStart + 1)..Len(events) : x \in Victims(events[i])
    BY <2>1 DEF OrderInv, DestroyedHaveEvents
  <2>3. PICK g \in hits \ pending : EventOf(g, i)
    BY <2>2 DEF OrderInv, EventsHaveHits
  <2>4. HitBefore(g, h)
    BY <2>3 DEF OrderInv, ResolvedInOrder
  <2>5. i \in DOMAIN events
    <3>1. DOMAIN events = 1..Len(events) /\ Len(events) \in Nat /\ passStart \in Nat
      BY LenProperties DEF IInv, TypeOK
    <3> QED BY <2>2, <3>1
  <2> QED BY <2>1, <2>2, <2>3, <2>4, <2>5 DEF Preempts
<1>7. OutcomeIsDetermined'
  <2> SUFFICES ASSUME NEW k \in (hits \ pending) \cup {h}
               PROVE  (\E i \in DOMAIN events : EventOf(k, i)) <=> ~\E g \in hits : Preempts(g, k)
    BY <1>1, <1>4 DEF OutcomeIsDetermined, EventOf
  <2>1. CASE k = h
    BY <1>5, <1>6, <2>1
  <2>2. CASE k \in hits \ pending
    BY <2>2 DEF OrderInv, OutcomeIsDetermined
  <2> QED BY <2>1, <2>2
<1> QED BY <1>2, <1>3, <1>7 DEF OrderInv

\* A hit that takes effect was preempted by none, preempts none taken before it,
\* and its event is its own.
LEMMA EffectKeepsOrder ==
  ASSUME IInv, OrderInv, NEW h \in pending, ResolveHit(h),
         ~Skipped(h), NEW ev \in Event, Resolves(h, ev)
  PROVE  OrderInv'
<1>1. /\ h \in Hit /\ h \in hits /\ pending' = pending \ {h} /\ hits' = hits
      /\ passStart' = passStart /\ hits' \ pending' = (hits \ pending) \cup {h}
      /\ hits \subseteq Hit /\ pending \subseteq hits
  BY ResolveHitCases DEF IInv, TypeOK
<1>2. /\ ev.toi = h.toi /\ ev.netIdA = h.low /\ ev.netIdB = h.high
      /\ events' = Append(events, ev) /\ destroyed' = destroyed \cup Victims(ev)
  BY DEF Resolves
<1>a. events \in Seq(Event) /\ passStart \in 0..Len(events)
  BY DEF IInv, TypeOK
<1>b. PICK n \in Nat : n = Len(events)
  BY <1>a, LenProperties
<1>c. /\ events' \in Seq(Event) /\ Len(events') = n + 1
      /\ \A i \in 1..n : events'[i] = events[i]
      /\ events'[n + 1] = ev
  BY <1>2, <1>a, <1>b, EventAdded
<1>d. DOMAIN events = 1..n /\ DOMAIN events' = 1..(n + 1)
  <2>1. DOMAIN events = 1..n
    BY <1>a, <1>b, LenProperties
  <2>2. DOMAIN events' = 1..(n + 1)
    BY <1>c, LenProperties
  <2> QED BY <2>1, <2>2
<1>3. /\ events' \in Seq(Event) /\ n \in Nat /\ Len(events') = n + 1
      /\ \A i \in 1..n : events'[i] = events[i]
      /\ events'[n + 1] = ev
      /\ DOMAIN events = 1..n /\ DOMAIN events' = 1..(n + 1)
      /\ passStart \in Nat /\ passStart <= n
  BY <1>a, <1>b, <1>c, <1>d
<1>4. \A g : \A i \in 1..n : EventOf(g, i)' <=> EventOf(g, i)
  BY <1>1, <1>3, <1>b DEF EventOf
<1>5. EventOf(h, n + 1)'
  BY <1>1, <1>2, <1>3 DEF EventOf
<1>6. \A g \in hits : EventOf(g, n + 1)' => g = h
  <2> SUFFICES ASSUME NEW g \in hits, EventOf(g, n + 1)' PROVE g = h
    OBVIOUS
  <2>1. g.low = h.low /\ g.high = h.high
    BY <1>2, <1>3 DEF EventOf
  <2> QED BY <1>1, <2>1 DEF OrderInv, OneHitPerPair, Participants
<1>7. \A i \in 1..n : \A k : EventOf(k, i) => Victims(events[i]) \subseteq destroyed
  BY DEF OrderInv, DestroyedHaveEvents, EventOf
<1>8. ResolvedInOrder'
  <2>1. ASSUME NEW k \in pending \ {h} PROVE HitBefore(h, k)
    <3>1. ~HitBefore(k, h)
      BY DEF ResolveHit, Next1
    <3>2. Participants(k) # Participants(h)
      BY <1>1 DEF OrderInv, OneHitPerPair
    <3> QED BY <1>1, <3>1, <3>2, HitOrderIsTotal
  <2> QED BY <1>1, <2>1 DEF OrderInv, ResolvedInOrder
<1>9. EventsHaveHits'
  <2> SUFFICES ASSUME NEW i \in (passStart + 1)..(n + 1)
               PROVE  \E g \in (hits \ pending) \cup {h} : EventOf(g, i)'
    BY <1>1, <1>3 DEF EventsHaveHits
  <2>1. CASE i = n + 1
    BY <1>5, <2>1
  <2>2. CASE i \in (passStart + 1)..n
    <3>1. PICK g \in hits \ pending : EventOf(g, i)
      BY <2>2, <1>b DEF OrderInv, EventsHaveHits
    <3> QED BY <1>3, <1>4, <2>2, <3>1
  <2> QED BY <1>3, <2>1, <2>2
<1>10. DestroyedHaveEvents'
  <2>1. (passStart' + 1)..Len(events') = ((passStart + 1)..n) \cup {n + 1}
    BY <1>1, <1>3
  <2>2. \A i \in (passStart + 1)..n : events'[i] = events[i]
    BY <1>3
  <2>3. \A x : x \in destroyed <=> \E i \in (passStart + 1)..n : x \in Victims(events[i])
    BY <1>b DEF OrderInv, DestroyedHaveEvents
  <2>4. \A x : x \in destroyed' <=>
          \E i \in (passStart' + 1)..Len(events') : x \in Victims(events'[i])
    BY <1>2, <1>3, <2>1, <2>2, <2>3
  <2> QED BY <2>4 DEF DestroyedHaveEvents, Victims
<1>11. OutcomeIsDetermined'
  <2> SUFFICES ASSUME NEW k \in (hits \ pending) \cup {h}
               PROVE  (\E i \in DOMAIN events' : EventOf(k, i)')
                        <=> ~\E g \in hits : Preempts(g, k)'
    BY <1>1 DEF OutcomeIsDetermined
  <2>1. CASE k = h
    <3>1. ASSUME NEW g \in hits, Preempts(g, h)' PROVE FALSE
      <4>1. HitBefore(g, h)
        BY <3>1 DEF Preempts, HitBefore
      <4>2. PICK i \in 1..(n + 1) :
              EventOf(g, i)' /\ Victims(events'[i]) \cap Participants(h) # {}
        BY <1>3, <3>1 DEF Preempts, Victims, Participants
      <4>3. CASE i = n + 1
        BY <1>1, <1>6, <4>1, <4>2, <4>3, HitOrderIsTotal
      <4>4. CASE i \in 1..n
        BY <1>3, <1>4, <1>7, <4>2, <4>4 DEF Skipped
      <4> QED BY <1>3, <4>3, <4>4
    <3> QED BY <1>3, <1>5, <2>1, <3>1
  <2>2. CASE k \in hits \ pending
    <3>1. k # h /\ HitBefore(k, h) /\ k \in hits /\ k \in Hit
      BY <1>1, <2>2 DEF OrderInv, ResolvedInOrder
    <3>2. (\E i \in DOMAIN events' : EventOf(k, i)') <=> \E i \in DOMAIN events : EventOf(k, i)
      <4>1. ~EventOf(k, n + 1)'
        BY <1>6, <3>1
      <4> QED BY <1>3, <1>4, <4>1
    <3>3. ASSUME NEW g \in hits PROVE Preempts(g, k)' <=> Preempts(g, k)
      <4>1. ~(HitBefore(g, k) /\ EventOf(g, n + 1)')
        BY <1>1, <1>6, <3>1, HitOrderIsTotal
      <4>2. Preempts(g, k)' <=>
              /\ HitBefore(g, k)
              /\ \E i \in 1..(n + 1) :
                   EventOf(g, i)' /\ Victims(events'[i]) \cap Participants(k) # {}
        BY <1>3 DEF Preempts, Victims, Participants, HitBefore
      <4>3. Preempts(g, k) <=>
              /\ HitBefore(g, k)
              /\ \E i \in 1..n :
                   EventOf(g, i) /\ Victims(events[i]) \cap Participants(k) # {}
        BY <1>3 DEF Preempts
      <4> QED BY <1>3, <1>4, <4>1, <4>2, <4>3
    <3>4. (\E i \in DOMAIN events : EventOf(k, i)) <=> ~\E g \in hits : Preempts(g, k)
      BY <2>2 DEF OrderInv, OutcomeIsDetermined
    <3> QED BY <3>2, <3>3, <3>4
  <2> QED BY <2>1, <2>2
<1>12. OneHitPerPair(hits)'
  BY <1>1 DEF OrderInv, OneHitPerPair
<1> QED BY <1>8, <1>9, <1>10, <1>11, <1>12 DEF OrderInv

\* The hits are taken in their order, and each event is that of one of them.
LEMMA OrderHolds == Spec => []OrderInv
<1>1. Init => OrderInv
  <2> SUFFICES ASSUME Init PROVE OrderInv
    OBVIOUS
  <2>1. hits = {} /\ pending = {} /\ destroyed = {} /\ (passStart + 1)..Len(events) = {}
    BY DEF Init
  <2> QED BY <2>1 DEF OrderInv, OneHitPerPair, ResolvedInOrder, EventsHaveHits,
                      DestroyedHaveEvents, OutcomeIsDetermined
<1>2. IInv /\ OrderInv /\ [Next]_vars => OrderInv'
  <2> SUFFICES ASSUME IInv, OrderInv, [Next]_vars PROVE OrderInv'
    OBVIOUS
  <2>1. ASSUME NEW hs \in Geometries, BeginPass(hs) PROVE OrderInv'
    <3>1. /\ hits' = hs /\ pending' = hs /\ destroyed' = {} /\ events' = events
          /\ passStart' = Len(events)
      BY <2>1 DEF BeginPass
    <3>2. (passStart' + 1)..Len(events') = {}
      <4>1. Len(events) \in Nat
        BY LenProperties DEF IInv, TypeOK
      <4> QED BY <3>1, <4>1
    <3>3. OneHitPerPair(hs)
      BY GeometriesAssumption
    <3> QED BY <3>1, <3>2, <3>3
            DEF OrderInv, OneHitPerPair, ResolvedInOrder, EventsHaveHits,
                DestroyedHaveEvents, OutcomeIsDetermined, Participants
  <2>2. ASSUME NEW h \in pending, ResolveHit(h) PROVE OrderInv'
    BY <2>2, ResolveHitCases, SkipKeepsOrder, EffectKeepsOrder
  <2>3. CASE UNCHANGED <<hits, pending, destroyed, events, passStart>>
    BY <2>3 DEF OrderInv, OneHitPerPair, ResolvedInOrder, EventsHaveHits,
                DestroyedHaveEvents, OutcomeIsDetermined, EventOf, Preempts
  <2> QED BY <2>1, <2>2, <2>3 DEF Next, ApplyAndErase, passVars, vars
<1> QED BY <1>1, <1>2, PassInvariant, PTL DEF Spec

\* Which hits of a pass take effect is decided by the geometry: a hit does unless
\* an earlier one, by the sort key, destroyed one of its participants.
THEOREM OutcomesAreDetermined == Spec => []OutcomeIsDetermined
<1>1. OrderInv => OutcomeIsDetermined
  BY DEF OrderInv
<1> QED BY <1>1, OrderHolds, PTL

-----------------------------------------------------------------------------
\* The abstract pass has the words of the detailed one.
LEMMA SameWords ==
  /\ \A h : Pass!Participants(h) = Participants(h)
  /\ \A g, h : Pass!Earlier(g, h) <=> HitBefore(g, h)
BY DEF Pass!Participants, Participants, Pass!Earlier, HitBefore

\* A hit that takes effect has the new event, all others those they had.
LEMMA EventsAfterEffect ==
  ASSUME IInv, OrderInv, NEW h \in pending, ResolveHit(h),
         ~Skipped(h), NEW ev \in Event, Resolves(h, ev)
  PROVE  /\ Effective' = Effective \cup {h}
         /\ \A k \in hits : \A i \in DOMAIN events' : EventOf(k, i)' =>
              \/ i \in DOMAIN events /\ EventOf(k, i) /\ events'[i] = events[i]
              \/ k = h /\ events'[i] = ev
<1>1. /\ h \in Hit /\ h \in hits /\ pending' = pending \ {h} /\ hits' = hits
      /\ passStart' = passStart /\ hits' \ pending' = (hits \ pending) \cup {h}
      /\ hits \subseteq Hit /\ pending \subseteq hits
  BY ResolveHitCases DEF IInv, TypeOK
<1>2. /\ ev.toi = h.toi /\ ev.netIdA = h.low /\ ev.netIdB = h.high
      /\ events' = Append(events, ev)
  BY DEF Resolves
<1>3. events \in Seq(Event) /\ passStart \in 0..Len(events)
  BY DEF IInv, TypeOK
<1>4. PICK n \in Nat : n = Len(events)
  BY <1>3, LenProperties
<1>5. /\ events' \in Seq(Event) /\ Len(events') = n + 1
      /\ \A i \in 1..n : events'[i] = events[i]
      /\ events'[n + 1] = ev
  BY <1>2, <1>3, <1>4, EventAdded
<1>6. DOMAIN events = 1..n /\ DOMAIN events' = 1..(n + 1)
  <2>1. DOMAIN events = 1..n
    BY <1>3, <1>4, LenProperties
  <2>2. DOMAIN events' = 1..(n + 1)
    BY <1>5, LenProperties
  <2> QED BY <2>1, <2>2
<1>7. \A k : \A i \in 1..n : EventOf(k, i)' <=> EventOf(k, i)
  BY <1>1, <1>3, <1>4, <1>5 DEF EventOf
<1>8. EventOf(h, n + 1)'
  BY <1>1, <1>2, <1>3, <1>4, <1>5 DEF EventOf
<1>9. \A k \in hits : EventOf(k, n + 1)' => k = h
  <2> SUFFICES ASSUME NEW k \in hits, EventOf(k, n + 1)' PROVE k = h
    OBVIOUS
  <2>1. k.low = h.low /\ k.high = h.high
    BY <1>2, <1>5 DEF EventOf
  <2> QED BY <1>1, <2>1 DEF OrderInv, OneHitPerPair, Participants
<1>10. \A i \in 1..(n + 1) : i \in 1..n \/ i = n + 1
  BY <1>4
<1>11. 1..n \subseteq 1..(n + 1) /\ n + 1 \in 1..(n + 1)
  BY <1>4
<1>12. \A k \in (hits \ pending) \cup {h} :
         (\E i \in DOMAIN events' : EventOf(k, i)')
           <=> k = h \/ (k \in hits \ pending /\ \E i \in DOMAIN events : EventOf(k, i))
  BY <1>1, <1>6, <1>7, <1>8, <1>9, <1>10, <1>11
<1>13. Effective' = Effective \cup {h}
  BY <1>1, <1>12 DEF Effective
<1> QED BY <1>5, <1>6, <1>7, <1>9, <1>10, <1>13

\* A turn of the loop keeps the verdicts, and what is written back is of the last
\* hit taken.
LEMMA EffectKeepsVerdict ==
  ASSUME IInv, OrderInv, VerdictInv, NEW h \in pending, ResolveHit(h),
         ~Skipped(h), NEW ev \in Event, Resolves(h, ev)
  PROVE  VerdictInv'
<1>1. /\ h \in Hit /\ h \in hits /\ pending' = pending \ {h} /\ hits' = hits
      /\ hits' \ pending' = (hits \ pending) \cup {h}
      /\ pending \subseteq hits
  BY ResolveHitCases DEF IInv, TypeOK
<1>2. Victims(ev) = Pass!Kills(h)
  BY DEF Resolves
<1>3. EventsTellWhoDies'
  <2>1. ASSUME NEW k \in hits' \ pending', NEW i \in DOMAIN events', EventOf(k, i)'
        PROVE  Victims(events'[i]) = Pass!Kills(k)
    <3>1. CASE i \in DOMAIN events /\ EventOf(k, i) /\ events'[i] = events[i]
      <4>1. k \in hits \ pending
        <5>1. PICK g \in hits \ pending : EventOf(g, i)
          BY <3>1 DEF EventOf, OrderInv, EventsHaveHits
        <5>2. g = k
          BY <1>1, <2>1, <3>1, <5>1, EventOfOneHit DEF OrderInv
        <5> QED BY <5>1, <5>2
      <4> QED BY <3>1, <4>1 DEF VerdictInv, EventsTellWhoDies
    <3>2. CASE k = h /\ events'[i] = ev
      BY <1>2, <3>2
    <3> QED BY <1>1, <2>1, <3>1, <3>2, EventsAfterEffect
  <2> QED BY <2>1 DEF EventsTellWhoDies, Victims, Pass!Kills, Pass!Participants
<1>4. Effective' = Effective \cup {h}
  BY EventsAfterEffect
<1>5. \A e : Pass!Survived(e, Effective)' =
             {k \in Effective \cup {h} : e \in Participants(k) \ Pass!Kills(k)}
  BY <1>4 DEF Pass!Survived, Pass!Participants, Participants, Pass!Kills
<1>6. \A e : Pass!Survived(e, Effective) =
             {k \in Effective : e \in Participants(k) \ Pass!Kills(k)}
  BY SameWords DEF Pass!Survived
<1>7. \A k \in Effective : HitBefore(k, h) /\ k # h
  BY DEF Effective, OrderInv, ResolvedInOrder
<1>8. /\ DOMAIN vcmWriteBack = {e \in Small : Pass!Survived(e, Effective) # {}}
      /\ \A e \in DOMAIN vcmWriteBack :
           \E k \in Pass!Survived(e, Effective) :
             /\ vcmWriteBack[e] = Participants(k)
             /\ \A g \in Pass!Survived(e, Effective) \ {k} : HitBefore(g, k)
  BY DEF VerdictInv, WriteBackIsOfTheLastHit
<1>9. SUFFICES
        /\ DOMAIN vcmWriteBack' = {e \in Small : Pass!Survived(e, Effective)' # {}}
        /\ \A e \in DOMAIN vcmWriteBack' :
             \E k \in Pass!Survived(e, Effective)' :
               /\ vcmWriteBack'[e] = Participants(k)
               /\ \A g \in Pass!Survived(e, Effective)' \ {k} : HitBefore(g, k)
  BY <1>3 DEF VerdictInv, WriteBackIsOfTheLastHit, Participants, HitBefore
<1>10. CASE /\ vcmWriteBack' = vcmWriteBack
            /\ ~\E e \in Small, x \in Small : Participants(h) = {e, x} /\ Victims(ev) = {x}
  <2>1. \A e \in Small : e \notin Participants(h) \ Pass!Kills(h)
    <3> SUFFICES ASSUME NEW e \in Small, e \in Participants(h) \ Pass!Kills(h) PROVE FALSE
      OBVIOUS
    <3>1. ~Massive(h)
      BY <1>2, IdsAssumption DEF Resolves
    <3>2. /\ h.low \in Small /\ h.high \in Small /\ h.low # h.high
          /\ Participants(h) = {h.low, h.high}
      BY <1>1, <3>1, HitFacts DEF Participants
    <3>3. Victims(ev) # {} /\ Victims(ev) \subseteq {h.low, h.high} /\ e \notin Victims(ev)
      BY <1>2, <3>2 DEF Resolves
    <3>4. \E x \in Small : Participants(h) = {e, x} /\ Victims(ev) = {x}
      <4>1. CASE e = h.low
        BY <3>2, <3>3, <4>1
      <4>2. CASE e = h.high
        BY <3>2, <3>3, <4>2
      <4> QED BY <3>2, <4>1, <4>2
    <3> QED BY <1>10, <3>4
  <2>2. \A e \in Small : Pass!Survived(e, Effective)' = Pass!Survived(e, Effective)
    BY <1>5, <1>6, <2>1
  <2> QED BY <1>8, <1>10, <2>2
<1>11. ASSUME NEW a \in Small, NEW b \in Small, a # b, Participants(h) = {a, b},
              Victims(ev) = {b}, vcmWriteBack' = With(vcmWriteBack, a, Combined(a, b))
       PROVE  /\ DOMAIN vcmWriteBack' = {e \in Small : Pass!Survived(e, Effective)' # {}}
              /\ \A e \in DOMAIN vcmWriteBack' :
                   \E k \in Pass!Survived(e, Effective)' :
                     /\ vcmWriteBack'[e] = Participants(k)
                     /\ \A g \in Pass!Survived(e, Effective)' \ {k} : HitBefore(g, k)
  <2>1. \A e : e \in Participants(h) \ Pass!Kills(h) <=> e = a
    BY <1>2, <1>11
  <2>2. Pass!Survived(a, Effective)' = Pass!Survived(a, Effective) \cup {h}
    BY <1>5, <1>6, <2>1
  <2>3. \A e \in Small \ {a} : Pass!Survived(e, Effective)' = Pass!Survived(e, Effective)
    BY <1>5, <1>6, <2>1
  <2>4. Pass!Survived(a, Effective) \subseteq Effective
    BY <1>6
  <2>5. /\ DOMAIN vcmWriteBack' = DOMAIN vcmWriteBack \cup {a}
        /\ \A e \in DOMAIN vcmWriteBack' :
             vcmWriteBack'[e] = IF e = a THEN Participants(h) ELSE vcmWriteBack[e]
    BY <1>11 DEF With, Combined
  <2>6. DOMAIN vcmWriteBack' = {e \in Small : Pass!Survived(e, Effective)' # {}}
    BY <1>8, <2>2, <2>3, <2>5
  <2>7. \A g \in Pass!Survived(a, Effective)' \ {h} : HitBefore(g, h)
    BY <1>7, <2>2, <2>4
  <2>8. ASSUME NEW e \in DOMAIN vcmWriteBack'
        PROVE  \E k \in Pass!Survived(e, Effective)' :
                 /\ vcmWriteBack'[e] = Participants(k)
                 /\ \A g \in Pass!Survived(e, Effective)' \ {k} : HitBefore(g, k)
    <3>1. CASE e = a
      BY <2>2, <2>5, <2>7, <3>1
    <3>2. CASE e # a
      BY <1>8, <2>3, <2>5, <2>6, <3>2
    <3> QED BY <3>1, <3>2
  <2> QED BY <2>6, <2>8
<1>12. \/ /\ vcmWriteBack' = vcmWriteBack
          /\ ~\E e \in Small, x \in Small : Participants(h) = {e, x} /\ Victims(ev) = {x}
       \/ \E a \in Small, b \in Small :
            /\ a # b
            /\ Participants(h) = {a, b}
            /\ Victims(ev) = {b}
            /\ vcmWriteBack' = With(vcmWriteBack, a, Combined(a, b))
  BY DEF Resolves
<1> QED BY <1>10, <1>11, <1>12

\* A hit not taken yet has no event.
LEMMA NoEventBeforeItsTurn ==
  ASSUME IInv, OrderInv, NEW h \in pending, NEW i, EventOf(h, i)
  PROVE  FALSE
<1>1. PICK g \in hits \ pending : EventOf(g, i)
  BY DEF EventOf, OrderInv, EventsHaveHits
<1>2. g = h
  BY <1>1, EventOfOneHit DEF OrderInv, IInv, TypeOK
<1> QED BY <1>1, <1>2

\* The second invariant of a pass: what its events and its write-backs stand for.
LEMMA VerdictsHold == Spec => []VerdictInv
<1>1. Init => VerdictInv
  <2> SUFFICES ASSUME Init PROVE VerdictInv
    OBVIOUS
  <2>1. hits = {} /\ Effective = {} /\ DOMAIN vcmWriteBack = {}
    BY DEF Init, Effective
  <2> QED BY <2>1 DEF VerdictInv, EventsTellWhoDies, WriteBackIsOfTheLastHit, Pass!Survived
<1>2. IInv /\ OrderInv /\ VerdictInv /\ [Next]_vars => VerdictInv'
  <2> SUFFICES ASSUME IInv, OrderInv, VerdictInv, [Next]_vars PROVE VerdictInv'
    OBVIOUS
  <2>1. ASSUME NEW hs \in Geometries, BeginPass(hs) PROVE VerdictInv'
    <3>1. hits' \ pending' = {} /\ DOMAIN vcmWriteBack' = {}
      BY <2>1 DEF BeginPass
    <3>2. Effective' = {}
      BY <3>1 DEF Effective
    <3> QED BY <3>1, <3>2 DEF VerdictInv, EventsTellWhoDies, WriteBackIsOfTheLastHit, Pass!Survived
  <2>2. ASSUME NEW h \in pending, ResolveHit(h), Skipped(h),
               UNCHANGED <<destroyed, vcmWriteBack, events>>
        PROVE  VerdictInv'
    <3>1. /\ hits' = hits /\ pending' = pending \ {h} /\ passStart' = passStart
          /\ hits' \ pending' = (hits \ pending) \cup {h} /\ events' = events
          /\ vcmWriteBack' = vcmWriteBack
      BY <2>2, ResolveHitCases
    <3>2. \A i : ~EventOf(h, i)
      BY <2>2, NoEventBeforeItsTurn
    <3>3. \A k, i : EventOf(k, i)' <=> EventOf(k, i)
      BY <3>1 DEF EventOf
    <3>4. Effective' = Effective
      BY <3>1, <3>2, <3>3 DEF Effective
    <3>5. EventsTellWhoDies'
      <4>1. ASSUME NEW k \in hits' \ pending', NEW i \in DOMAIN events', EventOf(k, i)'
            PROVE  Victims(events[i]) = Pass!Kills(k)
        <5>1. EventOf(k, i) /\ k # h
          BY <3>2, <3>3, <4>1
        <5> QED BY <3>1, <4>1, <5>1 DEF VerdictInv, EventsTellWhoDies
      <4> QED BY <3>1, <4>1 DEF EventsTellWhoDies, Victims, Pass!Kills, Pass!Participants
    <3>6. \A e : Pass!Survived(e, Effective)' = Pass!Survived(e, Effective)
      BY <3>4 DEF Pass!Survived, Pass!Participants, Pass!Kills
    <3>7. WriteBackIsOfTheLastHit'
      BY <3>1, <3>6 DEF VerdictInv, WriteBackIsOfTheLastHit, Participants, HitBefore
    <3> QED BY <3>5, <3>7 DEF VerdictInv
  <2>3. ASSUME NEW h \in pending, ResolveHit(h) PROVE VerdictInv'
    BY <2>2, <2>3, ResolveHitCases, EffectKeepsVerdict
  <2>4. CASE UNCHANGED <<hits, pending, vcmWriteBack, events, passStart>>
    <3>1. \A k, i : EventOf(k, i)' <=> EventOf(k, i)
      BY <2>4 DEF EventOf
    <3>2. Effective' = Effective
      BY <2>4, <3>1 DEF Effective
    <3>3. \A e : Pass!Survived(e, Effective)' = Pass!Survived(e, Effective)
      BY <3>2 DEF Pass!Survived, Pass!Participants, Pass!Kills
    <3>4. EventsTellWhoDies'
      BY <2>4, <3>1 DEF VerdictInv, EventsTellWhoDies, Victims, Pass!Kills, Pass!Participants
    <3>5. WriteBackIsOfTheLastHit'
      BY <2>4, <3>3 DEF VerdictInv, WriteBackIsOfTheLastHit, Participants, HitBefore
    <3> QED BY <3>4, <3>5 DEF VerdictInv
  <2> QED BY <2>1, <2>3, <2>4 DEF Next, ApplyAndErase, passVars, vars
<1> QED BY <1>1, <1>2, PassInvariant, OrderHolds, PTL DEF Spec

-----------------------------------------------------------------------------
LEMMA PassInit == Init => Pass!Init
<1> SUFFICES ASSUME Init PROVE Pass!Init
  OBVIOUS
<1>1. Told = {}
  BY DEF Init, Told
<1>2. ReportedByPasses = {}
  BY <1>1 DEF ReportedByPasses
<1> QED BY <1>2 DEF Init, Pass!Init, Small, Own

LEMMA PassBegins ==
  ASSUME IInv, NEW hs \in Geometries, BeginPass(hs)
  PROVE  Pass!Begin
<1>1. /\ pc = "idle" /\ alive # {} /\ pc' = "resolve" /\ hits' = hs
      /\ velocity' = [e \in alive |-> Own(e)] /\ alive' = alive /\ events' = events
      /\ passStart' = Len(events)
      /\ \A h \in hs : Participants(h) \subseteq alive \cup Bodies
  BY DEF BeginPass
<1>2. hs \in SUBSET Pass!Hit
  BY GeometriesAssumption DEF Hit, Pass!Hit, Pass!NetId, NetId, Small
<1>3. Pass!OneHitPerPair(hs)
  BY GeometriesAssumption, SameWords DEF OneHitPerPair, Pass!OneHitPerPair
<1>4. Told' = Told
  BY <1>1 DEF Told
<1>5. ReportedByPasses' = ReportedByPasses
  BY <1>1, <1>4 DEF ReportedByPasses, Victims
<1> QED BY <1>1, <1>2, <1>3, <1>5, SameWords DEF Pass!Begin, Own

\* The loop does nothing that can be seen from outside a pass.
LEMMA PassGoesOn ==
  ASSUME IInv, NEW h \in pending, ResolveHit(h)
  PROVE  UNCHANGED Pass!vars
<1>1. /\ pc = "resolve" /\ passStart' = passStart
      /\ UNCHANGED <<alive, pc, hits, velocity>>
      /\ \/ events' = events
         \/ \E ev \in Event : events' = Append(events, ev)
  BY ResolveHitCases DEF Resolves
<1>2. events \in Seq(Event) /\ passStart \in 0..Len(events) /\ Len(events) \in Nat
  BY LenProperties DEF IInv, TypeOK
<1>3. \A i \in 1..passStart : events'[i] = events[i]
  <2>1. \A i \in 1..passStart : i \in 1..Len(events)
    BY <1>2
  <2>2. CASE events' = events
    BY <2>2
  <2>3. ASSUME NEW ev \in Event, events' = Append(events, ev)
        PROVE  \A i \in 1..passStart : events'[i] = events[i]
    BY <1>2, <2>1, <2>3, EventAdded
  <2> QED BY <1>1, <2>2, <2>3
<1>4. Told = 1..passStart /\ Told' = 1..passStart
  BY <1>1 DEF Told
<1>5. ReportedByPasses' = ReportedByPasses
  BY <1>3, <1>4 DEF ReportedByPasses, Victims
<1> QED BY <1>1, <1>5 DEF Pass!vars

\* At the end the hits with an event are the ones that take effect, the destroyed
\* are the dead, and the velocities written back those of the last hits survived.
LEMMA PassFinishes ==
  ASSUME IInv, OrderInv, VerdictInv, ApplyAndErase
  PROVE  Pass!Finish
<1>1. /\ pc = "resolve" /\ pc' = "idle" /\ pending = {} /\ alive' = alive \ destroyed
      /\ velocity' = [e \in alive \ destroyed |->
                        IF e \in DOMAIN vcmWriteBack THEN vcmWriteBack[e] ELSE velocity[e]]
      /\ UNCHANGED <<hits, events, passStart>>
  BY DEF ApplyAndErase, passVars
<1>2. /\ Effective = {h \in hits : \E i \in DOMAIN events : EventOf(h, i)}
      /\ Effective \in SUBSET hits
  BY <1>1 DEF Effective
<1>3. /\ hits \subseteq Hit /\ alive \subseteq Small
      /\ events \in Seq(Event) /\ passStart \in 0..Len(events)
  BY DEF IInv, TypeOK
<1>4. PICK n \in Nat : n = Len(events) /\ DOMAIN events = 1..n
  BY <1>3, LenProperties
<1>5. \A h \in hits : \A i \in DOMAIN events : EventOf(h, i) => Victims(events[i]) = Pass!Kills(h)
  BY <1>1 DEF VerdictInv, EventsTellWhoDies
<1>6. Pass!TakesEffect(Effective)
  <2> SUFFICES ASSUME NEW h \in hits
               PROVE  h \in Effective <=>
                        ~\E g \in Effective : HitBefore(g, h) /\ Pass!Kills(g) \cap Participants(h) # {}
    BY SameWords DEF Pass!TakesEffect
  <2>1. h \in Effective <=> ~\E g \in hits : Preempts(g, h)
    BY <1>1, <1>2 DEF OrderInv, OutcomeIsDetermined
  <2>2. (\E g \in hits : Preempts(g, h)) <=>
          \E g \in Effective : HitBefore(g, h) /\ Pass!Kills(g) \cap Participants(h) # {}
    BY <1>2, <1>5 DEF Preempts
  <2> QED BY <2>1, <2>2
<1>7. destroyed = Pass!Dead(Effective)
  <2>1. \A x : x \in destroyed <=> \E i \in (passStart + 1)..n : x \in Victims(events[i])
    BY <1>4 DEF OrderInv, DestroyedHaveEvents
  <2>2. \A i \in (passStart + 1)..n : i \in DOMAIN events /\ \E g \in hits : EventOf(g, i)
    BY <1>1, <1>3, <1>4 DEF OrderInv, EventsHaveHits
  <2>3. \A g, i : EventOf(g, i) => i \in (passStart + 1)..n
    BY <1>4 DEF EventOf
  <2>4. \A x : x \in destroyed <=> \E h \in Effective : x \in Pass!Kills(h)
    BY <1>2, <1>5, <2>1, <2>2, <2>3
  <2> QED BY <2>4 DEF Pass!Dead
<1>8. ReportedByPasses' = ReportedByPasses \cup destroyed
  <2>1. Told = 1..passStart /\ Told' = 1..n
    BY <1>1, <1>4 DEF Told
  <2>2. 1..n = 1..passStart \cup (passStart + 1)..n
    BY <1>3, <1>4
  <2>3. destroyed = UNION {Victims(events[i]) : i \in (passStart + 1)..n}
    BY <1>4 DEF OrderInv, DestroyedHaveEvents
  <2>4. ReportedByPasses' = UNION {Victims(events[i]) : i \in 1..n}
    BY <1>1, <2>1 DEF ReportedByPasses, Victims
  <2>5. ReportedByPasses = UNION {Victims(events[i]) : i \in 1..passStart}
    BY <2>1 DEF ReportedByPasses
  <2> QED BY <2>2, <2>3, <2>4, <2>5
<1>9. ASSUME NEW e \in alive \ destroyed
      PROVE  Pass!LeavesWith(e, Effective) =
               IF e \in DOMAIN vcmWriteBack THEN vcmWriteBack[e] ELSE velocity[e]
  <2> DEFINE S == Pass!Survived(e, Effective)
  <2>1. e \in DOMAIN vcmWriteBack <=> S # {}
    BY <1>3 DEF VerdictInv, WriteBackIsOfTheLastHit
  <2>2. S \subseteq Hit
    BY <1>2, <1>3 DEF Pass!Survived
  <2>3. ASSUME S # {}
        PROVE  Participants(Pass!Last(S)) = vcmWriteBack[e]
    <3>1. PICK h \in S : /\ vcmWriteBack[e] = Participants(h)
                         /\ \A g \in S \ {h} : HitBefore(g, h)
      BY <2>1, <2>3 DEF VerdictInv, WriteBackIsOfTheLastHit
    <3>2. ASSUME NEW k \in S, \A g \in S \ {k} : HitBefore(g, k) PROVE k = h
      BY <2>2, <3>1, <3>2, HitOrderIsTotal
    <3> HIDE DEF S
    <3>3. Pass!Last(S) = CHOOSE k \in S : \A g \in S \ {k} : HitBefore(g, k)
      BY SameWords DEF Pass!Last
    <3>4. Pass!Last(S) = h
      BY <3>1, <3>2, <3>3
    <3> QED BY <3>1, <3>4
  <2> QED BY <2>1, <2>3, SameWords DEF Pass!LeavesWith
<1>10. velocity' = [e \in alive \ destroyed |-> Pass!LeavesWith(e, Effective)]
  BY <1>1, <1>9
<1> QED BY <1>1, <1>2, <1>6, <1>7, <1>8, <1>10 DEF Pass!Finish

\* A pass is one step from the hits found to their outcome, for any entities,
\* geometry and number of passes: loop, skips, events, deferred write-back and
\* erasure compute what the geometry alone determines.
THEOREM PassIsAtomic == Spec => ImplementsPass
<1>1. IInv /\ OrderInv /\ VerdictInv /\ [Next]_vars => [Pass!Next]_Pass!vars
  <2> SUFFICES ASSUME IInv, OrderInv, VerdictInv, [Next]_vars
               PROVE  [Pass!Next]_Pass!vars
    OBVIOUS
  <2>1. ASSUME NEW hs \in Geometries, BeginPass(hs) PROVE Pass!Next
    BY <2>1, PassBegins DEF Pass!Next
  <2>2. ASSUME NEW h \in pending, ResolveHit(h) PROVE UNCHANGED Pass!vars
    BY <2>2, PassGoesOn
  <2>3. CASE ApplyAndErase
    BY <2>3, PassFinishes DEF Pass!Next
  <2>4. CASE UNCHANGED vars
    <3>1. Told' = Told /\ events' = events
      BY <2>4 DEF vars, Told
    <3>2. ReportedByPasses' = ReportedByPasses
      BY <3>1 DEF ReportedByPasses, Victims
    <3> QED BY <2>4, <3>2 DEF vars, Pass!vars
  <2> QED BY <2>1, <2>2, <2>3, <2>4 DEF Next
<1> QED BY <1>1, PassInit, PassInvariant, OrderHolds, VerdictsHold, PTL
        DEF Spec, ImplementsPass, Pass!Spec

-----------------------------------------------------------------------------
\* A nonempty set of numbers has a least element.
LEMMA LeastBy ==
  ASSUME NEW R, IsWellFoundedOn(R, Nat), \A x, y \in Nat : <<y, x>> \in R <=> y < x,
         NEW S, S \subseteq Nat, S # {}
  PROVE  \E x \in S : \A y \in S : x <= y
<1>1. PICK x \in S : \A y \in S : <<y, x>> \notin R
  BY WFMin
<1>2. \A y \in S : ~(y < x)
  BY <1>1
<1> QED BY <1>2

LEMMA LeastExists ==
  ASSUME NEW S, S \subseteq Nat, S # {}
  PROVE  \E x \in S : \A y \in S : x <= y
<1>1. \A x, y \in Nat : <<y, x>> \in OpToRel(<, Nat) <=> y < x
  BY Zenon DEF OpToRel
<1>2. IsWellFoundedOn(OpToRel(<, Nat), Nat)
  BY NatLessThanWellFounded
<1> QED BY <1>1, <1>2, LeastBy, Zenon

\* Any hits have a first one, by time, then by the lower id, then by the higher.
LEMMA FirstHitExists ==
  ASSUME NEW T, T \subseteq Hit, T # {}
  PROVE  \E h \in T : \A g \in T : ~HitBefore(g, h)
<1>1. \A h \in T : h.toi \in Nat /\ h.low \in Nat /\ h.high \in Nat
  BY HitFacts, ToisAssumption, IdsAssumption
<1>2. PICK a \in T : \A g \in T : a.toi <= g.toi
  <2>1. {h.toi : h \in T} \subseteq Nat /\ {h.toi : h \in T} # {}
    BY <1>1
  <2>2. PICK t \in {h.toi : h \in T} : \A s \in {h.toi : h \in T} : t <= s
    BY <2>1, LeastExists
  <2> QED BY <2>2
<1> DEFINE T1 == {h \in T : h.toi = a.toi}
<1>3. PICK b \in T1 : \A g \in T1 : b.low <= g.low
  <2>1. {h.low : h \in T1} \subseteq Nat /\ {h.low : h \in T1} # {}
    BY <1>1
  <2>2. PICK t \in {h.low : h \in T1} : \A s \in {h.low : h \in T1} : t <= s
    BY <2>1, LeastExists
  <2> QED BY <2>2
<1> DEFINE T2 == {h \in T1 : h.low = b.low}
<1>4. PICK c \in T2 : \A g \in T2 : c.high <= g.high
  <2>1. {h.high : h \in T2} \subseteq Nat /\ {h.high : h \in T2} # {}
    BY <1>1
  <2>2. PICK t \in {h.high : h \in T2} : \A s \in {h.high : h \in T2} : t <= s
    BY <2>1, LeastExists
  <2> QED BY <2>2
<1>5. c \in T /\ c.toi = a.toi /\ c.low = b.low
  BY <1>4
<1>6. ASSUME NEW g \in T, HitBefore(g, c) PROVE FALSE
  <2>1. /\ g.toi \in Nat /\ g.low \in Nat /\ g.high \in Nat
        /\ c.toi \in Nat /\ c.low \in Nat /\ c.high \in Nat
    BY <1>1, <1>5
  <2>2. CASE g.toi < c.toi
    BY <1>2, <1>5, <2>1, <2>2
  <2>3. CASE g.toi = c.toi /\ g.low < c.low
    <3>1. g \in T1
      BY <1>5, <2>3
    <3> QED BY <1>3, <1>5, <2>1, <2>3, <3>1
  <2>4. CASE g.toi = c.toi /\ g.low = c.low /\ g.high < c.high
    <3>1. g \in T2
      BY <1>5, <2>4
    <3> QED BY <1>4, <2>1, <2>4, <3>1
  <2> QED BY <1>6, <2>2, <2>3, <2>4 DEF HitBefore
<1> QED BY <1>5, <1>6

\* Two sets that both take effect agree on the first hit they could differ in.
LEMMA OneOutcome ==
  ASSUME hits \subseteq Hit, NEW E \in SUBSET hits, NEW F \in SUBSET hits,
         Pass!TakesEffect(E), Pass!TakesEffect(F)
  PROVE  E = F
<1> DEFINE T == (E \ F) \cup (F \ E)
<1>1. SUFFICES ASSUME T # {} PROVE FALSE
  OBVIOUS
<1>2. PICK h \in T : \A g \in T : ~HitBefore(g, h)
  <2>1. T \subseteq Hit
    OBVIOUS
  <2> HIDE DEF T
  <2> QED BY <1>1, <2>1, FirstHitExists
<1>3. ASSUME NEW A \in SUBSET hits, NEW B \in SUBSET hits, h \in A \ B,
             Pass!TakesEffect(A), Pass!TakesEffect(B),
             \A g \in B \ A : ~HitBefore(g, h)
      PROVE  FALSE
  <2>1. PICK g \in B : Pass!Earlier(g, h) /\ Pass!Kills(g) \cap Pass!Participants(h) # {}
    BY <1>3 DEF Pass!TakesEffect
  <2>2. g \in A
    BY <1>3, <2>1, SameWords
  <2> QED BY <1>3, <2>1, <2>2 DEF Pass!TakesEffect
<1>4. CASE h \in E \ F
  BY <1>2, <1>3, <1>4
<1>5. CASE h \in F \ E
  BY <1>2, <1>3, <1>5
<1> QED BY <1>4, <1>5

\* A pass has one outcome only: with PassIsAtomic, who survives it, and how fast,
\* is a function of the hits and of nothing else.
THEOREM PassHasOneOutcome == Spec => []OutcomeIsUnique
<1>1. IInv => OutcomeIsUnique
  BY OneOutcome DEF IInv, TypeOK, OutcomeIsUnique
<1> QED BY <1>1, PassInvariant, PTL

=============================================================================
