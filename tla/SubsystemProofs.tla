--------------------------- MODULE SubsystemProofs ---------------------------
(***************************************************************************)
(* The composed client: its runner is a runner, the level has the actors   *)
(* the subsystem holds and no other, and they show one moment of the       *)
(* server's past. The last follows from what the runner proofs say of the  *)
(* buffer: its snapshots are a row of the server's, so that the two the    *)
(* interpolation blends are the server's around the render time.           *)
(***************************************************************************)
EXTENDS SimulationSubsystem, RunnerProofs

-----------------------------------------------------------------------------
(* Interpolation, of any two snapshots.                                     *)

Between(x, a, b) == (a <= x /\ x <= b) \/ (b <= x /\ x <= a)

LEMMA AlphaInRange ==
  ASSUME NEW s0, NEW s1, NEW t \in Int,
         s0.elapsedSeconds \in Int, s1.elapsedSeconds \in Int
  PROVE  LET dt == s1.elapsedSeconds - s0.elapsedSeconds
         IN  /\ Alpha(s0, s1, t) \in Nat
             /\ Alpha(s0, s1, t) # 0 => dt > 0 /\ Alpha(s0, s1, t) <= dt
  BY DEF Alpha, Clamp

\* A part of a way forward is neither backward nor further than the way.
LEMMA PartOfWay ==
  ASSUME NEW dt \in Nat \ {0}, NEW alpha \in 0..dt, NEW way \in Nat
  PROVE  (alpha * way) \div dt \in 0..way
<1>1. alpha * way \in Nat /\ alpha * way <= dt * way /\ dt * way \in Nat
  OBVIOUS
<1> DEFINE n == alpha * way
<1>2. n \div dt \in Nat /\ (n \div dt) * dt <= n
  BY <1>1, WholeTicks
<1> HIDE DEF n
<1>3. ASSUME n \div dt > way PROVE FALSE
  <2>1. dt * way < dt * (n \div dt)
    BY <1>2, <1>3, LaterTick
  <2>2. dt * (n \div dt) = (n \div dt) * dt
    BY <1>2
  <2>3. n <= dt * way /\ n \in Nat
    BY <1>1 DEF n
  <2> QED BY <1>1, <1>2, <2>1, <2>2, <2>3
<1> QED BY <1>2, <1>3 DEF n

\* The same backward, with the quotient rounded down.
LEMMA PartOfWayBack ==
  ASSUME NEW dt \in Nat \ {0}, NEW alpha \in 0..dt, NEW way \in Int, way < 0
  PROVE  (alpha * way) \div dt \in way..0
<1> DEFINE n == alpha * way
<1>1. /\ n \in Int /\ n <= 0
      /\ dt * way \in Int /\ dt * way <= n
  <2>1. (dt - alpha) * way <= 0 /\ (dt - alpha) * way = dt * way - alpha * way
    OBVIOUS
  <2>2. alpha * way \in Int /\ dt * way \in Int /\ alpha * way <= 0
    OBVIOUS
  <2> QED BY <2>1, <2>2
<1> HIDE DEF n
<1>2. /\ n \div dt \in Int
      /\ dt * (n \div dt) <= n
      /\ n < dt * (n \div dt) + dt
      /\ dt * (n \div dt) \in Int
  BY <1>1
<1>3. ASSUME n \div dt > 0 PROVE FALSE
  <2>1. dt * 0 < dt * (n \div dt)
    BY <1>2, <1>3, LaterTick
  <2> QED BY <1>1, <1>2, <2>1
<1>4. ASSUME n \div dt < way PROVE FALSE
  <2>1. dt * ((n \div dt) + 1) <= dt * way
    <3>1. (n \div dt) + 1 <= way /\ (n \div dt) + 1 \in Int
      BY <1>2, <1>4
    <3>2. CASE (n \div dt) + 1 = way
      BY <3>2, <1>1
    <3>3. CASE (n \div dt) + 1 < way
      <4>1. dt * ((n \div dt) + 1) < dt * way
        BY <3>1, <3>3, LaterTick
      <4> QED BY <1>1, <1>2, <4>1
    <3> QED BY <3>1, <3>2, <3>3
  <2>2. dt * ((n \div dt) + 1) = dt * (n \div dt) + dt
    BY <1>2
  <2> QED BY <1>1, <1>2, <2>1, <2>2
<1> QED BY <1>2, <1>3, <1>4 DEF n

LEMMA LerpIsBetween ==
  ASSUME NEW a \in Int, NEW b \in Int, NEW alpha \in Nat, NEW dt \in Int,
         alpha # 0 => dt > 0 /\ alpha <= dt
  PROVE  /\ Lerp(a, b, alpha, dt) \in Int
         /\ Between(Lerp(a, b, alpha, dt), a, b)
         /\ alpha = 0 => Lerp(a, b, alpha, dt) = a
         /\ dt > 0 /\ alpha = dt => Lerp(a, b, alpha, dt) = b
<1>1. CASE alpha = 0
  BY <1>1 DEF Lerp, Between
<1>2. CASE alpha # 0
  <2>1. dt \in Nat \ {0} /\ alpha \in 0..dt
    BY <1>2
  <2> DEFINE way == b - a
             part == (alpha * way) \div dt
  <2>2. Lerp(a, b, alpha, dt) = a + part /\ way \in Int /\ b = a + way
    BY <1>2 DEF Lerp
  <2> HIDE DEF way
  <2>3. way >= 0 => part \in 0..way
    BY <2>1, <2>2, PartOfWay
  <2>4. way < 0 => part \in way..0
    BY <2>1, <2>2, PartOfWayBack
  <2>5. alpha = dt => part = way
    BY <2>1, <2>2, Multiple
  <2> HIDE DEF part
  <2> QED BY <1>2, <2>2, <2>3, <2>4, <2>5 DEF Between
<1> QED BY <1>1, <1>2

IntValued(kind) == \A id \in DOMAIN kind : kind[id] \in Int

\* What a client shows of one kind of entity between two snapshots: those of the later
\* one and no other, each between its two states if it has two; at the end of the
\* interval all are as the later snapshot has them, so that the picture does not jump
\* for those the next interval shows too.
Fits(kind, from, to, ended) ==
  /\ DOMAIN kind = DOMAIN to
  /\ \A id \in DOMAIN to :
       /\ kind[id] \in Int
       /\ id \in DOMAIN from => Between(kind[id], from[id], to[id])
       /\ id \notin DOMAIN from => kind[id] = to[id]
       /\ ended => kind[id] = to[id]

LEMMA BlendedFits ==
  ASSUME NEW from, NEW to, NEW alpha \in Nat, NEW dt \in Int, NEW ended \in BOOLEAN,
         alpha # 0 => dt > 0 /\ alpha <= dt,
         ended => dt > 0 /\ alpha = dt,
         IntValued(from), IntValued(to)
  PROVE  Fits(Blended(from, to, alpha, dt), from, to, ended)
<1>1. DOMAIN Blended(from, to, alpha, dt) = DOMAIN to
  BY DEF Blended
<1>2. ASSUME NEW id \in DOMAIN to
      PROVE  /\ id \in DOMAIN from =>
                  Blended(from, to, alpha, dt)[id] = Lerp(from[id], to[id], alpha, dt)
             /\ id \notin DOMAIN from => Blended(from, to, alpha, dt)[id] = to[id]
  BY DEF Blended
<1>3. ASSUME NEW id \in DOMAIN to, id \in DOMAIN from
      PROVE  /\ Lerp(from[id], to[id], alpha, dt) \in Int
             /\ Between(Lerp(from[id], to[id], alpha, dt), from[id], to[id])
             /\ ended => Lerp(from[id], to[id], alpha, dt) = to[id]
  <2>1. from[id] \in Int /\ to[id] \in Int
    BY <1>3 DEF IntValued
  <2> QED BY <2>1, LerpIsBetween
<1>4. ASSUME NEW id \in DOMAIN to
      PROVE  /\ Blended(from, to, alpha, dt)[id] \in Int
             /\ id \in DOMAIN from => Between(Blended(from, to, alpha, dt)[id], from[id], to[id])
             /\ id \notin DOMAIN from => Blended(from, to, alpha, dt)[id] = to[id]
             /\ ended => Blended(from, to, alpha, dt)[id] = to[id]
  <2>1. CASE id \in DOMAIN from
    BY <2>1, <1>2, <1>3
  <2>2. CASE id \notin DOMAIN from
    BY <2>2, <1>2 DEF IntValued
  <2> QED BY <2>1, <2>2
<1> QED BY <1>1, <1>4 DEF Fits

WorldType(w) ==
  /\ IntValued(w.massiveBodies)
  /\ IntValued(w.ships)
  /\ IntValued(w.projectiles)

\* The same of a whole world, bodies, ships and projectiles, for any two snapshots and
\* any render time, before, between and after them (interpolateWorldState).
THEOREM InterpolationStaysBetween ==
  ASSUME NEW s0, NEW s1, NEW t \in Int,
         s0.elapsedSeconds \in Int, s1.elapsedSeconds \in Int,
         WorldType(s0.world), WorldType(s1.world)
  PROVE  LET shown == InterpolateWorldState(s0, s1, t)
             ended == s0.elapsedSeconds < s1.elapsedSeconds /\ s1.elapsedSeconds <= t
         IN  /\ Fits(shown.massiveBodies, s0.world.massiveBodies, s1.world.massiveBodies, ended)
             /\ Fits(shown.ships, s0.world.ships, s1.world.ships, ended)
             /\ Fits(shown.projectiles, s0.world.projectiles, s1.world.projectiles, ended)
<1> DEFINE dt == s1.elapsedSeconds - s0.elapsedSeconds
           alpha == Alpha(s0, s1, t)
           ended == s0.elapsedSeconds < s1.elapsedSeconds /\ s1.elapsedSeconds <= t
<1>1. /\ alpha \in Nat
      /\ alpha # 0 => dt > 0 /\ alpha <= dt
  BY AlphaInRange
<1>2. dt \in Int /\ ended \in BOOLEAN
  OBVIOUS
<1>3. ended => dt > 0 /\ alpha = dt
  BY DEF Alpha, Clamp
<1>4. InterpolateWorldState(s0, s1, t) =
        [renderTime    |-> t,
         massiveBodies |-> Blended(s0.world.massiveBodies, s1.world.massiveBodies, alpha, dt),
         ships         |-> Blended(s0.world.ships, s1.world.ships, alpha, dt),
         projectiles   |-> Blended(s0.world.projectiles, s1.world.projectiles, alpha, dt)]
  BY DEF InterpolateWorldState
<1> HIDE DEF dt, alpha, ended
<1>5. Fits(Blended(s0.world.massiveBodies, s1.world.massiveBodies, alpha, dt),
           s0.world.massiveBodies, s1.world.massiveBodies, ended)
  BY <1>1, <1>2, <1>3, BlendedFits DEF WorldType
<1>6. Fits(Blended(s0.world.ships, s1.world.ships, alpha, dt),
           s0.world.ships, s1.world.ships, ended)
  BY <1>1, <1>2, <1>3, BlendedFits DEF WorldType
<1>7. Fits(Blended(s0.world.projectiles, s1.world.projectiles, alpha, dt),
           s0.world.projectiles, s1.world.projectiles, ended)
  BY <1>1, <1>2, <1>3, BlendedFits DEF WorldType
<1> QED BY <1>4, <1>5, <1>6, <1>7 DEF ended

-----------------------------------------------------------------------------
(* The picture: what the buffer answers is where the server had the bodies. *)

Ready == IInv /\ PictureInv /\ pc = "render"

\* Every tick the server has reached has a position for each body.
LEMMA TickIsServers ==
  ASSUME Ready, NEW m \in Nat, m <= tickCount \div Interval, NEW b \in Bodies
  PROVE  Interval * m \in Nat /\ PositionOf(b, Interval * m) \in Int
<1>1. /\ tickCount \in Nat /\ tickCount >= Interval
      /\ accumulated \in Nat /\ requested \in 0..MaxRequested
      /\ accumulated + FixedDt * (tickCount - Interval) = requested
  BY DEF Ready, IInv, TypeOK, Owing, TimeIsAccountedFor, TicksRun
<1>2. tickCount - Interval <= MaxRequested
  <2>1. tickCount - Interval \in Nat
    BY <1>1, ConfigAssumption
  <2>2. 1 * (tickCount - Interval) <= FixedDt * (tickCount - Interval)
    BY <2>1, StepAssumption
  <2>3. FixedDt * (tickCount - Interval) \in Nat
    BY <2>1, StepAssumption, TimeOfTicks
  <2> QED BY <1>1, <2>1, <2>2, <2>3, InputAssumption
<1>3. Interval * m \in Nat /\ Interval * m <= tickCount
  <2> DEFINE newest == tickCount \div Interval
  <2>1. newest \in Nat /\ newest * Interval <= tickCount
    BY <1>1, WholeTicks, ConfigAssumption, IntervalAssumption
  <2>2. m <= newest
    OBVIOUS
  <2> HIDE DEF newest
  <2>3. m * Interval <= newest * Interval
    BY <2>1, <2>2, FewerTicks, ConfigAssumption, IntervalAssumption
  <2>4. m * Interval = Interval * m /\ m * Interval \in Nat /\ newest * Interval \in Nat
    BY <2>1, ConfigAssumption
  <2> QED BY <1>1, <2>1, <2>3, <2>4
<1>4. Interval * m \in 0..(Interval + MaxRequested)
  BY <1>1, <1>2, <1>3, ConfigAssumption, InputAssumption
<1> QED BY <1>3, <1>4, PositionAssumption

\* A time within an interval is in it by the rest of its division.
LEMMA WithinInterval ==
  ASSUME NEW d \in Nat \ {0}, NEW m \in Nat, NEW t \in Int, d * m <= t, t < d * m + d
  PROVE  t \div d = m /\ t % d = t - d * m
<1> DEFINE q == t \div d
<1>1. /\ q \in Int /\ d * q \in Int /\ d * m \in Int
      /\ d * q <= t /\ t < d * q + d
      /\ t % d = t - d * q
  OBVIOUS
<1>2. d * (m + 1) = d * m + d /\ d * (q + 1) = d * q + d
  BY <1>1
<1> HIDE DEF q
<1>3. d * m < d * (q + 1) /\ d * q < d * (m + 1)
  BY <1>1, <1>2
<1>4. m < q + 1 /\ q < m + 1
  BY <1>1, <1>3, LaterTick
<1>5. q = m
  BY <1>1, <1>4
<1> QED BY <1>1, <1>5 DEF q

\* Between two snapshots in a row, what the client blends is where the server had the
\* body at that time; at the later one's time too, where the next interval begins.
LEMMA BlendIsServers ==
  ASSUME NEW b \in Bodies, NEW m \in Nat, NEW t \in Int,
         LET d == Interval * ServerDt
         IN  d * m <= t /\ t <= d * m + d,
         PositionOf(b, Interval * m) \in Int,
         PositionOf(b, Interval * m + Interval) \in Int
  PROVE  LET d == Interval * ServerDt
         IN  /\ Lerp(PositionOf(b, Interval * m), PositionOf(b, Interval * m + Interval),
                     t - d * m, d) = ServerPosition(b, t)
             /\ ServerPosition(b, t) \in Int
<1> DEFINE d == Interval * ServerDt
           p == PositionOf(b, Interval * m)
           q == PositionOf(b, Interval * m + Interval)
<1>1. d \in Nat \ {0} /\ d * m \in Nat
  BY StepAssumption, ConfigAssumption, IntervalAssumption
<1>2. ServerPosition(b, t) = Lerp(PositionOf(b, Interval * (t \div d)),
                                  PositionOf(b, Interval * (t \div d) + Interval), t % d, d)
  BY DEF ServerPosition
<1>3. d * m <= t /\ t <= d * m + d
  OBVIOUS
<1>4. p \in Int /\ q \in Int
  OBVIOUS
<1> HIDE DEF d
<1>5. CASE t < d * m + d
  <2>1. t \div d = m /\ t % d = t - d * m
    BY <1>1, <1>3, <1>5, WithinInterval
  <2>2. ServerPosition(b, t) = Lerp(p, q, t - d * m, d)
    BY <1>2, <2>1
  <2>3. t - d * m \in Nat /\ (t - d * m # 0 => d > 0 /\ t - d * m <= d)
    BY <1>1, <1>3
  <2> HIDE DEF p, q
  <2>4. Lerp(p, q, t - d * m, d) \in Int
    BY <1>1, <1>4, <2>3, LerpIsBetween
  <2> QED BY <2>2, <2>4 DEF d, p, q
<1>6. CASE t = d * m + d
  <2>1. t = d * (m + 1) /\ t - d * m = d
    BY <1>1, <1>6
  <2>2. t \div d = m + 1 /\ t % d = 0
    BY <1>1, <2>1, Multiple
  <2>3. Interval * (m + 1) = Interval * m + Interval
    BY ConfigAssumption
  <2>4. ServerPosition(b, t) = q
    BY <1>2, <2>2, <2>3 DEF Lerp
  <2> HIDE DEF p, q
  <2>5. Lerp(p, q, d, d) = q
    BY <1>1, <1>4, LerpIsBetween
  <2>6. Lerp(p, q, t - d * m, d) = q
    BY <2>1, <2>5
  <2> QED BY <1>4, <2>4, <2>6 DEF d, p, q
<1> QED BY <1>1, <1>3, <1>5, <1>6

\* What the buffer answers is the server's world at the render time.
LEMMA PictureIsServers ==
  ASSUME Ready, HasPicture, NEW picture \in Pictures
  PROVE  /\ renderTime \in Int
         /\ DOMAIN picture.massiveBodies = Bodies
         /\ \A b \in Bodies : /\ picture.massiveBodies[b] = ServerPosition(b, renderTime)
                              /\ ServerPosition(b, renderTime) \in Int
<1> DEFINE newest == tickCount \div Interval
           d == Interval * ServerDt
<1>1. /\ newest \in Nat /\ newest >= 1
      /\ Len(window) \in 1..newest
      /\ window # << >>
      /\ latest = SnapshotOf(Interval * newest)
  BY WindowEnds, IntervalAssumption DEF Ready, IInv
<1>2. \A i \in 1..Len(window) : window[i] = SnapshotOf(Interval * (newest - Len(window) + i))
  BY IntervalAssumption DEF Ready, PictureInv, NoSnapshotIsMissed
<1>3. \A b \in Bodies, m \in 0..newest :
        Interval * m \in Nat /\ PositionOf(b, Interval * m) \in Int
  <2> SUFFICES ASSUME NEW b \in Bodies, NEW m \in 0..newest
               PROVE  Interval * m \in Nat /\ PositionOf(b, Interval * m) \in Int
    OBVIOUS
  <2>1. m \in Nat /\ m <= newest
    BY <1>1
  <2> QED BY <2>1, TickIsServers
<1>4. \A m \in 0..newest : /\ ServerDt * (Interval * m) = d * m
                           /\ d * m \in Nat
  BY <1>1, StepAssumption, ConfigAssumption
<1>5. d \in Nat \ {0}
  BY StepAssumption, ConfigAssumption, IntervalAssumption
<1> HIDE DEF newest
<1>6. renderTime \in Int
  BY <1>1, <1>4, ConfigAssumption DEF renderTime, SnapshotOf
<1>7. window[1].elapsedSeconds <= renderTime
      /\ renderTime <= window[Len(window)].elapsedSeconds
  BY DEF HasPicture, Buffer!InRange
<1>8. CASE Len(window) = 1
  <2>1. window[1] = SnapshotOf(Interval * newest)
    BY <1>1, <1>8 DEF latest
  <2>2. renderTime = d * newest
    <3>1. window[1].elapsedSeconds = d * newest
      BY <1>1, <1>4, <2>1 DEF SnapshotOf
    <3> QED BY <1>1, <1>4, <1>6, <1>7, <1>8, <3>1
  <2>3. picture = FromSnapshot(WorldOf(window[1]), renderTime)
    BY <1>8 DEF Pictures
  <2>4. picture.massiveBodies = [b \in Bodies |-> PositionOf(b, Interval * newest)]
    BY <2>1, <2>3 DEF FromSnapshot, WorldOf, SnapshotOf
  <2>5. ASSUME NEW b \in Bodies
        PROVE  ServerPosition(b, renderTime) = PositionOf(b, Interval * newest)
    <3> HIDE DEF d
    <3>1. renderTime \div d = newest /\ renderTime % d = 0
      BY <1>1, <1>5, <2>2, Multiple
    <3> QED BY <3>1 DEF ServerPosition, Lerp, d
  <2> QED BY <1>1, <1>3, <1>6, <2>4, <2>5
<1>9. CASE Len(window) # 1
  <2>1. PICK i \in 1..(Len(window) - 1) :
          /\ window[i].elapsedSeconds <= renderTime
          /\ renderTime <= window[i + 1].elapsedSeconds
          /\ picture = InterpolateWorldState(WorldOf(window[i]), WorldOf(window[i + 1]), renderTime)
    BY <1>9 DEF Pictures
  <2> DEFINE m == newest - Len(window) + i
  <2>2. m \in 0..newest /\ m + 1 \in 0..newest /\ i + 1 \in 1..Len(window) /\ i \in 1..Len(window)
        /\ newest - Len(window) + (i + 1) = m + 1
    BY <1>1
  <2>3. window[i] = SnapshotOf(Interval * m) /\ window[i + 1] = SnapshotOf(Interval * (m + 1))
    BY <1>2, <2>2
  <2> HIDE DEF m
  <2>4. Interval * (m + 1) = Interval * m + Interval /\ d * (m + 1) = d * m + d
        /\ m \in Nat
    BY <1>1, <1>5, <2>2, ConfigAssumption
  <2>5. /\ window[i].elapsedSeconds = d * m
        /\ window[i + 1].elapsedSeconds = d * m + d
        /\ window[i].world = Interval * m
        /\ window[i + 1].world = Interval * m + Interval
    BY <1>4, <2>2, <2>3, <2>4 DEF SnapshotOf
  <2>6. d * m \in Nat /\ d * m <= renderTime /\ renderTime <= d * m + d
    BY <1>4, <2>1, <2>2, <2>5
  <2>7. /\ WorldOf(window[i]).elapsedSeconds = d * m
        /\ WorldOf(window[i + 1]).elapsedSeconds = d * m + d
        /\ WorldOf(window[i]).world.massiveBodies = [b \in Bodies |-> PositionOf(b, Interval * m)]
        /\ WorldOf(window[i + 1]).world.massiveBodies =
             [b \in Bodies |-> PositionOf(b, Interval * m + Interval)]
    BY <2>5 DEF WorldOf
  <2> HIDE DEF d
  <2>8. Alpha(WorldOf(window[i]), WorldOf(window[i + 1]), renderTime) = renderTime - d * m
    BY <1>5, <1>6, <2>6, <2>7 DEF Alpha, Clamp
  <2>9. WorldOf(window[i + 1]).elapsedSeconds - WorldOf(window[i]).elapsedSeconds = d
    BY <1>5, <2>6, <2>7
  <2>10. picture.massiveBodies =
           Blended([b \in Bodies |-> PositionOf(b, Interval * m)],
                   [b \in Bodies |-> PositionOf(b, Interval * m + Interval)],
                   renderTime - d * m, d)
    BY <2>1, <2>7, <2>8, <2>9 DEF InterpolateWorldState
  <2>11. DOMAIN picture.massiveBodies = Bodies
    BY <2>10 DEF Blended
  <2>12. ASSUME NEW b \in Bodies
         PROVE  picture.massiveBodies[b] =
                  Lerp(PositionOf(b, Interval * m), PositionOf(b, Interval * m + Interval),
                       renderTime - d * m, d)
    BY <2>10 DEF Blended
  <2>13. ASSUME NEW b \in Bodies
         PROVE  /\ Lerp(PositionOf(b, Interval * m), PositionOf(b, Interval * m + Interval),
                        renderTime - d * m, d) = ServerPosition(b, renderTime)
                /\ ServerPosition(b, renderTime) \in Int
    <3>1. PositionOf(b, Interval * m) \in Int /\ PositionOf(b, Interval * m + Interval) \in Int
      BY <1>3, <2>2, <2>4
    <3> QED BY <1>6, <2>4, <2>6, <3>1, BlendIsServers DEF d
  <2> QED BY <1>6, <2>11, <2>12, <2>13
<1> QED BY <1>8, <1>9

-----------------------------------------------------------------------------
(* The composition: every step of the subsystem is one of its runner, or    *)
(* leaves the runner alone.                                                 *)

LEMMA SubsystemStep == [SubsystemNext]_subsystemVars => [Next]_vars
<1> SUFFICES ASSUME [SubsystemNext]_subsystemVars PROVE [Next]_vars
  OBVIOUS
<1>1. CASE BeginFrame
  BY <1>1 DEF BeginFrame, Run, Next
<1>2. CASE Run(RunTick) \/ Run(EndAdvance)
  BY <1>2 DEF Run, Next, FrameStep
<1>3. CASE Present
  BY <1>3 DEF Present, Next, FrameStep
<1>4. ASSUME NEW factor \in Scales, Run(SetTimeScaleFactor(factor))
      PROVE  [Next]_vars
  BY <1>4 DEF Run, Next
<1>5. ASSUME NEW a \in DOMAIN placed, EngineDestroysActor(a)
      PROVE  UNCHANGED vars
  BY <1>5 DEF EngineDestroysActor, vars
<1>6. CASE Deinitialize
  BY <1>6 DEF Deinitialize, vars
<1>7. CASE UNCHANGED subsystemVars
  BY <1>7 DEF subsystemVars, vars
<1> QED BY <1>1, <1>2, <1>3, <1>4, <1>5, <1>6, <1>7 DEF SubsystemNext, EngineFrame

\* The subsystem drives its runner as the runner's specification has it: what is
\* proved of the runner holds in the client.
THEOREM SubsystemRunsTheRunner == SubsystemSpec => Spec
<1>1. SubsystemInit => Init
  BY DEF SubsystemInit
<1> QED BY <1>1, SubsystemStep, PTL DEF SubsystemSpec, Spec

-----------------------------------------------------------------------------
(* The level. An actor that is in it is the one under its NetId, so that a  *)
(* body without one has a serial free for a new one.                        *)

LevelInv == SubsystemTypeOK /\ EveryActorIsHeld /\ LevelShowsOneMoment

LEMMA NewActorIsNew ==
  ASSUME SubsystemTypeOK, EveryActorIsHeld, NEW b \in Bodies, ~IsHeld(b)
  PROVE  NewActor(b) \in Actor /\ NewActor(b).netId = b /\ NewActor(b) \notin DOMAIN placed
<1>1. PICK s \in Serials : TRUE
  BY ActorAssumption
<1> DEFINE a == [netId |-> b, serial |-> s]
<1>2. a \in Actor /\ a.netId = b
  BY DEF Actor
<1>3. a # stale
  BY <1>2, ActorAssumption DEF Actor
<1>4. a \notin DOMAIN placed
  BY <1>2, <1>3 DEF EveryActorIsHeld, IsHeld
<1> QED BY <1>2, <1>4 DEF NewActor

LEMMA PlacementTyped ==
  ASSUME NEW x \in Int, NEW origin \in Int, NEW b
  PROVE  Placement(x, origin, b) \in [location : Int, light : {-1, 0, 1}]
<1>1. Sign(x - origin) \in {-1, 0, 1}
  BY DEF Sign
<1>2. SunDisplayDistance * Sign(x - origin) \in Int
  BY <1>1, CameraAssumption
<1>3. ToUEPosition(x, origin, b) \in Int
  BY <1>2 DEF ToUEPosition, ToRenderPosition
<1>4. Sign(ToUEPosition(x, origin, b)) \in {-1, 0, 1}
  BY <1>3 DEF Sign
<1>5. -Sign(ToUEPosition(x, origin, b)) \in {-1, 0, 1}
  BY <1>4
<1> QED BY <1>3, <1>5 DEF Placement

\* After a pass over all bodies the level is as the invariant says: the actors that
\* were there and the new ones, each under its NetId and all placed.
LEMMA ReconcileKeepsLevel ==
  ASSUME SubsystemTypeOK, EveryActorIsHeld, running, running' = running,
         NEW bodies, DOMAIN bodies = Bodies, \A b \in Bodies : bodies[b] \in Int,
         NEW origin \in Int, NEW spawned \in SUBSET Missing(bodies),
         ReconcilePlanets(bodies, origin, spawned)
  PROVE  /\ EveryActorIsHeld'
         /\ DOMAIN placed' \subseteq Actor
         /\ \A a \in DOMAIN placed' :
              /\ a.netId \in Bodies
              /\ placed'[a] = Placement(bodies[a.netId], origin, a.netId)
              /\ placed'[a] \in [location : Int, light : {-1, 0, 1}]
         /\ DOMAIN planetActors' \subseteq Bodies
         /\ \A b \in DOMAIN planetActors' : planetActors'[b] \in Actor \cup {stale}
<1>1. /\ DOMAIN planetActors \subseteq Bodies
      /\ \A b \in DOMAIN planetActors : planetActors[b] \in Actor \cup {stale}
      /\ DOMAIN placed \subseteq Actor
  BY DEF SubsystemTypeOK
<1>2. /\ \A a \in DOMAIN placed : a.netId \in DOMAIN planetActors /\ planetActors[a.netId] = a
      /\ \A b \in DOMAIN planetActors :
           planetActors[b] # stale => planetActors[b] \in DOMAIN placed
  BY DEF EveryActorIsHeld
<1>3. \A b \in spawned : b \in Bodies /\ ~IsHeld(b)
  BY DEF Missing
<1>4. \A b \in spawned :
        NewActor(b) \in Actor /\ NewActor(b).netId = b /\ NewActor(b) \notin DOMAIN placed
  BY <1>3, NewActorIsNew
<1>5. \A a \in Actor : a # stale /\ a.netId \in Bodies
  BY ActorAssumption DEF Actor
<1>6. /\ DOMAIN planetActors' = DOMAIN planetActors \cup spawned
      /\ \A b \in spawned : planetActors'[b] = NewActor(b)
      /\ \A b \in DOMAIN planetActors \ spawned : planetActors'[b] = planetActors[b]
  <2>1. planetActors' = [b \in DOMAIN planetActors \cup spawned |->
                           IF b \in spawned THEN NewActor(b) ELSE planetActors[b]]
    <3>1. (DOMAIN planetActors \cup spawned) \cap DOMAIN bodies = DOMAIN planetActors \cup spawned
      BY <1>1, <1>3
    <3> QED BY <3>1 DEF ReconcilePlanets, Repointed
  <2> QED BY <2>1
<1>7. DOMAIN placed' = DOMAIN placed \cup {NewActor(b) : b \in spawned}
  <2>1. {planetActors[b] : b \in DOMAIN planetActors \ DOMAIN bodies} = {}
    BY <1>1
  <2> QED BY <2>1 DEF ReconcilePlanets, Remaining
<1>8. \A a \in DOMAIN placed' :
        a \in Actor /\ a.netId \in DOMAIN planetActors' /\ planetActors'[a.netId] = a
  <2>1. ASSUME NEW a \in DOMAIN placed
        PROVE  a \in Actor /\ a.netId \in DOMAIN planetActors' /\ planetActors'[a.netId] = a
    <3>1. a \in Actor /\ a # stale
      BY <1>1, <1>5
    <3>2. IsHeld(a.netId)
      BY <1>2, <3>1 DEF IsHeld
    <3>3. a.netId \notin spawned
      BY <1>3, <3>2
    <3> QED BY <1>2, <1>6, <3>1, <3>3
  <2>2. ASSUME NEW b \in spawned
        PROVE  LET a == NewActor(b)
               IN  a \in Actor /\ a.netId \in DOMAIN planetActors' /\ planetActors'[a.netId] = a
    BY <1>4, <1>6
  <2> QED BY <1>7, <2>1, <2>2
<1>9. \A b \in DOMAIN planetActors' :
        planetActors'[b] # stale => planetActors'[b] \in DOMAIN placed'
  BY <1>2, <1>6, <1>7
<1>10. EveryActorIsHeld'
  BY <1>8, <1>9 DEF EveryActorIsHeld
<1>11. \A a \in DOMAIN placed' : placed'[a] = Placement(bodies[a.netId], origin, a.netId)
  BY <1>8 DEF ReconcilePlanets
<1>12. \A a \in DOMAIN placed' :
         a.netId \in Bodies /\ placed'[a] \in [location : Int, light : {-1, 0, 1}]
  <2> SUFFICES ASSUME NEW a \in DOMAIN placed'
               PROVE  a.netId \in Bodies /\ placed'[a] \in [location : Int, light : {-1, 0, 1}]
    OBVIOUS
  <2>1. a.netId \in Bodies /\ bodies[a.netId] \in Int
    BY <1>5, <1>8
  <2>2. Placement(bodies[a.netId], origin, a.netId) \in [location : Int, light : {-1, 0, 1}]
    BY <2>1, PlacementTyped
  <2> QED BY <1>11, <2>1, <2>2
<1>13. \A b \in DOMAIN planetActors' : planetActors'[b] \in Actor \cup {stale}
  BY <1>1, <1>4, <1>6
<1>14. DOMAIN planetActors' \subseteq Bodies
  BY <1>1, <1>3, <1>6
<1> QED BY <1>8, <1>10, <1>11, <1>12, <1>13, <1>14

LEMMA PresentKeepsLevel ==
  ASSUME IInv, PictureInv, LevelInv, Present
  PROVE  LevelInv'
<1>1. /\ running /\ running' = running /\ Render /\ pc = "render"
      /\ SubsystemTypeOK /\ EveryActorIsHeld /\ LevelShowsOneMoment
  BY DEF Present, Render, LevelInv
<1>2. scene' = IF HasPicture THEN renderTime ELSE scene
  BY <1>1 DEF Render, HasPicture, renderTime
<1>3. CASE KeepPicture
  <2>1. ~HasPicture /\ UNCHANGED <<running, placed, planetActors, renderOrigin, altitude, faults>>
    BY <1>1, <1>3 DEF KeepPicture, presentationVars
  <2> QED BY <1>1, <1>2, <2>1
          DEF LevelInv, SubsystemTypeOK, EveryActorIsHeld, LevelShowsOneMoment
<1>4. ASSUME HasPicture,
             NEW picture \in Pictures, NEW scroll \in {-1, 0, 1},
             NEW spawned \in SUBSET Missing(picture.massiveBodies),
             spawned = Missing(picture.massiveBodies) \/ faults < MaxFaults,
             ShowPicture(picture.massiveBodies, spawned, scroll)
      PROVE  LevelInv'
  <2> DEFINE bodies == picture.massiveBodies
  <2>1. /\ renderTime \in Int
        /\ DOMAIN bodies = Bodies
        /\ \A b \in Bodies : /\ bodies[b] = ServerPosition(b, renderTime)
                             /\ bodies[b] \in Int
    BY <1>1, <1>4, PictureIsServers DEF Ready
  <2>2. /\ renderOrigin' = ServerPosition(Earth, renderTime) + altitude
        /\ renderOrigin' \in Int
        /\ ServerPosition(Earth, renderTime) \in Int
        /\ altitude \in MinAltitude..MaxAltitude
    BY <1>1, <1>4, <2>1, BodiesAssumption, CameraAssumption
       DEF ShowPicture, SelectRenderOrigin, SubsystemTypeOK
  <2>3. altitude' \in MinAltitude..MaxAltitude
    BY <1>4, <2>2, CameraAssumption DEF ShowPicture, UpdateOrbitCamera, Clamp
  <2>4. faults' \in 0..MaxFaults
    BY <1>1, <1>4, ActorAssumption DEF ShowPicture, SubsystemTypeOK
  <2>5. ReconcilePlanets(bodies, renderOrigin', spawned)
    BY <1>4 DEF ShowPicture
  <2> HIDE DEF bodies
  <2>6. spawned \in SUBSET Missing(bodies)
    BY <1>4 DEF bodies
  <2>7. /\ EveryActorIsHeld'
        /\ DOMAIN placed' \subseteq Actor
        /\ \A a \in DOMAIN placed' :
             /\ a.netId \in Bodies
             /\ placed'[a] = Placement(bodies[a.netId], renderOrigin', a.netId)
             /\ placed'[a] \in [location : Int, light : {-1, 0, 1}]
        /\ DOMAIN planetActors' \subseteq Bodies
        /\ \A b \in DOMAIN planetActors' : planetActors'[b] \in Actor \cup {stale}
    BY <1>1, <2>1, <2>2, <2>5, <2>6, ReconcileKeepsLevel
  <2>8. SubsystemTypeOK'
    BY <1>1, <2>2, <2>3, <2>4, <2>7 DEF SubsystemTypeOK
  <2>9. LevelShowsOneMoment'
    <3>1. scene' = renderTime /\ scene' # nullopt
      BY <1>2, <1>4, <2>1, RunnerNulloptAssumption
    <3>2. renderOrigin' - ServerPosition(Earth, renderTime) \in MinAltitude..MaxAltitude
      BY <2>2, CameraAssumption
    <3>3. \A a \in DOMAIN placed' :
            placed'[a] = Placement(ServerPosition(a.netId, renderTime), renderOrigin', a.netId)
      BY <2>1, <2>7
    <3> QED BY <3>1, <3>2, <3>3 DEF LevelShowsOneMoment, ServerPosition
  <2> QED BY <2>7, <2>8, <2>9 DEF LevelInv
<1> QED BY <1>3, <1>4 DEF Present

\* Between frames actors only go, by the engine or by Deinitialize.
LEMMA DestructionKeepsLevel ==
  ASSUME LevelInv, NEW a \in DOMAIN placed, EngineDestroysActor(a)
  PROVE  LevelInv'
<1>1. /\ SubsystemTypeOK /\ EveryActorIsHeld /\ LevelShowsOneMoment
      /\ running /\ faults < MaxFaults /\ faults' = faults + 1
      /\ UNCHANGED <<running, renderOrigin, altitude, scene>>
  BY DEF LevelInv, EngineDestroysActor, cameraVars, vars
<1>2. /\ DOMAIN placed' = DOMAIN placed \ {a}
      /\ \A x \in DOMAIN placed' : placed'[x] = placed[x]
      /\ DOMAIN planetActors' = DOMAIN planetActors
      /\ \A b \in DOMAIN planetActors :
           planetActors'[b] = IF planetActors[b] = a THEN stale ELSE planetActors[b]
  BY DEF EngineDestroysActor
<1>3. SubsystemTypeOK'
  BY <1>1, <1>2, ActorAssumption DEF SubsystemTypeOK
<1>4. EveryActorIsHeld'
  BY <1>1, <1>2 DEF EveryActorIsHeld
<1>5. LevelShowsOneMoment'
  BY <1>1, <1>2 DEF LevelShowsOneMoment, ServerPosition
<1> QED BY <1>3, <1>4, <1>5 DEF LevelInv

LEMMA DeinitializeKeepsLevel ==
  ASSUME LevelInv, Deinitialize
  PROVE  LevelInv'
<1>1. /\ SubsystemTypeOK /\ EveryActorIsHeld
      /\ running' = FALSE
      /\ UNCHANGED <<renderOrigin, altitude, faults>>
  BY DEF LevelInv, Deinitialize, cameraVars
<1>2. DOMAIN planetActors' = {}
  BY DEF Deinitialize, DestroyAllPlanets
<1>3. DOMAIN placed' = {}
  BY <1>1 DEF Deinitialize, DestroyAllPlanets, EveryActorIsHeld
<1> QED BY <1>1, <1>2, <1>3
        DEF LevelInv, SubsystemTypeOK, EveryActorIsHeld, LevelShowsOneMoment

LEMMA NextLevel ==
  ASSUME IInv, PictureInv, LevelInv, [SubsystemNext]_subsystemVars
  PROVE  LevelInv'
<1>1. ASSUME UNCHANGED <<running, presentationVars, scene>> PROVE LevelInv'
  BY <1>1 DEF presentationVars, LevelInv, SubsystemTypeOK, EveryActorIsHeld,
              LevelShowsOneMoment, ServerPosition
<1>2. CASE BeginFrame
  BY <1>1, <1>2 DEF BeginFrame, Run, Advance, AdvanceNothing
<1>3. CASE Run(RunTick) \/ Run(EndAdvance)
  BY <1>1, <1>3 DEF Run, RunTick, EndAdvance
<1>4. CASE Present
  BY <1>4, PresentKeepsLevel
<1>5. ASSUME NEW factor \in Scales, Run(SetTimeScaleFactor(factor))
      PROVE  LevelInv'
  BY <1>1, <1>5 DEF Run, SetTimeScaleFactor
<1>6. ASSUME NEW a \in DOMAIN placed, EngineDestroysActor(a)
      PROVE  LevelInv'
  BY <1>6, DestructionKeepsLevel
<1>7. CASE Deinitialize
  BY <1>7, DeinitializeKeepsLevel
<1>8. CASE UNCHANGED subsystemVars
  BY <1>1, <1>8 DEF subsystemVars, vars, presentationVars
<1> QED BY <1>2, <1>3, <1>4, <1>5, <1>6, <1>7, <1>8 DEF SubsystemNext, EngineFrame

LEMMA SubsystemLevel == SubsystemSpec => [](IInv /\ LevelInv)
<1>1. SubsystemInit => LevelInv
  BY CameraAssumption, ActorAssumption
     DEF SubsystemInit, LevelInv, SubsystemTypeOK, EveryActorIsHeld, LevelShowsOneMoment
<1>2. (IInv /\ PictureInv) /\ LevelInv /\ [SubsystemNext]_subsystemVars => LevelInv'
  BY NextLevel
<1> QED BY <1>1, <1>2, SubsystemRunsTheRunner, RunnerPicture, PTL DEF SubsystemSpec

\* The runner's accounts and the types of the level, in the composed client.
THEOREM SubsystemInvariant == SubsystemSpec => []SubsystemInv
<1>1. IInv /\ LevelInv => SubsystemInv
  BY DEF SubsystemInv, LevelInv
<1> QED BY <1>1, SubsystemLevel, PTL

\* The level has the actors the subsystem holds and no other, for every number of
\* bodies, however often the engine destroys one or refuses to spawn one.
THEOREM SubsystemHoldsEveryActor == SubsystemSpec => []EveryActorIsHeld
<1>1. IInv /\ LevelInv => EveryActorIsHeld
  BY DEF LevelInv
<1> QED BY <1>1, SubsystemLevel, PTL

\* What the level shows is one moment of the server's past, from one camera, for
\* every motion of the bodies, every buffer and every sequence of frames.
THEOREM SubsystemShowsOneMoment == SubsystemSpec => []LevelShowsOneMoment
<1>1. IInv /\ LevelInv => LevelShowsOneMoment
  BY DEF LevelInv
<1> QED BY <1>1, SubsystemLevel, PTL
=============================================================================
