--------------------------- MODULE TimestepProofs ---------------------------
(***************************************************************************)
(* The timestep controller, proved for any ladder, frame and dwell time:   *)
(* how fast an entity's level follows what the entity asks for, and that   *)
(* the substeps planned are as fine as every level that has followed.      *)
(***************************************************************************)
EXTENDS TimestepController, FiniteSetTheorems, WellFoundedInduction, TLAPS

\* What holds between an entity's controller state and what is remembered of it.
\* Under a demand for level k or coarser, the level comes down once in DwellTicks:
\* the stable time shows how far the next of these steps is.
FollowsFiner(c, p) ==
  \A k \in Levels : c.currentK >= Min({k, p.finer[k]})

FollowsCoarser(c, p) ==
  \A k \in Levels : c.currentK > k =>
    /\ p.coarser[k] < (KMax - c.currentK + 1) * DwellTicks
    /\ c.tStableSeconds >= (p.coarser[k] - (KMax - c.currentK) * DwellTicks) * FrameDt

StableTimeWasSpent(c, p) ==
  c.tStableSeconds <= p.atLevel * FrameDt \/ p.atLevel = DwellTicks

Follows(c, p) ==
  /\ c \in ControlType
  /\ p \in PastType
  /\ FollowsFiner(c, p)
  /\ FollowsCoarser(c, p)
  /\ StableTimeWasSpent(c, p)

\* The diagnostics of an entity are those of a plan as fine as its level.
PlannedFor(c, d) ==
  /\ d.dtRequested \in Nat
  /\ d.dtRequested >= DtMax \div 2^KMax
  /\ d.ladderLevel \in Levels
  /\ d.ladderLevel >= c.currentK
  /\ d.substepCount = PlanSubsteps(d.ladderLevel)

\* Between substeps no acceleration is ahead of the one kept.
HistoryIsKept ==
  pc # "history" => \A e \in Alive : control[e].ahead \in {NoHistory, 0}

IInv ==
  /\ TypeOK
  /\ HistoryIsKept
  /\ \A e \in Alive : Follows(control[e], past[e])
  /\ pc \in {"substep", "history"} =>
       \A e \in Alive : e \in DOMAIN diagnostics /\ PlannedFor(control[e], diagnostics[e])

-----------------------------------------------------------------------------
(* The extremes of finite sets of numbers.                                 *)

\* A nonempty set of numbers with an upper bound has a least element: the one
\* whose set of lesser elements is minimal.
LEMMA LeastExists ==
  ASSUME NEW n \in Nat, NEW S, S \subseteq 0..n, S # {}
  PROVE  \E x \in S : \A y \in S : x <= y
<1> DEFINE Below(x) == {y \in S : y < x}
           R == StrictSubsetOrdering(S)
           F == {Below(x) : x \in S}
<1>1. IsFiniteSet(S)
  BY FS_BoundedSetOfNaturals
<1>2. IsWellFoundedOn(R, FiniteSubsetsOf(S))
  BY FS_StrictSubsetOrderingWellFounded
<1>3. F \subseteq FiniteSubsetsOf(S) /\ F # {}
  <2>1. FiniteSubsetsOf(S) = SUBSET S
    BY <1>1, FS_FiniteSubsetsOfFinite
  <2>2. F \subseteq SUBSET S /\ F # {}
    OBVIOUS
  <2> QED BY <2>1, <2>2
<1>4. PICK b \in F : \A c \in F : <<c, b>> \notin R
  <2> HIDE DEF R, F
  <2> QED BY <1>2, <1>3, WFMin
<1>5. PICK x \in S : b = Below(x)
  OBVIOUS
<1>6. ASSUME NEW y \in S, y < x PROVE FALSE
  <2>1. Below(y) \subseteq Below(x) /\ Below(y) # Below(x)
    <3>1. y \in Below(x) /\ y \notin Below(y)
      BY <1>6
    <3>2. ASSUME NEW z \in S, z < y PROVE z < x
      BY <1>6, <3>2
    <3>3. Below(y) \subseteq Below(x)
      BY <3>2
    <3> QED BY <3>1, <3>3, Zenon
  <2>2. <<Below(y), Below(x)>> \in R
    BY <2>1 DEF StrictSubsetOrdering
  <2> QED BY <1>4, <1>5, <2>2
<1> QED BY <1>6

\* The least element of a set, by the name the model gives it.
LEMMA MinIsLeast ==
  ASSUME NEW n \in Nat, NEW S, S \subseteq 0..n, S # {}
  PROVE  Min(S) \in S /\ \A y \in S : Min(S) <= y
BY LeastExists DEF Min

\* The greatest element: the one that lies the least below the bound.
LEMMA MaxIsGreatest ==
  ASSUME NEW n \in Nat, NEW S, S \subseteq 0..n, S # {}
  PROVE  Max(S) \in S /\ \A y \in S : Max(S) >= y
<1> DEFINE T == {z \in 0..n : n - z \in S}
<1>1. T \subseteq 0..n /\ T # {}
  <2>1. PICK x \in S : TRUE
    OBVIOUS
  <2>2. n - x \in 0..n /\ n - (n - x) = x
    OBVIOUS
  <2> QED BY <2>1, <2>2
<1>2. PICK z \in T : \A y \in T : z <= y
  <2> HIDE DEF T
  <2> QED BY <1>1, LeastExists
<1>3. PICK x \in S : x = n - z
  OBVIOUS
<1>4. ASSUME NEW y \in S PROVE x >= y
  <2>1. n - y \in 0..n /\ n - (n - y) = y
    OBVIOUS
  <2>2. z <= n - y /\ z \in 0..n
    BY <1>2, <2>1
  <2> QED BY <1>3, <2>1, <2>2
<1> QED BY <1>3, <1>4 DEF Max

\* The extremes of a pair.
LEMMA PairExtremes ==
  ASSUME NEW a \in Int, NEW b \in Int
  PROVE  /\ Min({a, b}) = IF a <= b THEN a ELSE b
         /\ Max({a, b}) = IF a >= b THEN a ELSE b
<1>1. ASSUME NEW m \in Int, NEW l \in Int, m <= l
      PROVE  Min({m, l}) = m /\ Min({l, m}) = m /\ Max({m, l}) = l /\ Max({l, m}) = l
  BY <1>1 DEF Min, Max
<1> QED BY <1>1

-----------------------------------------------------------------------------
(* The ladder and the plan.                                                *)

\* A clamped target is never below the finest step of the ladder.
LEMMA TargetIsClamped ==
  ASSUME NEW need \in Nat
  PROVE  /\ TargetTimestep(need) \in Nat
         /\ TargetTimestep(need) >= DtMax \div 2^KMax
<1>1. 2^KMax \in Nat \ {0}
  BY LadderAssumption, PowersAssumption DEF Levels
<1>2. DtMax \div 2^KMax \in Nat
  BY <1>1, LadderAssumption
<1>3. Min({need, DtMax}) \in Nat
  BY PairExtremes, LadderAssumption
<1> DEFINE f == DtMax \div 2^KMax
           m == Min({need, DtMax})
<1>4. TargetTimestep(need) = Max({f, m})
  BY DEF TargetTimestep
<1>5. f \in Nat /\ m \in Nat
  BY <1>2, <1>3
<1>6. Max({f, m}) = IF f >= m THEN f ELSE m
  <2> HIDE DEF f, m
  <2> QED BY <1>5, PairExtremes
<1> HIDE DEF m
<1> QED BY <1>4, <1>5, <1>6

\* Whatever is asked for, the level is one of the ladder, and its step is no longer
\* than what is asked for, unless that is below the ladder.
LEMMA QuantizedIsFineEnough ==
  ASSUME NEW target \in Nat
  PROVE  /\ QuantizeToLadder(target) \in Levels
         /\ target >= DtMax \div 2^KMax => DtMax <= target * 2^QuantizeToLadder(target)
<1> DEFINE S == {k \in Levels : DtMax <= target * 2^k} \cup {KMax}
<1>1. CASE target >= DtMax
  BY <1>1, LadderAssumption DEF QuantizeToLadder, Levels
<1>2. CASE ~(target >= DtMax)
  <2>1. S \subseteq 0..KMax /\ S # {}
    BY LadderAssumption DEF Levels
  <2>2. Min(S) \in S
    <3> HIDE DEF S
    <3> QED BY <2>1, MinIsLeast, LadderAssumption
  <2>3. QuantizeToLadder(target) = Min(S)
    BY <1>2 DEF QuantizeToLadder
  <2>4. target >= DtMax \div 2^KMax => DtMax <= target * 2^KMax
    <3>1. \A d, w, t \in Nat : w > 0 /\ d % w = 0 /\ t >= d \div w => d <= t * w
      OBVIOUS
    <3>2. DtMax \in Nat /\ 2^KMax \in Nat /\ 2^KMax > 0 /\ DtMax % 2^KMax = 0
      BY LadderAssumption, PowersAssumption DEF Levels
    <3> QED BY <3>1, <3>2
  <2> QED BY <2>1, <2>2, <2>3, <2>4 DEF Levels
<1> QED BY <1>1, <1>2

\* The planned substeps cover the frame, none longer than the step of the level.
LEMMA PlanCoversFrame ==
  ASSUME NEW k \in Levels
  PROVE  /\ PlanSubsteps(k) \in Nat \ {0}
         /\ FrameDt * 2^k <= PlanSubsteps(k) * DtMax
<1>1. \A m \in Nat, d \in Nat \ {0} :
        /\ (m + d - 1) \div d \in Nat
        /\ m <= ((m + d - 1) \div d) * d
  OBVIOUS
<1>2. FrameDt * 2^k \in Nat /\ DtMax \in Nat \ {0}
  <2>1. \A a, b \in Nat : a * b \in Nat
    OBVIOUS
  <2> QED BY <2>1, LadderAssumption, TimesAssumption, PowersAssumption
<1> DEFINE q == (FrameDt * 2^k + DtMax - 1) \div DtMax
<1>3. q \in Nat /\ FrameDt * 2^k <= q * DtMax
  BY <1>1, <1>2
<1>4. PlanSubsteps(k) = IF 1 >= q THEN 1 ELSE q
  <2> HIDE DEF q
  <2>1. PlanSubsteps(k) = Max({1, q})
    BY DEF PlanSubsteps, q
  <2>2. \A a, b \in Nat : Max({a, b}) = IF a >= b THEN a ELSE b
    BY PairExtremes
  <2>3. Max({1, q}) = IF 1 >= q THEN 1 ELSE q
    BY <1>3, <2>2
  <2> QED BY <2>1, <2>3
<1>5. \A a, b, d \in Nat : a <= b => a * d <= b * d
  OBVIOUS
<1> HIDE DEF q
<1>6. CASE 1 >= q
  <2>1. q * DtMax <= 1 * DtMax
    BY <1>2, <1>3, <1>5, <1>6
  <2>2. q * DtMax \in Int /\ 1 * DtMax \in Int
    BY <1>2, <1>3
  <2> QED BY <1>2, <1>3, <1>4, <1>6, <2>1, <2>2
<1>7. CASE ~(1 >= q)
  BY <1>3, <1>4, <1>7
<1> QED BY <1>6, <1>7

\* So a plan as fine as a level gives substeps no longer than a step that level is
\* fine enough for.
LEMMA PlanIsFineEnough ==
  ASSUME NEW target \in Nat, target >= DtMax \div 2^KMax,
         NEW k \in Levels, k >= QuantizeToLadder(target)
  PROVE  FrameDt <= target * PlanSubsteps(k)
<1> DEFINE q == QuantizeToLadder(target)
<1>1. q \in Levels /\ DtMax <= target * 2^q
  BY QuantizedIsFineEnough
<1>2. 2^q <= 2^k /\ 2^q \in Nat /\ 2^k \in Nat
  BY <1>1, PowersAssumption
<1>3. PlanSubsteps(k) \in Nat /\ FrameDt * 2^k <= PlanSubsteps(k) * DtMax
  BY PlanCoversFrame
<1>4. FrameDt \in Nat /\ DtMax \in Nat \ {0}
  BY LadderAssumption, TimesAssumption
<1>5. \A f, w, v, n, t \in Nat : \A d \in Nat \ {0} :
        d <= t * v /\ v <= w /\ f * w <= n * d => f <= t * n
  <2> SUFFICES ASSUME NEW f \in Nat, NEW w \in Nat, NEW v \in Nat, NEW n \in Nat,
                      NEW t \in Nat, NEW d \in Nat \ {0},
                      d <= t * v, v <= w, f * w <= n * d
               PROVE  f <= t * n
    OBVIOUS
  <2>1. t * v <= t * w
    OBVIOUS
  <2>2. f * d <= f * (t * w)
    BY <2>1
  <2>3. f * (t * w) = t * (f * w)
    OBVIOUS
  <2>4. t * (f * w) <= t * (n * d)
    OBVIOUS
  <2>5. t * (n * d) = (t * n) * d
    OBVIOUS
  <2>6. f * d <= (t * n) * d
    BY <2>2, <2>3, <2>4, <2>5
  <2>7. \A a, b \in Nat : a * d <= b * d => a <= b
    OBVIOUS
  <2> QED BY <2>6, <2>7
<1> HIDE DEF q
<1> QED BY <1>1, <1>2, <1>3, <1>4, <1>5

-----------------------------------------------------------------------------
(* The hysteresis.                                                         *)

\* The dwell time is over after DwellTicks frames.
LEMMA DwellTicksCover ==
  DwellTicks \in Nat \ {0} /\ TauRaise <= DwellTicks * FrameDt
<1>1. \A m \in Nat, d \in Nat \ {0} :
        /\ (m + d - 1) \div d \in Nat
        /\ m <= ((m + d - 1) \div d) * d
  OBVIOUS
<1> DEFINE q == (TauRaise + FrameDt - 1) \div FrameDt
<1>2. q \in Nat /\ TauRaise <= q * FrameDt
  BY <1>1, TimesAssumption
<1>3. DwellTicks = IF 1 >= q THEN 1 ELSE q
  <2> HIDE DEF q
  <2>1. DwellTicks = Max({1, q})
    BY DEF DwellTicks, q
  <2>2. \A a, b \in Nat : Max({a, b}) = IF a >= b THEN a ELSE b
    BY PairExtremes
  <2> QED BY <1>2, <2>1, <2>2
<1> HIDE DEF q
<1>4. CASE 1 >= q
  <2>1. \A f \in Nat : q * f <= 1 * f
    BY <1>2, <1>4
  <2> QED BY <1>2, <1>3, <1>4, <2>1, TimesAssumption
<1>5. CASE ~(1 >= q)
  BY <1>2, <1>3, <1>5
<1> QED BY <1>4, <1>5

\* What the hysteresis makes of a level and its stable time, case by case.
Moved(d, c, n) ==
  /\ n.ahead = c.ahead
  /\ \/ /\ d > c.currentK
        /\ n.currentK = c.currentK + 1 /\ n.tStableSeconds = 0
     \/ /\ d < c.currentK /\ c.tStableSeconds + FrameDt >= TauRaise
        /\ n.currentK = c.currentK - 1 /\ n.tStableSeconds = 0
     \/ /\ d < c.currentK /\ c.tStableSeconds + FrameDt < TauRaise
        /\ n.currentK = c.currentK
        /\ n.tStableSeconds = c.tStableSeconds + FrameDt
     \/ /\ d = c.currentK /\ n.currentK = c.currentK
        /\ n.tStableSeconds <= c.tStableSeconds + FrameDt

LEMMA HysteresisMoves ==
  ASSUME NEW c \in ControlType, NEW d \in Levels, NEW n, n = ApplyHysteresis(d, c)
  PROVE  n \in ControlType /\ Moved(d, c, n)
<1>1. /\ c.currentK \in Levels /\ c.currentK \in Nat /\ d \in Nat
      /\ c.tStableSeconds \in 0..(2 * TauRaise) /\ c.tStableSeconds \in Nat
      /\ FrameDt \in Nat \ {0} /\ TauRaise \in Nat /\ KMax \in Nat
      /\ c.ahead \in {NoHistory, 0, 1}
  BY LadderAssumption, TimesAssumption DEF ControlType, Levels
<1>2. CASE d > c.currentK
  <2>1. n = [c EXCEPT !.currentK = c.currentK + 1, !.tStableSeconds = 0]
    BY <1>1, <1>2 DEF ApplyHysteresis, Refine
  <2>2. /\ n.currentK = c.currentK + 1 /\ n.tStableSeconds = 0 /\ n.ahead = c.ahead
        /\ n = [currentK |-> n.currentK, tStableSeconds |-> n.tStableSeconds, ahead |-> n.ahead]
    BY <2>1 DEF ControlType
  <2> QED BY <1>1, <1>2, <2>2 DEF ControlType, Levels, Moved
<1>3. CASE d < c.currentK
  <2>1. n = Coarsen(c)
    BY <1>1, <1>3 DEF ApplyHysteresis
  <2>2. CASE c.tStableSeconds + FrameDt >= TauRaise
    <3>1. n = [c EXCEPT !.currentK = c.currentK - 1, !.tStableSeconds = 0]
      BY <2>1, <2>2 DEF Coarsen, DwellServed
    <3>2. /\ n.currentK = c.currentK - 1 /\ n.tStableSeconds = 0 /\ n.ahead = c.ahead
          /\ n = [currentK |-> n.currentK, tStableSeconds |-> n.tStableSeconds, ahead |-> n.ahead]
      BY <3>1 DEF ControlType
    <3> QED BY <1>1, <1>3, <2>2, <3>2 DEF ControlType, Levels, Moved
  <2>3. CASE ~(c.tStableSeconds + FrameDt >= TauRaise)
    <3>1. n = [c EXCEPT !.tStableSeconds = c.tStableSeconds + FrameDt]
      BY <2>1, <2>3 DEF Coarsen, DwellServed
    <3>2. /\ n.currentK = c.currentK /\ n.tStableSeconds = c.tStableSeconds + FrameDt
          /\ n.ahead = c.ahead
          /\ n = [currentK |-> n.currentK, tStableSeconds |-> n.tStableSeconds, ahead |-> n.ahead]
      BY <3>1 DEF ControlType
    <3> QED BY <1>1, <1>3, <2>3, <3>2 DEF ControlType, Levels, Moved
  <2> QED BY <2>2, <2>3
<1>4. CASE d = c.currentK
  <2>1. n = Remain(c)
    BY <1>1, <1>4 DEF ApplyHysteresis
  <2>2. \A a, b \in Nat : Min({a, b}) = IF a <= b THEN a ELSE b
    BY PairExtremes
  <2>3. /\ c.tStableSeconds + FrameDt \in Nat
        /\ 2 * TauRaise \in Nat
    BY <1>1
  <2> DEFINE m == Min({c.tStableSeconds + FrameDt, 2 * TauRaise})
  <2>4. m \in 0..(2 * TauRaise) /\ m <= c.tStableSeconds + FrameDt
    BY <2>2, <2>3
  <2>5. n = [c EXCEPT !.tStableSeconds = m]
    BY <2>1 DEF Remain
  <2> HIDE DEF m
  <2>6. /\ n.currentK = c.currentK /\ n.tStableSeconds = m /\ n.ahead = c.ahead
        /\ n = [currentK |-> n.currentK, tStableSeconds |-> n.tStableSeconds, ahead |-> n.ahead]
    BY <2>5 DEF ControlType
  <2> QED BY <1>1, <1>4, <2>4, <2>6 DEF ControlType, Levels, Moved
<1> QED BY <1>1, <1>2, <1>3, <1>4

\* What is remembered, without the extremes.
Counted(d, p, changed, r) ==
  /\ changed => r.atLevel = 0
  /\ ~changed => r.atLevel = p.atLevel + 1 \/ r.atLevel = DwellTicks
  /\ \A k \in Levels :
       /\ d >= k => r.finer[k] <= p.finer[k] + 1
       /\ d < k => r.finer[k] = 0
       /\ d <= k => r.coarser[k] <= p.coarser[k] + 1
       /\ d > k => r.coarser[k] = 0

LEMMA RememberCounts ==
  ASSUME NEW p \in PastType, NEW d \in Levels, NEW changed \in BOOLEAN,
         NEW r, r = Remember(p, d, changed)
  PROVE  r \in PastType /\ Counted(d, p, changed, r)
<1> DEFINE D == DwellTicks
           cap == KMax * DwellTicks
<1>1. \A a, b \in Nat : Min({a, b}) = IF a <= b THEN a ELSE b
  BY PairExtremes
<1>2. D \in Nat /\ KMax \in Nat /\ d \in Nat /\ cap \in Nat /\ Levels \subseteq Nat
  <2>1. \A a, b \in Nat : a * b \in Nat
    OBVIOUS
  <2> QED BY <2>1, DwellTicksCover, LadderAssumption DEF Levels
<1>3. /\ p.atLevel \in 0..D
      /\ p.finer \in [Levels -> 0..KMax]
      /\ p.coarser \in [Levels -> 0..cap]
  BY DEF PastType
<1> HIDE DEF D, cap
<1>4. /\ r.atLevel = IF changed THEN 0 ELSE Min({p.atLevel + 1, D})
      /\ r.finer = [k \in Levels |-> IF d >= k THEN Min({p.finer[k] + 1, KMax}) ELSE 0]
      /\ r.coarser = [k \in Levels |-> IF d <= k THEN Min({p.coarser[k] + 1, cap}) ELSE 0]
      /\ r = [atLevel |-> r.atLevel, finer |-> r.finer, coarser |-> r.coarser]
  BY DEF Remember, D, cap
<1>5. /\ r.atLevel \in 0..D
      /\ changed => r.atLevel = 0
      /\ ~changed => r.atLevel = p.atLevel + 1 \/ r.atLevel = D
  <2>1. p.atLevel \in Nat /\ p.atLevel + 1 \in Nat
    BY <1>2, <1>3
  <2>2. Min({p.atLevel + 1, D}) = IF p.atLevel + 1 <= D THEN p.atLevel + 1 ELSE D
    BY <1>1, <1>2, <2>1
  <2>3. CASE changed
    BY <1>2, <1>4, <2>3
  <2>4. CASE ~changed
    BY <1>2, <1>4, <2>1, <2>2, <2>4
  <2> QED BY <2>3, <2>4
<1>6. ASSUME NEW k \in Levels
      PROVE  /\ r.finer[k] \in 0..KMax
             /\ d >= k => r.finer[k] <= p.finer[k] + 1
             /\ d < k => r.finer[k] = 0
  <2>1. p.finer[k] \in Nat /\ p.finer[k] + 1 \in Nat /\ k \in Nat
    BY <1>2, <1>3
  <2>2. r.finer[k] = IF d >= k THEN Min({p.finer[k] + 1, KMax}) ELSE 0
    BY <1>4
  <2>3. Min({p.finer[k] + 1, KMax}) = IF p.finer[k] + 1 <= KMax THEN p.finer[k] + 1 ELSE KMax
    BY <1>1, <1>2, <2>1
  <2> QED BY <1>2, <2>1, <2>2, <2>3
<1>7. ASSUME NEW k \in Levels
      PROVE  /\ r.coarser[k] \in 0..cap
             /\ d <= k => r.coarser[k] <= p.coarser[k] + 1
             /\ d > k => r.coarser[k] = 0
  <2>1. p.coarser[k] \in Nat /\ p.coarser[k] + 1 \in Nat /\ k \in Nat
    BY <1>2, <1>3
  <2>2. r.coarser[k] = IF d <= k THEN Min({p.coarser[k] + 1, cap}) ELSE 0
    BY <1>4
  <2>3. Min({p.coarser[k] + 1, cap}) = IF p.coarser[k] + 1 <= cap THEN p.coarser[k] + 1 ELSE cap
    BY <1>1, <1>2, <2>1
  <2> QED BY <1>2, <2>1, <2>2, <2>3
<1>8. r.finer \in [Levels -> 0..KMax] /\ r.coarser \in [Levels -> 0..cap]
  <2>1. r.finer \in [Levels -> 0..KMax]
    BY <1>4, <1>6
  <2>2. r.coarser \in [Levels -> 0..cap]
    BY <1>4, <1>7
  <2> QED BY <2>1, <2>2
<1>9. r \in PastType
  BY <1>4, <1>5, <1>8 DEF PastType, D, cap
<1> QED BY <1>5, <1>6, <1>7, <1>9 DEF Counted, D

\* The coarser side of a step that moves no entity away from a demand for level k
\* or coarser: t is the stable time, h the height above the ladder's finest level,
\* n the ticks the demand has lasted, in frames of f with D of them to a dwell.
LEMMA DwellArithmetic ==
  ASSUME NEW t \in Nat, NEW h \in Nat, NEW n \in Nat, NEW f \in Nat \ {0},
         NEW D \in Nat \ {0}, NEW tau \in Nat, tau <= D * f,
         n < (h + 1) * D, t >= (n - h * D) * f
  PROVE  /\ t + f < tau => n + 1 < (h + 1) * D /\ t + f >= (n + 1 - h * D) * f
         /\ n + 1 < (h + 2) * D
         /\ 0 >= (n + 1 - (h + 1) * D) * f
<1> DEFINE x == n - h * D
<1>1. /\ h * D \in Nat /\ (h + 1) * D = h * D + D /\ (h + 2) * D = (h * D + D) + D
      /\ x \in Int /\ x * f \in Int
  OBVIOUS
<1>2. x < D /\ n + 1 < (h + 2) * D
  BY <1>1
<1>3. (x + 1) * f = x * f + f /\ n + 1 - h * D = x + 1
  BY <1>1
<1>4. ASSUME t + f < tau PROVE x + 1 < D
  <2>1. (x + 1) * f < D * f
    BY <1>1, <1>3, <1>4
  <2>2. \A a \in Int : a * f < D * f => a < D
    OBVIOUS
  <2> QED BY <1>1, <2>1, <2>2
<1>5. 0 >= (n + 1 - (h + 1) * D) * f
  <2>1. n + 1 - (h + 1) * D \in Int /\ n + 1 - (h + 1) * D <= 0
    BY <1>1
  <2>2. \A a \in Int : a <= 0 => 0 >= a * f
    OBVIOUS
  <2> QED BY <2>1, <2>2
<1> HIDE DEF x
<1>6. ASSUME t + f < tau PROVE n + 1 < (h + 1) * D /\ t + f >= (n + 1 - h * D) * f
  <2>1. x = n - h * D
    BY DEF x
  <2>2. n + 1 < (h + 1) * D
    BY <1>1, <1>4, <1>6, <2>1
  <2>3. t >= x * f
    BY <2>1
  <2> QED BY <1>1, <1>3, <2>2, <2>3
<1> QED BY <1>2, <1>5, <1>6

-----------------------------------------------------------------------------
(* The level follows the demand.                                           *)

LEMMA FollowsFinerStep ==
  ASSUME NEW c \in ControlType, NEW p \in PastType, FollowsFiner(c, p),
         NEW d \in Levels, NEW n \in ControlType, Moved(d, c, n),
         NEW changed, NEW r \in PastType, Counted(d, p, changed, r)
  PROVE  FollowsFiner(n, r)
<1> SUFFICES ASSUME NEW k \in Levels PROVE n.currentK >= Min({k, r.finer[k]})
  BY DEF FollowsFiner
<1>1. /\ k \in Nat /\ d \in Nat /\ c.currentK \in Nat /\ n.currentK \in Nat
      /\ p.finer[k] \in Nat /\ r.finer[k] \in Nat
  <2>1. p.finer \in [Levels -> 0..KMax] /\ r.finer \in [Levels -> 0..KMax]
    BY DEF PastType
  <2>2. KMax \in Nat /\ p.finer[k] \in 0..KMax /\ r.finer[k] \in 0..KMax
    BY <2>1, LadderAssumption
  <2>3. c.currentK \in Levels /\ n.currentK \in Levels
    BY DEF ControlType
  <2> QED BY <2>2, <2>3 DEF Levels
<1>2. /\ Min({k, r.finer[k]}) = IF k <= r.finer[k] THEN k ELSE r.finer[k]
      /\ Min({k, p.finer[k]}) = IF k <= p.finer[k] THEN k ELSE p.finer[k]
  <2>1. \A a, b \in Nat : Min({a, b}) = IF a <= b THEN a ELSE b
    BY PairExtremes
  <2> QED BY <1>1, <2>1
<1>3. c.currentK >= Min({k, p.finer[k]})
  BY DEF FollowsFiner
<1>4. CASE d < k
  <2>1. r.finer[k] = 0
    BY <1>4 DEF Counted
  <2> QED BY <1>1, <1>2, <2>1
<1>5. CASE d >= k
  <2>1. r.finer[k] <= p.finer[k] + 1
    BY <1>5 DEF Counted
  <2>2. n.currentK >= c.currentK + 1 \/ n.currentK >= d
    BY <1>1 DEF Moved
  <2> QED BY <1>1, <1>2, <1>3, <1>5, <2>1, <2>2
<1> QED BY <1>1, <1>4, <1>5

LEMMA FollowsCoarserStep ==
  ASSUME NEW c \in ControlType, NEW p \in PastType, FollowsCoarser(c, p),
         NEW d \in Levels, NEW n \in ControlType, Moved(d, c, n),
         NEW changed, NEW r \in PastType, Counted(d, p, changed, r)
  PROVE  FollowsCoarser(n, r)
<1> SUFFICES ASSUME NEW k \in Levels, n.currentK > k
             PROVE  /\ r.coarser[k] < (KMax - n.currentK + 1) * DwellTicks
                    /\ n.tStableSeconds >=
                         (r.coarser[k] - (KMax - n.currentK) * DwellTicks) * FrameDt
  BY DEF FollowsCoarser
<1> DEFINE D == DwellTicks
           h == KMax - c.currentK
           g == KMax - n.currentK
<1>1. /\ k \in Nat /\ d \in Nat /\ c.currentK \in Nat /\ n.currentK \in Nat
      /\ KMax \in Nat /\ h \in Nat /\ g \in Nat
      /\ c.tStableSeconds \in Nat /\ n.tStableSeconds \in Nat
      /\ FrameDt \in Nat \ {0} /\ TauRaise \in Nat /\ D \in Nat \ {0}
      /\ TauRaise <= D * FrameDt
  BY LadderAssumption, TimesAssumption, DwellTicksCover DEF Levels, ControlType
<1>2. p.coarser[k] \in Nat /\ r.coarser[k] \in Nat
  <2>1. KMax * DwellTicks \in Nat
    BY <1>1
  <2> QED BY <2>1 DEF PastType
<1> HIDE DEF D
<1>3. CASE d > k
  <2>1. r.coarser[k] = 0
    BY <1>3 DEF Counted
  <2>2. \A a \in Nat : \A f \in Nat : 0 < (a + 1) * D /\ 0 >= (0 - a * D) * f
    <3>1. \A a \in Nat : a * D \in Nat /\ (a + 1) * D = a * D + D
      BY <1>1
    <3>2. \A b \in Nat, f \in Nat : 0 >= (0 - b) * f
      OBVIOUS
    <3> QED BY <1>1, <3>1, <3>2
  <2>3. 0 < (g + 1) * D /\ 0 >= (0 - g * D) * FrameDt
    <3> HIDE DEF g
    <3> QED BY <1>1, <2>2
  <2>4. (0 - g * D) * FrameDt \in Int
    <3> HIDE DEF g
    <3> QED BY <1>1
  <2> QED BY <1>1, <2>1, <2>3, <2>4 DEF D
<1>4. CASE d <= k
  <2>1. c.currentK > k /\ r.coarser[k] <= p.coarser[k] + 1
    <3>1. c.currentK > k
      BY <1>1, <1>4 DEF Moved
    <3> QED BY <1>4, <3>1 DEF Counted
  <2>2. p.coarser[k] < (h + 1) * D /\ c.tStableSeconds >= (p.coarser[k] - h * D) * FrameDt
    BY <2>1 DEF FollowsCoarser, D
  <2> DEFINE m == p.coarser[k]
             b == r.coarser[k]
             t == c.tStableSeconds
             Due(x, i) == (x - i * D) * FrameDt
  <2>3. m \in Nat /\ b \in Nat /\ t \in Nat /\ b <= m + 1 /\ m + 1 \in Nat
    BY <1>1, <1>2, <2>1
  <2>4. /\ t + FrameDt < TauRaise => m + 1 < (h + 1) * D /\ t + FrameDt >= Due(m + 1, h)
        /\ m + 1 < (h + 2) * D
        /\ 0 >= Due(m + 1, h + 1)
    <3> HIDE DEF m, t, h
    <3>1. m < (h + 1) * D /\ t >= (m - h * D) * FrameDt
      BY <1>1, <1>2, <2>2 DEF m, t
    <3> QED BY <1>1, <2>3, <3>1, DwellArithmetic
  <2>5. \A x, y, i \in Nat : x <= y => Due(x, i) <= Due(y, i)
    <3>1. \A x, y \in Int, f \in Nat : x <= y => x * f <= y * f
      OBVIOUS
    <3>2. \A i \in Nat : i * D \in Nat
      BY <1>1
    <3> QED BY <1>1, <3>1, <3>2
  <2>6. \A x, i \in Nat : Due(x, i) \in Int /\ (i + 1) * D \in Int
    BY <1>1
  <2>7. \/ /\ n.currentK = c.currentK - 1 /\ n.tStableSeconds = 0
        \/ /\ t + FrameDt < TauRaise /\ n.currentK = c.currentK
           /\ n.tStableSeconds = t + FrameDt
    BY <1>1, <1>4, <2>1 DEF Moved
  <2>8. CASE n.currentK = c.currentK - 1 /\ n.tStableSeconds = 0
    <3>1. g = h + 1 /\ g + 1 = h + 2
      BY <1>1, <2>8
    <3> HIDE DEF g, h, m, b, Due
    <3>2. b < (g + 1) * D
      BY <1>1, <2>3, <2>4, <2>6, <3>1
    <3>3. 0 >= Due(b, g)
      <4>1. Due(b, g) <= Due(m + 1, g) /\ 0 >= Due(m + 1, g)
        BY <1>1, <2>3, <2>4, <2>5, <3>1
      <4> QED BY <1>1, <2>3, <2>6, <4>1
    <3> QED BY <2>8, <3>2, <3>3 DEF g, D, b, Due
  <2>9. CASE /\ t + FrameDt < TauRaise /\ n.currentK = c.currentK
             /\ n.tStableSeconds = t + FrameDt
    <3>1. g = h
      BY <2>9
    <3>2. t + FrameDt \in Int
      BY <1>1
    <3> HIDE DEF g, h, m, t, b, Due
    <3>3. b < (g + 1) * D
      BY <1>1, <2>3, <2>4, <2>6, <2>9, <3>1
    <3>4. t + FrameDt >= Due(b, g)
      <4>1. Due(b, g) <= Due(m + 1, g) /\ t + FrameDt >= Due(m + 1, g)
        BY <1>1, <2>3, <2>4, <2>5, <2>9, <3>1
      <4> QED BY <1>1, <2>3, <2>6, <3>2, <4>1
    <3> QED BY <2>9, <3>3, <3>4 DEF g, D, t, b, Due
  <2> QED BY <2>7, <2>8, <2>9
<1> QED BY <1>1, <1>3, <1>4

LEMMA StableTimeStep ==
  ASSUME NEW c \in ControlType, NEW p \in PastType, StableTimeWasSpent(c, p),
         NEW d \in Levels, NEW n \in ControlType, Moved(d, c, n),
         NEW r \in PastType, Counted(d, p, n.currentK # c.currentK, r)
  PROVE  /\ StableTimeWasSpent(n, r)
         /\ n.currentK < c.currentK => (p.atLevel + 1) * FrameDt >= TauRaise
<1>1. /\ d \in Nat /\ c.currentK \in Nat /\ n.currentK \in Nat
      /\ c.tStableSeconds \in Nat /\ n.tStableSeconds \in Nat
      /\ FrameDt \in Nat \ {0} /\ TauRaise \in Nat
      /\ DwellTicks \in Nat \ {0} /\ TauRaise <= DwellTicks * FrameDt
      /\ p.atLevel \in Nat /\ r.atLevel \in Nat
  BY LadderAssumption, TimesAssumption, DwellTicksCover DEF Levels, ControlType, PastType
<1>2. /\ (p.atLevel + 1) * FrameDt = p.atLevel * FrameDt + FrameDt
      /\ (DwellTicks + 1) * FrameDt = DwellTicks * FrameDt + FrameDt
      /\ p.atLevel * FrameDt \in Nat /\ DwellTicks * FrameDt \in Nat
  BY <1>1
<1>3. c.tStableSeconds <= p.atLevel * FrameDt \/ p.atLevel = DwellTicks
  BY DEF StableTimeWasSpent
<1>4. StableTimeWasSpent(n, r)
  <2>1. CASE n.currentK # c.currentK
    <3>1. n.tStableSeconds = 0 /\ r.atLevel = 0
      BY <1>1, <2>1 DEF Moved, Counted
    <3> QED BY <1>1, <3>1 DEF StableTimeWasSpent
  <2>2. CASE n.currentK = c.currentK
    <3>1. n.tStableSeconds <= c.tStableSeconds + FrameDt
      BY <1>1, <2>2 DEF Moved
    <3>2. r.atLevel = p.atLevel + 1 \/ r.atLevel = DwellTicks
      BY <2>2 DEF Counted
    <3>3. CASE r.atLevel = DwellTicks
      BY <3>3 DEF StableTimeWasSpent
    <3>4. CASE r.atLevel = p.atLevel + 1 /\ r.atLevel # DwellTicks
      <4>1. p.atLevel # DwellTicks
        <5>1. r.atLevel \in 0..DwellTicks
          BY DEF PastType
        <5> QED BY <1>1, <3>4, <5>1
      <4>2. n.tStableSeconds <= (p.atLevel + 1) * FrameDt
        BY <1>1, <1>2, <1>3, <3>1, <4>1
      <4> QED BY <3>4, <4>2 DEF StableTimeWasSpent
    <3> QED BY <3>2, <3>3, <3>4
  <2> QED BY <2>1, <2>2
<1>5. ASSUME n.currentK < c.currentK PROVE (p.atLevel + 1) * FrameDt >= TauRaise
  <2>1. c.tStableSeconds + FrameDt >= TauRaise
    BY <1>1, <1>5 DEF Moved
  <2> QED BY <1>1, <1>2, <1>3, <2>1
<1> QED BY <1>4, <1>5

-----------------------------------------------------------------------------
(* The actions.                                                            *)

\* What is said of a level does not depend on the acceleration history.
LEMMA HistoryIsApart ==
  ASSUME NEW c, NEW p, Follows(c, p), NEW a \in {NoHistory, 0, 1},
         NEW n, n = [c EXCEPT !.ahead = a]
  PROVE  /\ Follows(n, p)
         /\ n.ahead = a
         /\ n.currentK = c.currentK
         /\ \A d : PlannedFor(c, d) => PlannedFor(n, d)
<1>1. c \in ControlType
  BY DEF Follows
<1>2. /\ n \in ControlType /\ n.ahead = a
      /\ n.currentK = c.currentK /\ n.tStableSeconds = c.tStableSeconds
  BY <1>1 DEF ControlType
<1>3. FollowsFiner(n, p) /\ FollowsCoarser(n, p) /\ StableTimeWasSpent(n, p)
  BY <1>2 DEF Follows, FollowsFiner, FollowsCoarser, StableTimeWasSpent
<1> QED BY <1>2, <1>3 DEF Follows, PlannedFor

LEMMA NewEntityFollows ==
  /\ NewEntity \in ControlType /\ NewPast \in PastType
  /\ Follows(NewEntity, NewPast)
<1>1. KMax \in Nat /\ TauRaise \in Nat /\ FrameDt \in Nat /\ DwellTicks \in Nat
  BY LadderAssumption, TimesAssumption, DwellTicksCover
<1>2. KMax * DwellTicks \in Nat /\ 2 * TauRaise \in Nat /\ 0 * FrameDt = 0
  BY <1>1
<1>3. NewEntity \in ControlType
  BY <1>1, <1>2 DEF NewEntity, ControlType, Levels
<1>4. NewPast \in PastType
  BY <1>1, <1>2 DEF NewPast, PastType
<1>5. FollowsFiner(NewEntity, NewPast)
  <2> SUFFICES ASSUME NEW k \in Levels PROVE 0 >= Min({k, 0})
    BY DEF FollowsFiner, NewEntity, NewPast
  <2>1. \A a, b \in Nat : Min({a, b}) = IF a <= b THEN a ELSE b
    BY PairExtremes
  <2>2. k \in Nat
    BY <1>1 DEF Levels
  <2> QED BY <2>1, <2>2
<1>6. FollowsCoarser(NewEntity, NewPast)
  BY <1>1 DEF FollowsCoarser, NewEntity, Levels
<1>7. StableTimeWasSpent(NewEntity, NewPast)
  BY <1>2 DEF StableTimeWasSpent, NewEntity, NewPast
<1> QED BY <1>3, <1>4, <1>5, <1>6, <1>7 DEF Follows

LEMMA InitInvariant == Init => IInv
BY DEF Init, IInv, TypeOK, HistoryIsKept, Alive

LEMMA SpawnKeepsInvariant ==
  ASSUME IInv, NEW e \in Entities, Spawn(e)
  PROVE  IInv'
<1> DEFINE A == Alive \cup {e}
<1>1. /\ pc = "ready" /\ pc' = "ready" /\ left' = left /\ left \in Nat
      /\ Alive \subseteq Entities /\ e \notin Alive
      /\ control' = [x \in A |-> IF x = e THEN NewEntity ELSE control[x]]
      /\ past' = [x \in A |-> IF x = e THEN NewPast ELSE past[x]]
  BY DEF Spawn, IInv, TypeOK
<1>2. Alive' = A
  BY <1>1 DEF Alive
<1>3. \A x \in A : /\ Follows(control'[x], past'[x])
                   /\ control'[x].ahead \in {NoHistory, 0}
  <2> SUFFICES ASSUME NEW x \in A
               PROVE  Follows(control'[x], past'[x]) /\ control'[x].ahead \in {NoHistory, 0}
    OBVIOUS
  <2>1. CASE x = e
    <3>1. control'[x] = NewEntity /\ past'[x] = NewPast
      BY <1>1, <2>1
    <3> QED BY <3>1, NewEntityFollows DEF NewEntity
  <2>2. CASE x # e
    <3>1. control'[x] = control[x] /\ past'[x] = past[x] /\ x \in Alive
      BY <1>1, <2>2
    <3> QED BY <1>1, <3>1 DEF IInv, HistoryIsKept
  <2> QED BY <2>1, <2>2
<1>4. TypeOK'
  <2>1. control' \in [A -> ControlType] /\ past' \in [A -> PastType]
    BY <1>1, <1>3 DEF Follows
  <2> QED BY <1>1, <1>2, <2>1 DEF TypeOK
<1> QED BY <1>1, <1>2, <1>3, <1>4 DEF IInv, HistoryIsKept

\* The level of the plan is that of the entity that needs the finest.
LEMMA FinestLevel ==
  ASSUME NEW A, NEW f, \A e \in A : f[e].currentK \in Levels
  PROVE  LET kGlobal == Max({f[e].currentK : e \in A} \cup {0})
         IN  kGlobal \in Levels /\ \A e \in A : kGlobal >= f[e].currentK
<1> DEFINE S == {f[e].currentK : e \in A} \cup {0}
<1>1. S \subseteq 0..KMax /\ S # {}
  BY LadderAssumption DEF Levels
<1>2. Max(S) \in S /\ \A y \in S : Max(S) >= y
  <2> HIDE DEF S
  <2> QED BY <1>1, MaxIsGreatest, LadderAssumption
<1>3. \A e \in A : f[e].currentK \in S
  OBVIOUS
<1> DEFINE m == Max(S)
<1>4. m \in Levels /\ \A e \in A : m >= f[e].currentK
  <2> HIDE DEF S
  <2> QED BY <1>1, <1>2, <1>3 DEF Levels
<1> QED BY <1>4

\* One entity's part of the plan of a tick.
LEMMA PlanMovesEntity ==
  ASSUME NEW c, NEW p, Follows(c, p), NEW need \in Needs,
         NEW d, d = QuantizeToLadder(TargetTimestep(need)),
         NEW n, n = ApplyHysteresis(d, c),
         NEW r, r = Remember(p, d, n.currentK # c.currentK)
  PROVE  /\ Follows(n, r)
         /\ n.ahead = c.ahead
         /\ n.currentK < c.currentK => (p.atLevel + 1) * FrameDt >= TauRaise
<1>1. d \in Levels
  <2>1. TargetTimestep(need) \in Nat
    BY TargetIsClamped, TimesAssumption
  <2> QED BY <2>1, QuantizedIsFineEnough
<1>2. c \in ControlType /\ p \in PastType
  BY DEF Follows
<1>3. n \in ControlType /\ Moved(d, c, n)
  BY <1>1, <1>2, HysteresisMoves
<1> DEFINE changed == n.currentK # c.currentK
<1>4. r \in PastType /\ Counted(d, p, changed, r)
  <2>1. changed \in BOOLEAN
    OBVIOUS
  <2> HIDE DEF changed
  <2>2. r = Remember(p, d, changed)
    BY DEF changed
  <2> QED BY <1>1, <1>2, <2>1, <2>2, RememberCounts
<1>5. FollowsFiner(n, r)
  <2> HIDE DEF changed
  <2> QED BY <1>1, <1>2, <1>3, <1>4, FollowsFinerStep DEF Follows
<1>6. FollowsCoarser(n, r)
  <2> HIDE DEF changed
  <2> QED BY <1>1, <1>2, <1>3, <1>4, FollowsCoarserStep DEF Follows
<1>7. /\ StableTimeWasSpent(n, r)
      /\ n.currentK < c.currentK => (p.atLevel + 1) * FrameDt >= TauRaise
  BY <1>1, <1>2, <1>3, <1>4, StableTimeStep DEF Follows
<1> QED BY <1>3, <1>4, <1>5, <1>6, <1>7 DEF Follows, Moved

LEMMA PlanKeepsInvariant ==
  ASSUME IInv, NEW needs \in [Alive -> Needs], PlanTick(needs)
  PROVE  IInv' /\ RaiseWaitsOutTheDwell
<1> DEFINE target(e)  == TargetTimestep(needs[e])
           desired(e) == QuantizeToLadder(target(e))
           applied    == [e \in Alive |-> ApplyHysteresis(desired(e), control[e])]
           kGlobal    == Max({applied[e].currentK : e \in Alive} \cup {0})
           recalled(e) ==
             Remember(past[e], desired(e), applied[e].currentK # control[e].currentK)
<1>1. /\ pc = "ready" /\ pc' = "substep" /\ Alive \subseteq Entities
      /\ control' = applied
      /\ left' = PlanSubsteps(kGlobal)
      /\ diagnostics' = [e \in Alive |-> [dtRequested  |-> target(e),
                                          ladderLevel  |-> kGlobal,
                                          substepCount |-> PlanSubsteps(kGlobal)]]
      /\ past' = [e \in Alive |-> recalled(e)]
  BY DEF PlanTick, IInv, TypeOK
<1>2. Alive' = Alive
  BY <1>1 DEF Alive
<1>3. ASSUME NEW e \in Alive
      PROVE  /\ Follows(applied[e], recalled(e))
             /\ applied[e].ahead = control[e].ahead
             /\ applied[e].currentK < control[e].currentK =>
                  (past[e].atLevel + 1) * FrameDt >= TauRaise
  <2> DEFINE n == ApplyHysteresis(desired(e), control[e])
  <2>1. applied[e] = n
    OBVIOUS
  <2>2. Follows(control[e], past[e]) /\ needs[e] \in Needs
    BY DEF IInv
  <2>3. LET r == Remember(past[e], desired(e), n.currentK # control[e].currentK)
        IN  /\ Follows(n, r)
            /\ n.ahead = control[e].ahead
            /\ n.currentK < control[e].currentK =>
                 (past[e].atLevel + 1) * FrameDt >= TauRaise
    <3> HIDE DEF n, desired
    <3>1. desired(e) = QuantizeToLadder(TargetTimestep(needs[e]))
      BY DEF desired
    <3>2. n = ApplyHysteresis(desired(e), control[e])
      BY DEF n
    <3> QED BY <2>2, <3>1, <3>2, PlanMovesEntity
  <2> QED BY <2>1, <2>3
<1>4. kGlobal \in Levels /\ \A e \in Alive : kGlobal >= applied[e].currentK
  <2>1. \A e \in Alive : applied[e].currentK \in Levels
    BY <1>3 DEF Follows, ControlType
  <2> HIDE DEF applied
  <2> QED BY <2>1, FinestLevel
<1>5. \A e \in Alive : target(e) \in Nat /\ target(e) >= DtMax \div 2^KMax
  BY TargetIsClamped, TimesAssumption
<1>6. PlanSubsteps(kGlobal) \in Nat \ {0}
  <2> HIDE DEF kGlobal
  <2> QED BY <1>4, PlanCoversFrame
<1> HIDE DEF target, applied, kGlobal, recalled
<1>7. \A e \in Alive : control'[e] = applied[e] /\ past'[e] = recalled(e)
  BY <1>1
<1>8. TypeOK'
  <2>1. control' \in [Alive -> ControlType] /\ past' \in [Alive -> PastType]
    <3>1. applied \in [Alive -> ControlType]
      <4>1. applied = [e \in Alive |-> applied[e]]
        BY DEF applied
      <4>2. \A e \in Alive : applied[e] \in ControlType
        BY <1>3 DEF Follows
      <4> QED BY <4>1, <4>2
    <3>2. \A e \in Alive : recalled(e) \in PastType
      BY <1>3 DEF Follows
    <3> QED BY <1>1, <3>1, <3>2
  <2> QED BY <1>1, <1>2, <1>6, <2>1 DEF TypeOK
<1>9. HistoryIsKept'
  BY <1>1, <1>2, <1>3, <1>7 DEF IInv, HistoryIsKept
<1>10. \A e \in Alive : Follows(control'[e], past'[e])
  BY <1>3, <1>7
<1>11. \A e \in Alive : e \in DOMAIN diagnostics' /\ PlannedFor(control'[e], diagnostics'[e])
  BY <1>1, <1>4, <1>5, <1>7 DEF PlannedFor
<1>12. RaiseWaitsOutTheDwell
  BY <1>2, <1>3, <1>7 DEF RaiseWaitsOutTheDwell
<1> QED BY <1>2, <1>8, <1>9, <1>10, <1>11, <1>12 DEF IInv

LEMMA SubstepKeepsInvariant ==
  ASSUME IInv, NEW dead \in SUBSET Alive, Substep(dead)
  PROVE  IInv'
<1> DEFINE A == Alive \ dead
<1>1. /\ pc = "substep" /\ pc' = "history" /\ left' = left /\ left \in Nat /\ left > 0
      /\ diagnostics' = diagnostics /\ Alive \subseteq Entities
      /\ control' = [e \in A |->
                       IF control[e].ahead = NoHistory THEN control[e]
                       ELSE [control[e] EXCEPT !.ahead = control[e].ahead + 1]]
      /\ past' = [e \in A |-> past[e]]
  BY DEF Substep, IInv, TypeOK
<1>2. Alive' = A
  BY <1>1 DEF Alive
<1>3. ASSUME NEW e \in A
      PROVE  /\ Follows(control'[e], past'[e])
             /\ e \in DOMAIN diagnostics' /\ PlannedFor(control'[e], diagnostics'[e])
  <2>1. /\ Follows(control[e], past[e]) /\ past'[e] = past[e]
        /\ e \in DOMAIN diagnostics /\ PlannedFor(control[e], diagnostics[e])
        /\ control[e].ahead \in {NoHistory, 0}
    BY <1>1 DEF IInv, HistoryIsKept
  <2>2. CASE control[e].ahead = NoHistory
    <3>1. control'[e] = control[e]
      BY <1>1, <2>2
    <3> QED BY <1>1, <2>1, <3>1
  <2>3. CASE control[e].ahead = 0
    <3>1. control'[e] = [control[e] EXCEPT !.ahead = 1]
      BY <1>1, <2>3 DEF NoHistory
    <3> QED BY <1>1, <2>1, <3>1, HistoryIsApart
  <2> QED BY <2>1, <2>2, <2>3
<1>4. TypeOK'
  <2>1. control' \in [A -> ControlType] /\ past' \in [A -> PastType]
    BY <1>1, <1>3 DEF Follows
  <2> QED BY <1>1, <1>2, <2>1 DEF TypeOK
<1> QED BY <1>1, <1>2, <1>3, <1>4 DEF IInv, HistoryIsKept

LEMMA HistoryKeepsInvariant ==
  ASSUME IInv, UpdateJerkHistory
  PROVE  IInv'
<1>1. /\ pc = "history" /\ left' = left - 1 /\ left \in Nat /\ left > 0
      /\ pc' = IF left = 1 THEN "finish" ELSE "substep"
      /\ diagnostics' = diagnostics /\ past' = past /\ Alive \subseteq Entities
      /\ control' = [e \in Alive |-> [control[e] EXCEPT !.ahead = 0]]
      /\ past \in [Alive -> PastType]
  BY DEF UpdateJerkHistory, IInv, TypeOK
<1>2. Alive' = Alive
  BY <1>1 DEF Alive
<1>3. ASSUME NEW e \in Alive
      PROVE  /\ Follows(control'[e], past'[e]) /\ control'[e].ahead = 0
             /\ e \in DOMAIN diagnostics' /\ PlannedFor(control'[e], diagnostics'[e])
  <2>1. /\ Follows(control[e], past[e]) /\ past'[e] = past[e]
        /\ e \in DOMAIN diagnostics /\ PlannedFor(control[e], diagnostics[e])
        /\ control'[e] = [control[e] EXCEPT !.ahead = 0]
    BY <1>1 DEF IInv
  <2> QED BY <1>1, <2>1, HistoryIsApart
<1>4. TypeOK'
  <2>1. control' \in [Alive -> ControlType]
    BY <1>1, <1>3 DEF Follows
  <2> QED BY <1>1, <1>2, <2>1 DEF TypeOK
<1> QED BY <1>1, <1>2, <1>3, <1>4 DEF IInv, HistoryIsKept

LEMMA FinishKeepsInvariant ==
  ASSUME IInv, NEW expired \in SUBSET Alive, FinishTick(expired)
  PROVE  IInv'
<1> DEFINE A == Alive \ expired
<1>1. /\ pc = "finish" /\ pc' = "ready" /\ left' = left /\ left \in Nat
      /\ Alive \subseteq Entities
      /\ control' = [e \in A |-> control[e]] /\ past' = [e \in A |-> past[e]]
  BY DEF FinishTick, IInv, TypeOK
<1>2. Alive' = A
  BY <1>1 DEF Alive
<1>3. \A e \in A : /\ Follows(control'[e], past'[e])
                   /\ control'[e].ahead \in {NoHistory, 0}
  BY <1>1 DEF IInv, HistoryIsKept
<1>4. TypeOK'
  <2>1. control' \in [A -> ControlType] /\ past' \in [A -> PastType]
    BY <1>1, <1>3 DEF Follows
  <2> QED BY <1>1, <1>2, <2>1 DEF TypeOK
<1> QED BY <1>1, <1>2, <1>3, <1>4 DEF IInv, HistoryIsKept

LEMMA StutterKeepsInvariant ==
  ASSUME IInv, UNCHANGED vars
  PROVE  IInv'
<1>1. /\ pc' = pc /\ left' = left /\ control' = control
      /\ diagnostics' = diagnostics /\ past' = past
  BY DEF vars
<1>2. Alive' = Alive
  BY <1>1 DEF Alive
<1> QED BY <1>1, <1>2 DEF IInv, TypeOK, HistoryIsKept

LEMMA NextInvariant == IInv /\ [Next]_vars => IInv'
<1> SUFFICES ASSUME IInv, [Next]_vars PROVE IInv'
  OBVIOUS
<1>1. CASE \E e \in Entities : Spawn(e)
  BY <1>1, SpawnKeepsInvariant
<1>2. CASE \E needs \in [Alive -> Needs] : PlanTick(needs)
  BY <1>2, PlanKeepsInvariant
<1>3. CASE \E dead \in SUBSET Alive : Substep(dead)
  BY <1>3, SubstepKeepsInvariant
<1>4. CASE UpdateJerkHistory
  BY <1>4, HistoryKeepsInvariant
<1>5. CASE \E expired \in SUBSET Alive : FinishTick(expired)
  BY <1>5, FinishKeepsInvariant
<1>6. CASE UNCHANGED vars
  BY <1>6, StutterKeepsInvariant
<1> QED BY <1>1, <1>2, <1>3, <1>4, <1>5, <1>6 DEF Next

\* The inductive invariant holds for any ladder, frame, dwell time and entities.
THEOREM TimestepInvariant == Spec => []IInv
<1> QED BY InitInvariant, NextInvariant, PTL DEF Spec

-----------------------------------------------------------------------------
(* The theorems.                                                           *)

\* The state keeps its type: no level leaves the ladder, no plan has no substep.
THEOREM TimestepTypes == Spec => []TypeOK
<1>1. IInv => TypeOK
  BY DEF IInv
<1> QED BY <1>1, TimestepInvariant, PTL

\* planSubsteps rounds up and plans for the finest level of all: no entity whose
\* level has caught up with what it asks for is moved by a longer step than that.
THEOREM TimestepSubstepsAreFine == Spec => []SubstepsAreFineEnough
<1>1. IInv => SubstepsAreFineEnough
  <2> SUFFICES ASSUME IInv, pc \in {"substep", "history"}, NEW e \in Alive,
                      control[e].currentK >= QuantizeToLadder(diagnostics[e].dtRequested)
               PROVE  FrameDt <= diagnostics[e].dtRequested * diagnostics[e].substepCount
    BY DEF SubstepsAreFineEnough
  <2> DEFINE d == diagnostics[e]
             q == QuantizeToLadder(d.dtRequested)
  <2>1. PlannedFor(control[e], d) /\ control[e].currentK \in Levels
    BY DEF IInv, Follows, ControlType
  <2>2. /\ d.dtRequested \in Nat /\ d.dtRequested >= DtMax \div 2^KMax
        /\ d.ladderLevel \in Levels /\ d.ladderLevel >= control[e].currentK
        /\ d.substepCount = PlanSubsteps(d.ladderLevel)
    BY <2>1 DEF PlannedFor
  <2>3. q \in Levels
    BY <2>2, QuantizedIsFineEnough
  <2>4. d.ladderLevel >= q
    <3> HIDE DEF q
    <3>1. control[e].currentK >= q
      BY DEF q
    <3> QED BY <2>1, <2>2, <2>3, <3>1, LadderAssumption DEF Levels
  <2> QED BY <2>2, <2>4, PlanIsFineEnough
<1> QED BY <1>1, TimestepInvariant, PTL

\* applyHysteresis refines by a level a tick: no demand for finer steps waits longer.
THEOREM TimestepRefinesInTime == Spec => []RefinementKeepsUp
<1>1. IInv => RefinementKeepsUp
  BY DEF IInv, Follows, FollowsFiner, RefinementKeepsUp
<1> QED BY <1>1, TimestepInvariant, PTL

\* However a demand wavers among the levels from k on, the level is at k after one
\* dwell time for each level on the way.
THEOREM TimestepCoarsensInTime == Spec => []CoarseningIsNotStarved
<1>1. IInv => CoarseningIsNotStarved
  <2> SUFFICES ASSUME IInv, NEW e \in Alive, NEW k \in Levels
               PROVE  control[e].currentK <= Max({k, KMax - past[e].coarser[k] \div DwellTicks})
    BY DEF CoarseningIsNotStarved
  <2> DEFINE K == control[e].currentK
             n == past[e].coarser[k]
             D == DwellTicks
             q == n \div D
  <2>1. /\ K \in Nat /\ k \in Nat /\ KMax \in Nat /\ K <= KMax
        /\ n \in Nat /\ D \in Nat \ {0}
        /\ K > k => n < (KMax - K + 1) * D
    <3>1. control[e] \in ControlType /\ past[e] \in PastType
      BY DEF IInv, Follows
    <3>2. KMax \in Nat /\ D \in Nat \ {0} /\ KMax * D \in Nat
      BY LadderAssumption, DwellTicksCover
    <3>3. n \in 0..(KMax * D)
      BY <3>1 DEF PastType
    <3>4. K \in Levels
      BY <3>1 DEF ControlType
    <3>5. K > k => n < (KMax - K + 1) * D
      BY DEF IInv, Follows, FollowsCoarser
    <3> QED BY <3>2, <3>3, <3>4, <3>5 DEF Levels
  <2>2. q \in Nat /\ (K > k => q <= KMax - K)
    <3> HIDE DEF K, n, D
    <3>1. \A a, h \in Nat, b \in Nat \ {0} :
            a \div b \in Nat /\ (a < (h + 1) * b => a \div b <= h)
      OBVIOUS
    <3>2. K > k => KMax - K \in Nat
      BY <2>1
    <3> QED BY <2>1, <3>1, <3>2
  <2>3. Max({k, KMax - q}) = IF k >= KMax - q THEN k ELSE KMax - q
    <3> HIDE DEF q
    <3>1. KMax - q \in Int
      BY <2>1, <2>2
    <3>2. \A a, b \in Int : Max({a, b}) = IF a >= b THEN a ELSE b
      BY PairExtremes
    <3> DEFINE m == KMax - q
    <3>3. k \in Int /\ m \in Int
      BY <2>1, <3>1
    <3>4. Max({k, m}) = IF k >= m THEN k ELSE m
      <4> HIDE DEF m
      <4> QED BY <3>2, <3>3
    <3> QED BY <3>4
  <2> HIDE DEF K, q
  <2>4. K <= Max({k, KMax - q})
    BY <2>1, <2>2, <2>3
  <2> QED BY <2>4 DEF K, q
<1> QED BY <1>1, TimestepInvariant, PTL

\* The stable time is reset with every change of level: no level is left for a
\* coarser one before its dwell time is over.
THEOREM TimestepRaisesWait == Spec => RaisesWaitOutTheDwell
<1>1. IInv /\ [Next]_vars => [RaiseWaitsOutTheDwell]_vars
  <2> SUFFICES ASSUME IInv, Next PROVE RaiseWaitsOutTheDwell
    OBVIOUS
  <2>1. CASE \E needs \in [Alive -> Needs] : PlanTick(needs)
    BY <2>1, PlanKeepsInvariant
  <2>2. CASE ~ \E needs \in [Alive -> Needs] : PlanTick(needs)
    <3> SUFFICES ASSUME NEW e \in Alive \cap DOMAIN control'
                 PROVE  control'[e].currentK = control[e].currentK
      <4>1. \A e \in Alive : control[e].currentK \in Nat
        BY LadderAssumption DEF IInv, Follows, ControlType, Levels
      <4> QED BY <4>1 DEF RaiseWaitsOutTheDwell
    <3>1. control[e] \in ControlType
      BY DEF IInv, Follows
    <3>2. CASE \E x \in Entities : Spawn(x)
      BY <3>2 DEF Spawn, Alive
    <3>3. CASE \E dead \in SUBSET Alive : Substep(dead)
      BY <3>1, <3>3 DEF Substep, Alive, ControlType
    <3>4. CASE UpdateJerkHistory
      BY <3>1, <3>4 DEF UpdateJerkHistory, Alive, ControlType
    <3>5. CASE \E expired \in SUBSET Alive : FinishTick(expired)
      BY <3>5 DEF FinishTick, Alive
    <3> QED BY <2>2, <3>2, <3>3, <3>4, <3>5 DEF Next
  <2> QED BY <2>1, <2>2
<1> QED BY <1>1, TimestepInvariant, PTL DEF Spec, RaisesWaitOutTheDwell
=============================================================================
