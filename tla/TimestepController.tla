------------------------- MODULE TimestepController -------------------------
(***************************************************************************)
(* TimestepController and the part of an adaptive tick that uses it. Each  *)
(* ship and projectile asks for a step, which is quantized to a level of   *)
(* the ladder dt_max / 2^k; hysteresis keeps the level it is given from    *)
(* following every whim of what it asks for; and the tick is cut into the  *)
(* substeps the finest of the levels needs.                                *)
(*                                                                         *)
(* Times are in a unit that makes all of them integers. What the orbital,  *)
(* acceleration and close-approach heuristics ask for is an input.         *)
(***************************************************************************)
EXTENDS Integers, FiniteSets, FiniteSetsExt

CONSTANTS
  Entities,    \* ships and projectiles there may be at a time
  DtMax,       \* dt_max, the ladder's coarsest step
  KMax,        \* k_max, its finest level
  FrameDt,     \* config.fixedDeltaSeconds
  TauRaise,    \* tau_raise_seconds
  Needs        \* the steps an entity's heuristics may ask for

ASSUME LadderAssumption ==
  /\ DtMax \in Nat \ {0}
  /\ KMax \in Nat
  /\ DtMax % 2^KMax = 0
ASSUME TimesAssumption ==
  /\ FrameDt \in Nat \ {0}
  /\ TauRaise \in Nat
  /\ Needs \subseteq Nat

VARIABLES
  pc,            \* "ready" between ticks, then "substep" and "history" in turn
  left,          \* substeps still to run
  control,       \* timestepState of each entity alive
  diagnostics,   \* lastTimestepDiagnostics
  past           \* history of each entity alive: see Remember

vars == <<pc, left, control, diagnostics, past>>

Levels == 0..KMax

\* The arithmetic of the powers of two that the ladder rests on, for the proofs.
ASSUME PowersAssumption ==
  /\ \A k \in Levels : 2^k \in Nat \ {0}
  /\ \A k, l \in Levels : k <= l => 2^k <= 2^l

-----------------------------------------------------------------------------
\* The heuristics' minimum is clamped to the ladder's range.
TargetTimestep(need) == Max({DtMax \div 2^KMax, Min({need, DtMax})})

\* The coarsest level whose step is no longer than the target, by its formula: the
\* ceiling of the binary logarithm of dt_max / target.
QuantizeToLadder(target) ==
  IF target >= DtMax THEN 0
  ELSE Min({k \in Levels : DtMax <= target * 2^k} \cup {KMax})

\* Mutants of Refine: it leaves the stable time; it lets a tick go by first.
RefineBugReset(c) == [c EXCEPT !.currentK = c.currentK + 1]

RefineBugDelay(c) ==
  IF c.tStableSeconds = 0 THEN [c EXCEPT !.tStableSeconds = FrameDt]
  ELSE [c EXCEPT !.currentK = c.currentK + 1, !.tStableSeconds = 0]

\* Finer by one level, at once.
Refine(c) == [c EXCEPT !.currentK = c.currentK + 1, !.tStableSeconds = 0]

\* Mutant of DwellServed: the frame's own time does not count.
DwellServedBug(stable) == stable - FrameDt >= TauRaise

DwellServed(stable) == stable >= TauRaise

\* Coarser by one level, if the dwell time is over.
Coarsen(c) ==
  LET stable == c.tStableSeconds + FrameDt
  IN  IF DwellServed(stable)
      THEN [c EXCEPT !.currentK = c.currentK - 1, !.tStableSeconds = 0]
      ELSE [c EXCEPT !.tStableSeconds = stable]

\* Mutant of Remain: the stable time is not capped.
RemainBug(c) == [c EXCEPT !.tStableSeconds = c.tStableSeconds + FrameDt]

\* The level remains, and its stable time grows up to a cap.
Remain(c) ==
  [c EXCEPT !.tStableSeconds = Min({c.tStableSeconds + FrameDt, 2 * TauRaise})]

ApplyHysteresis(desired, c) ==
  CASE desired > c.currentK -> Refine(c)
    [] desired < c.currentK -> Coarsen(c)
    [] desired = c.currentK -> Remain(c)

\* Mutant of PlanSubsteps: the count is rounded down.
PlanSubstepsBug(k) == Max({1, (FrameDt * 2^k) \div DtMax})

\* planSubsteps: the number of substeps that cover the frame, none of them longer
\* than the level's step. Each is a frame divided by their number.
PlanSubsteps(k) == Max({1, (FrameDt * 2^k + DtMax - 1) \div DtMax})

\* The steps an entity's acceleration is ahead of the one kept as aPrev; there is
\* none before the first substep.
NoHistory == -1

NewEntity == [currentK |-> 0, tStableSeconds |-> 0, ahead |-> NoHistory]

\* Ticks of a constant demand that move a level by one when it is to be coarser.
DwellTicks == Max({1, (TauRaise + FrameDt - 1) \div FrameDt})

\* What is remembered of an entity: the ticks its level has not changed for; for
\* each level, for how many ticks on end it has asked for that level or a finer
\* one, and for how many for that level or a coarser one. Each count stops at the
\* number beyond which nothing more is said of it.
NewPast ==
  [atLevel |-> 0, finer |-> [k \in Levels |-> 0], coarser |-> [k \in Levels |-> 0]]

Remember(p, desired, changed) ==
  [atLevel |-> IF changed THEN 0 ELSE Min({p.atLevel + 1, DwellTicks}),
   finer   |-> [k \in Levels |->
                  IF desired >= k THEN Min({p.finer[k] + 1, KMax}) ELSE 0],
   coarser |-> [k \in Levels |->
                  IF desired <= k
                  THEN Min({p.coarser[k] + 1, KMax * DwellTicks}) ELSE 0]]

Init ==
  /\ pc = "ready"
  /\ left = 0
  /\ control = << >>
  /\ diagnostics = << >>
  /\ past = << >>

Alive == DOMAIN control

\* A ship is spawned between ticks, a projectile at the beginning of one.
Spawn(e) ==
  /\ pc = "ready"
  /\ e \notin Alive
  /\ control' = [x \in Alive \cup {e} |-> IF x = e THEN NewEntity ELSE control[x]]
  /\ past' = [x \in Alive \cup {e} |-> IF x = e THEN NewPast ELSE past[x]]
  /\ UNCHANGED <<pc, left, diagnostics>>

\* The loops over ships and projectiles, the plan and the diagnostics.
PlanTick(needs) ==
  LET target(e)  == TargetTimestep(needs[e])
      desired(e) == QuantizeToLadder(target(e))
      applied    == [e \in Alive |-> ApplyHysteresis(desired(e), control[e])]
      kGlobal    == Max({applied[e].currentK : e \in Alive} \cup {0})
  IN  /\ pc = "ready"
      /\ control' = applied
      /\ left' = PlanSubsteps(kGlobal)
      /\ diagnostics' = [e \in Alive |-> [dtRequested  |-> target(e),
                                          ladderLevel  |-> kGlobal,
                                          substepCount |-> PlanSubsteps(kGlobal)]]
      /\ past' = [e \in Alive |->
                    Remember(past[e], desired(e), applied[e].currentK # control[e].currentK)]
      /\ pc' = "substep"

\* A substep up to integrateVelocities: collisions erase some entities, and the
\* others get a new acceleration.
Substep(dead) ==
  /\ pc = "substep"
  /\ control' = [e \in Alive \ dead |->
                   IF control[e].ahead = NoHistory THEN control[e]
                   ELSE [control[e] EXCEPT !.ahead = control[e].ahead + 1]]
  /\ past' = [e \in Alive \ dead |-> past[e]]
  /\ pc' = "history"
  /\ UNCHANGED <<left, diagnostics>>

\* The end of a substep: the acceleration is kept as aPrev.
UpdateJerkHistory ==
  /\ pc = "history"
  /\ control' = [e \in Alive |-> [control[e] EXCEPT !.ahead = 0]]
  /\ left' = left - 1
  /\ pc' = IF left = 1 THEN "finish" ELSE "substep"
  /\ UNCHANGED <<diagnostics, past>>

\* The end of the tick: projectiles expire.
FinishTick(expired) ==
  /\ pc = "finish"
  /\ control' = [e \in Alive \ expired |-> control[e]]
  /\ past' = [e \in Alive \ expired |-> past[e]]
  /\ pc' = "ready"
  /\ UNCHANGED <<left, diagnostics>>

Next ==
  \/ \E e \in Entities : Spawn(e)
  \/ \E needs \in [Alive -> Needs] : PlanTick(needs)
  \/ \E dead \in SUBSET Alive : Substep(dead)
  \/ UpdateJerkHistory
  \/ \E expired \in SUBSET Alive : FinishTick(expired)

Spec == Init /\ [][Next]_vars

-----------------------------------------------------------------------------
ControlType ==
  [currentK : Levels, tStableSeconds : 0..(2 * TauRaise), ahead : {NoHistory, 0, 1}]

PastType ==
  [atLevel : 0..DwellTicks, finer : [Levels -> 0..KMax],
   coarser : [Levels -> 0..(KMax * DwellTicks)]]

TypeOK ==
  /\ pc \in {"ready", "substep", "history", "finish"}
  /\ left \in Nat
  /\ pc \in {"substep", "history"} => left > 0
  /\ Alive \subseteq Entities
  /\ control \in [Alive -> ControlType]
  /\ past \in [Alive -> PastType]

\* No entity is moved by a longer step than it asked for, whichever entity the
\* plan was made for, once its own level has come down to what it asks for.
SubstepsAreFineEnough ==
  pc \in {"substep", "history"} =>
    \A e \in Alive :
      control[e].currentK >= QuantizeToLadder(diagnostics[e].dtRequested) =>
        FrameDt <= diagnostics[e].dtRequested * diagnostics[e].substepCount

\* A level is left for a coarser one only by an entity that has been on it for the
\* dwell time, whatever it has asked for meanwhile.
RaiseWaitsOutTheDwell ==
  \A e \in Alive \cap DOMAIN control' :
    control'[e].currentK < control[e].currentK =>
      (past[e].atLevel + 1) * FrameDt >= TauRaise

RaisesWaitOutTheDwell == [][RaiseWaitsOutTheDwell]_vars

\* The level lags behind a demand for finer steps by one tick a level and no more:
\* asking for level k or finer for k ticks on end is enough to be given it.
RefinementKeepsUp ==
  \A e \in Alive : \A k \in Levels :
    control[e].currentK >= Min({k, past[e].finer[k]})

\* A demand for coarser steps is met in time: level by level, one dwell time each,
\* however it wavers among the coarser levels.
CoarseningIsNotStarved ==
  \A e \in Alive : \A k \in Levels :
    control[e].currentK <= Max({k, KMax - past[e].coarser[k] \div DwellTicks})

\* The comment on aPrev: it is the acceleration from the previous substep, so that
\* the heuristics can tell how fast the acceleration changes over a substep.
JerkSpansASubstep ==
  pc = "ready" => \A e \in Alive : control[e].ahead \in {NoHistory, 1}
=============================================================================
