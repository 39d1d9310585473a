-------------------------- MODULE SimulationRunner --------------------------
(***************************************************************************)
(* SimulationRunner and the frame that drives it: the engine's Tick passes *)
(* the wall-clock time since the last frame to advance, which turns it     *)
(* into server ticks and feeds the snapshots they yield to the client's    *)
(* buffer; then Tick shows the world a fixed delay behind the newest       *)
(* snapshot. Everything runs in the game thread, one tick at a time.       *)
(*                                                                         *)
(* The buffer is what SnapshotWindow promises. The server is what          *)
(* SimulationServer keeps between ticks: its clock is its tick count times *)
(* its delta, and it has a snapshot of every Interval-th tick.             *)
(* Times are in a unit that makes all of them integers.                    *)
(***************************************************************************)
EXTENDS Integers, Sequences

CONSTANTS
  FixedDt,             \* SimulationConfig{}.fixedDeltaSeconds, of the default config
  ServerDt,            \* fixedDeltaSeconds of the config the server was given
  Interval,            \* snapshotIntervalTicks
  Capacity,            \* snapshotBufferCapacity
  MaxTicksPerAdvance,
  Delay,               \* kDefaultInterpolationDelaySeconds
  Deltas,              \* wall-clock times a frame may take, in units
  Scales,              \* time scale factors
  MaxRequested,        \* bound: simulation time asked for in all
  nullopt

ASSUME StepAssumption  == FixedDt \in Nat \ {0} /\ ServerDt \in Nat \ {0}
ASSUME ConfigAssumption ==
  /\ Interval \in Nat
  /\ Capacity \in Nat \ {0}
  /\ MaxTicksPerAdvance \in Nat
  /\ Delay \in Nat
ASSUME InputAssumption ==
  /\ Deltas \subseteq Int
  /\ Scales \subseteq Nat
  /\ MaxRequested \in Nat
ASSUME RunnerNulloptAssumption == nullopt \notin Int

VARIABLES
  pc,            \* "idle" between frames, "run" in advance, "render" after it
  scale,         \* runnerConfig_.timeScaleFactor
  accumulated,   \* accumulatedSimSeconds_
  ticksToRun,    \* advance's ticksToRun
  left,          \* turns of its loop still to take
  tickCount,     \* the server's tick count
  lastSnapshot,  \* the server's last snapshot
  window,        \* the snapshot buffer
  scene,         \* the time the actors show, nullopt before the first
  requested      \* history: the scaled time of all frames so far

advanceVars == <<ticksToRun, left>>
serverVars == <<tickCount, lastSnapshot>>
vars == <<pc, scale, accumulated, ticksToRun, left, tickCount, lastSnapshot, window,
          scene, requested>>

\* What the buffer answers shows only in the scene, which pushing leaves alone.
Buffer == INSTANCE SnapshotWindow WITH
            Times <- Nat, Worlds <- Nat, answer <- scene

\* The snapshot of a tick: its time and, for its contents, which tick it is of.
SnapshotOf(tick) == [elapsedSeconds |-> ServerDt * tick, world |-> tick]

latest == window[Len(window)]

\* The constructor runs the server up to its first snapshot, if it makes any. It
\* asserts that the scale is positive; setTimeScaleFactor does not.
Init ==
  /\ pc = "idle"
  /\ scale \in Scales \ {0}
  /\ accumulated = 0
  /\ ticksToRun = 0
  /\ left = 0
  /\ tickCount = Interval
  /\ lastSnapshot = SnapshotOf(Interval)
  /\ window = <<SnapshotOf(Interval)>>
  /\ scene = nullopt
  /\ requested = 0

SetTimeScaleFactor(factor) ==
  /\ pc = "idle"
  /\ scale' = factor
  /\ UNCHANGED <<pc, accumulated, advanceVars, serverVars, window, scene, requested>>

Least(m, n) == IF m < n THEN m ELSE n

\* Mutants of Advance: there is no cap; only the frame's own time makes ticks.
AdvanceBugCap(delta) ==
  /\ pc = "idle"
  /\ delta > 0
  /\ requested + delta * scale <= MaxRequested
  /\ LET owed == accumulated + delta * scale
     IN  /\ accumulated' = owed
         /\ ticksToRun' = owed \div FixedDt
         /\ left' = owed \div FixedDt
  /\ requested' = requested + delta * scale
  /\ pc' = "run"
  /\ UNCHANGED <<scale, serverVars, window, scene>>

AdvanceBugRemainder(delta) ==
  /\ pc = "idle"
  /\ delta > 0
  /\ requested + delta * scale <= MaxRequested
  /\ LET run == Least((delta * scale) \div FixedDt, MaxTicksPerAdvance)
     IN  /\ accumulated' = accumulated + delta * scale
         /\ ticksToRun' = run
         /\ left' = run
  /\ requested' = requested + delta * scale
  /\ pc' = "run"
  /\ UNCHANGED <<scale, serverVars, window, scene>>

\* A frame's time is added to what is owed, and as many whole ticks are begun as
\* are owed and the cap allows.
Advance(delta) ==
  /\ pc = "idle"
  /\ delta > 0
  /\ requested + delta * scale <= MaxRequested
  /\ LET owed == accumulated + delta * scale
         run  == Least(owed \div FixedDt, MaxTicksPerAdvance)
     IN  /\ accumulated' = owed
         /\ ticksToRun' = run
         /\ left' = run
  /\ requested' = requested + delta * scale
  /\ pc' = "run"
  /\ UNCHANGED <<scale, serverVars, window, scene>>

\* A frame of no time changes nothing; the rest of Tick follows it all the same.
AdvanceNothing(delta) ==
  /\ pc = "idle"
  /\ delta <= 0
  /\ pc' = "render"
  /\ UNCHANGED <<scale, accumulated, advanceVars, serverVars, window, scene, requested>>

Due(tick) == Interval > 0 /\ tick % Interval = 0

\* Mutant of RunTick: only the advance's last snapshot is pushed.
RunTickBug ==
  /\ pc = "run"
  /\ left > 0
  /\ left' = left - 1
  /\ tickCount' = tickCount + 1
  /\ lastSnapshot' = IF Due(tickCount + 1) THEN SnapshotOf(tickCount + 1) ELSE lastSnapshot
  /\ \/ /\ left = 1 /\ lastSnapshot'.elapsedSeconds > latest.elapsedSeconds
        /\ Buffer!Push(lastSnapshot')
     \/ /\ left > 1 \/ lastSnapshot'.elapsedSeconds <= latest.elapsedSeconds
        /\ UNCHANGED window
  /\ UNCHANGED <<pc, scale, accumulated, ticksToRun, scene, requested>>

\* One turn of advance's loop: a server tick, and its snapshot into the buffer if
\* it is a new one.
RunTick ==
  /\ pc = "run"
  /\ left > 0
  /\ left' = left - 1
  /\ tickCount' = tickCount + 1
  /\ lastSnapshot' = IF Due(tickCount + 1) THEN SnapshotOf(tickCount + 1) ELSE lastSnapshot
  /\ \/ /\ window = << >> \/ lastSnapshot'.elapsedSeconds > latest.elapsedSeconds
        /\ Buffer!Push(lastSnapshot')
     \/ /\ window # << >>
        /\ lastSnapshot'.elapsedSeconds <= latest.elapsedSeconds
        /\ UNCHANGED window
  /\ UNCHANGED <<pc, scale, accumulated, ticksToRun, scene, requested>>

\* Mutant of EndAdvance: every whole tick owed is taken off.
EndAdvanceBugBudget ==
  /\ pc = "run"
  /\ left = 0
  /\ accumulated' = accumulated % FixedDt
  /\ pc' = "render"
  /\ UNCHANGED <<scale, advanceVars, serverVars, window, scene, requested>>

\* Only the ticks that ran are taken off what is owed.
EndAdvance ==
  /\ pc = "run"
  /\ left = 0
  /\ accumulated' = accumulated - ticksToRun * FixedDt
  /\ pc' = "render"
  /\ UNCHANGED <<scale, advanceVars, serverVars, window, scene, requested>>

\* Mutant of Render: the render time follows the server's clock.
RenderBug ==
  /\ pc = "render"
  /\ LET renderTime == ServerDt * tickCount - Delay
     IN  scene' = IF window # << >> /\ Buffer!InRange(renderTime)
                  THEN renderTime ELSE scene
  /\ pc' = "idle"
  /\ UNCHANGED <<scale, accumulated, advanceVars, serverVars, window, requested>>

\* The rest of Tick: the actors are moved if the buffer has an answer, and stay
\* where they are if it has none.
Render ==
  /\ pc = "render"
  /\ LET renderTime == latest.elapsedSeconds - Delay
     IN  scene' = IF window # << >> /\ Buffer!InRange(renderTime)
                  THEN renderTime ELSE scene
  /\ pc' = "idle"
  /\ UNCHANGED <<scale, accumulated, advanceVars, serverVars, window, requested>>

FrameStep == RunTick \/ EndAdvance \/ Render

Next ==
  \/ \E factor \in Scales : SetTimeScaleFactor(factor)
  \/ \E delta \in Deltas : Advance(delta) \/ AdvanceNothing(delta)
  \/ FrameStep

Spec == Init /\ [][Next]_vars

-----------------------------------------------------------------------------
TicksRun == tickCount - Interval

SnapshotType == [elapsedSeconds : Nat, world : Nat]

TypeOK ==
  /\ pc \in {"idle", "run", "render"}
  /\ scale \in Scales
  /\ accumulated \in Nat
  /\ ticksToRun \in 0..MaxTicksPerAdvance
  /\ left \in 0..ticksToRun
  /\ tickCount \in Nat
  /\ lastSnapshot \in SnapshotType
  /\ window \in Seq(SnapshotType)
  /\ scene \in Nat \cup {nullopt}
  /\ requested \in 0..MaxRequested

\* No time is lost or made up: what frames asked for is what the ticks have used
\* and what is still owed, across caps, remainders and changes of scale.
TimeIsAccountedFor ==
  pc # "run" => accumulated + FixedDt * TicksRun = requested

\* An advance stops short of what is owed only at the cap.
OnlyTheCapHoldsBack ==
  pc # "run" => accumulated < FixedDt \/ ticksToRun = MaxTicksPerAdvance

\* The buffer misses no snapshot the server made, though it is offered the last
\* one again after every tick: it holds the last ones there were, in a row.
NoSnapshotIsMissed ==
  Interval > 0 =>
    LET newest == tickCount \div Interval
    IN  /\ Len(window) = Least(Capacity, newest)
        /\ \A i \in 1..Len(window) :
             window[i] = SnapshotOf(Interval * (newest - Len(window) + i))

\* The server as the runner has it: a feed of snapshots it does not look into.
Feed == INSTANCE SnapshotFeed WITH
          Dt       <- ServerDt,
          Entities <- {},
          latest   <- [tick    |-> lastSnapshot.world,
                       elapsed |-> lastSnapshot.elapsedSeconds,
                       shown   |-> {},
                       gone    |-> {}],
          departed <- << >>

\* What the runner is checked with is what SimulationServer implements: frames run
\* server ticks whole and one by one, and see their snapshots at no other time.
ServerIsAFeed == Feed!Spec

\* Once anything is shown, every frame is: the picture is exactly the delay behind
\* the newest snapshot, and the render time never falls out of the buffer. That
\* needs a server that makes snapshots and a buffer that spans the delay.
BufferSpansDelay == Interval > 0 /\ (Capacity - 1) * (Interval * ServerDt) >= Delay

PictureDoesNotFreeze ==
  BufferSpansDelay /\ pc = "idle" /\ scene # nullopt =>
    scene = latest.elapsedSeconds - Delay

\* The header on advance: it advances the simulation by the wall-clock delta
\* scaled by the time scale factor, up to what the accumulator carries over.
SimulatesWhatIsAsked ==
  pc # "run" => accumulated + ServerDt * TicksRun = requested

\* What brings a frame to its end: the steps it has left, one less with every step,
\* and never more of them than the cap allows; a change of scale waits for its end.
StepsLeft ==
  CASE pc = "run"    -> left + 2
    [] pc = "render" -> 1
    [] pc = "idle"   -> 0

FramesRunDown ==
  /\ [](StepsLeft \in 0..(MaxTicksPerAdvance + 2) /\ (StepsLeft = 0 <=> pc = "idle"))
  /\ [][pc # "idle" => StepsLeft' = StepsLeft - 1]_vars

\* The inductive invariant: during the loop, what is owed still includes the
\* ticks of this advance that have run.
Owing ==
  /\ tickCount >= Interval
  /\ pc = "run" => /\ accumulated >= ticksToRun * FixedDt
                   /\ accumulated + FixedDt * (TicksRun - (ticksToRun - left)) = requested
                   /\ \/ ticksToRun = MaxTicksPerAdvance
                      \/ accumulated - ticksToRun * FixedDt < FixedDt

IInv ==
  /\ TypeOK
  /\ Owing
  /\ TimeIsAccountedFor
  /\ OnlyTheCapHoldsBack

\* What NoSnapshotIsMissed needs to be inductive: the server's last snapshot is that
\* of the last tick that was due one, and the buffer has it.
LastSnapshotIsDue ==
  Interval > 0 =>
    /\ tickCount \div Interval >= 1
    /\ lastSnapshot = SnapshotOf(Interval * (tickCount \div Interval))

\* What PictureDoesNotFreeze needs: what is shown once stays within the buffer.
StaysInRange ==
  BufferSpansDelay /\ scene # nullopt => window[1].elapsedSeconds + Delay <= latest.elapsedSeconds

PictureInv ==
  /\ NoSnapshotIsMissed
  /\ LastSnapshotIsDue
  /\ StaysInRange
  /\ PictureDoesNotFreeze
=============================================================================
