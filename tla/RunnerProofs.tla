----------------------------- MODULE RunnerProofs ----------------------------
(***************************************************************************)
(* The time SimulationRunner is given is the time it simulates or still    *)
(* owes, for every tick length, cap, buffer and sequence of frames. The    *)
(* invariant is inductive because, during the loop of an advance, it says  *)
(* how many of its ticks have run.                                         *)
(***************************************************************************)
EXTENDS SimulationRunner, TLAPS

\* Division leaves a remainder below the divisor.
LEMMA WholeTicks ==
  ASSUME NEW m \in Nat, NEW f \in Nat \ {0}
  PROVE  /\ m \div f \in Nat
         /\ (m \div f) * f <= m
         /\ m < (m \div f) * f + f
  OBVIOUS

\* A smaller number of whole ticks takes no more time.
LEMMA FewerTicks ==
  ASSUME NEW f \in Nat \ {0}, NEW m \in Nat, NEW n \in Nat, m <= n
  PROVE  m * f <= n * f
  OBVIOUS

\* Taking back the ticks of an advance takes back their time.
LEMMA TicksTakenBack ==
  ASSUME NEW f \in Nat \ {0}, NEW t \in Int, NEW n \in Int
  PROVE  f * (t - n) = f * t - n * f
  OBVIOUS

\* The product of what is not negative is not.
LEMMA TimeOfTicks ==
  ASSUME NEW f \in Nat, NEW n \in Nat
  PROVE  f * n \in Nat
  OBVIOUS

\* What a snapshot of the server is, and what the buffer holds after it is pushed.
LEMMA SnapshotTyped ==
  ASSUME NEW tick \in Nat
  PROVE  SnapshotOf(tick) \in SnapshotType
<1>1. ServerDt * tick \in Nat
  BY TimeOfTicks, StepAssumption
<1> QED BY <1>1 DEF SnapshotOf, SnapshotType

LEMMA PushTyped ==
  ASSUME window \in Seq(SnapshotType), NEW s \in SnapshotType, Buffer!Push(s)
  PROVE  window' \in Seq(SnapshotType)
<1>1. CASE window' = window
  BY <1>1
<1>2. CASE window' = Append(window, s)
  BY <1>2
<1>3. CASE window' = Append(Tail(window), s) /\ Len(window) = Capacity
  <2>1. window # << >>
    BY <1>3, ConfigAssumption
  <2>2. Tail(window) \in Seq(SnapshotType)
    BY <2>1
  <2> QED BY <1>3, <2>2
<1> QED BY <1>1, <1>2, <1>3 DEF Buffer!Push

\* The type of a state after a step, and its accounts.
LEMMA InitInvariant == Init => IInv
<1> SUFFICES ASSUME Init PROVE IInv
  OBVIOUS
<1>1. SnapshotOf(Interval) \in SnapshotType
  BY SnapshotTyped, ConfigAssumption
<1>2. TypeOK
  BY <1>1, ConfigAssumption, InputAssumption DEF Init, TypeOK
<1>3. Owing /\ TimeIsAccountedFor /\ OnlyTheCapHoldsBack
  <2>1. FixedDt * (tickCount - Interval) = 0
    BY StepAssumption, ConfigAssumption DEF Init
  <2> QED BY <2>1, StepAssumption, ConfigAssumption
          DEF Init, Owing, TimeIsAccountedFor, OnlyTheCapHoldsBack, TicksRun
<1> QED BY <1>2, <1>3 DEF IInv

LEMMA AdvanceInvariant ==
  ASSUME IInv, NEW delta \in Deltas, Advance(delta)
  PROVE  IInv'
<1> DEFINE owed == accumulated + delta * scale
           whole == owed \div FixedDt
           time == delta * scale
<1>1. /\ TypeOK /\ Owing /\ TimeIsAccountedFor /\ pc = "idle"
      /\ delta \in Nat /\ scale \in Nat
  BY InputAssumption DEF IInv, TypeOK, Advance
<1>2. time \in Nat
  BY <1>1, TimeOfTicks
<1>3. owed \in Nat
  BY <1>1, <1>2 DEF TypeOK
<1>4. /\ whole \in Nat
      /\ whole * FixedDt <= owed
      /\ owed < whole * FixedDt + FixedDt
  BY <1>3, WholeTicks, StepAssumption
<1>5. /\ accumulated' = owed
      /\ ticksToRun' = Least(whole, MaxTicksPerAdvance)
      /\ left' = ticksToRun'
      /\ requested' = requested + time
      /\ requested' <= MaxRequested
      /\ pc' = "run"
      /\ UNCHANGED <<scale, tickCount, lastSnapshot, window, scene>>
  BY DEF Advance, serverVars
<1> HIDE DEF whole, time, owed
<1>6. /\ ticksToRun' \in 0..MaxTicksPerAdvance
      /\ ticksToRun' <= whole
      /\ ticksToRun' = MaxTicksPerAdvance \/ ticksToRun' = whole
  BY <1>4, <1>5, ConfigAssumption DEF Least
<1>7. TypeOK'
  <2>1. requested' \in 0..MaxRequested
    BY <1>1, <1>2, <1>5, InputAssumption DEF TypeOK
  <2>2. left' \in 0..ticksToRun'
    BY <1>5, <1>6, ConfigAssumption
  <2> QED BY <1>1, <1>3, <1>5, <1>6, <2>1, <2>2 DEF TypeOK
<1>8. Owing'
  <2>1. ticksToRun' * FixedDt <= whole * FixedDt
    BY <1>4, <1>6, FewerTicks, StepAssumption, ConfigAssumption
  <2>2. ticksToRun' * FixedDt \in Nat /\ whole * FixedDt \in Nat
    BY <1>4, <1>6, TimeOfTicks, StepAssumption, ConfigAssumption
  <2>3. accumulated' >= ticksToRun' * FixedDt
    BY <1>3, <1>4, <1>5, <2>1, <2>2
  <2>4. ticksToRun' = MaxTicksPerAdvance
        \/ accumulated' - ticksToRun' * FixedDt < FixedDt
    BY <1>3, <1>4, <1>5, <1>6, <2>2, StepAssumption
  <2>5. TicksRun' - (ticksToRun' - left') = TicksRun
    BY <1>1, <1>5, <1>6, ConfigAssumption DEF TypeOK, TicksRun
  <2>6. accumulated' + FixedDt * (TicksRun' - (ticksToRun' - left')) = requested'
    <3>1. accumulated + FixedDt * TicksRun = requested
      BY <1>1 DEF TimeIsAccountedFor
    <3>2. FixedDt * TicksRun \in Nat
      BY <1>1, TimeOfTicks, StepAssumption, ConfigAssumption DEF TypeOK, Owing, TicksRun
    <3>3. owed = accumulated + time
      BY DEF owed, time
    <3> QED BY <1>1, <1>2, <1>5, <2>5, <3>1, <3>2, <3>3, InputAssumption DEF TypeOK
  <2>7. (tickCount >= Interval)'
    BY <1>1, <1>5 DEF Owing
  <2> QED BY <1>5, <2>3, <2>4, <2>6, <2>7 DEF Owing
<1>9. TimeIsAccountedFor' /\ OnlyTheCapHoldsBack'
  BY <1>5 DEF TimeIsAccountedFor, OnlyTheCapHoldsBack
<1> QED BY <1>7, <1>8, <1>9 DEF IInv

LEMMA RunTickInvariant ==
  ASSUME IInv, RunTick
  PROVE  IInv'
<1>1. /\ TypeOK /\ Owing /\ pc = "run" /\ left > 0
      /\ left' = left - 1
      /\ tickCount' = tickCount + 1
      /\ UNCHANGED <<pc, scale, accumulated, ticksToRun, scene, requested>>
  BY DEF IInv, RunTick
<1>2. lastSnapshot' \in SnapshotType
  <2>1. SnapshotOf(tickCount + 1) \in SnapshotType
    BY <1>1, SnapshotTyped DEF TypeOK
  <2> QED BY <1>1, <2>1 DEF RunTick, TypeOK
<1>3. window' \in Seq(SnapshotType)
  BY <1>1, <1>2, PushTyped DEF RunTick, TypeOK
<1>4. TypeOK'
  BY <1>1, <1>2, <1>3, ConfigAssumption DEF TypeOK
<1>5. Owing'
  <2>1. TicksRun' - (ticksToRun' - left') = TicksRun - (ticksToRun - left)
    BY <1>1, ConfigAssumption DEF TypeOK, TicksRun
  <2>2. (tickCount >= Interval)'
    BY <1>1, ConfigAssumption DEF TypeOK, Owing
  <2> QED BY <1>1, <2>1, <2>2 DEF Owing
<1>6. TimeIsAccountedFor' /\ OnlyTheCapHoldsBack'
  BY <1>1 DEF TimeIsAccountedFor, OnlyTheCapHoldsBack
<1> QED BY <1>4, <1>5, <1>6 DEF IInv

LEMMA EndAdvanceInvariant ==
  ASSUME IInv, EndAdvance
  PROVE  IInv'
<1> DEFINE time == ticksToRun * FixedDt
<1>1. /\ TypeOK /\ Owing /\ pc = "run" /\ left = 0
      /\ accumulated' = accumulated - time
      /\ pc' = "render"
      /\ UNCHANGED <<scale, ticksToRun, left, tickCount, lastSnapshot, window, scene,
                     requested>>
  BY DEF IInv, EndAdvance, advanceVars, serverVars
<1>2. /\ accumulated >= time
      /\ accumulated + FixedDt * (TicksRun - ticksToRun) = requested
      /\ ticksToRun = MaxTicksPerAdvance \/ accumulated - time < FixedDt
  <2>1. ticksToRun - left = ticksToRun
    BY <1>1, ConfigAssumption DEF TypeOK
  <2> QED BY <1>1, <2>1 DEF Owing
<1>3. ticksToRun \in Nat /\ TicksRun \in Nat
  BY <1>1, ConfigAssumption DEF TypeOK, Owing, TicksRun
<1>4. time \in Nat /\ FixedDt * TicksRun \in Nat
  BY <1>3, TimeOfTicks, StepAssumption
<1>5. FixedDt * (TicksRun - ticksToRun) = FixedDt * TicksRun - time
  BY <1>3, TicksTakenBack, StepAssumption
<1> HIDE DEF time
<1>6. accumulated' \in Nat
  BY <1>1, <1>2, <1>4 DEF TypeOK
<1>7. TypeOK'
  BY <1>1, <1>6 DEF TypeOK
<1>8. TimeIsAccountedFor'
  <2>1. accumulated' + FixedDt * TicksRun = requested
    BY <1>1, <1>2, <1>4, <1>5 DEF TypeOK
  <2>2. TicksRun' = TicksRun
    BY <1>1 DEF TicksRun
  <2> QED BY <1>1, <2>1, <2>2 DEF TimeIsAccountedFor
<1>9. OnlyTheCapHoldsBack'
  BY <1>1, <1>2 DEF OnlyTheCapHoldsBack
<1>10. Owing'
  BY <1>1 DEF Owing
<1> QED BY <1>7, <1>8, <1>9, <1>10 DEF IInv

\* A frame only shows a time it found in the buffer, so never one before the start.
LEMMA RenderInvariant ==
  ASSUME IInv, Render
  PROVE  IInv'
<1>1. /\ TypeOK /\ Owing /\ TimeIsAccountedFor /\ OnlyTheCapHoldsBack /\ pc = "render"
      /\ pc' = "idle"
      /\ UNCHANGED <<scale, accumulated, ticksToRun, left, tickCount, lastSnapshot, window,
                     requested>>
  BY DEF IInv, Render, advanceVars, serverVars
<1>2. scene' \in Nat \cup {nullopt}
  <2> DEFINE renderTime == latest.elapsedSeconds - Delay
  <2>1. CASE window # << >> /\ Buffer!InRange(renderTime)
    <3>1. window[1] \in SnapshotType /\ latest \in SnapshotType
      BY <1>1, <2>1 DEF TypeOK, latest
    <3>2. renderTime \in Int /\ window[1].elapsedSeconds \in Nat
      BY <3>1, ConfigAssumption DEF SnapshotType
    <3>3. renderTime \in Nat
      BY <2>1, <3>2 DEF Buffer!InRange
    <3> QED BY <2>1, <3>3 DEF Render
  <2>2. CASE ~(window # << >> /\ Buffer!InRange(renderTime))
    BY <1>1, <2>2 DEF Render, TypeOK
  <2> QED BY <2>1, <2>2
<1>3. TypeOK'
  BY <1>1, <1>2 DEF TypeOK
<1>4. Owing' /\ TimeIsAccountedFor' /\ OnlyTheCapHoldsBack'
  BY <1>1 DEF Owing, TimeIsAccountedFor, OnlyTheCapHoldsBack, TicksRun
<1> QED BY <1>3, <1>4 DEF IInv

LEMMA NextInvariant ==
  ASSUME IInv, [Next]_vars
  PROVE  IInv'
<1>1. ASSUME NEW factor \in Scales, SetTimeScaleFactor(factor)
      PROVE  IInv'
  BY <1>1 DEF SetTimeScaleFactor, advanceVars, serverVars, IInv, TypeOK, Owing,
              TimeIsAccountedFor, OnlyTheCapHoldsBack, TicksRun
<1>2. ASSUME NEW delta \in Deltas, Advance(delta)
      PROVE  IInv'
  BY <1>2, AdvanceInvariant
<1>7. ASSUME NEW delta \in Deltas, AdvanceNothing(delta)
      PROVE  IInv'
  BY <1>7 DEF AdvanceNothing, advanceVars, serverVars, IInv, TypeOK, Owing,
              TimeIsAccountedFor, OnlyTheCapHoldsBack, TicksRun
<1>3. CASE RunTick
  BY <1>3, RunTickInvariant
<1>4. CASE EndAdvance
  BY <1>4, EndAdvanceInvariant
<1>5. CASE Render
  BY <1>5, RenderInvariant
<1>6. CASE UNCHANGED vars
  BY <1>6 DEF vars, IInv, TypeOK, Owing, TimeIsAccountedFor, OnlyTheCapHoldsBack, TicksRun
<1> QED BY <1>1, <1>2, <1>3, <1>4, <1>5, <1>6, <1>7 DEF Next, FrameStep

\* The accounts of the runner are always in order.
THEOREM RunnerInvariant == Spec => []IInv
<1> QED BY InitInvariant, NextInvariant, PTL DEF Spec

\* Whatever the frames, the caps and the changes of scale, the time asked for is the
\* time the ticks have used and the time still owed.
THEOREM RunnerLosesNoTime == Spec => []TimeIsAccountedFor
<1>1. IInv => TimeIsAccountedFor
  BY DEF IInv
<1> QED BY <1>1, RunnerInvariant, PTL

\* Whole ticks stay owed only after an advance that ran as many as it may.
THEOREM RunnerOwesOnlyAtTheCap == Spec => []OnlyTheCapHoldsBack
<1>1. IInv => OnlyTheCapHoldsBack
  BY DEF IInv
<1> QED BY <1>1, RunnerInvariant, PTL

-----------------------------------------------------------------------------
(* The buffer. With n ticks run, the server has made n \div Interval snapshots,   *)
(* and the window is the last of them, in a row.                                 *)

\* The snapshot count goes up with a tick that is due one, and with no other.
LEMMA NextDue ==
  ASSUME NEW n \in Nat, NEW f \in Nat \ {0}
  PROVE  /\ n \div f \in Nat
         /\ (n + 1) % f = 0 => /\ (n + 1) \div f = (n \div f) + 1
                               /\ f * ((n + 1) \div f) = n + 1
         /\ (n + 1) % f # 0 => (n + 1) \div f = n \div f
  OBVIOUS

LEMMA Multiple ==
  ASSUME NEW f \in Nat \ {0}, NEW m \in Int
  PROVE  (f * m) \div f = m /\ (f * m) % f = 0
  OBVIOUS

\* A later snapshot has a later time.
LEMMA LaterTick ==
  ASSUME NEW s \in Nat \ {0}, NEW m \in Int, NEW n \in Int
  PROVE  m < n <=> s * m < s * n
<1>1. ASSUME m < n PROVE s * m < s * n
  <2>1. n - m \in Nat \ {0}
    BY <1>1
  <2>2. s * (n - m) > 0 /\ s * (n - m) = s * n - s * m
    BY <2>1
  <2>3. s * m \in Int /\ s * n \in Int
    OBVIOUS
  <2> QED BY <2>2, <2>3
<1>2. ASSUME n < m PROVE s * n < s * m
  <2>1. m - n \in Nat \ {0}
    BY <1>2
  <2>2. s * (m - n) > 0 /\ s * (m - n) = s * m - s * n
    BY <2>1
  <2>3. s * m \in Int /\ s * n \in Int
    OBVIOUS
  <2> QED BY <2>2, <2>3
<1>3. s * m \in Int /\ s * n \in Int
  OBVIOUS
<1> QED BY <1>1, <1>2, <1>3

\* The window after a snapshot is pushed that is newer than all it has.
LEMMA PushShifts ==
  ASSUME window \in Seq(SnapshotType), NEW s \in SnapshotType,
         window # << >>, Len(window) <= Capacity,
         s.elapsedSeconds > latest.elapsedSeconds,
         Buffer!Push(s)
  PROVE  /\ Len(window') = Least(Capacity, Len(window) + 1)
         /\ window'[Len(window')] = s
         /\ \A i \in 1..(Len(window') - 1) :
              window'[i] = window[i + Len(window) + 1 - Len(window')]
         /\ window' # << >>
<1>0. Len(window) \in Nat /\ Len(window) >= 1 /\ Capacity \in Nat \ {0}
  BY ConfigAssumption
<1>1. latest \in SnapshotType
  BY <1>0 DEF latest
<1>2. ~(s.elapsedSeconds <= window[Len(window)].elapsedSeconds)
  BY <1>1 DEF latest, SnapshotType
<1>3. CASE Len(window) < Capacity /\ window' = Append(window, s)
  <2>1. Len(window') = Len(window) + 1
    BY <1>3
  <2>2. \A i \in 1..Len(window) : window'[i] = window[i]
    BY <1>3
  <2> QED BY <1>0, <1>3, <2>1, <2>2 DEF Least
<1>4. CASE Len(window) = Capacity /\ window' = Append(Tail(window), s)
  <2> DEFINE rest == Tail(window)
  <2>1. /\ rest \in Seq(SnapshotType)
        /\ Len(rest) = Len(window) - 1
        /\ \A i \in 1..(Len(window) - 1) : rest[i] = window[i + 1]
    BY <1>0
  <2> HIDE DEF rest
  <2>2. window' = Append(rest, s)
    BY <1>4 DEF rest
  <2>3. /\ Len(window') = Len(window)
        /\ window'[Len(window')] = s
        /\ \A i \in 1..(Len(window) - 1) : window'[i] = rest[i]
    BY <1>0, <2>1, <2>2
  <2> QED BY <1>0, <1>4, <2>1, <2>3 DEF Least
<1> QED BY <1>2, <1>3, <1>4 DEF Buffer!Push

\* The newest snapshot of the window, and the oldest, by their place in the row.
LEMMA WindowEnds ==
  ASSUME TypeOK, PictureInv, Interval > 0
  PROVE  LET newest == tickCount \div Interval
         IN  /\ newest \in Nat /\ newest >= 1
             /\ Len(window) \in 1..newest
             /\ window # << >>
             /\ Len(window) <= Capacity
             /\ latest = SnapshotOf(Interval * newest)
             /\ window[1] = SnapshotOf(Interval * (newest - Len(window) + 1))
<1> DEFINE newest == tickCount \div Interval
<1>1. newest \in Nat /\ newest >= 1
  BY NextDue, ConfigAssumption DEF TypeOK, PictureInv, LastSnapshotIsDue
<1> HIDE DEF newest
<1>2. /\ Len(window) = Least(Capacity, newest)
      /\ \A i \in 1..Len(window) :
           window[i] = SnapshotOf(Interval * (newest - Len(window) + i))
  BY DEF PictureInv, NoSnapshotIsMissed, newest
<1>3. Len(window) \in 1..newest /\ Len(window) <= Capacity /\ window # << >>
  BY <1>1, <1>2, ConfigAssumption DEF Least, TypeOK
<1>4. newest - Len(window) + Len(window) = newest
  BY <1>1, <1>3
<1>5. latest = SnapshotOf(Interval * newest)
  BY <1>2, <1>3, <1>4 DEF latest
<1> QED BY <1>1, <1>2, <1>3, <1>5 DEF newest

\* What c snapshots in a row span.
LEMMA Span ==
  ASSUME NEW s \in Nat, NEW f \in Nat, NEW q \in Int, NEW c \in Int
  PROVE  s * (f * (q - c + 1)) + (c - 1) * (f * s) = s * (f * q)
<1>1. f * (q - c + 1) = f * q - f * (c - 1)
  OBVIOUS
<1>2. s * (f * (q - c + 1)) = s * (f * q) - s * (f * (c - 1))
  BY <1>1
<1>3. s * (f * (c - 1)) = (c - 1) * (f * s)
  OBVIOUS
<1>4. s * (f * q) \in Int /\ (c - 1) * (f * s) \in Int
  OBVIOUS
<1> QED BY <1>2, <1>3, <1>4

LEMMA InitPicture == Init => PictureInv
<1> SUFFICES ASSUME Init, Interval > 0 PROVE PictureInv
  BY DEF Init, PictureInv, NoSnapshotIsMissed, LastSnapshotIsDue, StaysInRange,
         PictureDoesNotFreeze, BufferSpansDelay
<1>1. tickCount \div Interval = 1
  <2>1. (Interval * 1) \div Interval = 1 /\ Interval * 1 = Interval
    BY Multiple, ConfigAssumption
  <2> QED BY <2>1 DEF Init
<1>2. Len(window) = 1 /\ window[1] = SnapshotOf(Interval) /\ scene = nullopt
  BY DEF Init
<1>3. Interval * (1 - 1 + 1) = Interval /\ Interval * 1 = Interval
  BY ConfigAssumption
<1>4. Least(Capacity, 1) = 1
  BY ConfigAssumption DEF Least
<1>5. NoSnapshotIsMissed
  BY <1>1, <1>2, <1>3, <1>4 DEF NoSnapshotIsMissed
<1>6. LastSnapshotIsDue
  BY <1>1, <1>3 DEF LastSnapshotIsDue, Init
<1> QED BY <1>2, <1>5, <1>6 DEF PictureInv, StaysInRange, PictureDoesNotFreeze

\* A tick that is due a snapshot adds it to the row, any other changes nothing, and
\* a full window still spans the delay.
LEMMA RunTickPicture ==
  ASSUME TypeOK, PictureInv, RunTick
  PROVE  PictureInv'
<1>1. CASE ~(Interval > 0)
  BY <1>1 DEF PictureInv, NoSnapshotIsMissed, LastSnapshotIsDue, StaysInRange,
              PictureDoesNotFreeze, BufferSpansDelay
<1>2. CASE Interval > 0
  <2> DEFINE q == tickCount \div Interval
             q1 == (tickCount + 1) \div Interval
             s == SnapshotOf(tickCount + 1)
  <2>1. /\ q \in Nat /\ q >= 1
        /\ Len(window) \in 1..q
        /\ window # << >>
        /\ Len(window) <= Capacity
        /\ Len(window) = Least(Capacity, q)
        /\ latest = SnapshotOf(Interval * q)
        /\ window[1] = SnapshotOf(Interval * (q - Len(window) + 1))
        /\ \A i \in 1..Len(window) :
             window[i] = SnapshotOf(Interval * (q - Len(window) + i))
        /\ lastSnapshot = latest
    BY <1>2, WindowEnds DEF PictureInv, NoSnapshotIsMissed, LastSnapshotIsDue
  <2>2. tickCount \in Nat /\ Interval \in Nat \ {0} /\ ServerDt \in Nat \ {0}
        /\ Capacity \in Nat \ {0} /\ Delay \in Nat
    BY <1>2, ConfigAssumption, StepAssumption DEF TypeOK
  <2>3. pc' = "run" /\ scene' = scene /\ tickCount' = tickCount + 1
    BY DEF RunTick
  <2>4. PictureDoesNotFreeze'
    BY <2>3 DEF PictureDoesNotFreeze
  <2>5. CASE ~Due(tickCount + 1)
    <3>1. q1 = q
      BY <1>2, <2>2, <2>5, NextDue DEF Due
    <3>2. lastSnapshot' = lastSnapshot
      BY <2>5 DEF RunTick
    <3>3. window' = window
      <4>1. latest.elapsedSeconds \in Nat
        BY <2>1, <2>2, TimeOfTicks DEF SnapshotOf
      <4> QED BY <2>1, <3>2, <4>1 DEF RunTick
    <3> QED BY <2>3, <2>4, <3>1, <3>2, <3>3
            DEF PictureInv, NoSnapshotIsMissed, LastSnapshotIsDue, StaysInRange, latest
  <2>6. CASE Due(tickCount + 1)
    <3>1. q1 = q + 1 /\ Interval * q1 = tickCount + 1
      BY <2>2, <2>6, NextDue DEF Due
    <3>2. lastSnapshot' = s /\ s \in SnapshotType
      BY <2>2, <2>6, SnapshotTyped DEF RunTick
    <3>3. s.elapsedSeconds > latest.elapsedSeconds
      <4>1. Interval * q < Interval * q1
        BY <2>1, <2>2, <3>1, LaterTick
      <4>2. Interval * q \in Int /\ Interval * q1 \in Int
        BY <2>1, <2>2, <3>1
      <4>3. ServerDt * (Interval * q) < ServerDt * (Interval * q1)
        BY <2>2, <4>1, <4>2, LaterTick
      <4> HIDE DEF q, q1
      <4> QED BY <2>1, <3>1, <4>3 DEF SnapshotOf
    <3>4. Buffer!Push(s)
      <4>1. ~(s.elapsedSeconds <= latest.elapsedSeconds)
        <5>1. latest \in SnapshotType
          BY <2>1 DEF TypeOK, latest
        <5> HIDE DEF s
        <5> QED BY <3>2, <3>3, <5>1 DEF SnapshotType
      <4> QED BY <2>1, <3>2, <3>3, <4>1 DEF RunTick
    <3>5. /\ Len(window') = Least(Capacity, Len(window) + 1)
          /\ window'[Len(window')] = s
          /\ \A i \in 1..(Len(window') - 1) :
               window'[i] = window[i + Len(window) + 1 - Len(window')]
          /\ window' # << >>
      BY <2>1, <3>2, <3>3, <3>4, PushShifts DEF TypeOK
    <3> HIDE DEF q, q1, s
    <3>6. Len(window') = Least(Capacity, q1)
      BY <2>1, <2>2, <3>1, <3>5 DEF Least
    <3>7. ASSUME NEW i \in 1..Len(window')
          PROVE  window'[i] = SnapshotOf(Interval * (q1 - Len(window') + i))
      <4>1. CASE i = Len(window')
        <5>1. q1 - Len(window') + i = q1
          BY <2>1, <3>1, <4>1
        <5> QED BY <3>1, <3>5, <4>1, <5>1 DEF s
      <4>2. CASE i # Len(window')
        <5>1. i \in 1..(Len(window') - 1)
          BY <4>2
        <5> DEFINE j == i + Len(window) + 1 - Len(window')
        <5>2. j \in 1..Len(window)
          BY <2>1, <2>2, <3>5, <5>1 DEF Least
        <5>3. q - Len(window) + j = q1 - Len(window') + i
          BY <2>1, <3>1, <5>1
        <5> QED BY <2>1, <3>5, <5>1, <5>2, <5>3
      <4> QED BY <4>1, <4>2
    <3>8. NoSnapshotIsMissed'
      BY <2>3, <3>6, <3>7 DEF NoSnapshotIsMissed, q1
    <3>9. LastSnapshotIsDue'
      BY <2>1, <2>3, <3>1, <3>2 DEF LastSnapshotIsDue, q1, s
    <3>10. StaysInRange'
      <4> SUFFICES ASSUME BufferSpansDelay, scene # nullopt
                   PROVE  window'[1].elapsedSeconds + Delay <= (latest').elapsedSeconds
        BY <2>3 DEF StaysInRange
      <4>1. latest' = s
        BY <3>5 DEF latest
      <4>2. Len(window') \in 1..q1 /\ Len(window') <= Capacity
        BY <2>1, <2>2, <3>1, <3>6 DEF Least
      <4>3. CASE Len(window') = Capacity
        <5>1. window'[1] = SnapshotOf(Interval * (q1 - Capacity + 1))
          BY <3>7, <4>2, <4>3
        <5>2. s = SnapshotOf(Interval * q1)
          BY <3>1 DEF s
        <5>3. q1 \in Int
          BY <2>1, <3>1
        <5>4. ServerDt * (Interval * (q1 - Capacity + 1)) + (Capacity - 1) * (Interval * ServerDt)
                = ServerDt * (Interval * q1)
          BY <2>2, <5>3, Span
        <5>5. ServerDt * (Interval * (q1 - Capacity + 1)) \in Int
              /\ (Capacity - 1) * (Interval * ServerDt) \in Int
          BY <2>2, <5>3
        <5>6. (Capacity - 1) * (Interval * ServerDt) >= Delay
          BY DEF BufferSpansDelay
        <5> QED BY <2>2, <4>1, <5>1, <5>2, <5>4, <5>5, <5>6 DEF SnapshotOf
      <4>4. CASE Len(window') # Capacity
        <5>1. Len(window') = q1 /\ Len(window) = q
          BY <2>1, <2>2, <3>1, <3>5, <3>6, <4>2, <4>4 DEF Least
        <5>2. window'[1] = window[1]
          BY <2>1, <3>1, <3>5, <5>1
        <5>3. window[1].elapsedSeconds + Delay <= latest.elapsedSeconds
          BY DEF PictureInv, StaysInRange
        <5>4. window[1] \in SnapshotType /\ latest \in SnapshotType
          BY <2>1 DEF TypeOK, latest
        <5> QED BY <2>2, <3>2, <3>3, <4>1, <5>2, <5>3, <5>4 DEF SnapshotType
      <4> QED BY <4>3, <4>4
    <3> QED BY <2>4, <3>8, <3>9, <3>10 DEF PictureInv
  <2> QED BY <2>5, <2>6
<1> QED BY <1>1, <1>2

\* A frame that finds no picture has shown none before.
LEMMA RenderPicture ==
  ASSUME TypeOK, PictureInv, Render
  PROVE  PictureInv'
<1>1. UNCHANGED <<tickCount, lastSnapshot, window>>
  BY DEF Render, serverVars
<1>2. NoSnapshotIsMissed' /\ LastSnapshotIsDue'
  BY <1>1 DEF PictureInv, NoSnapshotIsMissed, LastSnapshotIsDue
<1>3. ASSUME BufferSpansDelay, scene' # nullopt
      PROVE  /\ window[1].elapsedSeconds + Delay <= latest.elapsedSeconds
             /\ scene' = latest.elapsedSeconds - Delay
  <2>1. Interval > 0 /\ window # << >>
    BY <1>3, WindowEnds DEF BufferSpansDelay
  <2>2. window[1] \in SnapshotType /\ latest \in SnapshotType
    BY <2>1 DEF TypeOK, latest
  <2>3. /\ window[1].elapsedSeconds \in Nat
        /\ latest.elapsedSeconds \in Nat
        /\ window[Len(window)].elapsedSeconds = latest.elapsedSeconds
        /\ Delay \in Nat
    BY <2>2, ConfigAssumption DEF SnapshotType, latest
  <2>4. Buffer!InRange(latest.elapsedSeconds - Delay)
          <=> window[1].elapsedSeconds + Delay <= latest.elapsedSeconds
    BY <2>1, <2>3 DEF Buffer!InRange
  <2>5. CASE Buffer!InRange(latest.elapsedSeconds - Delay)
    BY <2>1, <2>4, <2>5 DEF Render
  <2>6. CASE ~Buffer!InRange(latest.elapsedSeconds - Delay)
    <3>1. scene' = scene
      BY <2>6 DEF Render
    <3> QED BY <1>3, <2>4, <2>6, <3>1 DEF PictureInv, StaysInRange
  <2> QED BY <2>5, <2>6
<1>4. StaysInRange' /\ PictureDoesNotFreeze'
  BY <1>1, <1>3 DEF StaysInRange, PictureDoesNotFreeze, latest
<1> QED BY <1>2, <1>4 DEF PictureInv

LEMMA NextPicture ==
  ASSUME IInv, PictureInv, [Next]_vars
  PROVE  PictureInv'
<1> USE DEF PictureInv, NoSnapshotIsMissed, LastSnapshotIsDue, StaysInRange,
            PictureDoesNotFreeze, latest
<1>1. ASSUME NEW factor \in Scales, SetTimeScaleFactor(factor)
      PROVE  PictureInv'
  BY <1>1 DEF SetTimeScaleFactor, serverVars
<1>2. ASSUME NEW delta \in Deltas, Advance(delta) \/ AdvanceNothing(delta)
      PROVE  PictureInv'
  BY <1>2 DEF Advance, AdvanceNothing, serverVars
<1>3. CASE RunTick
  BY <1>3, RunTickPicture DEF IInv
<1>4. CASE EndAdvance
  BY <1>4 DEF EndAdvance, serverVars
<1>5. CASE Render
  BY <1>5, RenderPicture DEF IInv
<1>6. CASE UNCHANGED vars
  BY <1>6 DEF vars
<1> QED BY <1>1, <1>2, <1>3, <1>4, <1>5, <1>6 DEF Next, FrameStep

LEMMA RunnerPicture == Spec => [](IInv /\ PictureInv)
<1>1. Init => IInv /\ PictureInv
  BY InitInvariant, InitPicture
<1>2. IInv /\ PictureInv /\ [Next]_vars => (IInv /\ PictureInv)'
  BY NextInvariant, NextPicture
<1> QED BY <1>1, <1>2, PTL DEF Spec

\* The buffer has the last snapshots the server made, all of them, in a row, for
\* every capacity, interval and frame.
THEOREM RunnerMissesNoSnapshot == Spec => []NoSnapshotIsMissed
<1>1. PictureInv => NoSnapshotIsMissed
  BY DEF PictureInv
<1> QED BY <1>1, RunnerPicture, PTL

\* A buffer that spans the delay never lets the picture freeze, at any frame rate.
THEOREM RunnerPictureDoesNotFreeze == Spec => []PictureDoesNotFreeze
<1>1. PictureInv => PictureDoesNotFreeze
  BY DEF PictureInv
<1> QED BY <1>1, RunnerPicture, PTL

-----------------------------------------------------------------------------
(* The feed.                                                               *)

LEMMA FeedInit == Init => Feed!Init
<1> SUFFICES ASSUME Init PROVE Feed!Init
  OBVIOUS
<1> DEFINE latestOfFeed == [tick    |-> lastSnapshot.world,
                            elapsed |-> lastSnapshot.elapsedSeconds,
                            shown   |-> {},
                            gone    |-> {}]
<1>1. /\ tickCount = Interval /\ Interval \in Nat
      /\ lastSnapshot = [elapsedSeconds |-> ServerDt * Interval, world |-> Interval]
  BY ConfigAssumption DEF Init, SnapshotOf
<1>2. Feed!LastDue(Interval) = Interval
  <2>1. \A i \in Nat \ {0} : i * (i \div i) = i
    OBVIOUS
  <2> QED BY <1>1, <2>1 DEF Feed!LastDue
<1>3. latestOfFeed = Feed!Snapshot(Feed!LastDue(tickCount), {}, {})
  BY <1>1, <1>2 DEF Feed!Snapshot
<1>4. \E shown \in SUBSET {} : latestOfFeed = Feed!Snapshot(Feed!LastDue(tickCount), shown, {})
  <2> HIDE DEF latestOfFeed
  <2> QED BY <1>3
<1> QED BY <1>1, <1>4 DEF Feed!Init

LEMMA FeedStep ==
  ASSUME IInv, [Next]_vars
  PROVE  [Feed!Next]_(Feed!vars)
<1>1. CASE UNCHANGED serverVars
  BY <1>1 DEF serverVars, Feed!vars
<1>2. CASE RunTick
  <2>1. /\ tickCount' = tickCount + 1 /\ tickCount \in Nat
        /\ lastSnapshot' = IF Due(tickCount + 1) THEN SnapshotOf(tickCount + 1) ELSE lastSnapshot
    BY <1>2 DEF RunTick, IInv, TypeOK
  <2>2. Feed!Due(tickCount + 1) <=> Due(tickCount + 1)
    BY DEF Due, Feed!Due
  <2>3. CASE ~Due(tickCount + 1)
    <3>1. Feed!Quiet
      BY <2>1, <2>2, <2>3 DEF Feed!Quiet
    <3> QED BY <3>1 DEF Feed!Next
  <2>4. CASE Due(tickCount + 1)
    <3>1. << >> \in Feed!Departures
      <4>1. {} \in SUBSET ({} \ DOMAIN << >>)
        OBVIOUS
      <4>2. << >> \in [{} -> (lastSnapshot.world + 1)..(tickCount + 1)]
        OBVIOUS
      <4> QED BY <4>1, <4>2 DEF Feed!Departures
    <3>2. << >> = [e \in DOMAIN << >> \cup DOMAIN << >> |->
                     IF e \in DOMAIN << >> THEN << >>[e] ELSE << >>[e]]
      OBVIOUS
    <3>3. Feed!Show({}, {})
      <4>1. /\ lastSnapshot'.world = tickCount + 1
            /\ lastSnapshot'.elapsedSeconds = ServerDt * (tickCount + 1)
        BY <2>1, <2>4 DEF SnapshotOf
      <4> QED BY <4>1 DEF Feed!Show, Feed!Snapshot
    <3>4. \E shown \in SUBSET {}, gone \in SUBSET {} : Feed!Show(shown, gone)
      BY <3>3
    <3>5. Feed!Publish
      BY <2>1, <2>2, <2>4, <3>1, <3>2, <3>4 DEF Feed!Publish
    <3> QED BY <3>5 DEF Feed!Next
  <2> QED BY <2>3, <2>4
<1>3. ASSUME NEW factor \in Scales, SetTimeScaleFactor(factor) PROVE UNCHANGED serverVars
  BY <1>3 DEF SetTimeScaleFactor
<1>4. ASSUME NEW delta \in Deltas, Advance(delta) \/ AdvanceNothing(delta)
      PROVE  UNCHANGED serverVars
  BY <1>4 DEF Advance, AdvanceNothing
<1>5. EndAdvance \/ Render => UNCHANGED serverVars
  BY DEF EndAdvance, Render
<1>6. UNCHANGED vars => UNCHANGED serverVars
  BY DEF vars, serverVars
<1> QED BY <1>1, <1>2, <1>3, <1>4, <1>5, <1>6 DEF Next, FrameStep

\* The server the runner's model has is a SnapshotFeed, which is what SimulationServer
\* implements: nothing of the runner's proofs rests on more than that of the server.
THEOREM RunnerServerIsAFeed == Spec => ServerIsAFeed
<1>1. IInv /\ [Next]_vars => [Feed!Next]_(Feed!vars)
  BY FeedStep
<1>2. Spec => Feed!Spec
  BY <1>1, FeedInit, RunnerInvariant, PTL DEF Spec, Feed!Spec
<1> QED BY <1>2 DEF ServerIsAFeed

-----------------------------------------------------------------------------
\* A frame runs down to its end in the steps the cap allows, for any delta and scale.
THEOREM RunnerFramesRunDown == Spec => FramesRunDown
<1> DEFINE Count == StepsLeft \in 0..(MaxTicksPerAdvance + 2) /\ (StepsLeft = 0 <=> pc = "idle")
           Down == pc # "idle" => StepsLeft' = StepsLeft - 1
<1>1. IInv => Count
  <2> SUFFICES ASSUME IInv PROVE Count
    OBVIOUS
  <2>1. /\ pc \in {"idle", "run", "render"} /\ MaxTicksPerAdvance \in Nat
        /\ ticksToRun \in 0..MaxTicksPerAdvance /\ left \in 0..ticksToRun
    BY ConfigAssumption DEF IInv, TypeOK
  <2> QED BY <2>1 DEF StepsLeft
<1>2. IInv /\ [Next]_vars => [Down]_vars
  <2> SUFFICES ASSUME IInv, Next, pc # "idle"
               PROVE  StepsLeft' = StepsLeft - 1
    OBVIOUS
  <2>1. left \in Int
    BY ConfigAssumption DEF IInv, TypeOK
  <2>2. RunTick \/ EndAdvance \/ Render
    BY DEF Next, FrameStep, SetTimeScaleFactor, Advance, AdvanceNothing
  <2>3. CASE RunTick
    BY <2>1, <2>3 DEF RunTick, StepsLeft
  <2>4. CASE EndAdvance
    BY <2>4 DEF EndAdvance, StepsLeft
  <2>5. CASE Render
    BY <2>5 DEF Render, StepsLeft
  <2> QED BY <2>2, <2>3, <2>4, <2>5
<1>3. Spec => []Count /\ [][Down]_vars
  <2> HIDE DEF Count, Down
  <2> QED BY <1>1, <1>2, RunnerInvariant, PTL DEF Spec
<1> QED BY <1>3 DEF FramesRunDown

===========================================================================
