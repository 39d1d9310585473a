------------------------ MODULE SnapshotBufferProofs ------------------------
(***************************************************************************)
(* For every capacity and every set of times: the ring is well formed and  *)
(* in time order, the binary search keeps the render time between its      *)
(* bounds, and ring and search together implement the window of recent     *)
(* snapshots.                                                              *)
(***************************************************************************)
EXTENDS SnapshotBuffer, SequenceTheorems, TLAPS

\* Moving less than a whole turn on from a slot wraps at most once.
LEMMA WrapsOnce ==
  ASSUME NEW c \in Nat \ {0}, NEW h \in 0..(c - 1), NEW i \in 0..c
  PROVE  (h + i) % c = IF h + i < c THEN h + i ELSE h + i - c
<1>1. CASE h + i < c
  BY <1>1
<1>2. CASE h + i >= c
  BY <1>2
<1> QED BY <1>1, <1>2

\* The midpoint of two bounds that are not neighbours lies strictly between them.
LEMMA Midpoint ==
  ASSUME NEW l \in Nat, NEW h \in Nat, l + 1 < h
  PROVE  /\ l + ((h - l) \div 2) \in Nat
         /\ l < l + ((h - l) \div 2)
         /\ l + ((h - l) \div 2) < h
OBVIOUS

\* A snapshot's time is a natural number.
LEMMA SnapshotTime == \A s \in Snapshot : s.elapsedSeconds \in Nat
<1>1. \A s \in Snapshot : s.elapsedSeconds \in Times
  BY DEF Snapshot
<1> QED BY <1>1, TimesAssumption

\* Logical indices below Capacity are slots, and distinct ones distinct slots.
LEMMA SlotOfFacts ==
  ASSUME TypeOK, NEW i \in 0..(Capacity - 1)
  PROVE  /\ SlotOf(i) = IF head + i < Capacity THEN head + i ELSE head + i - Capacity
         /\ SlotOf(i) \in Slots
         /\ at(i) \in Snapshot
<1>1. Capacity \in Nat \ {0} /\ head \in 0..(Capacity - 1) /\ i \in 0..Capacity
  BY CapacityAssumption DEF TypeOK, Slots
<1>2. SlotOf(i) = IF head + i < Capacity THEN head + i ELSE head + i - Capacity
  BY <1>1, WrapsOnce DEF SlotOf
<1>3. SlotOf(i) \in Slots
  BY <1>1, <1>2 DEF Slots
<1> QED BY <1>2, <1>3 DEF TypeOK, at

\* The effect of push on the snapshots in logical order, while the ring fills.
LEMMA FillingAppends ==
  ASSUME TypeOK, FillsFromSlotZero, NEW s \in Snapshot, PushFilling(s)
  PROVE  /\ TypeOK'
         /\ \A i \in 0..(Capacity - 1) :
              at(i)' = IF i = count THEN s ELSE at(i)
<1>1. count \in 0..(Capacity - 1) /\ head = 0 /\ Capacity \in Nat \ {0}
  BY CapacityAssumption DEF TypeOK, FillsFromSlotZero, PushFilling
<1>2. SlotOf(count) = count
  BY <1>1, SlotOfFacts
<1>3. TypeOK'
  BY <1>1, <1>2 DEF TypeOK, PushFilling, Slots, searchVars
<1>4. ASSUME NEW i \in 0..(Capacity - 1)
      PROVE  at(i)' = IF i = count THEN s ELSE at(i)
  <2>1. SlotOf(i) = i /\ SlotOf(i)' = i
    BY <1>1, SlotOfFacts DEF SlotOf, PushFilling
  <2>2. ring' = [ring EXCEPT ![count] = s]
    BY <1>2 DEF PushFilling
  <2> QED BY <1>1, <2>1, <2>2 DEF at, TypeOK, Slots
<1> QED BY <1>3, <1>4

\* The effect of push on a full ring: everything moves one place towards the
\* oldest, and the new snapshot is the newest.
LEMMA OverwritingShifts ==
  ASSUME TypeOK, NEW s \in Snapshot, PushOverwriting(s)
  PROVE  /\ TypeOK'
         /\ count = Capacity
         /\ at(Capacity - 1)' = s
         /\ \A i \in 0..(Capacity - 2) : at(i)' = at(i + 1)
<1>1. /\ Capacity \in Nat \ {0}
      /\ head \in 0..(Capacity - 1)
      /\ count = Capacity
      /\ 1 \in 0..Capacity
  BY CapacityAssumption DEF TypeOK, PushOverwriting, Slots
<1>2. head' = IF head + 1 < Capacity THEN head + 1 ELSE head + 1 - Capacity
  BY <1>1, WrapsOnce DEF PushOverwriting
<1>3. head' \in Slots
  BY <1>1, <1>2 DEF Slots
<1>4. TypeOK'
  BY <1>1, <1>3 DEF TypeOK, PushOverwriting, searchVars
<1>5. ASSUME NEW i \in 0..(Capacity - 1)
      PROVE  SlotOf(i)' = IF head' + i < Capacity THEN head' + i ELSE head' + i - Capacity
  <2>1. head' \in 0..(Capacity - 1) /\ i \in 0..Capacity
    BY <1>1, <1>3 DEF Slots
  <2> QED BY <1>1, <2>1, WrapsOnce DEF SlotOf
<1>6. SlotOf(Capacity - 1)' = head
  BY <1>1, <1>2, <1>5
<1>7. at(Capacity - 1)' = s
  BY <1>1, <1>6 DEF at, PushOverwriting, TypeOK, Slots
<1>8. ASSUME NEW i \in 0..(Capacity - 2)
      PROVE  at(i)' = at(i + 1)
  <2>1. i \in 0..(Capacity - 1) /\ i + 1 \in 0..(Capacity - 1)
    BY <1>1
  <2>2. SlotOf(i)' = SlotOf(i + 1)
    BY <1>1, <1>2, <1>5, <2>1, SlotOfFacts
  <2>3. SlotOf(i + 1) # head /\ SlotOf(i + 1) \in Slots
    BY <1>1, <2>1, SlotOfFacts
  <2> QED BY <2>2, <2>3 DEF at, PushOverwriting, TypeOK
<1> QED BY <1>1, <1>4, <1>7, <1>8

-----------------------------------------------------------------------------
\* The buffer starts empty, so nothing is out of order and no search runs.
LEMMA InitInvariant == Init => IInv
BY CapacityAssumption, TimesAssumption, BlankAssumption
   DEF Init, IInv, TypeOK, FillsFromSlotZero, TimeOrdered, SearchInvariant,
       Slots, Snapshot

\* push keeps the invariant: a snapshot later than the newest is put after it,
\* and the shift of a full ring keeps the order of the rest.
LEMMA PushKeepsInvariant ==
  ASSUME IInv, NEW s \in Snapshot, push(s)
  PROVE  IInv'
<1> USE DEF IInv
<1>1. Capacity \in Nat \ {0} /\ count \in 0..Capacity
  BY CapacityAssumption DEF TypeOK
<1>2. \A i \in 0..(Capacity - 1) : at(i) \in Snapshot
  BY SlotOfFacts
<1>3. \A u, v, w \in Snapshot :
        u.elapsedSeconds < v.elapsedSeconds /\ v.elapsedSeconds < w.elapsedSeconds
          => u.elapsedSeconds < w.elapsedSeconds
  BY SnapshotTime
<1>4. pc = "idle" /\ pc' = "idle"
  BY DEF push, PushStale, PushFilling, PushOverwriting, searchVars, vars
<1>5. SearchInvariant'
  BY <1>4 DEF SearchInvariant
<1>6. ASSUME PushStale(s) PROVE IInv'
  BY <1>6 DEF PushStale, vars, TypeOK, FillsFromSlotZero, TimeOrdered,
              SearchInvariant, at, SlotOf
<1>7. ASSUME ~Stale(s), count > 0
      PROVE  at(count - 1).elapsedSeconds < s.elapsedSeconds
  <2>1. at(count - 1) \in Snapshot
    BY <1>1, <1>2, <1>7
  <2> QED BY <1>7, <2>1, SnapshotTime DEF Stale
<1>8. ASSUME PushFilling(s) PROVE IInv'
  <2>1. TypeOK' /\ \A i \in 0..(Capacity - 1) : at(i)' = IF i = count THEN s ELSE at(i)
    BY <1>8, FillingAppends
  <2>2. count' = count + 1 /\ head' = head /\ count < Capacity /\ head = 0
    BY <1>8 DEF PushFilling, FillsFromSlotZero
  <2>3. FillsFromSlotZero'
    BY <2>2 DEF FillsFromSlotZero
  <2>4. ASSUME NEW i \in 0..(Capacity - 1), NEW j \in 0..(Capacity - 1), i < j, j < count'
        PROVE  at(i)'.elapsedSeconds < at(j)'.elapsedSeconds
    <3>1. CASE j < count
      BY <1>1, <2>1, <2>4, <3>1 DEF TimeOrdered
    <3>2. CASE j = count
      <4>1. at(j)' = s /\ at(i)' = at(i) /\ i \in 0..(count - 1) /\ count > 0
        BY <1>1, <2>1, <2>4, <3>2
      <4>2. at(count - 1).elapsedSeconds < s.elapsedSeconds
        BY <1>7, <1>8, <4>1 DEF PushFilling
      <4>3. CASE i = count - 1
        BY <4>1, <4>2, <4>3
      <4>4. CASE i < count - 1
        <5>1. at(i).elapsedSeconds < at(count - 1).elapsedSeconds
          BY <1>1, <4>1, <4>4 DEF TimeOrdered
        <5> QED BY <1>1, <1>2, <1>3, <2>2, <4>1, <4>2, <5>1
      <4> QED BY <1>1, <4>1, <4>3, <4>4
    <3> QED BY <1>1, <2>2, <2>4, <3>1, <3>2
  <2>5. TimeOrdered'
    BY <2>4 DEF TimeOrdered
  <2> QED BY <1>5, <2>1, <2>3, <2>5
<1>9. ASSUME PushOverwriting(s) PROVE IInv'
  <2>1. /\ TypeOK'
        /\ count = Capacity
        /\ at(Capacity - 1)' = s
        /\ \A i \in 0..(Capacity - 2) : at(i)' = at(i + 1)
    BY <1>9, OverwritingShifts
  <2>2. count' = count
    BY <1>9 DEF PushOverwriting
  <2>3. FillsFromSlotZero'
    BY <1>1, <2>1, <2>2 DEF FillsFromSlotZero
  <2>4. ASSUME NEW i \in 0..(Capacity - 1), NEW j \in 0..(Capacity - 1), i < j, j < count'
        PROVE  at(i)'.elapsedSeconds < at(j)'.elapsedSeconds
    <3>1. at(i)' = at(i + 1) /\ i + 1 \in 0..(Capacity - 1)
      BY <1>1, <2>1, <2>4
    <3>2. CASE j < Capacity - 1
      <4>1. at(j)' = at(j + 1) /\ j + 1 \in 0..(Capacity - 1) /\ j + 1 < count
        BY <1>1, <2>1, <2>4, <3>2
      <4> QED BY <1>1, <2>4, <3>1, <4>1 DEF TimeOrdered
    <3>3. CASE j = Capacity - 1
      <4>1. at(j)' = s
        BY <2>1, <3>3
      <4>2. at(count - 1).elapsedSeconds < s.elapsedSeconds
        BY <1>1, <1>7, <1>9, <2>1 DEF PushOverwriting
      <4>3. CASE i + 1 = Capacity - 1
        BY <2>1, <3>1, <4>1, <4>2, <4>3
      <4>4. CASE i + 1 < Capacity - 1
        <5>1. at(i + 1).elapsedSeconds < at(count - 1).elapsedSeconds
          BY <1>1, <2>1, <3>1, <4>4 DEF TimeOrdered
        <5>2. at(count - 1) \in Snapshot /\ at(i + 1) \in Snapshot
          BY <1>1, <1>2, <2>1, <3>1
        <5> QED BY <1>3, <3>1, <4>1, <4>2, <5>1, <5>2
      <4> QED BY <1>1, <2>4, <3>1, <3>3, <4>3, <4>4
    <3> QED BY <1>1, <2>4, <3>2, <3>3
  <2>5. TimeOrdered'
    BY <2>4 DEF TimeOrdered
  <2> QED BY <1>5, <2>1, <2>3, <2>5
<1> QED BY <1>6, <1>8, <1>9 DEF push

\* The ring is only read by interpolate.
LEMMA RingUnchanged ==
  ASSUME UNCHANGED ringVars
  PROVE  /\ \A i : at(i)' = ring[(head + i) % Capacity]
         /\ FillsFromSlotZero => FillsFromSlotZero'
         /\ TimeOrdered => TimeOrdered'
BY DEF ringVars, at, SlotOf, FillsFromSlotZero, TimeOrdered

\* A call to interpolate keeps the invariant: the range check gives the search its
\* first bounds, and each iteration moves one bound to the midpoint, past nothing
\* the render time could belong to.
LEMMA InterpolateKeepsInvariant ==
  ASSUME IInv,
         \/ \E t \in Times : InterpolateAtOnce(t) \/ InterpolateBegin(t)
         \/ SearchStep
         \/ SearchReturn
  PROVE  IInv'
<1> USE DEF IInv
<1>1. Capacity \in Nat \ {0} /\ count \in 0..Capacity /\ lo \in Nat /\ hi \in Nat
  BY CapacityAssumption DEF TypeOK
<1>2. \A i \in 0..(Capacity - 1) : at(i) \in Snapshot /\ at(i).elapsedSeconds \in Nat
  BY SlotOfFacts, SnapshotTime
<1>3. UNCHANGED ringVars
  BY DEF InterpolateAtOnce, InterpolateBegin, SearchStep, SearchReturn
<1>4. FillsFromSlotZero' /\ TimeOrdered' /\ count' = count
  BY <1>3, RingUnchanged DEF ringVars
<1>5. \A i : ring'[(head' + i) % Capacity] = at(i)
  BY <1>3 DEF ringVars, at, SlotOf
<1>6. ASSUME NEW t \in Times, InterpolateAtOnce(t) PROVE IInv'
  <2>1. answer' \in Blend \cup {nullopt}
    <3>1. CASE answer' = nullopt
      BY <3>1
    <3>2. CASE count = 1 /\ answer' = [from |-> at(0), to |-> at(0), time |-> t]
      <4>1. at(0) \in Snapshot
        BY <1>1, <1>2, <3>2
      <4> QED BY <3>2, <4>1 DEF Blend
    <3> QED BY <1>6, <3>1, <3>2 DEF InterpolateAtOnce
  <2>2. TypeOK' /\ SearchInvariant'
    BY <1>6, <2>1 DEF InterpolateAtOnce, TypeOK, SearchInvariant, ringVars, searchVars
  <2> QED BY <1>4, <2>2
<1>7. ASSUME NEW t \in Times, InterpolateBegin(t) PROVE IInv'
  <2>1. /\ count > 1 /\ lo' = 0 /\ hi' = count - 1 /\ renderTime' = t /\ t \in Nat
        /\ ~(t < at(0).elapsedSeconds) /\ ~(t > at(count - 1).elapsedSeconds)
    BY <1>1, <1>7, TimesAssumption DEF InterpolateBegin, OutsideRange
  <2>2. at(lo)' = at(0) /\ at(hi)' = at(count - 1)
    BY <1>5, <2>1 DEF at, SlotOf
  <2>3. at(0).elapsedSeconds \in Nat /\ at(count - 1).elapsedSeconds \in Nat
    BY <1>1, <1>2, <2>1
  <2>4. SearchInvariant'
    BY <1>1, <1>4, <2>1, <2>2, <2>3 DEF SearchInvariant
  <2>5. TypeOK'
    BY <1>1, <1>7, <2>1 DEF InterpolateBegin, TypeOK, ringVars
  <2> QED BY <1>4, <2>4, <2>5
<1>8. ASSUME SearchStep PROVE IInv'
  <2> DEFINE mid == lo + ((hi - lo) \div 2)
  <2>1. lo + 1 < hi /\ pc = "search" /\ pc' = "search" /\ renderTime' = renderTime
    BY <1>8 DEF SearchStep
  <2>2. hi < count /\ lo \in 0..(Capacity - 1) /\ hi \in 0..(Capacity - 1)
    BY <1>1, <2>1 DEF SearchInvariant
  <2>3. mid \in 0..(Capacity - 1) /\ lo < mid /\ mid < hi
    BY <1>1, <2>1, <2>2, Midpoint
  <2>4. renderTime \in Nat /\ at(mid).elapsedSeconds \in Nat
    BY <1>2, <2>3, TimesAssumption DEF TypeOK
  <2>5. \/ at(mid).elapsedSeconds <= renderTime /\ lo' = mid /\ hi' = hi
        \/ renderTime < at(mid).elapsedSeconds /\ lo' = lo /\ hi' = mid
    BY <1>8, <2>4 DEF SearchStep
  <2>6. TypeOK'
    BY <1>1, <1>8, <2>2, <2>3, <2>5 DEF SearchStep, TypeOK, ringVars
  <2>7. at(lo)' = at(lo') /\ at(hi)' = at(hi')
    BY <1>5 DEF at, SlotOf
  <2>8. SearchInvariant'
    <3> HIDE DEF mid
    <3> QED BY <1>1, <1>4, <2>1, <2>2, <2>3, <2>4, <2>5, <2>7 DEF SearchInvariant
  <2> QED BY <1>4, <2>6, <2>8
<1>9. ASSUME SearchReturn PROVE IInv'
  <2>1. lo \in 0..(Capacity - 1) /\ hi \in 0..(Capacity - 1)
    BY <1>1, <1>9 DEF SearchReturn, SearchInvariant
  <2>2. [from |-> at(lo), to |-> at(hi), time |-> renderTime] \in Blend
    BY <1>2, <2>1 DEF Blend, TypeOK
  <2>3. TypeOK' /\ SearchInvariant'
    BY <1>1, <1>9, <2>2, TimesAssumption
       DEF SearchReturn, TypeOK, SearchInvariant, ringVars
  <2> QED BY <1>4, <2>3
<1> QED BY <1>6, <1>7, <1>8, <1>9

\* The ring stays well formed, in time order and correctly searched, for every
\* capacity, by induction over the calls to push and interpolate.
THEOREM BufferInvariant == Spec => []IInv
<1>1. IInv /\ [Next]_vars => IInv'
  <2> SUFFICES ASSUME IInv, [Next]_vars PROVE IInv'
    OBVIOUS
  <2>1. ASSUME NEW s \in Snapshot, push(s) PROVE IInv'
    BY <2>1, PushKeepsInvariant
  <2>2. CASE \/ \E t \in Times : InterpolateAtOnce(t) \/ InterpolateBegin(t)
             \/ SearchStep
             \/ SearchReturn
    BY <2>2, InterpolateKeepsInvariant
  <2>3. CASE UNCHANGED vars
    BY <2>3 DEF vars, IInv, TypeOK, FillsFromSlotZero, TimeOrdered, SearchInvariant,
                at, SlotOf
  <2> QED BY <2>1, <2>2, <2>3 DEF Next
<1> QED BY <1>1, InitInvariant, PTL DEF Spec

\* In every reachable state the buffered times are strictly increasing from the
\* oldest snapshot to the newest, across any number of wraps of the ring.
THEOREM BufferTimeOrdered == Spec => []TimeOrdered
<1>1. IInv => TimeOrdered
  BY DEF IInv
<1> QED BY <1>1, BufferInvariant, PTL

-----------------------------------------------------------------------------
\* The ring read in logical order is a sequence of count snapshots.
LEMMA WindowIsSeq ==
  ASSUME TypeOK
  PROVE  /\ window \in Seq(Snapshot)
         /\ Len(window) = count
         /\ count \in Nat
         /\ \A i \in 1..count : window[i] = at(i - 1)
<1>1. Capacity \in Nat /\ count \in 0..Capacity
  BY CapacityAssumption DEF TypeOK
<1>2. \A i \in 1..count : at(i - 1) \in Snapshot
  BY <1>1, SlotOfFacts
<1>3. window \in [1..count -> Snapshot]
  BY <1>2 DEF window
<1> QED BY <1>1, <1>3 DEF window

\* A function that extends a sequence by one element is what Append returns.
LEMMA ExtendedIsAppend ==
  ASSUME NEW S, NEW w \in Seq(S), NEW e \in S, NEW n \in Nat, n = Len(w)
  PROVE  [i \in 1..(n + 1) |-> IF i = n + 1 THEN e ELSE w[i]] = Append(w, e)
<1> DEFINE f == [i \in 1..(n + 1) |-> IF i = n + 1 THEN e ELSE w[i]]
<1>1. f \in Seq(S) /\ Len(f) = n + 1
  <2>1. f \in [1..(n + 1) -> S]
    OBVIOUS
  <2> QED BY <2>1
<1>2. /\ Append(w, e) \in Seq(S) /\ Len(Append(w, e)) = n + 1
      /\ \A i \in 1..n : Append(w, e)[i] = w[i]
      /\ Append(w, e)[n + 1] = e
  BY AppendProperties
<1>3. \A i \in 1..(n + 1) : f[i] = Append(w, e)[i]
  BY <1>2
<1> HIDE DEF f
<1>4. f = Append(w, e)
  BY <1>1, <1>2, <1>3, SeqEqual
<1> QED BY <1>4 DEF f

\* push appends to the window, dropping its head when the ring is full.
LEMMA PushImplements ==
  ASSUME IInv, IInv', NEW s \in Snapshot, push(s)
  PROVE  Window!Push(s)
<1> USE DEF IInv
<1>1. Capacity \in Nat \ {0} /\ count \in 0..Capacity
  BY CapacityAssumption DEF TypeOK
<1>2. /\ window \in Seq(Snapshot) /\ Len(window) = count
      /\ \A i \in 1..count : window[i] = at(i - 1)
  BY WindowIsSeq
<1>3. window' = [i \in 1..count' |-> at(i - 1)']
  BY DEF window
<1>4. answer' = answer
  BY DEF push, PushStale, PushFilling, PushOverwriting, vars
<1>5. window # << >> <=> count > 0
  BY <1>1, <1>2
<1>6. Stale(s) <=> window # << >> /\ s.elapsedSeconds <= window[Len(window)].elapsedSeconds
  BY <1>1, <1>2, <1>5 DEF Stale
<1>7. ~Stale(s) => (window # << >> => s.elapsedSeconds > window[Len(window)].elapsedSeconds)
  <2>1. ASSUME window # << >> PROVE window[Len(window)].elapsedSeconds \in Nat
    BY <1>1, <1>2, <1>5, <2>1, SnapshotTime
  <2> QED BY <1>6, <2>1, SnapshotTime
<1>8. CASE PushStale(s)
  <2>1. window' = window
    BY <1>8 DEF PushStale, vars, window, at, SlotOf
  <2> QED BY <1>4, <1>6, <1>8, <2>1 DEF Window!Push, PushStale
<1>9. CASE PushFilling(s)
  <2>1. \A i \in 0..(Capacity - 1) : at(i)' = IF i = count THEN s ELSE at(i)
    BY <1>9, FillingAppends
  <2>2. count' = count + 1 /\ count < Capacity /\ ~Stale(s)
    BY <1>9 DEF PushFilling
  <2>3. \A i \in 1..(count + 1) : at(i - 1)' = IF i = count + 1 THEN s ELSE window[i]
    BY <1>1, <1>2, <2>1, <2>2
  <2>4. window' = Append(window, s)
    <3>1. window' = [i \in 1..(count + 1) |-> IF i = count + 1 THEN s ELSE window[i]]
      BY <1>3, <2>2, <2>3
    <3> QED BY <1>1, <1>2, <3>1, ExtendedIsAppend
  <2> QED BY <1>2, <1>4, <1>7, <2>2, <2>4 DEF Window!Push
<1>10. CASE PushOverwriting(s)
  <2>1. /\ count = Capacity
        /\ at(Capacity - 1)' = s
        /\ \A i \in 0..(Capacity - 2) : at(i)' = at(i + 1)
    BY <1>10, OverwritingShifts
  <2>2. count' = count /\ ~Stale(s)
    BY <1>10 DEF PushOverwriting
  <2>3. \A i \in 1..count : at(i - 1)' = IF i = count THEN s ELSE window[i + 1]
    <3> TAKE i \in 1..count
    <3>1. CASE i = count
      BY <2>1, <3>1
    <3>2. CASE i < count
      <4>1. i - 1 \in 0..(Capacity - 2) /\ i + 1 \in 1..count /\ (i - 1) + 1 = (i + 1) - 1
        BY <1>1, <2>1, <3>2
      <4> QED BY <1>2, <2>1, <3>2, <4>1
    <3> QED BY <1>1, <3>1, <3>2
  <2>4. /\ Tail(window) \in Seq(Snapshot) /\ Len(Tail(window)) = count - 1
        /\ \A i \in 1..(count - 1) : Tail(window)[i] = window[i + 1]
    BY <1>1, <1>2, <1>5, <2>1, HeadTailProperties
  <2>5. window' = Append(Tail(window), s)
    <3> DEFINE n == count - 1
    <3>1. n \in Nat /\ n + 1 = count
      BY <1>1, <2>1
    <3>2. window' = [i \in 1..(n + 1) |-> IF i = n + 1 THEN s ELSE Tail(window)[i]]
      <4>1. \A i \in 1..(n + 1) :
              at(i - 1)' = IF i = n + 1 THEN s ELSE Tail(window)[i]
        BY <2>3, <2>4, <3>1
      <4> QED BY <1>3, <2>2, <3>1, <4>1
    <3> HIDE DEF n
    <3> QED BY <2>4, <3>1, <3>2, ExtendedIsAppend DEF n
  <2> QED BY <1>2, <1>4, <1>7, <2>1, <2>2, <2>5 DEF Window!Push
<1> QED BY <1>8, <1>9, <1>10 DEF push

\* The range check of interpolate is the window's.
LEMMA RangeImplements ==
  ASSUME IInv, NEW t \in Times
  PROVE  OutsideRange(t) <=> ~Window!InRange(t)
<1>1. /\ window \in Seq(Snapshot) /\ Len(window) = count /\ count \in Nat
      /\ \A i \in 1..count : window[i] = at(i - 1)
  BY WindowIsSeq DEF IInv
<1>2. CASE count = 0
  BY <1>1, <1>2 DEF OutsideRange, Window!InRange
<1>3. CASE count > 0
  <2>1. window[1] = at(0) /\ window[Len(window)] = at(count - 1) /\ window # << >>
    BY <1>1, <1>3
  <2>2. window[1].elapsedSeconds \in Nat /\ window[Len(window)].elapsedSeconds \in Nat
    BY <1>1, <1>3, SnapshotTime
  <2> QED BY <1>3, <2>1, <2>2, TimesAssumption DEF OutsideRange, Window!InRange
<1> QED BY <1>1, <1>2, <1>3

\* Two neighbouring snapshots around t are an answer the window allows.
LEMMA NeighboursBracket ==
  ASSUME IInv, NEW t \in Times, NEW l \in Nat, NEW h \in Nat, h < count,
         h = l + 1 \/ (count = 1 /\ h = l),
         at(l).elapsedSeconds <= t, t <= at(h).elapsedSeconds
  PROVE  /\ [from |-> at(l), to |-> at(h), time |-> t] \in Window!Brackets(t)
         /\ Window!InRange(t)
<1>1. /\ window \in Seq(Snapshot) /\ Len(window) = count /\ count \in Nat
      /\ \A i \in 1..count : window[i] = at(i - 1)
  BY WindowIsSeq DEF IInv
<1>2. count \in 0..Capacity /\ Capacity \in Nat \ {0}
  BY CapacityAssumption DEF IInv, TypeOK
<1>3. l < count /\ l \in 0..(Capacity - 1) /\ h \in 0..(Capacity - 1)
  BY <1>2
<1>4. at(l) \in Snapshot /\ at(h) \in Snapshot
  BY <1>3, SlotOfFacts DEF IInv
<1>5. window[l + 1] = at(l) /\ window[h + 1] = at(h)
  <2>1. l + 1 \in 1..count /\ h + 1 \in 1..count /\ (l + 1) - 1 = l /\ (h + 1) - 1 = h
    BY <1>1, <1>3
  <2> QED BY <1>1, <2>1
<1>6. [from |-> at(l), to |-> at(h), time |-> t] \in Window!Brackets(t)
  <2> DEFINE b == [from |-> at(l), to |-> at(h), time |-> t]
  <2>1. b \in Window!Blend /\ b.time = t /\ b.from = at(l) /\ b.to = at(h)
    BY <1>4 DEF Window!Blend, Window!Snapshot, Snapshot
  <2>2. l + 1 \in 1..Len(window) /\ h + 1 \in 1..Len(window)
    BY <1>1, <1>3
  <2>3. h + 1 = (l + 1) + 1 \/ (Len(window) = 1 /\ h + 1 = l + 1)
    BY <1>1
  <2> HIDE DEF b
  <2>4. \E i, j \in 1..Len(window) :
          /\ b.from = window[i]
          /\ b.to = window[j]
          /\ j = i + 1 \/ (Len(window) = 1 /\ j = i)
          /\ window[i].elapsedSeconds <= t
          /\ t <= window[j].elapsedSeconds
    BY <1>5, <2>1, <2>2, <2>3
  <2>5. b \in Window!Brackets(t)
    BY <2>1, <2>4 DEF Window!Brackets
  <2> QED BY <2>5 DEF b
<1>7. Window!InRange(t)
  <2>1. window # << >> /\ 1 \in 1..count /\ count \in 1..count
    BY <1>1, <1>3
  <2>2. \A i \in 0..(Capacity - 1) : at(i).elapsedSeconds \in Nat
    BY SlotOfFacts, SnapshotTime DEF IInv
  <2>3. at(0).elapsedSeconds <= at(l).elapsedSeconds
    <3>1. CASE l = 0
      BY <1>2, <1>3, <2>2, <3>1
    <3>2. CASE l > 0
      <4>1. at(0).elapsedSeconds < at(l).elapsedSeconds
        BY <1>2, <1>3, <3>2 DEF IInv, TimeOrdered
      <4> QED BY <1>2, <1>3, <2>2, <4>1
    <3> QED BY <3>1, <3>2
  <2>4. at(h).elapsedSeconds <= at(count - 1).elapsedSeconds
    <3>1. CASE h = count - 1
      BY <1>2, <1>3, <2>2, <3>1
    <3>2. CASE h < count - 1
      <4>1. count - 1 \in 0..(Capacity - 1) /\ count - 1 < count
        BY <1>2, <1>3
      <4>2. at(h).elapsedSeconds < at(count - 1).elapsedSeconds
        BY <1>2, <1>3, <3>2, <4>1 DEF IInv, TimeOrdered
      <4> QED BY <1>3, <2>2, <4>1, <4>2
    <3> QED BY <1>2, <1>3, <3>1, <3>2
  <2>5. window[1] = at(0) /\ window[Len(window)] = at(count - 1)
    BY <1>1, <2>1
  <2>6. t \in Nat
    BY TimesAssumption
  <2>7. /\ at(0).elapsedSeconds \in Nat /\ at(l).elapsedSeconds \in Nat
        /\ at(h).elapsedSeconds \in Nat /\ at(count - 1).elapsedSeconds \in Nat
    BY <1>2, <1>3, <2>2
  <2>8. at(0).elapsedSeconds <= t /\ t <= at(count - 1).elapsedSeconds
    BY <2>3, <2>4, <2>6, <2>7
  <2> QED BY <2>1, <2>5, <2>8 DEF Window!InRange
<1> QED BY <1>6, <1>7

\* interpolate answers as the window allows at the step where it returns, and
\* changes nothing the window shows before that.
LEMMA InterpolateImplements ==
  ASSUME IInv,
         \/ \E t \in Times : InterpolateAtOnce(t) \/ InterpolateBegin(t)
         \/ SearchStep
         \/ SearchReturn
  PROVE  \/ \E t \in Times : Window!Interpolate(t)
         \/ UNCHANGED <<window, answer>>
<1>1. window' = window
  BY DEF InterpolateAtOnce, InterpolateBegin, SearchStep, SearchReturn, ringVars,
         window, at, SlotOf
<1>2. ASSUME NEW t \in Times, InterpolateAtOnce(t) PROVE Window!Interpolate(t)
  <2>1. CASE OutsideRange(t) /\ answer' = nullopt
    BY <1>1, <2>1, RangeImplements DEF Window!Interpolate
  <2>2. CASE ~OutsideRange(t) /\ count = 1
             /\ answer' = [from |-> at(0), to |-> at(0), time |-> t]
    <3>1. at(0).elapsedSeconds \in Nat /\ t \in Nat
      BY <2>2, CapacityAssumption, TimesAssumption, SlotOfFacts, SnapshotTime DEF IInv, TypeOK
    <3>2. at(0).elapsedSeconds <= t /\ t <= at(0).elapsedSeconds
      BY <2>2, <3>1 DEF OutsideRange
    <3>3. answer' \in Window!Brackets(t) /\ Window!InRange(t)
      BY <2>2, <3>2, NeighboursBracket
    <3> QED BY <1>1, <3>3 DEF Window!Interpolate
  <2> QED BY <1>2, <2>1, <2>2 DEF InterpolateAtOnce
<1>3. ASSUME SearchReturn PROVE Window!Interpolate(renderTime)
  <2>1. /\ renderTime \in Times /\ lo \in Nat /\ hi \in Nat /\ count \in Nat
        /\ pc = "search" /\ lo + 1 >= hi
        /\ answer' = [from |-> at(lo), to |-> at(hi), time |-> renderTime]
    BY <1>3, CapacityAssumption DEF SearchReturn, IInv, TypeOK
  <2>2. hi = lo + 1 /\ hi < count
    BY <2>1 DEF IInv, SearchInvariant
  <2>3. at(lo).elapsedSeconds <= renderTime /\ renderTime <= at(hi).elapsedSeconds
    BY <2>1 DEF IInv, SearchInvariant
  <2>4. answer' \in Window!Brackets(renderTime) /\ Window!InRange(renderTime)
    BY <2>1, <2>2, <2>3, NeighboursBracket
  <2> QED BY <1>1, <2>4 DEF Window!Interpolate
<1>4. ASSUME NEW t \in Times, InterpolateBegin(t) PROVE UNCHANGED answer
  BY <1>4 DEF InterpolateBegin
<1>5. ASSUME SearchStep PROVE UNCHANGED answer
  BY <1>5 DEF SearchStep
<1>6. renderTime \in Times
  BY DEF IInv, TypeOK
<1> QED BY <1>1, <1>2, <1>3, <1>4, <1>5, <1>6

\* The ring buffer implements the window of recent snapshots: whatever the
\* capacity and however often it wraps, a client cannot tell it from a sequence
\* that keeps the last Capacity snapshots and answers with enclosing neighbours.
THEOREM BufferImplementsWindow == Spec => ImplementsWindow
<1>1. Init => Window!Init
  <2> SUFFICES ASSUME Init PROVE window = << >> /\ answer = nullopt
    BY DEF Window!Init
  <2>1. count = 0 /\ answer = nullopt
    BY DEF Init
  <2> QED BY <2>1 DEF window
<1>2. IInv /\ IInv' /\ [Next]_vars => [Window!Next]_<<window, answer>>
  <2> SUFFICES ASSUME IInv, IInv', [Next]_vars
               PROVE  Window!Next \/ UNCHANGED <<window, answer>>
    OBVIOUS
  <2>1. ASSUME NEW s \in Snapshot, push(s) PROVE Window!Next
    BY <2>1, PushImplements DEF Window!Next, Window!Snapshot, Snapshot
  <2>2. CASE \/ \E t \in Times : InterpolateAtOnce(t) \/ InterpolateBegin(t)
             \/ SearchStep
             \/ SearchReturn
    BY <2>2, InterpolateImplements DEF Window!Next
  <2>3. CASE UNCHANGED vars
    BY <2>3 DEF vars, window, at, SlotOf
  <2> QED BY <2>1, <2>2, <2>3 DEF Next
<1> QED BY <1>1, <1>2, BufferInvariant, PTL
        DEF Spec, ImplementsWindow, Window!Spec, Window!vars

-----------------------------------------------------------------------------
\* The middle of an interval of at least two leaves half of it on either side.
LEMMA MiddleHalves ==
  ASSUME NEW a \in Nat, NEW b \in Nat, a + 1 < b
  PROVE  LET mid == a + ((b - a) \div 2)
         IN  2 * (b - mid) <= (b - a) + 1 /\ 2 * (mid - a) <= (b - a) + 1
OBVIOUS

\* A search of any ring halves its interval in every step, and no push comes in
\* between: it returns after as many steps as Capacity has binary digits.
THEOREM BufferSearchHalves == Spec => SearchHalves
<1> DEFINE Halve == pc = "search" => pc' = "idle" \/ 2 * (hi' - lo') <= (hi - lo) + 1
<1>1. IInv /\ [Next]_vars => [Halve]_vars
  <2> SUFFICES ASSUME IInv, Next, pc = "search", pc' # "idle"
               PROVE  2 * (hi' - lo') <= (hi - lo) + 1
    OBVIOUS
  <2>1. SearchStep
    BY DEF Next, push, PushStale, PushFilling, PushOverwriting, InterpolateAtOnce,
           InterpolateBegin, SearchReturn
  <2>2. lo \in Nat /\ hi \in Nat /\ lo + 1 < hi
    BY <2>1, CapacityAssumption DEF IInv, TypeOK, SearchStep
  <2> DEFINE mid == lo + ((hi - lo) \div 2)
  <2>3. 2 * (hi - mid) <= (hi - lo) + 1 /\ 2 * (mid - lo) <= (hi - lo) + 1
    BY <2>2, MiddleHalves
  <2>4. (lo' = mid /\ hi' = hi) \/ (lo' = lo /\ hi' = mid)
    BY <2>1 DEF SearchStep
  <2> HIDE DEF mid
  <2> QED BY <2>3, <2>4
<1>2. Spec => [][Halve]_vars
  <2> HIDE DEF Halve
  <2> QED BY <1>1, BufferInvariant, PTL DEF Spec
<1> QED BY <1>2 DEF SearchHalves

=============================================================================
