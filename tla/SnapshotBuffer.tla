--------------------------- MODULE SnapshotBuffer ---------------------------
(***************************************************************************)
(* ClientSnapshotBuffer: the ring of authoritative snapshots the client    *)
(* interpolates between. push stores a snapshot in the ring, overwriting   *)
(* the oldest when it is full; interpolate finds by binary search the two  *)
(* snapshots around a render time. The class is used from one thread, so   *)
(* push never runs inside interpolate, but the search is modelled one      *)
(* iteration at a time: each iteration must keep what the next one needs.  *)
(*                                                                         *)
(* elapsedSeconds is a double in the code that is only compared here, so   *)
(* a natural number stands for it.                                         *)
(***************************************************************************)
EXTENDS Naturals, Sequences

CONSTANTS
  Capacity,      \* capacity_, the ring's number of slots
  Times,         \* values of elapsedSeconds and of the render time
  Worlds,        \* contents of a snapshot, opaque to the buffer
  blankWorld,    \* the contents of a default-constructed snapshot
  nullopt        \* std::nullopt

ASSUME CapacityAssumption == Capacity \in Nat \ {0}   \* asserted by the constructor
ASSUME TimesAssumption    == Times \subseteq Nat /\ 0 \in Times
ASSUME BlankAssumption    == blankWorld \in Worlds
ASSUME NulloptAssumption  ==
  nullopt \notin [from : [elapsedSeconds : Times, world : Worlds],
                  to   : [elapsedSeconds : Times, world : Worlds],
                  time : Times]

VARIABLES
  ring,          \* ring_
  head,          \* head_, the slot of the oldest snapshot
  count,         \* count_, the number of snapshots stored
  pc,            \* "idle", or "search" inside interpolate's loop
  renderTime,    \* interpolate's argument
  lo, hi,        \* interpolate's search bounds
  answer         \* what the last call to interpolate returned

ringVars   == <<ring, head, count>>
searchVars == <<pc, renderTime, lo, hi>>
vars       == <<ring, head, count, pc, renderTime, lo, hi, answer>>

Slots    == 0..(Capacity - 1)
Snapshot == [elapsedSeconds : Times, world : Worlds]
Blend    == [from : Snapshot, to : Snapshot, time : Times]

Init ==
  /\ ring = [s \in Slots |-> [elapsedSeconds |-> 0, world |-> blankWorld]]
  /\ head = 0
  /\ count = 0
  /\ pc = "idle"
  /\ renderTime = 0
  /\ lo = 0
  /\ hi = 0
  /\ answer = nullopt

-----------------------------------------------------------------------------
\* The ring slot of the i-th oldest snapshot, counting from 0.
SlotOf(i) == (head + i) % Capacity

at(i) == ring[SlotOf(i)]

latest == IF count = 0 THEN nullopt ELSE at(count - 1)

\* Mutant of Stale: a snapshot of the newest time is not stale.
StaleBug(s) == count > 0 /\ s.elapsedSeconds < at(count - 1).elapsedSeconds

Stale(s) == count > 0 /\ s.elapsedSeconds <= at(count - 1).elapsedSeconds

PushStale(s) ==
  /\ pc = "idle"
  /\ Stale(s)
  /\ UNCHANGED vars

PushFilling(s) ==
  /\ pc = "idle"
  /\ ~Stale(s)
  /\ count < Capacity
  /\ ring' = [ring EXCEPT ![SlotOf(count)] = s]
  /\ count' = count + 1
  /\ UNCHANGED <<head, searchVars, answer>>

\* Mutant of PushOverwriting: head_ stays behind.
PushOverwritingBug(s) ==
  /\ pc = "idle"
  /\ ~Stale(s)
  /\ count >= Capacity
  /\ ring' = [ring EXCEPT ![head] = s]
  /\ UNCHANGED <<head, count, searchVars, answer>>

PushOverwriting(s) ==
  /\ pc = "idle"
  /\ ~Stale(s)
  /\ count >= Capacity
  /\ ring' = [ring EXCEPT ![head] = s]
  /\ head' = (head + 1) % Capacity
  /\ UNCHANGED <<count, searchVars, answer>>

push(s) == PushStale(s) \/ PushFilling(s) \/ PushOverwriting(s)

-----------------------------------------------------------------------------
OutsideRange(t) ==
  \/ count = 0
  \/ t < at(0).elapsedSeconds
  \/ t > at(count - 1).elapsedSeconds

\* interpolate returns before its loop: outside the range, or from the only
\* snapshot there is.
InterpolateAtOnce(t) ==
  /\ pc = "idle"
  /\ \/ OutsideRange(t) /\ answer' = nullopt
     \/ ~OutsideRange(t) /\ count = 1
        /\ answer' = [from |-> at(0), to |-> at(0), time |-> t]
  /\ UNCHANGED <<ringVars, searchVars>>

InterpolateBegin(t) ==
  /\ pc = "idle"
  /\ ~OutsideRange(t)
  /\ count # 1
  /\ pc' = "search"
  /\ renderTime' = t
  /\ lo' = 0
  /\ hi' = count - 1
  /\ UNCHANGED <<ringVars, answer>>

\* Mutants of SearchStep: the upper bound leaves out the middle; the middle is
\* taken of the distance alone.
SearchStepBugBound ==
  /\ pc = "search"
  /\ lo + 1 < hi
  /\ LET mid == lo + ((hi - lo) \div 2)
     IN  IF at(mid).elapsedSeconds <= renderTime
         THEN lo' = mid /\ hi' = hi
         ELSE hi' = mid - 1 /\ lo' = lo
  /\ UNCHANGED <<ringVars, pc, renderTime, answer>>

SearchStepBugMiddle ==
  /\ pc = "search"
  /\ lo + 1 < hi
  /\ LET mid == (hi - lo) \div 2
     IN  IF at(mid).elapsedSeconds <= renderTime
         THEN lo' = mid /\ hi' = hi
         ELSE hi' = mid /\ lo' = lo
  /\ UNCHANGED <<ringVars, pc, renderTime, answer>>

\* One iteration of the binary search.
SearchStep ==
  /\ pc = "search"
  /\ lo + 1 < hi
  /\ LET mid == lo + ((hi - lo) \div 2)
     IN  IF at(mid).elapsedSeconds <= renderTime
         THEN lo' = mid /\ hi' = hi
         ELSE hi' = mid /\ lo' = lo
  /\ UNCHANGED <<ringVars, pc, renderTime, answer>>

\* The loop exits and the two snapshots go to interpolateWorldState. The locals
\* die with the call.
SearchReturn ==
  /\ pc = "search"
  /\ lo + 1 >= hi
  /\ answer' = [from |-> at(lo), to |-> at(hi), time |-> renderTime]
  /\ pc' = "idle"
  /\ renderTime' = 0
  /\ lo' = 0
  /\ hi' = 0
  /\ UNCHANGED ringVars

Next ==
  \/ \E s \in Snapshot : push(s)
  \/ \E t \in Times : InterpolateAtOnce(t) \/ InterpolateBegin(t)
  \/ SearchStep
  \/ SearchReturn

Spec == Init /\ [][Next]_vars

\* A thread that has entered interpolate runs it to its return.
FairSpec == Spec /\ WF_vars(SearchStep \/ SearchReturn)

-----------------------------------------------------------------------------
TypeOK ==
  /\ ring \in [Slots -> Snapshot]
  /\ head \in Slots
  /\ count \in 0..Capacity
  /\ pc \in {"idle", "search"}
  /\ renderTime \in Times
  /\ lo \in 0..Capacity
  /\ hi \in 0..Capacity
  /\ answer \in Blend \cup {nullopt}

\* However often the ring has wrapped, the snapshots read oldest to newest are
\* in strictly increasing time: the ring's indices and the discarding of stale
\* pushes together keep the order the binary search needs.
TimeOrdered ==
  \A i, j \in 0..(Capacity - 1) :
    i < j /\ j < count => at(i).elapsedSeconds < at(j).elapsedSeconds

\* head_ leaves slot 0 only by overwriting, so a ring still filling starts there.
FillsFromSlotZero == count < Capacity => head = 0

\* The search keeps the render time between the snapshots at its two bounds, and
\* everything from hi on is later than it unless hi is the newest snapshot.
SearchInvariant ==
  pc = "search" =>
    /\ lo < hi
    /\ hi < count
    /\ at(lo).elapsedSeconds <= renderTime
    /\ renderTime <= at(hi).elapsedSeconds
    /\ hi < count - 1 => renderTime < at(hi).elapsedSeconds

\* The inductive invariant: what makes the ring a window and the search correct.
IInv == TypeOK /\ FillsFromSlotZero /\ TimeOrdered /\ SearchInvariant

\* Every call to interpolate returns: the search bounds close in on each other.
InterpolateReturns == pc = "search" ~> pc = "idle"

\* What makes it return, and soon: nothing else happens during a search, and a step
\* of it that does not end it leaves no more than half of its interval, rounded up.
SearchHalves ==
  [][pc = "search" => pc' = "idle" \/ 2 * (hi' - lo') <= (hi - lo) + 1]_vars

-----------------------------------------------------------------------------
\* The ring read in logical order is the abstract window.
window == [i \in 1..count |-> at(i - 1)]

Window == INSTANCE SnapshotWindow

\* The ring and its binary search implement the window of recent snapshots.
ImplementsWindow == Window!Spec

=============================================================================
