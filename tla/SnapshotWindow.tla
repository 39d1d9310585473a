--------------------------- MODULE SnapshotWindow ---------------------------
(***************************************************************************)
(* What a ClientSnapshotBuffer promises its caller, without its storage:   *)
(* a window of the most recent snapshots, at most Capacity of them, in     *)
(* strictly increasing time, and an interpolation that answers from two    *)
(* snapshots that are neighbours in the window and enclose the render      *)
(* time, or not at all when the render time is outside the window.         *)
(***************************************************************************)
EXTENDS Naturals, Sequences

CONSTANTS
  Capacity,   \* snapshots kept, at least one
  Times,      \* values of elapsedSeconds; only their order matters
  Worlds,     \* contents of a snapshot, opaque here
  nullopt     \* the answer outside the buffered range

VARIABLES
  window,     \* the buffered snapshots, oldest first
  answer      \* what the last call to interpolate returned

Snapshot == [elapsedSeconds : Times, world : Worlds]

\* A pair of snapshots to blend, and the render time to blend them at.
Blend == [from : Snapshot, to : Snapshot, time : Times]

Init ==
  /\ window = << >>
  /\ answer = nullopt

\* A snapshot that is not newer than the newest one is dropped; a full window
\* gives up its oldest snapshot.
Push(s) ==
  /\ UNCHANGED answer
  /\ \/ /\ window # << >>
        /\ s.elapsedSeconds <= window[Len(window)].elapsedSeconds
        /\ UNCHANGED window
     \/ /\ window # << >> => s.elapsedSeconds > window[Len(window)].elapsedSeconds
        /\ Len(window) < Capacity
        /\ window' = Append(window, s)
     \/ /\ window # << >> => s.elapsedSeconds > window[Len(window)].elapsedSeconds
        /\ Len(window) = Capacity
        /\ window' = Append(Tail(window), s)

InRange(t) ==
  /\ window # << >>
  /\ window[1].elapsedSeconds <= t
  /\ t <= window[Len(window)].elapsedSeconds

\* The pairs the caller may be given for render time t. A render time that is
\* itself a snapshot's time may be answered from either side.
Brackets(t) ==
  {b \in Blend :
     /\ b.time = t
     /\ \E i, j \in 1..Len(window) :
          /\ b.from = window[i]
          /\ b.to = window[j]
          /\ j = i + 1 \/ (Len(window) = 1 /\ j = i)
          /\ window[i].elapsedSeconds <= t
          /\ t <= window[j].elapsedSeconds}

Interpolate(t) ==
  /\ answer' \in IF InRange(t) THEN Brackets(t) ELSE {nullopt}
  /\ UNCHANGED window

Next ==
  \/ \E s \in Snapshot : Push(s)
  \/ \E t \in Times : Interpolate(t)

vars == <<window, answer>>

Spec == Init /\ [][Next]_vars

=============================================================================
