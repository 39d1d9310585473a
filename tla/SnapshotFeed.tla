---------------------------- MODULE SnapshotFeed ----------------------------
(***************************************************************************)
(* What the server promises whoever follows its snapshots and does not see *)
(* its world: the last snapshot is replaced at the ticks that are due one  *)
(* and at no other, by one of that tick and its time; an entity that is no *)
(* longer shown has left for good, and a snapshot reports as despawned     *)
(* only entities that left in its own tick.                                *)
(*                                                                         *)
(* When entities leave is known up to the last snapshot: a follower learns *)
(* of a tick's departures from the next snapshot at the earliest.          *)
(***************************************************************************)
EXTENDS Naturals

CONSTANTS
  Dt,         \* config.fixedDeltaSeconds
  Interval,   \* config.snapshotIntervalTicks
  Entities    \* NetIds of ships and projectiles

VARIABLES
  tickCount,
  latest,     \* lastSnapshot, its ships and projectiles taken together
  departed    \* history: the tick each entity left in, up to the latest's

vars == <<tickCount, latest, departed>>

Due(tick) == Interval > 0 /\ tick % Interval = 0

\* The last tick that was due a snapshot; there is none without an interval.
LastDue(tick) == IF Interval > 0 THEN Interval * (tick \div Interval) ELSE 0

Snapshot(tick, shown, gone) ==
  [tick |-> tick, elapsed |-> Dt * tick, shown |-> shown, gone |-> gone]

\* A follower may join after any number of ticks; it knows of no departure then.
Init ==
  /\ tickCount \in Nat
  /\ departed = << >>
  /\ \E shown \in SUBSET Entities : latest = Snapshot(LastDue(tickCount), shown, {})

\* A tick that is not due a snapshot.
Quiet ==
  /\ ~Due(tickCount + 1)
  /\ tickCount' = tickCount + 1
  /\ UNCHANGED <<latest, departed>>

\* What departures there may be news of: entities leave once, in one of the ticks
\* since the last snapshot.
Departures ==
  UNION {[leaving -> (latest.tick + 1)..(tickCount + 1)] :
           leaving \in SUBSET (Entities \ DOMAIN departed)}

\* What of it is shown: nothing that has left, and all that was shown and has not.
\* Nothing is reported as despawned that did not leave in this tick.
Show(shown, gone) ==
  /\ shown \cap DOMAIN departed' = {}
  /\ latest.shown \subseteq shown \cup DOMAIN departed'
  /\ \A e \in gone : e \in DOMAIN departed' /\ departed'[e] = tickCount + 1
  /\ latest' = Snapshot(tickCount + 1, shown, gone)

\* One that is: what has left is known now, and all the rest is shown.
Publish ==
  /\ Due(tickCount + 1)
  /\ tickCount' = tickCount + 1
  /\ \E left \in Departures :
       departed' = [e \in DOMAIN departed \cup DOMAIN left |->
                      IF e \in DOMAIN left THEN left[e] ELSE departed[e]]
  /\ \E shown \in SUBSET Entities, gone \in SUBSET Entities : Show(shown, gone)

Next == Quiet \/ Publish

Spec == Init /\ [][Next]_vars
=============================================================================
