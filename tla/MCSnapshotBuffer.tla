------------------------- MODULE MCSnapshotBuffer -------------------------
(* A ring of four slots: a search of two iterations, and more times than    *)
(* slots, so that the ring wraps and head comes back to slot 0.             *)
EXTENDS SnapshotBuffer

CONSTANT MaxTime   \* the largest elapsedSeconds of this instance

MCTimes == 0..MaxTime
===========================================================================
