------------------------- MODULE MCSimulationRunner -------------------------
(* A tick is three units, so that frames leave every remainder. The cap of  *)
(* three ticks is below what the longest frame asks for, and the buffer of  *)
(* three snapshots is full after a few frames and just spans the delay.     *)
EXTENDS SimulationRunner
=============================================================================
