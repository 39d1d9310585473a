----------------------- MODULE MCSimulationSubsystem -----------------------
(* The runner's frames of MCSimulationRunner, with the three bodies the     *)
(* bootstrap makes. A snapshot interval is six units long, so motions in    *)
(* multiples of six have integer positions at every render time: Earth      *)
(* moves on, the Moon swings to and fro around it and crosses the camera.   *)
EXTENDS SimulationSubsystem

MCPositionOf(b, tick) ==
  CASE b = 0 -> 0
    [] b = 1 -> 6 * tick
    [] b = 2 -> 6 * tick + (IF tick % 4 = 0 THEN 6 ELSE -6)
=============================================================================
