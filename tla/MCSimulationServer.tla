------------------------ MODULE MCSimulationServer ------------------------
(* Three ships and two shots: a ship destroyed before, after and between    *)
(* others in the vector, two ships that fire in one tick. A tick has two    *)
(* units and a shot lives two ticks exactly; four ticks give two with a     *)
(* snapshot, each after one without.                                        *)
EXTENDS SimulationServer
===========================================================================
