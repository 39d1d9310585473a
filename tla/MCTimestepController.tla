------------------------ MODULE MCTimestepController ------------------------
(* Two entities, three levels with steps of 8, 4 and 2 units, a frame of     *)
(* seven, so that frame and ladder do not divide each other, and a dwell     *)
(* time of twelve, so that it ends inside the second frame. The needs lie    *)
(* below, inside and above the ladder's range, the one inside between two    *)
(* of its levels.                                                            *)
EXTENDS TimestepController
=============================================================================
