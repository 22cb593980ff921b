---------------------------- MODULE MCRingSetup ----------------------------
EXTENDS RingSetup

CONSTANTS r1, r2, r3, two, three, invalid, huge

MCRanks == {r1, r2, r3}
MCConfigs == {two, three, invalid, huge}
MCLanes == [c \in MCConfigs |-> IF c = three THEN 3 ELSE 2]
MCValid == [c \in MCConfigs |-> c # invalid]
(* One rank's slots are too large. *)
MCFits == [c \in MCConfigs |-> IF c = huge THEN {r1, r2} ELSE MCRanks]

=============================================================================
