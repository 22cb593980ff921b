------------------------------- MODULE MCLane -------------------------------
EXTENDS Lane

CONSTANTS short, long

MCData == {short, long}
MCLength == [d \in MCData |-> IF d = short THEN 1 ELSE 2]

=============================================================================
