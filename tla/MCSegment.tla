----------------------------- MODULE MCSegment -----------------------------
EXTENDS Segment, TLC

CONSTANTS p1, p2, p3, short, long

MCProcs == {p1, p2, p3}
MCPayloads == {short, long}
MCPayloadLen == [d \in MCPayloads |-> IF d = short THEN 0 ELSE 1]

Symmetry == Permutations(MCProcs)

=============================================================================
