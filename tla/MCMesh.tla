------------------------------- MODULE MCMesh -------------------------------
EXTENDS Mesh

(* Ranks 0 and 1 send to rank 2, whose two threads call the same ring. *)
MCLanes   == {<<0, 2>>, <<1, 2>>}
MCThreads == {<<2, "main">>, <<2, "poller">>}
MCFaulty  == {<<1, 2>>}
MCDepth   == [l \in MCLanes |-> IF l \in MCFaulty THEN 1 ELSE 2]
MCLimit   == [l \in MCLanes |-> IF l \in MCFaulty THEN 3 ELSE 4]

=============================================================================
