----------------------------- MODULE MCCompare ------------------------------
EXTENDS Compare

MCLanes   == {<<0, 1>>, <<1, 0>>}
MCThreads == {<<0, "main">>, <<1, "main">>}
MCDepth   == [l \in MCLanes |-> 2]
MCLimit   == [l \in MCLanes |-> IF l[1] = 0 THEN Messages + Iters ELSE Iters]
MCPairs   == {<<2, 3>>}

=============================================================================
