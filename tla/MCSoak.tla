------------------------------- MODULE MCSoak -------------------------------
EXTENDS Soak

MCRanks   == {0, 1}
MCLanes   == {<<0, 1>>, <<1, 0>>}
MCThreads == {<<0, "poller">>, <<1, "poller">>}
MCDepth   == [l \in MCLanes |-> 1]
MCLimit   == [l \in MCLanes |-> Count]
MCPairs   == {<<0, 1>>}

=============================================================================
