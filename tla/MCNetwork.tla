------------------------------ MODULE MCNetwork ------------------------------
EXTENDS PeerSessions

At(ip, group, port) == [ip |-> ip, group |-> group, port |-> port]
Listen == At("any", "any", 1)
Mine == At("loop", "loop", 1)
PeerA == At("a", "g", 1)
PeerB == At("b", "g", 1)
FromA == At("a", "g", 9)
FromA2 == At("a", "g", 8)
AllAddrs == {Mine, PeerA, PeerB}
AllRemotes == {FromA, FromA2}
WhoListens == [x \in AllAddrs |-> CASE x = Mine -> "me" [] x = PeerA -> "p" [] OTHER -> "q"]
ConfiguredPeers == {PeerA}
EventsOf == [gossip |-> 5, inbound |-> 4, ban |-> 6, discover |-> 4, operator |-> 3]
=============================================================================
