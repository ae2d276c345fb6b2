--------------------------- MODULE MCRecursively ---------------------------
(* Peers named by their distance; a reply names any two peers, or fewer. *)
EXTENDS Recursively

CONSTANT MCCount

MCPeers    == 1 .. MCCount
MCDistance == [p \in MCPeers |-> p]
MCReplies  == {<<>>} \cup {<<p>> : p \in MCPeers}
                \cup {<<p, q>> : p, q \in MCPeers}
MCSeedLists == {<<>>, <<1>>, <<MCCount>>, <<MCCount - 1, MCCount>>, <<2, 2>>}
=============================================================================
