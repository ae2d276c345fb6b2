--------------------------- MODULE MCKBucketTable ---------------------------
(* Ids of MCBits bits as distances to the local id 0, and xor between them. *)
EXTENDS KBucketTable, Bitwise

MCBits  == 3
MCIds   == 1 .. 2^MCBits - 1
MCPeers == MCIds

Log2(d) == CHOOSE i \in 0 .. MCBits - 1 : 2^i <= d /\ d < 2^(i + 1)

MCKIndex   == [p \in MCPeers |-> Log2(p)]
MCKeys     == {0} \cup MCIds
MCKeyIndex == [k \in MCIds |-> Log2(k)]
MCDistance == [k \in MCKeys |-> [p \in MCPeers |-> k ^^ p]]
=============================================================================
