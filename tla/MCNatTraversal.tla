--------------------------- MODULE MCNatTraversal ---------------------------
(* Two slots, which may reserve at the same relay or at different ones.     *)
EXTENDS NatTraversal

CONSTANTS c1, c2, r1, r2

MCChannels == {c1, c2}
MCRelays   == {r1, r2}
=============================================================================
