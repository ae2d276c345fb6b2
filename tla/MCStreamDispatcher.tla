------------------------- MODULE MCStreamDispatcher -------------------------
(***************************************************************************)
(* One connection dialled through DnsAddr, so that its setup may run once  *)
(* or twice, with two inbound streams; two listeners that want the same    *)
(* protocol one after the other.                                           *)
(***************************************************************************)
EXTENDS StreamDispatcher, TLC

CONSTANTS c1, s1, s2, p1, l1, l2, none

MCConns     == {c1}
MCStreams   == {s1, s2}
MCConnOf    == [s \in MCStreams |-> c1]
MCProtos    == {p1}
MCListeners == {l1, l2}
MCListener  == {l1}
MCDnsConns  == {c1}

\* The streams are alike, and so are the listeners.
MCSymmetry == Permutations(MCStreams) \cup Permutations(MCListeners)
=============================================================================
