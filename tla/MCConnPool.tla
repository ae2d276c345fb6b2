----------------------------- MODULE MCConnPool -----------------------------
(***************************************************************************)
(* Three connections, to two peers at two addresses: k1 and k2 reach p1 at *)
(* a1 and a2, k3 reaches p2 at a1, where the peer has changed.  Dialling   *)
(* the name d is reported as a1, which is what DnsAddr does.               *)
(***************************************************************************)
EXTENDS ConnPool, TLC

CONSTANTS k1, k2, k3, p1, p2, a1, a2, d, t1, t2, none

MCConns    == {k1, k2, k3}
MCPeers    == {p1, p2}
MCAddrs    == {a1, a2, d}
MCPeerOf   == k1 :> p1 @@ k2 :> p1 @@ k3 :> p2
MCAddrOf   == k1 :> a1 @@ k2 :> a2 @@ k3 :> a1
MCNames    == {d}
MCReported == a1 :> a1 @@ a2 :> a2 @@ d :> a1
MCAddrLists == {{a1}, {a2, d}}
MCTasks    == {t1, t2}

\* The tasks are alike.
MCSymmetry == Permutations(MCTasks)
=============================================================================
