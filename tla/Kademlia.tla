------------------------------ MODULE Kademlia ------------------------------
(* What the routing table and the recursive search have in common. *)
EXTENDS Naturals, FiniteSets

CONSTANTS
  Peers,  \* peer ids; the local one is none of them
  K       \* the size of a bucket, and of the result of a search

ASSUME PeersAssumption == IsFiniteSet(Peers)
ASSUME KAssumption == K \in Nat \ {0}
=============================================================================
