------------------------------ MODULE PeerBook ------------------------------
(***************************************************************************)
(* MemoryPeerBook: what the switch knows of its peers and, for the reverse *)
(* lookup, which peer listens on an address.  Every method holds the one   *)
(* mutex throughout, so each is one action.  The writers are identity_push *)
(* (after a handshake), the Kademlia routers and mDNS, in any order.       *)
(***************************************************************************)
EXTENDS HashMaps

CONSTANTS
  Peers,   \* peer ids
  Addrs,   \* multiaddrs
  Protos   \* protocol names

VARIABLES
  infos,   \* peer_infos: peer -> PeerInfo
  owner,   \* peer_addrs: address -> peer
  newest,  \* history: the peer that was last inserted with the address
  claims   \* history: every peer that was ever inserted with the address

vars == <<infos, owner, newest, claims>>

\* PeerInfo without its id; a timestamp is only ever set or not.
PeerInfos ==
  [addrs : SUBSET Addrs, protos : SUBSET Protos, appear : BOOLEAN, disappear : BOOLEAN]

TypeOK ==
  /\ DOMAIN infos \subseteq Peers
  /\ \A p \in DOMAIN infos : infos[p] \in PeerInfos
  /\ DOMAIN owner \subseteq Addrs
  /\ \A a \in DOMAIN owner : owner[a] \in Peers
  /\ DOMAIN newest \subseteq Addrs
  /\ \A a \in DOMAIN newest : newest[a] \in Peers
  /\ claims \in [Addrs -> SUBSET Peers]

Init ==
  /\ infos = EmptyMap /\ owner = EmptyMap
  /\ newest = EmptyMap
  /\ claims = [a \in Addrs |-> {}]

-----------------------------------------------------------------------------
\* The addresses of the entry a write replaces or removes.
OldAddrs(p) == IF p \in DOMAIN infos THEN infos[p].addrs ELSE {}

\* Faulty variant of Forget: insert keeps the addresses of the older entry.
ForgetNothing(p) == owner

\* The reverse map without the addresses of the older entry.  The code removes
\* each of them, also one that names another peer by now.
Forget(p) == Without(owner, OldAddrs(p))

\* Faulty variant of Index: an address that is taken keeps its peer.
IndexFirst(m, A, p) == PutAll(m, A \ DOMAIN m, p)

\* insert, second half: the new addresses name the peer.
Index(m, A, p) == PutAll(m, A, p)

\* MemoryPeerBook::insert.
Insert(p, A, P, seen) ==
  /\ infos' = Put(infos, p, [addrs |-> A, protos |-> P, appear |-> seen, disappear |-> FALSE])
  /\ owner' = Index(Forget(p), A, p)
  /\ newest' = PutAll(newest, A, p)
  /\ claims' = [a \in Addrs |-> IF a \in A THEN claims[a] \cup {p} ELSE claims[a]]

\* identity_push, once the identity of the peer matched its connection.
Identified(p, A, P) == Insert(p, A, P, TRUE)

\* A Kademlia answer or an mDNS packet tells of a peer: its protocols and
\* when it appeared are unknown, and what the book had of them is replaced.
Heard(p, A) == Insert(p, A, {}, FALSE)

\* MemoryPeerBook::remove.
Remove(p) ==
  /\ infos' = Without(infos, {p})
  /\ owner' = Forget(p)
  /\ UNCHANGED <<newest, claims>>

\* MemoryPeerBook::appear and disappear: no entry, no effect.
Appear(p) ==
  /\ p \in DOMAIN infos
  /\ infos' = [infos EXCEPT ![p].appear = TRUE]
  /\ UNCHANGED <<owner, newest, claims>>

Disappear(p) ==
  /\ p \in DOMAIN infos
  /\ infos' = [infos EXCEPT ![p].disappear = TRUE]
  /\ UNCHANGED <<owner, newest, claims>>

Next ==
  \E p \in Peers :
    \/ \E A \in SUBSET Addrs, P \in SUBSET Protos : Identified(p, A, P)
    \/ \E A \in SUBSET Addrs : Heard(p, A)
    \/ Remove(p) \/ Appear(p) \/ Disappear(p)

Spec == Init /\ [][Next]_vars

-----------------------------------------------------------------------------
(* Properties.                                                             *)

\* listen_on never sends a caller to a peer that is not in the book or does
\* not list the address, although insert and remove of one peer rewrite
\* entries that other peers made.
ReverseLookupSound ==
  \A a \in DOMAIN owner :
    owner[a] \in DOMAIN infos /\ a \in infos[owner[a]].addrs

\* When several peers were inserted with an address, as behind one relay or
\* after a host changed its key, listen_on names the newest or nobody.
NewestClaimant == \A a \in DOMAIN owner : owner[a] = newest[a]

\* An address that only one peer was ever inserted with is found as long as
\* the peer lists it.  (With two it may be lost: the older peer's next insert
\* takes out the entry of the newer one.)
UncontestedFound ==
  \A p \in DOMAIN infos : \A a \in infos[p].addrs :
    claims[a] = {p} => a \in DOMAIN owner /\ owner[a] = p
=============================================================================
