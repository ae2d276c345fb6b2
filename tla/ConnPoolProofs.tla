--------------------------- MODULE ConnPoolProofs ---------------------------
(***************************************************************************)
(* What ConnPool guarantees for any connections, peers, addresses, tasks   *)
(* and limit.                                                              *)
(***************************************************************************)
EXTENDS ConnPool, TLAPS

-----------------------------------------------------------------------------
(* The two steps that write the maps.                                      *)

\* remove takes the ids V out of conns and the entries they account for out of
\* the indexes, and closes them.
LEMMA AfterRemove ==
  ASSUME TypeOK, NEW V
  PROVE  /\ \A a \in DOMAIN RaddrsWithout(V) :
              /\ a \in DOMAIN raddrs
              /\ RaddrsWithout(V)[a] = raddrs[a]
              /\ \A c \in V \cap conns : AddrOf[c] # a
         /\ \A p \in DOMAIN peers : ~(peers[p] \subseteq V) => p \in DOMAIN PeersWithout(V)
         /\ \A p \in DOMAIN PeersWithout(V) :
              /\ p \in DOMAIN peers
              /\ ~(peers[p] \subseteq V)
              /\ PeersWithout(V)[p] = peers[p] \ V
         /\ Closing(V) \in [Conns -> {"new", "open", "closed"}]
BY DEF TypeOK, RaddrsWithout, PeersWithout, Closing, Without, Restrict

\* remove keeps the types of the maps.
LEMMA RemoveTypes ==
  ASSUME TypeOK, NEW V, Remove(V)
  PROVE  /\ DOMAIN raddrs' \subseteq Addrs
         /\ \A a \in DOMAIN raddrs' : raddrs'[a] \in Peers
         /\ DOMAIN peers' \subseteq Peers
         /\ \A p \in DOMAIN peers' : peers'[p] \subseteq Conns
         /\ conns' \subseteq Conns
         /\ life' \in [Conns -> {"new", "open", "closed"}]
<1>1. \A a \in DOMAIN RaddrsWithout(V) : a \in Addrs /\ RaddrsWithout(V)[a] \in Peers
  BY AfterRemove DEF TypeOK
<1>2. ASSUME NEW p \in DOMAIN PeersWithout(V)
      PROVE  p \in Peers /\ PeersWithout(V)[p] \subseteq Conns
  BY AfterRemove DEF TypeOK
<1> QED
  BY <1>1, <1>2, AfterRemove DEF Remove, TypeOK

\* What a task has in hand while it sets up, adds or uses a connection is one.
InHand ==
  \A t \in Tasks : pc[t] \in {"setup", "add", "commit", "got", "using"} => got[t] \in Conns

\* add keeps the types of the maps.
LEMMA AddTypes ==
  ASSUME TypeOK, NEW V, NEW c \in Conns, NEW inbound, RemoveAndInsert(V, c, inbound)
  PROVE  /\ DOMAIN raddrs' \subseteq Addrs
         /\ \A a \in DOMAIN raddrs' : raddrs'[a] \in Peers
         /\ DOMAIN peers' \subseteq Peers
         /\ \A p \in DOMAIN peers' : peers'[p] \subseteq Conns
         /\ conns' \subseteq Conns
         /\ life' \in [Conns -> {"new", "open", "closed"}]
<1>1. PeerOf[c] \in Peers /\ AddrOf[c] \in Addrs
  BY PeerOfAssumption, AddrOfAssumption
<1>2. /\ \A a \in DOMAIN RaddrsWithout(V) : a \in Addrs /\ RaddrsWithout(V)[a] \in Peers
      /\ \A p \in DOMAIN PeersWithout(V) : p \in Peers /\ PeersWithout(V)[p] \subseteq Conns
  <2>1. \A a \in DOMAIN RaddrsWithout(V) : a \in Addrs /\ RaddrsWithout(V)[a] \in Peers
    BY AfterRemove DEF TypeOK
  <2>2. ASSUME NEW p \in DOMAIN PeersWithout(V)
        PROVE  p \in Peers /\ PeersWithout(V)[p] \subseteq Conns
    BY AfterRemove DEF TypeOK
  <2> QED
    BY <2>1, <2>2
<1>3. /\ DOMAIN raddrs' \subseteq Addrs
      /\ \A a \in DOMAIN raddrs' : raddrs'[a] \in Peers
  BY <1>1, <1>2 DEF RemoveAndInsert, Put
<1>4. /\ DOMAIN peers' \subseteq Peers
      /\ \A p \in DOMAIN peers' : peers'[p] \subseteq Conns
  BY <1>1, <1>2 DEF RemoveAndInsert, Put, Lookup
<1> QED
  BY <1>3, <1>4, AfterRemove DEF RemoveAndInsert, TypeOK

-----------------------------------------------------------------------------
(* Type correctness.                                                       *)

TypeInv == TypeOK /\ InHand

\* The pool's variables always have their types, and a task that adds or uses
\* a connection has one.
THEOREM TypeCorrect == Spec => []TypeInv
<1>1. Init => TypeInv
  BY DEF Init, TypeInv, TypeOK, InHand, EmptyMap
<1>2. TypeInv /\ [Next]_vars => TypeInv'
  <2> SUFFICES ASSUME TypeInv, [Next]_vars
               PROVE  TypeInv'
    OBVIOUS
  <2> USE DEF TypeInv, pool, lock, wire, tasks
  <2>1. ASSUME NEW t \in Tasks, Start(t)
        PROVE  TypeInv'
    <3>1. ASSUME NEW A \in AddrLists, Connect(t, A)
          PROVE  TypeInv'
      BY <3>1, AddrListsAssumption DEF TypeOK, InHand, Connect
    <3>2. ASSUME NEW p \in Peers, ConnectToHit(t, p)
          PROVE  TypeInv'
      BY <3>2 DEF TypeOK, InHand, ConnectToHit, ByPeerId, Lookup
    <3>3. ASSUME NEW p \in Peers, NEW A \in AddrLists, ConnectToMiss(t, p, A)
          PROVE  TypeInv'
      BY <3>3, AddrListsAssumption DEF TypeOK, InHand, ConnectToMiss
    <3>4. ASSUME NEW c \in Conns, Incoming(t, c)
          PROVE  TypeInv'
      BY <3>4 DEF TypeOK, InHand, Incoming
    <3>5. ASSUME NEW c \in Conns, NEW A \in AddrLists, Upgrade(t, c, A)
          PROVE  TypeInv'
      BY <3>5, AddrListsAssumption DEF TypeOK, InHand, Upgrade
    <3> QED
      BY <2>1, <3>1, <3>2, <3>3, <3>4, <3>5 DEF Start
  <2>2. ASSUME NEW t \in Tasks, Run(t)
        PROVE  TypeInv'
    <3>1. CASE LookupHit(t)
      BY <3>1 DEF TypeOK, InHand, LookupHit, ByRaddr
    <3>2. CASE LookupMiss(t)
      BY <3>2 DEF TypeOK, InHand, LookupMiss
    <3>3. ASSUME NEW c \in Conns, Dial(t, c)
          PROVE  TypeInv'
      BY <3>3 DEF TypeOK, InHand, Dial
    <3>4. CASE DialFails(t)
      BY <3>4 DEF TypeOK, InHand, DialFails, NextAddr
    <3>7. CASE SetupDone(t)
      BY <3>7 DEF TypeOK, InHand, SetupDone
    <3>8. CASE SetupFails(t) \/ NameTimesOut(t)
      BY <3>8 DEF TypeOK, InHand, SetupFails, NameTimesOut, NextAddr
    <3>9. CASE Drop(t)
      BY <3>9 DEF TypeOK, InHand, Drop
    <3>5. CASE Scan(t)
      <4>1. victims' \subseteq Conns
        BY <3>5 DEF Scan, Overflow, TypeOK
      <4>2. Remove({old[t]})
        BY <3>5 DEF Scan
      <4> QED
        BY <3>5, <4>1, <4>2, RemoveTypes DEF TypeOK, InHand, Scan
    <3>6. CASE Commit(t)
      <4>1. got[t] \in Conns
        BY <3>6 DEF InHand, Commit
      <4>2. RemoveAndInsert(victims, got[t], kind[t] = "incoming")
        BY <3>6 DEF Commit
      <4> QED
        BY <3>6, <4>1, <4>2, AddTypes DEF TypeOK, InHand, Commit
    <3> QED
      BY <2>2, <3>1, <3>2, <3>3, <3>4, <3>5, <3>6, <3>7, <3>8, <3>9 DEF Run
  <2>3. ASSUME NEW t \in Tasks, OpenStream(t) \/ Finish(t)
        PROVE  TypeInv'
    BY <2>3 DEF TypeOK, InHand, OpenStream, Finish
  <2>4. ASSUME NEW c \in Conns, Close(c)
        PROVE  TypeInv'
    BY <2>4, RemoveTypes DEF TypeOK, InHand, Close
  <2>5. ASSUME NEW c \in Conns, RemoteOpens(c) \/ RemoteEnds(c) \/ PeerCloses(c)
        PROVE  TypeInv'
    BY <2>5 DEF TypeOK, InHand, RemoteOpens, RemoteEnds, PeerCloses
  <2>6. CASE UNCHANGED vars
    BY <2>6 DEF TypeOK, InHand, vars
  <2> QED
    BY <2>1, <2>2, <2>3, <2>4, <2>5, <2>6 DEF Next
<1> QED
  BY <1>1, <1>2, PTL DEF Spec

-----------------------------------------------------------------------------
(* The indexes.                                                            *)

\* Only remove, called by close and replace, and add write the three maps.
LEMMA PoolWriters ==
  ASSUME TypeInv, [Next]_vars
  PROVE  \/ UNCHANGED pool
         \/ \E V : Remove(V)
         \/ \E V : \E c \in Conns : \E inbound : RemoveAndInsert(V, c, inbound)
<1> USE DEF TypeInv, lock, wire, tasks
<1>1. ASSUME NEW t \in Tasks, Start(t) \/ Run(t) \/ OpenStream(t) \/ Finish(t)
      PROVE  \/ UNCHANGED pool
             \/ \E V : Remove(V)
             \/ \E V : \E c \in Conns : \E inbound : RemoveAndInsert(V, c, inbound)
  <2>1. CASE Scan(t)
    BY <2>1 DEF Scan
  <2>2. CASE Commit(t)
    BY <2>2 DEF Commit, InHand
  <2>3. CASE ~Scan(t) /\ ~Commit(t)
    BY <1>1, <2>3 DEF Start, Run, Connect, ConnectToHit, ConnectToMiss, Incoming,
       Upgrade, LookupHit, LookupMiss, Dial, DialFails, SetupDone, SetupFails,
       NameTimesOut, Drop, OpenStream, Finish
  <2> QED
    BY <2>1, <2>2, <2>3
<1>2. ASSUME NEW c \in Conns, Close(c) \/ RemoteOpens(c) \/ RemoteEnds(c) \/ PeerCloses(c)
      PROVE  UNCHANGED pool \/ \E V : Remove(V)
  BY <1>2 DEF Close, RemoteOpens, RemoteEnds, PeerCloses
<1> QED
  BY <1>1, <1>2 DEF Next, vars

\* PeerIndexExact, of any index P and set C of connections.
Exact(P, C) ==
  /\ DOMAIN P = {PeerOf[c] : c \in C}
  /\ \A p \in DOMAIN P : P[p] = {c \in C : PeerOf[c] = p}

\* The same, connection by connection.
LEMMA ExactByElements ==
  ASSUME NEW P, NEW C
  PROVE  Exact(P, C) <=>
           /\ \A k \in C : PeerOf[k] \in DOMAIN P /\ k \in P[PeerOf[k]]
           /\ \A p \in DOMAIN P : \A k \in P[p] : k \in C /\ PeerOf[k] = p
           /\ \A p \in DOMAIN P : P[p] # {}
BY DEF Exact

\* add lists a connection under its peer.
LEMMA ExactAfterAdd ==
  ASSUME NEW P, NEW C, NEW c, Exact(P, C)
  PROVE  Exact(Put(P, PeerOf[c], Lookup(P, PeerOf[c], {}) \cup {c}), C \cup {c})
<1> DEFINE Q == Put(P, PeerOf[c], Lookup(P, PeerOf[c], {}) \cup {c})
<1>1. DOMAIN Q = DOMAIN P \cup {PeerOf[c]}
  BY DEF Put
<1>2. \A p \in DOMAIN P : p # PeerOf[c] => Q[p] = P[p]
  BY DEF Put
<1>3. Q[PeerOf[c]] = Lookup(P, PeerOf[c], {}) \cup {c}
  BY DEF Put
<1>4. \A k \in Lookup(P, PeerOf[c], {}) : k \in C /\ PeerOf[k] = PeerOf[c]
  BY ExactByElements DEF Lookup
<1>5. \A k \in C : PeerOf[k] = PeerOf[c] => k \in Lookup(P, PeerOf[c], {})
  BY ExactByElements DEF Lookup
<1> HIDE DEF Q
<1>6. \A k \in C \cup {c} : PeerOf[k] \in DOMAIN Q /\ k \in Q[PeerOf[k]]
  BY <1>1, <1>2, <1>3, <1>5, ExactByElements
<1>7. \A p \in DOMAIN Q : \A k \in Q[p] : k \in C \cup {c} /\ PeerOf[k] = p
  BY <1>1, <1>2, <1>3, <1>4, ExactByElements
<1>8. \A p \in DOMAIN Q : Q[p] # {}
  BY <1>1, <1>2, <1>3, ExactByElements
<1> QED
  BY <1>6, <1>7, <1>8, ExactByElements DEF Q

\* The expect("consistency guarantee") of by_raddr and by_peer_id never fails:
\* the peer index lists the pooled connections of each peer and no others.
THEOREM PeerIndexAlwaysExact == Spec => []PeerIndexExact
<1>1. Init => PeerIndexExact
  BY DEF Init, PeerIndexExact, EmptyMap
<1>2. TypeInv /\ PeerIndexExact /\ [Next]_vars => PeerIndexExact'
  <2> SUFFICES ASSUME TypeInv, PeerIndexExact, [Next]_vars
               PROVE  PeerIndexExact'
    OBVIOUS
  <2>1. CASE UNCHANGED pool
    BY <2>1 DEF pool, PeerIndexExact
  <2>2. ASSUME NEW V
        PROVE  Exact(PeersWithout(V), conns \ V)
    <3>1. Exact(peers, conns)
      BY DEF PeerIndexExact, Exact
    <3>2. \A k \in conns \ V : /\ PeerOf[k] \in DOMAIN PeersWithout(V)
                               /\ k \in PeersWithout(V)[PeerOf[k]]
      BY <3>1, ExactByElements, AfterRemove DEF TypeInv
    <3>3. \A p \in DOMAIN PeersWithout(V) : \A k \in PeersWithout(V)[p] :
            k \in conns \ V /\ PeerOf[k] = p
      BY <3>1, ExactByElements, AfterRemove DEF TypeInv
    <3>4. \A p \in DOMAIN PeersWithout(V) : PeersWithout(V)[p] # {}
      BY AfterRemove DEF TypeInv
    <3> QED
      BY <3>2, <3>3, <3>4, ExactByElements
  <2>3. ASSUME NEW V, Remove(V)
        PROVE  PeerIndexExact'
    <3>1. Exact(peers', conns')
      BY <2>2, <2>3 DEF Remove
    <3> QED
      BY <3>1 DEF PeerIndexExact, Exact
  <2>4. ASSUME NEW V, NEW c \in Conns, NEW inbound, RemoveAndInsert(V, c, inbound)
        PROVE  PeerIndexExact'
    <3>1. CASE c \in conns \ V
      <4>1. peers' = PeersWithout(V) /\ conns' = conns \ V
        BY <2>4, <3>1 DEF RemoveAndInsert
      <4>2. Exact(peers', conns')
        BY <2>2, <4>1
      <4> QED
        BY <4>2 DEF PeerIndexExact, Exact
    <3>2. CASE c \notin conns \ V
      <4>1. /\ peers' = Put(PeersWithout(V), PeerOf[c],
                            Lookup(PeersWithout(V), PeerOf[c], {}) \cup {c})
            /\ conns' = (conns \ V) \cup {c}
        BY <2>4, <3>2 DEF RemoveAndInsert
      <4>2. Exact(peers', conns')
        BY <2>2, <4>1, ExactAfterAdd
      <4> QED
        BY <4>2 DEF PeerIndexExact, Exact
    <3> QED
      BY <3>1, <3>2
  <2> QED
    BY <2>1, <2>3, <2>4, PoolWriters
<1> QED
  BY <1>1, <1>2, TypeCorrect, PTL DEF Spec

\* The address index always names a peer that has a pooled connection at the
\* address: remove takes the entry of the address out with the connection.
THEOREM AddrIndexAlwaysBacked == Spec => []AddrIndexBacked
<1>1. Init => AddrIndexBacked
  BY DEF Init, AddrIndexBacked, EmptyMap
<1>2. TypeInv /\ AddrIndexBacked /\ [Next]_vars => AddrIndexBacked'
  <2> SUFFICES ASSUME TypeInv, AddrIndexBacked, [Next]_vars
               PROVE  AddrIndexBacked'
    OBVIOUS
  <2>1. CASE UNCHANGED pool
    BY <2>1 DEF pool, AddrIndexBacked
  <2>2. ASSUME NEW V, NEW a \in DOMAIN RaddrsWithout(V)
        PROVE  \E c \in conns \ V : AddrOf[c] = a /\ PeerOf[c] = RaddrsWithout(V)[a]
    <3>1. a \in DOMAIN raddrs /\ RaddrsWithout(V)[a] = raddrs[a]
      BY AfterRemove DEF TypeInv
    <3>2. \A c \in V \cap conns : AddrOf[c] # a
      BY AfterRemove DEF TypeInv
    <3> QED
      BY <3>1, <3>2 DEF AddrIndexBacked
  <2>3. ASSUME NEW V, Remove(V)
        PROVE  AddrIndexBacked'
    BY <2>2, <2>3 DEF Remove, AddrIndexBacked
  <2>4. ASSUME NEW V, NEW c \in Conns, NEW inbound, RemoveAndInsert(V, c, inbound)
        PROVE  AddrIndexBacked'
    BY <2>2, <2>4 DEF RemoveAndInsert, Put, AddrIndexBacked
  <2> QED
    BY <2>1, <2>3, <2>4, PoolWriters
<1> QED
  BY <1>1, <1>2, TypeCorrect, PTL DEF Spec

-----------------------------------------------------------------------------
(* No leak.                                                                *)

\* Where NoOrphan finds a connection.
Kept(c) ==
  \/ c \in conns
  \/ \E t \in Tasks : got[t] = c /\ pc[t] \in {"setup", "add", "commit"}
  \/ c \in dropped

\* An open connection is lost only if the future of a task that had it in hand
\* is dropped: remove closes what it takes out, in whatever order the scans,
\* commits and closes of several tasks come, and a task that opened one closes
\* or adds it.
THEOREM NeverOrphaned == Spec => []NoOrphan
<1>1. Init => NoOrphan
  BY DEF Init, NoOrphan
<1>2. TypeInv /\ NoOrphan /\ [Next]_vars => NoOrphan'
  <2> SUFFICES ASSUME TypeInv, NoOrphan, [Next]_vars,
                      NEW c \in Conns, life'[c] = "open"
               PROVE  Kept(c)'
    BY DEF NoOrphan, Kept
  <2> USE DEF TypeInv, pool, lock, wire, tasks
  <2>1. ASSUME NEW V, life' = Closing(V), conns \ V \subseteq conns'
        PROVE  /\ life[c] = "open"
               /\ c \in conns => c \in conns'
    BY <2>1 DEF Closing
  <2>2. ASSUME NEW t \in Tasks, Start(t)
        PROVE  Kept(c)'
    <3>1. ASSUME NEW k \in Conns, Incoming(t, k)
          PROVE  Kept(c)'
      BY <3>1 DEF Incoming, NoOrphan, Kept, TypeOK
    <3>2. CASE ~(\E k \in Conns : Incoming(t, k))
      BY <2>2, <3>2 DEF Start, Connect, ConnectToHit, ConnectToMiss, Upgrade, NoOrphan, Kept,
         TypeOK
    <3> QED
      BY <3>1, <3>2
  <2>3. ASSUME NEW t \in Tasks, Run(t)
        PROVE  Kept(c)'
    <3>1. ASSUME NEW k \in Conns, Dial(t, k)
          PROVE  Kept(c)'
      BY <3>1 DEF Dial, NoOrphan, Kept, TypeOK
    <3>2. CASE Scan(t)
      <4>1. life[c] = "open" /\ (c \in conns => c \in conns')
        BY <2>1, <3>2 DEF Scan, Remove
      <4> QED
        BY <3>2, <4>1 DEF Scan, NoOrphan, Kept, TypeOK
    <3>3. CASE Commit(t)
      <4>1. /\ life' = Closing(victims)
            /\ conns' = (conns \ victims) \cup {got[t]}
        BY <3>3 DEF Commit, RemoveAndInsert
      <4>2. life[c] = "open" /\ (c \in conns => c \in conns')
        BY <2>1, <4>1
      <4> QED
        BY <3>3, <4>1, <4>2 DEF Commit, NoOrphan, Kept, TypeOK
    <3>4. CASE LookupHit(t) \/ LookupMiss(t) \/ SetupDone(t)
      BY <3>4 DEF LookupHit, LookupMiss, SetupDone, NoOrphan, Kept, TypeOK
    <3>5. CASE DialFails(t)
      BY <3>5 DEF DialFails, NextAddr, NoOrphan, Kept, TypeOK
    <3>6. CASE SetupFails(t)
      <4>1. life[c] = "open" /\ c # got[t]
        BY <3>6 DEF SetupFails, TypeOK
      <4> QED
        BY <3>6, <4>1 DEF SetupFails, NextAddr, NoOrphan, Kept, TypeOK
    <3>7. CASE NameTimesOut(t)
      BY <3>7 DEF NameTimesOut, NextAddr, NoOrphan, Kept, TypeOK
    <3>8. CASE Drop(t)
      <4>1. got[t] # NoConn => got[t] \in dropped'
        BY <3>8 DEF Drop
      <4>2. c # NoConn
        BY NoConnAssumption
      <4> QED
        BY <3>8, <4>1, <4>2 DEF Drop, NoOrphan, Kept, TypeOK
    <3> QED
      BY <2>3, <3>1, <3>2, <3>3, <3>4, <3>5, <3>6, <3>7, <3>8 DEF Run
  <2>4. ASSUME NEW t \in Tasks, OpenStream(t) \/ Finish(t)
        PROVE  Kept(c)'
    BY <2>4 DEF OpenStream, Finish, NoOrphan, Kept, TypeOK
  <2>5. ASSUME NEW k \in Conns, Close(k)
        PROVE  Kept(c)'
    BY <2>1, <2>5 DEF Close, Remove, NoOrphan, Kept
  <2>6. ASSUME NEW k \in Conns, RemoteOpens(k) \/ RemoteEnds(k) \/ PeerCloses(k)
        PROVE  Kept(c)'
    BY <2>6 DEF RemoteOpens, RemoteEnds, PeerCloses, NoOrphan, Kept, TypeOK
  <2>7. CASE UNCHANGED vars
    BY <2>7 DEF vars, NoOrphan, Kept
  <2> QED
    BY <2>2, <2>3, <2>4, <2>5, <2>6, <2>7 DEF Next
<1> QED
  BY <1>1, <1>2, TypeCorrect, PTL DEF Spec

-----------------------------------------------------------------------------
(* Lookups.                                                                *)

\* A task that looks up has only addresses to look up that its caller gave.
LookInv == \A t \in Tasks : pc[t] = "lookup" => look[t] \subseteq todo[t]

\* connect narrows what is still to be looked up and keeps what it was given.
LEMMA LookupsGiven == Spec => []LookInv
<1>1. Init => LookInv
  BY DEF Init, LookInv
<1>2. TypeInv /\ LookInv /\ [Next]_vars => LookInv'
  <2> SUFFICES ASSUME TypeInv, LookInv, [Next]_vars,
                      NEW u \in Tasks, pc'[u] = "lookup"
               PROVE  look'[u] \subseteq todo'[u]
    BY DEF LookInv
  <2> USE DEF TypeInv, TypeOK, LookInv, pool, lock, wire, tasks
  <2>1. ASSUME NEW t \in Tasks, Start(t)
        PROVE  look'[u] \subseteq todo'[u]
    BY <2>1 DEF Start, Connect, ConnectToHit, ConnectToMiss, Incoming, Upgrade
  <2>2. ASSUME NEW t \in Tasks, Run(t)
        PROVE  look'[u] \subseteq todo'[u]
    <3>1. CASE LookupHit(t) \/ LookupMiss(t)
      BY <3>1 DEF LookupHit, LookupMiss
    <3>2. ASSUME NEW c \in Conns, Dial(t, c)
          PROVE  look'[u] \subseteq todo'[u]
      BY <3>2 DEF Dial
    <3>3. CASE DialFails(t) \/ SetupFails(t) \/ NameTimesOut(t)
      BY <3>3 DEF DialFails, SetupFails, NameTimesOut, NextAddr
    <3>5. CASE SetupDone(t) \/ Drop(t)
      BY <3>5 DEF SetupDone, Drop
    <3>4. CASE Scan(t) \/ Commit(t)
      BY <3>4 DEF Scan, Commit
    <3> QED
      BY <2>2, <3>1, <3>2, <3>3, <3>4, <3>5 DEF Run
  <2>3. ASSUME NEW t \in Tasks, OpenStream(t) \/ Finish(t)
        PROVE  look'[u] \subseteq todo'[u]
    BY <2>3 DEF OpenStream, Finish
  <2>4. ASSUME NEW c \in Conns, Close(c) \/ RemoteOpens(c) \/ RemoteEnds(c) \/ PeerCloses(c)
        PROVE  look'[u] \subseteq todo'[u]
    BY <2>4 DEF Close, RemoteOpens, RemoteEnds, PeerCloses
  <2>5. CASE UNCHANGED vars
    BY <2>5 DEF vars
  <2> QED
    BY <2>1, <2>2, <2>3, <2>4, <2>5 DEF Next
<1> QED
  BY <1>1, <1>2, TypeCorrect, PTL DEF Spec

\* What connect finds in the pool (by_raddr) is a connection of a peer that is
\* pooled at one of the addresses the caller gave: between the lookups other
\* tasks may fill, sweep and empty the pool, but neither index goes astray.
THEOREM LookupAlwaysFindsDialledPeer == Spec => LookupFindsDialledPeer
<1> DEFINE Found ==
      \A t \in Tasks :
        pc[t] = "lookup" /\ pc'[t] = "got" =>
          \E c \in conns : AddrOf[c] \in todo[t] /\ PeerOf[c] = PeerOf[got'[t]]
<1>1. TypeInv /\ PeerIndexExact /\ AddrIndexBacked /\ LookInv /\ [Next]_vars => [Found]_vars
  <2> SUFFICES ASSUME TypeInv, PeerIndexExact, AddrIndexBacked, LookInv, [Next]_vars,
                      NEW u \in Tasks, pc[u] = "lookup", pc'[u] = "got"
               PROVE  \E c \in conns : AddrOf[c] \in todo[u] /\ PeerOf[c] = PeerOf[got'[u]]
    OBVIOUS
  <2> USE DEF TypeInv, TypeOK, pool, lock, wire, tasks
  <2>1. ASSUME NEW t \in Tasks, Start(t) \/ OpenStream(t) \/ Finish(t)
        PROVE  FALSE
    BY <2>1 DEF Start, Connect, ConnectToHit, ConnectToMiss, Incoming, Upgrade, OpenStream, Finish
  <2>2. ASSUME NEW t \in Tasks, Run(t)
        PROVE  LookupHit(u)
    <3>1. ASSUME NEW c \in Conns, Dial(t, c)
          PROVE  FALSE
      BY <3>1 DEF Dial
    <3>2. ~LookupMiss(t) /\ ~DialFails(t) /\ ~SetupFails(t) /\ ~NameTimesOut(t)
      BY DEF LookupMiss, DialFails, SetupFails, NameTimesOut, NextAddr
    <3>5. ~SetupDone(t) /\ ~Drop(t)
      BY DEF SetupDone, Drop
    <3>3. ~Scan(t) /\ ~Commit(t)
      BY DEF Scan, Commit
    <3>4. CASE LookupHit(t)
      BY <3>4 DEF LookupHit
    <3> QED
      BY <2>2, <3>1, <3>2, <3>3, <3>4, <3>5 DEF Run
  <2>3. ASSUME NEW c \in Conns, Close(c) \/ RemoteOpens(c) \/ RemoteEnds(c) \/ PeerCloses(c)
        PROVE  FALSE
    BY <2>3 DEF Close, RemoteOpens, RemoteEnds, PeerCloses
  <2>4. ~UNCHANGED vars
    BY DEF vars
  <2>5. LookupHit(u)
    BY <2>1, <2>2, <2>3, <2>4 DEF Next
  <2>6. PICK a \in look[u] : \E c \in ByRaddr(a) : got' = [got EXCEPT ![u] = c]
    BY <2>5 DEF LookupHit
  <2>7. /\ a \in DOMAIN raddrs
        /\ raddrs[a] \in DOMAIN peers
        /\ got'[u] \in peers[raddrs[a]]
    BY <2>6 DEF ByRaddr
  <2>8. PeerOf[got'[u]] = raddrs[a]
    BY <2>7 DEF PeerIndexExact
  <2>9. PICK c \in conns : AddrOf[c] = a /\ PeerOf[c] = raddrs[a]
    BY <2>7 DEF AddrIndexBacked
  <2> QED
    BY <2>6, <2>8, <2>9 DEF LookInv
<1> QED
  BY <1>1, TypeCorrect, PeerIndexAlwaysExact, AddrIndexAlwaysBacked, LookupsGiven, PTL
     DEF Spec, LookupFindsDialledPeer
=============================================================================
