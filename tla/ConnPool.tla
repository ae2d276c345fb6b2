------------------------------ MODULE ConnPool ------------------------------
(***************************************************************************)
(* The connection pool of a switch, the default Connector, and the tasks   *)
(* that use it: callers of Switch::connect, the setup tasks of inbound     *)
(* connections and DCUtR upgrades.  One async mutex guards the three maps. *)
(* Opening and closing streams does not take it, so adding a connection is *)
(* two steps: the scan of check_limits, then the removals and the insert.  *)
(* A caller may drop the future of connect wherever it awaits: a timeout   *)
(* around it, an early return, the timeout of a DnsAddr connect.           *)
(***************************************************************************)
EXTENDS Naturals, FiniteSets, HashMaps

CONSTANTS
  Conns,     \* connections (their ids): each is dialled or accepted once
  Peers,     \* peer ids
  Addrs,     \* multiaddrs
  PeerOf,    \* conn.public_key().to_peer_id()
  AddrOf,    \* conn.peer_addr()
  Names,     \* the addresses that DnsAddr resolves
  Reported,  \* dialled address -> peer_addr of the connection.  TCP and
             \* circuit report the address dialled, QUIC the socket address,
             \* DnsAddr the address it resolved
  AddrLists, \* the lists of addresses, as sets, that are ever dialled: what
             \* callers pass, peer books hold and DCUtR peers send
  MaxPool,   \* max_pool_size
  Tasks,     \* tasks that run concurrently
  NoConn     \* no connection yet

ASSUME PeerOfAssumption == PeerOf \in [Conns -> Peers]
ASSUME AddrOfAssumption == AddrOf \in [Conns -> Addrs]
ASSUME NamesAssumption == Names \subseteq Addrs
ASSUME ReportedAssumption == Reported \in [Addrs -> Addrs]
ASSUME AddrListsAssumption == AddrLists \subseteq (SUBSET Addrs) \ {{}}
ASSUME MaxPoolAssumption == MaxPool \in Nat
ASSUME NoConnAssumption == NoConn \notin Conns
ASSUME ConnsAssumption == IsFiniteSet(Conns)

VARIABLES
  raddrs,   \* RawConnPool.raddrs: address -> peer
  peers,    \* RawConnPool.peers: peer -> ids
  conns,    \* the keys of RawConnPool.conns
  mutex,    \* the task between scan and commit, which holds the mutex
  victims,  \* what its scan found to remove
  life,     \* "new", "open" or "closed", as conn.is_closed tells
  remote,   \* connections on which a stream opened by the peer is alive
  pc,       \* where a task is
  kind,     \* what it is: "connect" (also when idle), "incoming" or "upgrade"
  look,     \* addresses connect has not looked up yet
  todo,     \* addresses the task may still dial
  via,      \* the address by which the connection being set up was dialled
  got,      \* the connection the task has in hand
  old,      \* the relayed connection an upgrade replaces
  dropped   \* (history) connections in hand when their future was dropped

pool  == <<raddrs, peers, conns>>
lock  == <<mutex, victims>>
wire  == <<life, remote>>
tasks == <<pc, kind, look, todo, via, got, old, dropped>>
vars  == <<pool, lock, wire, tasks>>

Free == mutex = {}

TypeOK ==
  /\ DOMAIN raddrs \subseteq Addrs
  /\ \A a \in DOMAIN raddrs : raddrs[a] \in Peers
  /\ DOMAIN peers \subseteq Peers
  /\ \A p \in DOMAIN peers : peers[p] \subseteq Conns
  /\ conns \subseteq Conns
  /\ mutex \subseteq Tasks
  /\ victims \subseteq Conns
  /\ life \in [Conns -> {"new", "open", "closed"}]
  /\ remote \subseteq Conns
  /\ pc \in [Tasks -> {"idle", "lookup", "dial", "setup", "add", "commit", "got", "using"}]
  /\ kind \in [Tasks -> {"connect", "incoming", "upgrade"}]
  /\ look \in [Tasks -> SUBSET Addrs]
  /\ todo \in [Tasks -> SUBSET Addrs]
  /\ via \in [Tasks -> SUBSET Addrs]
  /\ got \in [Tasks -> Conns \cup {NoConn}]
  /\ old \in [Tasks -> Conns \cup {NoConn}]
  /\ dropped \subseteq Conns

Init ==
  /\ raddrs = EmptyMap /\ peers = EmptyMap /\ conns = {}
  /\ mutex = {} /\ victims = {}
  /\ life = [c \in Conns |-> "new"] /\ remote = {}
  /\ pc = [t \in Tasks |-> "idle"]
  /\ kind = [t \in Tasks |-> "connect"]
  /\ look = [t \in Tasks |-> {}]
  /\ todo = [t \in Tasks |-> {}]
  /\ via = [t \in Tasks |-> {}]
  /\ got = [t \in Tasks |-> NoConn]
  /\ old = [t \in Tasks |-> NoConn]
  /\ dropped = {}

-----------------------------------------------------------------------------
(* Faulty variants of operators below; no specification uses them.         *)

\* remove leaves the address index alone.
RaddrsKept(V) == raddrs

\* remove leaves an empty list behind for a peer without connections.
PeersKept(V) == [p \in DOMAIN peers |-> peers[p] \ V]

\* remove forgets to close the connection.
NotClosing(V) == life

\* by_raddr returns any pooled connection.
ByAnyRaddr(a) == UNION {peers[p] : p \in DOMAIN peers}

-----------------------------------------------------------------------------
(* RawConnPool, under the mutex.                                           *)

\* conn.actives(): the streams of the connection that are alive.
Active(c) == c \in remote \/ \E t \in Tasks : pc[t] = "using" /\ got[t] = c

\* What check_limits removes: above the limit, everything closed or idle.
Overflow(present) ==
  IF Cardinality(present) > MaxPool
  THEN {c \in present : life[c] = "closed" \/ ~Active(c)}
  ELSE {}

\* The maps after RawConnPool::remove of the ids V.
RaddrsWithout(V) == Without(raddrs, {AddrOf[c] : c \in V \cap conns})
PeersWithout(V) ==
  [p \in {p \in DOMAIN peers : ~(peers[p] \subseteq V)} |-> peers[p] \ V]

\* remove closes what is still open.
Closing(V) ==
  [c \in Conns |-> IF c \in V \cap conns /\ life[c] = "open" THEN "closed" ELSE life[c]]

Remove(V) ==
  /\ raddrs' = RaddrsWithout(V)
  /\ peers' = PeersWithout(V)
  /\ conns' = conns \ V
  /\ life' = Closing(V)

\* RawConnPool::add after the removals V: the address index is for outbound
\* connections only, and an id already present just replaces its handle.
RemoveAndInsert(V, c, inbound) ==
  LET ra   == RaddrsWithout(V)
      pe   == PeersWithout(V)
      rest == conns \ V
      p    == PeerOf[c]
  IN  /\ conns' = rest \cup {c}
      /\ raddrs' = IF c \in rest \/ inbound THEN ra ELSE Put(ra, AddrOf[c], p)
      /\ peers' = IF c \in rest THEN pe ELSE Put(pe, p, Lookup(pe, p, {}) \cup {c})
      /\ life' = Closing(V)

\* DriverConnector::close, a method of the public trait.
Close(c) ==
  /\ Free
  /\ Remove({c})
  /\ UNCHANGED <<lock, remote, tasks>>

-----------------------------------------------------------------------------
(* ConnPool::connect and connect_to.                                       *)

\* connect: an empty address list is refused, any other is looked up first.
\* The order of the list is free, and so is that of the shuffle before dialling.
Connect(t, A) ==
  /\ pc[t] = "idle"
  /\ pc' = [pc EXCEPT ![t] = "lookup"]
  /\ look' = [look EXCEPT ![t] = A]
  /\ todo' = [todo EXCEPT ![t] = A]
  /\ UNCHANGED <<pool, lock, wire, kind, via, got, old, dropped>>

\* by_raddr: any connection of the peer that the index names for the address.
ByRaddr(a) ==
  IF a \in DOMAIN raddrs /\ raddrs[a] \in DOMAIN peers THEN peers[raddrs[a]] ELSE {}

\* by_peer_id: any connection of the peer.
ByPeerId(p) == Lookup(peers, p, {})

\* One lookup of connect's loop succeeds; the mutex is taken per address.
LookupHit(t) ==
  /\ pc[t] = "lookup"
  /\ Free
  /\ \E a \in look[t] : \E c \in ByRaddr(a) : got' = [got EXCEPT ![t] = c]
  /\ pc' = [pc EXCEPT ![t] = "got"]
  /\ look' = [look EXCEPT ![t] = {}]
  /\ todo' = [todo EXCEPT ![t] = {}]
  /\ UNCHANGED <<pool, lock, wire, kind, via, old, dropped>>

\* One lookup finds nothing; after the last one the task dials.
LookupMiss(t) ==
  /\ pc[t] = "lookup"
  /\ Free
  /\ \E a \in look[t] :
       /\ ByRaddr(a) = {}
       /\ look' = [look EXCEPT ![t] = @ \ {a}]
       /\ pc' = [pc EXCEPT ![t] = IF look[t] = {a} THEN "dial" ELSE "lookup"]
  /\ UNCHANGED <<pool, lock, wire, kind, todo, via, got, old, dropped>>

\* connect_to finds a connection of the peer.
ConnectToHit(t, p) ==
  /\ pc[t] = "idle"
  /\ Free
  /\ \E c \in ByPeerId(p) : got' = [got EXCEPT ![t] = c]
  /\ pc' = [pc EXCEPT ![t] = "got"]
  /\ UNCHANGED <<pool, lock, wire, kind, look, todo, via, old, dropped>>

\* connect_to finds none and dials the addresses A the peer book holds; with
\* no entry or no address it returns PeerNotFound and nothing changes.
ConnectToMiss(t, p, A) ==
  /\ pc[t] = "idle"
  /\ Free
  /\ ByPeerId(p) = {}
  /\ pc' = [pc EXCEPT ![t] = "dial"]
  /\ todo' = [todo EXCEPT ![t] = A]
  /\ UNCHANGED <<pool, lock, wire, kind, look, via, got, old, dropped>>

\* DCUtRUpgrader::upgrade dials the peer of the relayed connection c anew.
Upgrade(t, c, A) ==
  /\ pc[t] = "idle"
  /\ life[c] = "open"
  /\ pc' = [pc EXCEPT ![t] = "dial"]
  /\ kind' = [kind EXCEPT ![t] = "upgrade"]
  /\ todo' = [todo EXCEPT ![t] = A]
  /\ old' = [old EXCEPT ![t] = c]
  /\ UNCHANGED <<pool, lock, wire, look, via, got, dropped>>

\* handle_incoming: a connection was accepted and its handshake begins.
Incoming(t, c) ==
  /\ pc[t] = "idle"
  /\ life[c] = "new"
  /\ life' = [life EXCEPT ![c] = "open"]
  /\ pc' = [pc EXCEPT ![t] = "setup"]
  /\ kind' = [kind EXCEPT ![t] = "incoming"]
  /\ got' = [got EXCEPT ![t] = c]
  /\ UNCHANGED <<pool, lock, remote, look, todo, via, old, dropped>>

\* transport_connect to one of the addresses, shuffled: the transport connects
\* and the handshake begins.  Its accept loop keeps a clone of the connection.
Dial(t, c) ==
  /\ pc[t] = "dial"
  /\ life[c] = "new"
  /\ \E a \in todo[t] :
       /\ AddrOf[c] = Reported[a]
       /\ todo' = [todo EXCEPT ![t] = @ \ {a}]
       /\ via' = [via EXCEPT ![t] = {a}]
  /\ life' = [life EXCEPT ![c] = "open"]
  /\ pc' = [pc EXCEPT ![t] = "setup"]
  /\ got' = [got EXCEPT ![t] = c]
  /\ UNCHANGED <<pool, lock, remote, kind, look, old, dropped>>

\* The handshake succeeds; the connection waits for the mutex.
SetupDone(t) ==
  /\ pc[t] = "setup"
  /\ pc' = [pc EXCEPT ![t] = "add"]
  /\ todo' = [todo EXCEPT ![t] = {}]
  /\ via' = [via EXCEPT ![t] = {}]
  /\ UNCHANGED <<pool, lock, wire, kind, look, got, old, dropped>>

\* The task is done with an address and has the addresses A left: it dials the
\* next one or, after the last, ends.
NextAddr(t, A) ==
  /\ todo' = [todo EXCEPT ![t] = A]
  /\ pc' = [pc EXCEPT ![t] = IF A = {} THEN "idle" ELSE "dial"]
  /\ old' = [old EXCEPT ![t] = IF A = {} THEN NoConn ELSE @]
  /\ kind' = [kind EXCEPT ![t] = IF A = {} THEN "connect" ELSE @]

\* transport_connect to one address fails: no transport connects.
DialFails(t) ==
  /\ pc[t] = "dial"
  /\ \E a \in todo[t] : NextAddr(t, todo[t] \ {a})
  /\ UNCHANGED <<pool, lock, wire, look, via, got, dropped>>

\* The handshake fails, at either end: the connection is closed.
SetupFails(t) ==
  /\ pc[t] = "setup"
  /\ life' = [life EXCEPT ![got[t]] = "closed"]
  /\ NextAddr(t, todo[t])
  /\ got' = [got EXCEPT ![t] = NoConn]
  /\ via' = [via EXCEPT ![t] = {}]
  /\ UNCHANGED <<pool, lock, remote, look, dropped>>

\* The handshake DnsAddr waits for runs inside the timeout around DnsAddr's
\* connect: when that expires first, the inner future is dropped with the
\* connection it holds, and the task goes on to its next address.
NameTimesOut(t) ==
  /\ pc[t] = "setup"
  /\ via[t] \cap Names # {}
  /\ dropped' = dropped \cup {got[t]}
  /\ NextAddr(t, todo[t])
  /\ got' = [got EXCEPT ![t] = NoConn]
  /\ via' = [via EXCEPT ![t] = {}]
  /\ UNCHANGED <<pool, lock, wire, look>>

\* The caller drops the future of connect or connect_to at an await: of the
\* mutex, of the transport, of the handshake.  The other tasks are spawned.
Drop(t) ==
  /\ pc[t] \in {"lookup", "dial", "setup", "add"}
  /\ kind[t] = "connect"
  /\ dropped' = dropped \cup ({got[t]} \ {NoConn})
  /\ pc' = [pc EXCEPT ![t] = "idle"]
  /\ look' = [look EXCEPT ![t] = {}]
  /\ todo' = [todo EXCEPT ![t] = {}]
  /\ via' = [via EXCEPT ![t] = {}]
  /\ got' = [got EXCEPT ![t] = NoConn]
  /\ UNCHANGED <<pool, lock, wire, kind, old>>

\* The task takes the mutex; replace removes the old connection first, then
\* check_limits scans what is left.
Scan(t) ==
  /\ pc[t] = "add"
  /\ Free
  /\ mutex' = {t}
  /\ pc' = [pc EXCEPT ![t] = "commit"]
  /\ victims' = Overflow(conns \ {old[t]})
  /\ Remove({old[t]})
  /\ UNCHANGED <<remote, kind, look, todo, via, got, old, dropped>>

\* The removals and the insert; the mutex is released.
Commit(t) ==
  /\ pc[t] = "commit"
  /\ RemoveAndInsert(victims, got[t], kind[t] = "incoming")
  /\ mutex' = {} /\ victims' = {}
  /\ pc' = [pc EXCEPT ![t] = IF kind[t] = "connect" THEN "got" ELSE "idle"]
  /\ got' = [got EXCEPT ![t] = IF kind[t] = "connect" THEN @ ELSE NoConn]
  /\ old' = [old EXCEPT ![t] = NoConn]
  /\ kind' = [kind EXCEPT ![t] = "connect"]
  /\ UNCHANGED <<remote, look, todo, via, dropped>>

\* Switch::connect opens its stream on the connection, unless it is closed.
OpenStream(t) ==
  /\ pc[t] = "got"
  /\ life[got[t]] = "open"
  /\ pc' = [pc EXCEPT ![t] = "using"]
  /\ UNCHANGED <<pool, lock, wire, kind, look, todo, via, got, old, dropped>>

\* The stream could not be opened, or it was used and dropped.
Finish(t) ==
  /\ pc[t] \in {"got", "using"}
  /\ pc' = [pc EXCEPT ![t] = "idle"]
  /\ got' = [got EXCEPT ![t] = NoConn]
  /\ UNCHANGED <<pool, lock, wire, kind, look, todo, via, old, dropped>>

-----------------------------------------------------------------------------
(* The remote peers: no pool mutex is involved.                            *)

RemoteOpens(c) ==
  /\ life[c] = "open" /\ c \notin remote
  /\ remote' = remote \cup {c}
  /\ UNCHANGED <<pool, lock, life, tasks>>

RemoteEnds(c) ==
  /\ c \in remote
  /\ remote' = remote \ {c}
  /\ UNCHANGED <<pool, lock, life, tasks>>

PeerCloses(c) ==
  /\ life[c] = "open"
  /\ life' = [life EXCEPT ![c] = "closed"]
  /\ UNCHANGED <<pool, lock, remote, tasks>>

-----------------------------------------------------------------------------
Start(t) ==
  \/ \E A \in AddrLists : Connect(t, A)
  \/ \E p \in Peers : ConnectToHit(t, p)
  \/ \E p \in Peers, A \in AddrLists : ConnectToMiss(t, p, A)
  \/ \E c \in Conns : Incoming(t, c)
  \/ \E c \in Conns, A \in AddrLists : Upgrade(t, c, A)

Run(t) ==
  \/ LookupHit(t) \/ LookupMiss(t)
  \/ \E c \in Conns : Dial(t, c)
  \/ DialFails(t) \/ SetupDone(t) \/ SetupFails(t) \/ NameTimesOut(t)
  \/ Scan(t) \/ Commit(t) \/ Drop(t)

Next ==
  \/ \E t \in Tasks : Start(t) \/ Run(t) \/ OpenStream(t) \/ Finish(t)
  \/ \E c \in Conns : Close(c) \/ RemoteOpens(c) \/ RemoteEnds(c) \/ PeerCloses(c)

Spec == Init /\ [][Next]_vars

-----------------------------------------------------------------------------
(* Properties.                                                             *)

\* by_raddr and by_peer_id unwrap conns.get(id) with expect("consistency
\* guarantee"): the peer index lists exactly the pooled connections of each
\* peer, and lists no peer without one.
PeerIndexExact ==
  /\ DOMAIN peers = {PeerOf[c] : c \in conns}
  /\ \A p \in DOMAIN peers : peers[p] = {c \in conns : PeerOf[c] = p}

\* The address index never dangles: an indexed address is the address of a
\* pooled connection to the very peer the index names, whatever connections
\* to that address or peer came, were evicted, replaced or closed before.
AddrIndexBacked ==
  \A a \in DOMAIN raddrs :
    \E c \in conns : AddrOf[c] = a /\ PeerOf[c] = raddrs[a]

\* Eviction, replacement and close, between the scan and the commit of another
\* task too, never leave an open connection outside the pool: one that is open
\* is pooled, or in the hands of the task that will add or close it, or that
\* task's future was dropped, which closes nothing (the accept loop's clone
\* keeps such a connection open until its peer closes it).
NoOrphan ==
  \A c \in Conns :
    life[c] = "open" =>
      \/ c \in conns
      \/ \E t \in Tasks : got[t] = c /\ pc[t] \in {"setup", "add", "commit"}
      \/ c \in dropped

\* connect returns a connection of a peer that was reached at one of the
\* addresses the caller gave.
LookupFindsDialledPeer ==
  [][\A t \in Tasks :
       pc[t] = "lookup" /\ pc'[t] = "got" =>
         \E c \in conns : AddrOf[c] \in todo[t] /\ PeerOf[c] = PeerOf[got'[t]]]_vars

=============================================================================
