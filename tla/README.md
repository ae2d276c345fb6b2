# xstack in TLA+

A TLA+ model of [xstack](https://github.com/HalaOS/xstack), a libp2p stack in Rust:
its concurrent core (stream dispatch, connection pool, peer book, event mediator), the
transports with their certificates, the autonat and circuit clients, discovery, the wire
protocols down to the bytes, and the algorithms of its Kademlia crate, model-checked
with TLC on small instances and, where that is possible, proved with TLAPS for every
value of the constants. `src/` below is the root of the repository; paths without it are
relative to `src/crates/`.

## 1. The system

A `Switch` owns a set of drivers behind trait objects and runs everything as tasks of
one executor. State is shared through `futures::lock::Mutex`, so a critical section
ends wherever the guard is dropped, and every `.await` is a place where other tasks
run, and where a timeout may drop the future.

| component | state | operations | interacts with |
|---|---|---|---|
| stream dispatcher (`xstack/src/stream.rs`) | `protos`, `inbound_streams`, `unauth_streams`, the wait map | handshake, handshake_success/failed, bind, close, accept, dispatch, protos | setup tasks and stream tasks of the switch feed it, listeners drain it |
| switch (`xstack/src/switch/`) | none of its own beside the mutable part | handshake, identity request, accept loop, transport_connect, connect, bind | calls every driver, raises events |
| connection pool (`xstack/src/connector.rs`) | `raddrs`, `peers`, `conns` | connect, connect_to, incoming, replace, close | dials through the switch, reads the peer book, sees connections close on their own |
| peer book (`xstack/src/book.rs`) | `peer_infos`, `peer_addrs` | insert, remove, appear, disappear, lookups | written by identity_push, Kademlia and mDNS; read by connect_to, circuit and autonat |
| event mediator (`xstack/src/event.rs`) | senders per event name | bind, raise, close, drop, poll_next | raised by setup and set_nat; heard by Kademlia, autonat, circuit |
| mutable switch (`xstack/src/switch/mutable.rs`) | NAT state, observed, bound and relay addresses | setters and getters | written by identity_push, autonat, circuit |
| routing table (`kad/src/kbucket.rs`) | buckets, counter | insert with a ping task, closest, len | fed by HandshakeSuccess events |
| recursive lookup (`kad/src/router.rs`) | candidates, queried, pending queries, closest_k | route | queries peers through the switch, fills the peer book |
| autonat client (`autonat/src/client.rs`) | two counters | success, failed, state | HandshakeSuccess in, set_nat out |
| circuit stop server (`circuit/src/protocols/stop.rs`) | reservations counter | reservation channels, incoming stop streams | NAT state and Network events in, relay addresses out |
| DCUtR upgrader (`circuit/src/protocols/dcutr.rs`) | none | upgrade | replaces pooled connections |
| transports (`tls/`, `tcp/`, `quic/`, `circuit/src/transport.rs`) | handle and stream counters, a listener's queue, quic's certificate | connect, bind, accept, clone, drop, close | setup tasks and the accept loops of the switch, the pool |
| x509 (`x509/src/lib.rs`), keystore (`xstack/src/keystore.rs`) | the host key | generate, verify, sign | called at both ends of each handshake |
| DnsAddr (`dnsaddr/src/lib.rs`) | the rounds of one lookup | lookup, connect | dials through the switch |
| mDNS (`mdns/src/lib.rs`) | none | answer a query, take a response | writes the peer book |
| wire protocols (`*/src/rpc.rs`, `*/src/proto/`) | one call's stream | send, recv, call, ping; serialise, parse | identity, circuit, DCUtR, autonat and Kademlia calls |
| record store, builder, global registration | data only | store | - |

What is hard, and what each part owes:

* **Dispatcher.** Inbound streams race with the identity request of their connection,
  with listeners that bind and close, and with a second setup of the same connection
  (DnsAddr). Owed: no panic on inconsistent tables, no stream before the request is
  decided, no stream to the wrong listener, none twice, no acceptor asleep for ever.
* **Pool.** Lookup, dial and insert are separate critical sections, connections close
  and go idle without the mutex, one address may lead to several peers and one peer
  have several connections; a caller may drop its future at any await. Owed: indexes
  that agree with the table, no leak of its own, a hit that is a peer the caller could
  have dialled, a bounded pool.
* **Peer book.** Writers in any order claim the same addresses. Owed: a reverse lookup
  that never names a peer wrongly.
* **Events.** raise works on a copy. Owed: each listener gets each event once, in order,
  and no event after the end.
* **NAT traversal.** Dial-back answers, set_nat and the hop client run in different
  tasks; reservations end in four ways that each clean up differently. Owed: one
  decision, no change to NAT that the hop client sleeps through, a counter that does not
  wrap, listed addresses that are held.
* **Transports.** Two ends run a handshake over a socket, a QUIC connection or a relayed
  stream; either may refuse, time out or go, and only the dialer has a timeout. Owed: a
  connection with a proved key, at both ends or at none for long; nobody left waiting at
  a listener that has stopped; counters that are exact, since the pool evicts by them.
* **Discovery.** A packet is inserted record by record between other writers; a name may
  lead to names. Owed: what is announced is listed; a lookup finds all there is and ends.
* **Wire protocols.** Frames arrive in pieces, from peers of other versions. Owed: each
  end reads what the other wrote and nothing behind it, and believes no more than it says.
* **Routing table and lookup.** Pings and queries are outstanding while the tables
  change. Owed: sound buckets, an exact counter, the K closest, termination.

`PROJECT.json` lists every hazard at its line with the properties that cover it.

## 2. Modules

| module | models | notes |
|---|---|---|
| `HashMaps` | `HashMap` operations | shared by the tables below |
| `StreamDispatcher` | dispatcher, connection setup, stream tasks, listeners | one action per critical section |
| `ConnPool` | `RawConnPool`, `ConnPool` and its users | the scan of check_limits and the insert are two steps |
| `PeerBook` | `MemoryPeerBook` and its three writers | every method is one action |
| `EventBus` | what a mediator promises | abstract specification |
| `EventMediator` | `SyncEventMediator`, `EventSource` | refines `EventBus` |
| `NatTraversal` | NAT state and relay addresses, autonat client, reservation client | three components that meet in `MutableSwitch` |
| `Certificates` | `x509`, `MemoryKeyStore` | keys, signatures and certificates as values; whole seconds |
| `SecureTransport` | tcp, quic and circuit transports, both ends; handles | `EXTENDS Certificates` |
| `Discovery` | `MdnsProtocol`, `DnsAddr` | `EXTENDS PeerBook`, whose other writers run in between |
| `ProtoBuf` | the generated serialisation | pure operators on bytes, one per level of nesting |
| `Messages` | the message types of all protocols | tables of fields |
| `Rpc` | each request, and what is made of each answer | pure operators |
| `RpcStream` | `XStackRpc`: one call over one stream | `EXTENDS Rpc` |
| `Kademlia` | the peers and K | what the two modules below share |
| `KBucketTable` | `KBucketTable`, `RawKBucketTable`, `KBucket` | `closest` is an operator on the state |
| `Recursively` | `Recursively::route` | one task, concurrent queries |

`MC*` modules give the constants their values; `*Proofs` modules hold the theorems, those
of `PeerBook` and `Discovery` in `PeerBookProofs` and those of `KBucketTable` and
`Recursively` in `KademliaProofs`.
Next to some definitions stands a faulty variant: an operator that no specification uses,
a plausible bug in the code of the definition it imitates. Every checked property
is violated when one of them replaces that definition (`mutants` in `PROJECT.json`).

### StreamDispatcher

`protos`, `inbound` and `unauth` are the three maps under the mutex. `event_map` is a
`KeyWaitMap` of another crate, modelled from its use: `insert` stores an event per key
(`stored`), `wait` registers the waiter before it frees the mutex and consumes a stored
event. Since `insert` runs after `drop(raw)`, a task leaves `<<task, listener>>` in
`notify` in the step that changes the queue and raises the event in a later one; a task
takes its next step only when it is `Settled`.

The setup task of a connection goes `idle -> identify -> flush -> up`, or to `failed`
by a refusal (`IdentityFails`, handshake_failed runs), or by a connect error, a timeout or
a caller that drops the future (`HandshakeAborts`, neither handler runs, a flush loses its
rest), then `down` if somebody closes the connection: who dropped the future does not. A
connection of `DnsConns` may go from `up` through a second setup. A stream's task takes
its snapshot of the protocols (`AcceptStream`), negotiates or ends otherwise, and
dispatches. A listener is bound once, accepted on, closed any number of times, dropped.
`authed` and `delivered` are history variables.

### ConnPool

A task looks up address by address (`LookupHit`, `LookupMiss`), dials (`Dial`,
`DialFails`) or accepts (`Incoming`), waits for the handshake (`setup`, ended by
`SetupDone` or by `SetupFails`, which closes the connection), and adds. The caller of
connect may drop its future at any await up to the insert (`Drop`), as the timeout and the
early return of the Kademlia router do (`router.rs:393`, `:171`); of an address that
DnsAddr resolves (`Names`, dialled `via` it) the outer timeout of `transport_connect`
may drop the inner handshake (`NameTimesOut`). Neither closes the connection in hand,
whose accept loop keeps a clone (`switch.rs:53`): it goes to `dropped`, a history
variable, and stays open outside the pool until its peer closes it. The add is split because streams are
opened and dropped while the mutex is held: `Scan` (for an upgrade after the removal of
the replaced connection) records what check_limits would remove, `Commit` removes and
inserts. `Reported` is the address a connection reports for the address dialled;
DnsAddr and QUIC report another one, which makes the lookup miss.

### PeerBook

`infos` and `owner` are the two maps; `newest` and `claims` are history. Timestamps are
only set or not set.

### Certificates and SecureTransport

A signature is the pair of its key and what it signs, so it verifies exactly when both
are right; a key pair is named by its host or by the certificate it was made for. A
certificate of this code (`Generate`) has the fields `verify` looks at; `Foreign` are six
certificates of other makes, each wrong in one way. Times are ticks, of which an ASN.1
time keeps whole seconds, at the start and at the end: the validity may be shorter than
`Lifetime` by the fraction that rounding takes.

Each element of `Dials` is one `transport_connect` of some host to the host `Local`, which
listens with every transport. `dial` goes `idle -> connecting -> hello -> finished -> mux
-> open -> closed`, or to `refused` (its verify failed) or `failed`; `serve` goes `none ->
queued` (a tcp socket) or `stop` (a relayed stream) `-> hello -> verified -> mux -> open ->
closed`, or to `refused`, `failed` or `reset` (dropped with its listener). QUIC has no
muxer to negotiate and is open after the second verification. Both ends verify twice, as
the code does: in the callback and for the key. `sent` is the dialer's last flight, which
may still be under way when the dialer goes on or goes away; that a TLS 1.3 client is
finished before the server has seen its certificate is the reason for `finished`.

A listener: `TlsListener::accept` takes one socket of `backlog` and runs its whole
handshake before the next (`Accepting`); an error it returns ends `handle_incoming`
(`LoopEnds`), which drops the listener with what waits there, whether the handshake
failed (`ListenerFails`) or accept(2) itself did (`AcceptFails`: `tcp/src/lib.rs:55`,
`tls/src/lib.rs:117`, `quic/src/lib.rs:188`; it is modelled once somebody has dialled over
the transport, as it makes no difference to anybody before). `QuicP2pListener::accept`
returns established connections only, so the other failing handshakes are no errors of
it; the stop server runs a task per stream, and its listener lasts as long as it does. `quicCert` is made once, at the bind.

`handles` and `streams` are the live values of the connection and stream types, one
counter each (`activities` per host and transport, `actives` per connection).
`Switch::handshake` and what follows it are `StreamDispatcher`'s and `ConnPool`'s.

### Discovery

`infos` and the rest are `PeerBook`'s. A response is a sequence of TXT records (`packet`);
the loop takes a record, groups its addresses by peer (`groups`), and inserts peer by peer
in any order, other writers in between. `announced` is history: what an xstack host
announced, until somebody else writes or removes its entry.

A lookup holds `names`, `cached` and `parsed` of `DnsAddr::lookup`; `LookupOne` is one
query, in any order within a round, and the last of a round divides what was found.
`Resolved` is `dns_lookup` over the protocols of one address, `Protocol` its loop's body.
A query that fails or times out ends the lookup, and so does the timeout that
`transport_connect` puts around the whole of `DnsAddr::connect`, the dials included
(`TimesOut`; `switch.rs:243`): each dial has a timeout of the same length that began
later, so an address that does not answer leaves no time for the rest. A behaviour has a lookup or book writers,
never both, since they share nothing; dials are `Dial`, whose outcome is free.

`TargetsAssumption` says what `multiaddr_hint` checks: who is resolved has a name. The
shape of addresses (`HasItsPlace`: one name at most, at the beginning) is the resolver's
and the callers', not the code's: of an address with a name behind other protocols
`dns_lookup` drops what stands before it, and `LookupExact` is not stated for those.

### ProtoBuf, Messages, Rpc and RpcStream

A message type is the sequence of its fields with number, kind and label, in the order in
which `write_to_with_cached_sizes` writes them (which is not that of the numbers);
`ProtoBuf` is what the generated `compute_size`, `write_to_with_cached_sizes` and
`merge_from` do for any such type, with the varints of the runtime: a negative enumeration
value takes ten bytes, an unknown field is kept and written back, the last one of a field
that is not repeated wins, an enumeration keeps numbers it has no name for. A message is
written as a list of items, one for each value: a tag and a number, bytes with their
length, or as many bytes as the tag tells. The length of a nested message is what
`compute_size` says of it, whatever its bytes are, as in the code. `Items`, `Merge` and
`IsMessage` say what happens at one level and take as an argument what happens to the
values; messages nest at most two deep (autonat's peer in a dial in a message), so
`Coded0`, `Coded1`, `Coded2`, `Read0` .. `Read2` and `Is0` .. `Is2` are all the levels
there are. Reading operators return a set, of one value or none. Numbers stay between
-2^28 and 2^28 (`Number`), of the 32 and 64 bits of the code.

`Rpc` has each request as a message and each call's judgement of an answer as an operator
that returns `Some` of what the call returns or `None` for an error. Addresses, ids and
keys are bytes; constants say which of them decode. An unsigned 64-bit value of 2^63 or
more is a negative number of the model; as the expiry of a reservation it makes
`hop_reserve` panic, since a `SystemTime` holds no such time (`circuit/src/rpc.rs:102`;
`HopReservePanics`, the outcome `panic` of a call).

`RpcStream` is one call, from `call = ...` to `done`: the length is read byte by byte, the
body when it is there. The other end answers with a message of `Replies`, with `Garbage`
or never, in up to two pieces, goes on with `Tails`, and closes anywhere. The assumptions
on the constants: ids, keys and addresses are bytes, no key is empty, and the host's own key, its
addresses and the provider it announces decode (`RpcAssumption`);
a ping has a nonce, and its echo is at most as long (`StreamAssumption`); the other end
answers with messages of the call's type, and no message takes 2^28 bytes
(`MessageAssumption`); `Garbage` is what no sender of frames writes: a length that does not
end, is not minimal or is too large, or a body that no type reads (`GarbageAssumption`).

### EventMediator and EventBus

A raise copies the senders (`Raise`), sends to each copy without the mutex (`Send`) and
removes the disconnected ones (`Sweep`). A clone of a `futures` channel sender has a
guaranteed slot, so its one `try_send` is never refused for lack of room: that is why
no event is lost, and also why the buffer given to `bind_with` bounds nothing. Under
the refinement mapping a source listens while it is registered and not dropped, and a
raise owes its event to the copies it has not served yet.

### NatTraversal

The autonat client: `Hear` reads the NAT state, `AskOrSkip` is the lookup and the spawned
request, `Answer` is the critical section of the counters, which may start a call of
set_nat. `toSet` and `toRaise` count the calls of set_nat before and after the store, by
state; `owed` and `events` are the event mediator seen from the hop client (a raise
copies the sender, then sends). The application may call set_nat as well.

The hop client goes `unbound -> check -> wait` or `reserving`. A slot (`chan`) goes
`free -> choosing -> pinging -> holding`, and ends by a failed ping (`removing`, then
`ended`), by the expiry, or because the network changed; `HopReap` starts it again.
Choosing a relay, connecting and reserving are one action, since nobody sees them before
the counter goes up. A relay is named like the one address it hands out. `decisions`,
`calls`, `lost`, `expired` and `robbed` are history.

### KBucketTable

A bucket that was not created is empty. `Insert` is the critical section of
`insert_prv` together with the spawn of the ping task; `Answered` and `Failed` are the
two ends of the task. `KIndex`, `KeyIndex` and `Distance` stand for SHA-256 and xor; the
MC module takes three-bit ids and real xor.

### Recursively

The specification is `LookupSpec`, `FairLookupSpec` with fairness; its names differ from
those of `KBucketTable` so that one module can be about both.

`candidates` is a queue and may hold a peer twice; `pending` are the queries under way.
`closest_k` is a list that is kept sorted, and a set in the model. The task takes
candidates until it has to wait (`Waiting`) and then handles one answer. `heard`,
`asked` and `answered` are history.

## 3. Runs

All runs use breadth-first search; safety runs check deadlock unless noted.

| run | instance | shows |
|---|---|---|
| `dispatcher` | 1 connection set up once or twice, 2 streams, 2 listeners, 1 protocol; symmetric streams and listeners; 0.77 M states | tables stay consistent, streams are held, go to their binder, have one holder; no lost wakeup |
| `dispatcher_live` | as above with 1 listener, fairness; 36 k states | an accept that can return returns; caches drain |
| `dispatcher_auth` | as `dispatcher` | **violation** of `OnlyAuthenticated` |
| `pool` | 3 connections, 2 peers, 3 addresses, one of them a name, pool of 1, 2 tasks; futures dropped at every await; 2.15 M states | indexes, nothing open outside the pool but what dropped futures held, lookup finds the peer dialled |
| `discovery` | 2 peers, 2 addresses, 2 foreign responses that mix peers, notes, addresses without an id and records that are no text, and every own one; 5 lookups over 3 zones with names that lead to names, loops and failures, depth 2; the timeout around it at any point; fairness of the lookup; 0.19 M states | reverse lookup, announcements stay, lookups exact, connect ends |
| `events` | 3 sources, 2 raises, 2 names, fairness; 0.2 M states | finality, refinement of `EventBus` |
| `kbucket` | 7 peers in 3 buckets, K = 2, 2 pings; 22 k states | buckets, counter, `closest` for every key |
| `lookup` | 6 peers, K = 3, 2 at once, every reply of up to two peers, fairness; 27 k states | result, nothing missed, termination |
| `nat` | 2 slots, 2 relays, decision after 2 answers, 2 requests at once, 1 call of set_nat by the application, 1 expiry, fairness; 0.44 M states | one decision, a counter that covers what is held, the addresses, the hop client follows |
| `transport` | 6 dials, two of each kind, made in the combinations of `MCTogether`; foreign certificates, a clock ahead; lifetime and timeout of 2 ticks, 2 ticks a second; fairness | keys proved, both ends verified, nobody left waiting at a stopped listener, exact counters, handshakes end, half-open connections close |
| `stale_cert` | as `transport`, longer | **violation** of `CertValidWhenReceived` |
| `codecs` | 18 calls, each with answers that have fields missing, unknown, repeated or bad, broken frames and tails, any split, a close anywhere; fairness of the call; 20 k states | lengths bounded, frames exact, nothing overread, the two ends agree, calls end |

**Why the bounds suffice.** The counters that had to be capped are `setups` (twice, which
is what DnsAddr does), `MaxAsking`, `MaxCalls` and `MaxExpired` of `NatTraversal`. Two
slots can share a relay or not; two answers of either kind decide, and two requests at
once let one answer while the other's decision is being announced; one call of the
application reverses or precedes the decision; one expiry leaves the counter too high. The dispatcher's hazards need two streams (one flushed, one direct),
a second listener that takes over a released protocol and a second setup; connections
share nothing but the protocol tables, so one is enough, and the theorems cover any
number. The pool's hazards need two connections of one peer, two peers at one address,
an address whose connection reports another, and two tasks between lookup and insert; a
pool of one makes eviction frequent. Two raises are what order is about, and a third source listens to another name. K = 2
and two pings fill a bucket again while a ping is out; three bits give buckets on both
sides of the key's. Six peers are more than K plus the concurrency limit. In `transport` two dials of one
kind let one wait behind, or lose its listener by, the other; `Together` names the pairs
that can meet, as the kinds share nothing else; `Watched` names the ends whose handles are
followed, with two handles and two streams each. Two ticks per second and a lifetime of
one second make rounding matter, and clocks run one tick past a certificate's end. In
`codecs` `MaxRecvLen` is the length of the longest answer, so that one byte more
overflows, and lengths of one and of two bytes both occur. In `discovery` the depth of 2
(10 in the code) separates chains that are followed to the end from chains that are cut.

**Type invariants** are proved (section 4), that of `ConnPool` as a part of a stronger
invariant; those `Discovery` adds to `PeerBook`'s are parts of `AnnouncedInv` and `LookupInv`.

**Deadlock** is off in `events`, where every raise returns and every source may be gone,
in `discovery`, `transport` and `codecs`, whose lookups, clocks and calls come to an end,
in `nat`, where a node that is not behind a NAT may have nothing left to do, and in
`lookup`, where `route` returns; the other systems never stop.

**Fairness.** Weak fairness of the steps of a task that is ready to run: the executor
keeps polling ready futures. For the setup of a connection it rests on the timeout that
`handshake` puts on the identity request, for a negotiation and a Kademlia query on
theirs. The close that dropping a listener or source spawns is a task like the others. That a
connection which failed its setup is closed is not assumed, because a setup dropped by
its caller closes nothing; `CacheDrains` promises nothing after a failed setup. No error of accept, no
expiry of the timeout around `DnsAddr::connect` and no dropped future is fair: they may
happen or not.
In `nat` only calls of set_nat that began and the hop client between its waits are
fair; relays and autonat servers need not answer (a ping has no timeout), and the server
need not be started. In `transport` the clock, the dialer's timeout, the steps of the
listener's tasks and the end of an accept loop whose peer has gone are fair; the dialer's
handshake is not, so it may stall anywhere and the timeout has to end it. That a task
notices a peer that has gone is the socket's and quiche's business (an error or an idle
timeout). In `discovery` the lookup is fair, because each query and each dial has a
timeout; in `codecs` the call is, and the other end is not: no call has a timeout, so
`CallEnds` promises an end only once the other end has written its frame or closed.
Nothing is assumed of applications: they need not accept, bind, close or drop, and
peers need not open streams. Strong fairness is not used.

## 4. Proofs

Each proof module extends its component and states its theorems for arbitrary
constants under the named assumptions of that component (they say that functions have
their domains, K and the limits are positive, that sets whose sizes are used are finite,
what packets, targets and zones are made of, and of the xor metric what is used; the runs
evaluate them).

* **StreamDispatcherProofs.** Type correctness and `BindingsIntact` are inductive;
  `ConsistencyGuarantee` follows, because a bound listener has a queue. `NoTakeover`
  uses that `bind` refuses taken protocols. `NoLostWakeup` is inductive with the types:
  a step that makes an acceptor's queue ready leaves a pending notification, and only
  the acceptor consumes the stored event. `HeldUntilDecided` needs `DeliveryInv`:
  everything cached, flushed or delivered was dispatched by a task that is over, a
  stream exists only after its connection was registered, and it stays registered
  while the request is pending. Without these a dispatch could reach a listener while
  the connection is missing from `unauth`. `ReachesItsBinder` combines it with
  `BindingsIntact`. `OneHolder` counts, and is not stated for induction:
  `HolderInv` says of all places at once (caches, flushes, queues, deliveries) that none
  has a stream twice and no two have the same. It stays true because every step moves a
  stream, or a whole cache, from one place to another (`OnePlaceMoves`), adds one whose
  task was not over and which, by `DeliveryInv`, is nowhere (`OnePlaceGains`), or drops
  some (`OnePlaceLoses`); `HolderInvSuffices` counts once.
* **ConnPoolProofs.** The inductive invariant adds to the types that a task about to
  insert holds a connection (`InHand`). `PeerIndexExact`, `AddrIndexBacked` and
  `NoOrphan` are then inductive: of the connections outside the pool that are open, every
  one is in the hands of a task that will add or close it, or was in those of a future
  that was dropped. The address index stays sound because `remove` drops
  the entry of an address even when another connection shares it: it errs by
  forgetting. `LookupFindsDialledPeer`, an action property, follows from both indexes and
  `LookInv`: what a task still has to look up is among what its caller gave.
* **PeerBookProofs.** `ReverseLookupSound`, `NewestClaimant`, `UncontestedFound` of the
  book; `BookImplemented`: `Discovery` refines `PeerBook`, every step of mDNS being one of
  the book's or a stutter, so that the three hold with mDNS among the writers
  (`BookSoundWithMdns`). `AnnouncedListed` needs `AnnouncedInv`: what a host announced is
  wholly in the packet, wholly in the group still to be inserted, or listed, and nothing
  behind it in the packet speaks of the host again. The lemmas say that `Grouped` takes a
  record apart as `Advertise` put it together (`AdvertisedGroups`). `LookupExact` needs
  `RoundInv`: `parsed` is the addresses of the rounds so far, `cached` what is behind the
  names that were looked at, and `names` the rest of the round. `NameResolved` says that
  `dns_lookup` finds exactly what is behind a name; a lookup may end early because a
  round without names leaves every later one empty (`EndsComplete`). It is about connects
  that end by themselves: one whose time runs out may have dialled nothing.
* **EventMediatorProofs.** `InOrder`, `NothingAfterEnd`, and the refinement
  `Spec => BusSpec`: `Raise` maps to `Publish`, `Send` to a live source to `Deliver`,
  `DropSource` to `Abandon`, `Close` to `Unsubscribe`, the rest to stutters. It needs
  `DebtInv`: a sweep takes out only sources that are dropped, and a raise that is not
  sending owes nothing.
* **NatTraversalProofs.** One inductive invariant for `OneDecision`, `HeldCounted`,
  `AddrsAccounted` and `NoMissedNat`. `DecisionInv`: a decision was made exactly when
  the counters say so, so the answer that takes them past the limit is the only one that
  calls set_nat. `SlotsInv`: slots run inside the reservation client, which runs while
  the state is NAT or NAT was left; so a slot leaves its address listed only after that.
  `CounterSums`, the part about the counter, says what it really is: the slots that count
  and the expiries, which are never taken off. So it is never less than what is held, which
  is `HeldCounted`, and no fetch_sub wraps. `NoMissedNat` is what makes `NatFollowed` true: a store leads
  to a raise, a raise to a send, a send to an event.
* **KademliaProofs, the table.** Buckets, counter and the drain bound. The lemmas say what
  `try_insert` does to a bucket (`MoveToTailKeeps`, `TailKeeps`, `AppendKeeps`); the
  counter needs that a peer is in its own bucket only, once. `ClosestComplete` and
  `NearestFound` are about what `closest` computes on those buckets: the walk from the
  key's bucket to both sides comes to every other bucket, and to none twice
  (`WalkCovers`); concatenating buckets that share no peer keeps each peer once
  (`FlattenKeeps`); the first K of that list are all or K (`FirstKeeps`). `NearestFound`
  uses of xor only that who shares the key's bucket is nearer than who does not
  (`MetricAssumption`).
* **KademliaProofs, the search.** `KClosest`, `NothingMissed`, `NeverTwice` from one
  inductive invariant (`LookupInv`): pending peers were asked, asked peers were queried, the result is drawn
  from those that answered, and a queried peer that was not asked is too far. The last
  holds for ever because the farthest peer kept only comes nearer.
* **RpcStreamProofs.** Most of it is about serialisation. `WrittenIsRead`: what
  `write_to_bytes` makes of a message of any type, however its fields are labelled,
  present, repeated, nested or unknown, has the length that `compute_size` says, and
  `merge_from` makes that message of it and no other. From below: a number is
  read back from its varint wherever that stands (`VarintRead`); an item is read
  back, and what follows it is left (`ItemRead`); so is a list of items; sifting the
  items of a message by the tag of a field gives that field's values in order, because
  the tags of a type differ and unknown ones differ from all; so the merge of the items
  is the message, at each level of nesting given the one below. `FrameParts` adds the
  length in front. That the requests of all calls are such messages, and all types of
  `Messages` such types, is shown field by field.
  The invariant of the stream (`Inv`) adds to `TypeOK` the types of the byte sequences
  (`Typed`); that what was read, what has arrived and what is to come are the answer and
  what follows it (`Answered`, with `Flows`); that the length so far is an unfinished
  varint, and then the one that `need` was read from (`Progress`); and that only an answer
  that is no message makes a call fail as malformed (`Faithful`). `Flows` is what makes
  the rest inductive: the bytes of the length are those at the beginning of the answer's
  frame, and a varint ends in one place only, so `need` is the length of the message and
  what the call took is the frame. `NothingOverread` follows at once, `RoundTrip` by
  `WrittenIsRead`. `NeverStarves` is the safety core of `CallEnds`: of an answer that has
  arrived whole, the next byte of the length or the whole body is there to be read.
  `EndsAgree` (`EndsAlwaysAgree`) has two halves. What one end tells is read by the other
  as the message it was, by `WrittenIsRead`; that each of these messages is then taken for
  its own step and for no other is shown field by field (`StopMeant`, `PunchMeant`,
  `IdentityMeant`, `ProviderMeant`), with the defaults of the reader. And an answer for
  which a call returns a value is a message that was read whole, hence the other end's.

* **SecureTransportProofs.** `KeysProved`, `BothVerified`, `NoneLeftWaiting`, `CountersExact`
  and `RefusedOnlyStale` from one inductive invariant, for any dials, clocks, lifetime and
  timeout. `CertsSound`: every certificate an end presents is one of `generate`, made no
  later than its host's clock, or a foreign one. With it `VerifyGenerated` and
  `VerifyForeign` say what each `verify` returns, and `KeysSound` follows the key from
  there. `InStep` says how far one end must be when the other is where it is: a dialer
  that negotiated the muxer is answered by a listener that is past its own verification,
  which is why `BothVerified` holds of streams and not of QUIC. `QueueSound` (what waits
  is queued, once) and `WaitSound` (which end waits for what, and that accept
  serves one socket at a time) are needed for `NoneLeftWaiting`, since a loop's end resets the queue and the handshake under way. A
  counter is the cardinality of a set of handles; `HandlesSound` keeps a new connection's
  first handle from being counted twice, and keeps the sets finite.

**Recursive functions.** The library's induction theorems take an operator as a
parameter, which the provers cannot instantiate. Induction is therefore stated of a set
(`NatSetInduction`, from the well-foundedness of the naturals), and a proof names the set
of the numbers for which its claim holds. A recursive function is a CHOOSE; that it exists
and satisfies its equation (`FlattenSteps`, `ResolvedWalks`, `RoundsByRound`) is proved
so, and what it computes by a second induction.

The serialisation is written without RECURSIVE operators, of which the proof system proves
nothing, and its folds and recursive functions (`FlattenSeq`, `Total`, `ReadItems`) are
reasoned about in the same way, over a set of numbers or of sequences.

**Only model-checked:** the liveness properties (`AcceptReturns`, `CacheDrains`,
`Terminates`, `NatFollowed`, `HandshakesEnd`, `HalfOpenCloses`, `ConnectEnds`, `CallEnds`),
which are out of the proof system's reach. Every invariant and action property that a
passing run checks is a theorem.

## 5. Where code and documentation disagree

The two runs that end in a violation:

1. `dispatcher_auth` - `handshake_failed` takes the connection out of `unauth_streams`,
   and `dispatch` takes a connection that is not there for authenticated. Until the caller
   of `handshake` closes the connection its accept loop goes on: in the trace a stream is
   accepted after the refusal and before the close, and reaches the application; one that
   was accepted earlier and is not yet dispatched would as well
   (`xstack/src/stream.rs:162`, `:245`; `switch.rs:47`). `HeldUntilDecided` is what does
   hold.
2. `stale_cert` - a certificate is valid for five seconds (`x509/src/lib.rs:213`), is meant
   to "be valid at the time it is received by the peer" (`:433`) and may be reused (`:177`);
   a QUIC listener presents the one it made at the bind (`quic/src/lib.rs:120`) to every
   dialer, who refuses it once the five seconds are over. `RefusedOnlyStale` is what does
   hold.

Three follow directly from a definition of the model, and need no run:

* `max_pool_size` is not a maximum (`connector.rs:67`, `:86`): `Scan` evicts only when the
  pool already holds more, and only what is not in use, and `Commit` adds one.
* The outcome of the ping is used the wrong way round (`kad/src/kbucket.rs:318`, `:319`):
  `Failed` puts the peer that did not answer back, `Answered` lets it go for the new one.
* `closest` does not return the closest `K` (`kbucket.rs:339`, `:176`): `Visit` takes lower
  and higher buckets by turns, and of a bucket the most recent. `ClosestComplete` and
  `NearestFound` are what does hold.

Noted while modelling, without a run: `appear` and `disappear` return `Ok` for a peer
that is not in the book, where their docs promise `PeerNotFound` (`book.rs:113`,
`:117`), and nothing calls `disappear`; an address that two peers claim is lost from
the reverse lookup when the older one is inserted again (`book.rs:168`); a peer heard of
through Kademlia or mDNS loses the protocols known of it; the lookup's default
concurrency is documented as 3 and is 20 (`router.rs:249`, `:242`); `channel_limits` is
documented as 2 and is 1 (`stop.rs:68`, `:366`); a reservation that expires stays in
the count that is documented as the "count of valid reservations" (`stop.rs:254`, `:371`;
`HeldCounted` promises equality only until one expires); a maximum of 0 observed addresses, which the builder accepts, lets their
queue grow without bound (`mutable.rs:43`); after a short absence from NAT fewer slots
than `channel_limits` may run until another one ends (`stop.rs:159`); one failed TLS
handshake, and one failed accept(2), ends a listener for good (`switch.rs:187`;
`NoneLeftWaiting` is what does hold); a dropped future of `connect` leaves its connection
open and outside the pool (`connector.rs:217`, `switch.rs:53`; `NoOrphan` names them); one
address that does not answer uses up the time `DnsAddr::connect` has for all
(`switch.rs:243`, `dnsaddr/src/lib.rs:132`); `hop_reserve` panics on an expiry of 2^63
seconds or more (`circuit/src/rpc.rs:102`); a full bucket may lose a peer without gaining
one (`kbucket.rs:317`), which the structural properties of the table do not notice; dns4 and dns6 names are
resolved to addresses of both families, and what follows a dnsaddr, such as the peer's id,
is dropped (`dnsaddr/src/lib.rs:153`, `:190`); of several TXT records that name one peer
the last stays, and text between addresses spoils the one before it (`mdns/src/lib.rs:141`,
`:166`); an autonat answer without a status, or with one that has no name, counts as OK
(`autonat/src/proto/autonat.rs:538`); `get_value` returns the record's value whatever key
and type the answer has (`kad/src/rpc.rs:120`).

## 6. Not modelled

Sockets, TLS records, yamux, quiche and the resolver, which are libraries: the model has
what the code may see of them. Errors of the key store, which is in memory. What becomes
of a task that panics. Inside certificates and messages: DER, the arithmetic of
signatures, the text of addresses. Of the generated code the accessors and reflection
tables, and groups, a wire type that no sender uses. The ring of observed addresses and
the list of bound ones (data that nothing else depends on), the order of DCUtR's messages
between its two ends, the record store (nothing calls it), the builder and the global
registration. Shutdown of the dispatcher (`is_closed`) happens only when the switch itself
is dropped. The random choices of `choose_peers` and of the dial order are nondeterministic
where they matter. Insertion of the local id into the routing table, which panics
(`kbucket.rs:147`), is excluded from the inputs. `HandshakeSuccess` is raised before the
connection is pooled (`switch/protocols.rs:126`), so a subscriber may dial a second time:
this needs dispatcher, pool and mediator in one module, whose state is too large for the
bounds at which the parts are interesting.

## 7. Plan

1. **Setup**: an abstraction of dispatcher and pool, each shown to implement its part,
   small enough to compose with the mediator in `Switch::handshake` and `handle_incoming`.
2. **Proofs**: the abstractions of 1 as refinements.
3. **DCUtR**: the exchange of connect and sync messages between the two ends of a relayed
   connection, over `Rpc`'s messages.
