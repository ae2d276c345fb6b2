-------------------------- MODULE StreamDispatcher --------------------------
(***************************************************************************)
(* The inbound half of a switch: the MutexStreamDispatcher, the tasks that *)
(* feed it (one identity handshake per connection, one negotiation task    *)
(* per inbound stream) and the protocol listeners that drain it.           *)
(*                                                                         *)
(* One async mutex guards protos, inbound and unauth, so a critical        *)
(* section is one action.  KeyWaitMap::insert runs after the mutex is      *)
(* released: a task that pushed a stream or closed a listener first leaves *)
(* an entry in notify and raises the event in a later step.                *)
(***************************************************************************)
EXTENDS Naturals, Sequences, FiniteSets, Functions, HashMaps

CONSTANTS
  Conns,      \* transport connections of the switch, inbound or outbound
  Streams,    \* inbound streams the remote peers open
  ConnOf,     \* stream.conn_id()
  Protos,     \* protocol names that listeners bind
  NoProto,    \* no protocol negotiated yet
  Listeners,  \* XStackIds of protocol listeners; every bind makes a new one
  DnsConns    \* connections dialled through DnsAddr, which are set up twice

ASSUME ConnOfAssumption == ConnOf \in [Streams -> Conns]
ASSUME NoProtoAssumption == NoProto \notin Protos
ASSUME DnsConnsAssumption == DnsConns \subseteq Conns
ASSUME TasksAssumption == /\ Streams \cap Conns = {}
                          /\ Streams \cap Listeners = {}
                          /\ Conns \cap Listeners = {}

VARIABLES
  protos,     \* RawMutexStreamDispatcher.protos: protocol -> listener
  inbound,    \* .inbound_streams: listener -> queue of streams
  unauth,     \* .unauth_streams: connection -> cached streams
  stored,     \* event_map: listeners whose event was raised, not yet consumed
  notify,     \* <<task, listener>>: task is about to raise the listener's event
  hs,         \* setup task of a connection
  setups,     \* how often Switch::handshake was entered for a connection
  flushing,   \* the streams handshake_success took out of the cache
  authed,     \* history: connections whose peer passed identity_push
  pc,         \* task of an inbound stream
  offered,    \* the protocols offered to the stream: a snapshot of protos
  proto,      \* the protocol negotiated on the stream
  listener,   \* "new", "bound" or "closed" in the dispatcher
  wants,      \* the protocols the listener was bound to
  acceptor,   \* the task that accepts on the listener
  delivered   \* history: the streams accept returned, in order

dispatcher == <<protos, inbound, unauth>>
events     == <<stored, notify>>
setup      == <<hs, setups, flushing, authed>>
streams    == <<pc, offered, proto>>
listeners  == <<listener, wants, acceptor, delivered>>
vars       == <<dispatcher, events, setup, streams, listeners>>

SetupStates    == {"idle", "identify", "flush", "up", "failed", "down"}
StreamStates   == {"none", "negotiating", "negotiated", "done"}
ListenerStates == {"new", "bound", "closed"}
AcceptorStates == {"idle", "polling", "waiting", "failed", "gone"}
Tasks          == Streams \cup Conns \cup Listeners

TypeOK ==
  /\ DOMAIN protos \subseteq Protos
  /\ \A p \in DOMAIN protos : protos[p] \in Listeners
  /\ DOMAIN inbound \subseteq Listeners
  /\ \A l \in DOMAIN inbound : inbound[l] \in Seq(Streams)
  /\ DOMAIN unauth \subseteq Conns
  /\ \A c \in DOMAIN unauth : unauth[c] \in Seq(Streams)
  /\ stored \subseteq Listeners
  /\ notify \subseteq Tasks \X Listeners
  /\ hs \in [Conns -> SetupStates]
  /\ setups \in [Conns -> 0..2]
  /\ flushing \in [Conns -> Seq(Streams)]
  /\ authed \subseteq Conns
  /\ pc \in [Streams -> StreamStates]
  /\ offered \in [Streams -> SUBSET Protos]
  /\ proto \in [Streams -> Protos \cup {NoProto}]
  /\ listener \in [Listeners -> ListenerStates]
  /\ wants \in [Listeners -> SUBSET Protos]
  /\ acceptor \in [Listeners -> AcceptorStates]
  /\ delivered \in [Listeners -> Seq(Streams)]

Init ==
  /\ protos = EmptyMap /\ inbound = EmptyMap /\ unauth = EmptyMap
  /\ stored = {} /\ notify = {}
  /\ hs = [c \in Conns |-> "idle"]
  /\ setups = [c \in Conns |-> 0]
  /\ flushing = [c \in Conns |-> <<>>]
  /\ authed = {}
  /\ pc = [s \in Streams |-> "none"]
  /\ offered = [s \in Streams |-> {}]
  /\ proto = [s \in Streams |-> NoProto]
  /\ listener = [l \in Listeners |-> "new"]
  /\ wants = [l \in Listeners |-> {}]
  /\ acceptor = [l \in Listeners |-> "idle"]
  /\ delivered = [l \in Listeners |-> <<>>]

-----------------------------------------------------------------------------
(* Faulty variants of the operations below.  No specification uses them:   *)
(* each replaces its operation in a run that must then find a property     *)
(* violated.                                                               *)

\* dispatch forgets to raise the listener's event.
EnqueueSilently(s, task) ==
  /\ ConnOf[s] \notin DOMAIN unauth
  /\ proto[s] \in DOMAIN protos
  /\ inbound' = [inbound EXCEPT ![protos[proto[s]]] = Append(@, s)]
  /\ UNCHANGED <<unauth, notify>>

\* dispatch pushes to a queue without asking protos whose it is.
EnqueueAnywhere(s, task) ==
  /\ ConnOf[s] \notin DOMAIN unauth
  /\ \E l \in DOMAIN inbound :
       /\ inbound' = [inbound EXCEPT ![l] = Append(@, s)]
       /\ notify' = notify \cup {<<task, l>>}
  /\ UNCHANGED unauth

\* handshake spawns the accept loop before it registers the connection.
HandshakeUnregistered(c) ==
  /\ hs[c] = "idle"
  /\ hs' = [hs EXCEPT ![c] = "identify"]
  /\ setups' = [setups EXCEPT ![c] = @ + 1]
  /\ UNCHANGED <<dispatcher, events, flushing, authed, streams, listeners>>

\* handshake_success copies the cache instead of taking it.
IdentityOkKeepsCache(c) ==
  /\ hs[c] = "identify"
  /\ hs' = [hs EXCEPT ![c] = "flush"]
  /\ authed' = authed \cup {c}
  /\ flushing' = [flushing EXCEPT ![c] = Lookup(unauth, c, <<>>)]
  /\ UNCHANGED <<dispatcher, events, setups, streams, listeners>>

\* handshake_success returns before it dispatched every stream.
HandshakeDoneEarly(c) ==
  /\ hs[c] = "flush"
  /\ hs' = [hs EXCEPT ![c] = "up"]
  /\ UNCHANGED <<dispatcher, events, setups, flushing, authed, streams, listeners>>

\* close drops the queue and leaves the protocols bound.
CloseQueueOnly(l) ==
  /\ listener[l] # "new"
  /\ inbound' = Without(inbound, {l})
  /\ listener' = [listener EXCEPT ![l] = "closed"]
  /\ notify' = notify \cup {<<l, l>>}
  /\ UNCHANGED <<protos, unauth, stored, setup, streams, wants, acceptor, delivered>>

\* close does not wake the acceptor of the listener.
CloseSilently(l) ==
  /\ listener[l] # "new"
  /\ protos' = Without(protos, KeysOf(protos, l))
  /\ inbound' = Without(inbound, {l})
  /\ listener' = [listener EXCEPT ![l] = "closed"]
  /\ UNCHANGED <<unauth, events, setup, streams, wants, acceptor, delivered>>

-----------------------------------------------------------------------------
(* MutexStreamDispatcher::dispatch, up to the release of the mutex: the    *)
(* stream is cached while its connection is being authenticated, queued    *)
(* when its protocol is bound, and dropped otherwise.                      *)

Cache(s) ==
  /\ ConnOf[s] \in DOMAIN unauth
  /\ unauth' = [unauth EXCEPT ![ConnOf[s]] = Append(@, s)]
  /\ UNCHANGED <<inbound, notify>>

Enqueue(s, task) ==
  /\ ConnOf[s] \notin DOMAIN unauth
  /\ proto[s] \in DOMAIN protos
  /\ LET l == protos[proto[s]]
     IN  /\ inbound' = [inbound EXCEPT ![l] = Append(@, s)]
         /\ notify' = notify \cup {<<task, l>>}
  /\ UNCHANGED unauth

Discard(s) ==
  /\ ConnOf[s] \notin DOMAIN unauth
  /\ proto[s] \notin DOMAIN protos
  /\ UNCHANGED <<unauth, inbound, notify>>

Route(s, task) == Cache(s) \/ Enqueue(s, task) \/ Discard(s)

\* Nothing the task pushed is still waiting for its event to be raised.
Settled(task) == \A l \in Listeners : <<task, l>> \notin notify

\* KeyWaitMap::insert, after the mutex was released.
RaiseEvent(task, l) ==
  /\ <<task, l>> \in notify
  /\ notify' = notify \ {<<task, l>>}
  /\ stored' = stored \cup {l}
  /\ UNCHANGED <<dispatcher, setup, streams, listeners>>

-----------------------------------------------------------------------------
(* The setup task of a connection: Switch::handshake and identity_request. *)

\* Registers the connection as unauthenticated and spawns the accept loop.
\* DnsAddr::connect already returns a connection that transport_connect set
\* up, so the outer transport_connect sets it up a second time.
Handshake(c) ==
  /\ hs[c] \in {"idle", "up"}
  /\ setups[c] < IF c \in DnsConns THEN 2 ELSE 1
  /\ hs' = [hs EXCEPT ![c] = "identify"]
  /\ setups' = [setups EXCEPT ![c] = @ + 1]
  /\ unauth' = Put(unauth, c, <<>>)
  /\ UNCHANGED <<protos, inbound, events, flushing, authed, streams, listeners>>

\* identity_push accepted the peer: handshake_success takes the cache.
IdentityOk(c) ==
  /\ hs[c] = "identify"
  /\ hs' = [hs EXCEPT ![c] = "flush"]
  /\ authed' = authed \cup {c}
  /\ flushing' = [flushing EXCEPT ![c] = Lookup(unauth, c, <<>>)]
  /\ unauth' = Without(unauth, {c})
  /\ UNCHANGED <<protos, inbound, events, setups, streams, listeners>>

\* handshake_success dispatches the streams it took, one critical section each.
FlushNext(c) ==
  /\ hs[c] = "flush"
  /\ Settled(c)
  /\ flushing[c] # <<>>
  /\ Route(Head(flushing[c]), c)
  /\ flushing' = [flushing EXCEPT ![c] = Tail(@)]
  /\ UNCHANGED <<protos, stored, hs, setups, authed, streams, listeners>>

\* handshake returns Ok: the connection goes to the pool or to the caller.
HandshakeDone(c) ==
  /\ hs[c] = "flush"
  /\ Settled(c)
  /\ flushing[c] = <<>>
  /\ hs' = [hs EXCEPT ![c] = "up"]
  /\ UNCHANGED <<dispatcher, events, setups, flushing, authed, streams, listeners>>

\* identity_push refused the peer: handshake_failed drops the cached streams.
IdentityFails(c) ==
  /\ hs[c] = "identify"
  /\ hs' = [hs EXCEPT ![c] = "failed"]
  /\ unauth' = Without(unauth, {c})
  /\ UNCHANGED <<protos, inbound, events, setups, flushing, authed, streams, listeners>>

\* The request ends without an answer: conn.connect fails, or the timeout of
\* handshake, or of whoever called it, drops the future at an await.  Neither
\* handshake_success nor handshake_failed runs (again); a flush in progress
\* loses its rest.
HandshakeAborts(c) ==
  /\ hs[c] \in {"identify", "flush"}
  /\ Settled(c)
  /\ hs' = [hs EXCEPT ![c] = "failed"]
  /\ flushing' = [flushing EXCEPT ![c] = <<>>]
  /\ UNCHANGED <<dispatcher, events, setups, authed, streams, listeners>>

\* handle_incoming and transport_connect close a connection they cannot set up;
\* conn.accept then fails, which ends incoming_stream_loop.
CloseConn(c) ==
  /\ hs[c] = "failed"
  /\ hs' = [hs EXCEPT ![c] = "down"]
  /\ UNCHANGED <<dispatcher, events, setups, flushing, authed, streams, listeners>>

-----------------------------------------------------------------------------
(* The task of an inbound stream: handle_incoming_stream, dispatch_stream. *)

\* The accept loop yields a stream and its task reads the bound protocols.  A
\* peer that goes away, which also ends the loop, is one that opens no more.
AcceptStream(s) ==
  /\ pc[s] = "none"
  /\ hs[ConnOf[s]] \notin {"idle", "down"}
  /\ pc' = [pc EXCEPT ![s] = "negotiating"]
  /\ offered' = [offered EXCEPT ![s] = DOMAIN protos]
  /\ UNCHANGED <<dispatcher, events, setup, proto, listeners>>

\* listener_select_proto settles on one of the offered protocols.
Negotiate(s) ==
  /\ pc[s] = "negotiating"
  /\ pc' = [pc EXCEPT ![s] = "negotiated"]
  /\ \E p \in offered[s] : proto' = [proto EXCEPT ![s] = p]
  /\ offered' = [offered EXCEPT ![s] = {}]
  /\ UNCHANGED <<dispatcher, events, setup, listeners>>

\* The negotiation fails or times out, or settles on identify, identify push
\* or ping, which the switch answers itself.
Bypass(s) ==
  /\ pc[s] = "negotiating"
  /\ pc' = [pc EXCEPT ![s] = "done"]
  /\ offered' = [offered EXCEPT ![s] = {}]
  /\ UNCHANGED <<dispatcher, events, setup, proto, listeners>>

\* dispatch_stream hands the stream to the dispatcher.
Dispatch(s) ==
  /\ pc[s] = "negotiated"
  /\ pc' = [pc EXCEPT ![s] = "done"]
  /\ Route(s, s)
  /\ UNCHANGED <<protos, stored, setup, offered, proto, listeners>>

-----------------------------------------------------------------------------
(* A protocol listener: bind, accept, close and drop.                      *)

\* Switch::bind: refused as a whole when any of the protocols is bound.
Bind(l, P) ==
  /\ listener[l] = "new"
  /\ P \cap DOMAIN protos = {}
  /\ protos' = PutAll(protos, P, l)
  /\ inbound' = Put(inbound, l, <<>>)
  /\ listener' = [listener EXCEPT ![l] = "bound"]
  /\ wants' = [wants EXCEPT ![l] = P]
  /\ UNCHANGED <<unauth, events, setup, streams, acceptor, delivered>>

\* ProtocolListenerCloser::close, by a closer or by the task that dropping the
\* listener spawns; it may run more than once.
Close(l) ==
  /\ listener[l] # "new"
  /\ Settled(l)
  /\ protos' = Without(protos, KeysOf(protos, l))
  /\ inbound' = Without(inbound, {l})
  /\ listener' = [listener EXCEPT ![l] = "closed"]
  /\ notify' = notify \cup {<<l, l>>}
  /\ UNCHANGED <<unauth, stored, setup, streams, wants, acceptor, delivered>>

\* The application calls accept.
Accept(l) ==
  /\ listener[l] # "new"
  /\ acceptor[l] = "idle"
  /\ acceptor' = [acceptor EXCEPT ![l] = "polling"]
  /\ UNCHANGED <<dispatcher, events, setup, streams, listener, wants, delivered>>

\* One round of accept's loop finds a stream and returns it.
AcceptPops(l) ==
  /\ acceptor[l] = "polling"
  /\ l \in DOMAIN inbound
  /\ inbound[l] # <<>>
  /\ delivered' = [delivered EXCEPT ![l] = Append(@, Head(inbound[l]))]
  /\ inbound' = [inbound EXCEPT ![l] = Tail(@)]
  /\ acceptor' = [acceptor EXCEPT ![l] = "idle"]
  /\ UNCHANGED <<protos, unauth, events, setup, streams, listener, wants>>

\* The listener was closed: accept returns an error.
AcceptFails(l) ==
  /\ acceptor[l] = "polling"
  /\ l \notin DOMAIN inbound
  /\ acceptor' = [acceptor EXCEPT ![l] = "failed"]
  /\ UNCHANGED <<dispatcher, events, setup, streams, listener, wants, delivered>>

\* Nothing queued: KeyWaitMap::wait registers and only then frees the mutex.
AcceptWaits(l) ==
  /\ acceptor[l] = "polling"
  /\ l \in DOMAIN inbound
  /\ inbound[l] = <<>>
  /\ acceptor' = [acceptor EXCEPT ![l] = "waiting"]
  /\ UNCHANGED <<dispatcher, events, setup, streams, listener, wants, delivered>>

\* The event was raised: wait consumes it and accept's loop goes round.
AcceptWakes(l) ==
  /\ acceptor[l] = "waiting"
  /\ l \in stored
  /\ stored' = stored \ {l}
  /\ acceptor' = [acceptor EXCEPT ![l] = "polling"]
  /\ UNCHANGED <<dispatcher, notify, setup, streams, listener, wants, delivered>>

\* The application drops the listener, and with it a pending accept.
DropListener(l) ==
  /\ listener[l] # "new"
  /\ acceptor[l] # "gone"
  /\ acceptor' = [acceptor EXCEPT ![l] = "gone"]
  /\ UNCHANGED <<dispatcher, events, setup, streams, listener, wants, delivered>>

-----------------------------------------------------------------------------
SetupStep(c) ==
  \/ Handshake(c) \/ IdentityOk(c) \/ FlushNext(c) \/ HandshakeDone(c)
  \/ IdentityFails(c) \/ HandshakeAborts(c) \/ CloseConn(c)

StreamStep(s) ==
  AcceptStream(s) \/ Negotiate(s) \/ Bypass(s) \/ Dispatch(s)

AcceptStep(l) ==
  Accept(l) \/ AcceptPops(l) \/ AcceptFails(l) \/ AcceptWaits(l) \/ AcceptWakes(l)

ListenerStep(l) ==
  \/ \E P \in SUBSET Protos : Bind(l, P)
  \/ Close(l) \/ AcceptStep(l) \/ DropListener(l)

Next ==
  \/ \E c \in Conns : SetupStep(c)
  \/ \E s \in Streams : StreamStep(s)
  \/ \E l \in Listeners : ListenerStep(l)
  \/ \E t \in Tasks, l \in Listeners : RaiseEvent(t, l)

Spec == Init /\ [][Next]_vars

\* The executor keeps running a task that is ready; a setup ends because
\* handshake gives it a timeout.  That a connection whose setup failed is closed
\* is not assumed, for a setup that its caller drops closes nothing.  Whether an
\* application accepts again, binds, closes or drops a listener is its own
\* choice.
Fairness ==
  /\ \A c \in Conns :
       /\ WF_vars(FlushNext(c) \/ HandshakeDone(c))
       /\ WF_vars(IdentityOk(c) \/ IdentityFails(c) \/ HandshakeAborts(c))
  /\ \A s \in Streams : WF_vars(Negotiate(s) \/ Bypass(s)) /\ WF_vars(Dispatch(s))
  /\ \A l \in Listeners :
       /\ WF_vars(AcceptPops(l) \/ AcceptFails(l) \/ AcceptWaits(l))
       /\ WF_vars(AcceptWakes(l))
       /\ WF_vars(Close(l) /\ acceptor[l] = "gone" /\ listener[l] = "bound")
  /\ \A t \in Tasks, l \in Listeners : WF_vars(RaiseEvent(t, l))

FairSpec == Spec /\ Fairness

-----------------------------------------------------------------------------
(* Properties.                                                             *)

\* dispatch unwraps the queue of the listener it found with
\* expect("Consistency Guarantee"): every bound protocol leads to a listener
\* that still has its queue, so the dispatching task never panics.
ConsistencyGuarantee == \A p \in DOMAIN protos : protos[p] \in DOMAIN inbound

\* bind and close keep the two tables together: a bound listener owns exactly
\* the protocols it asked for and a queue, any other listener owns nothing.
BindingsIntact ==
  \A l \in Listeners :
    /\ KeysOf(protos, l) = IF listener[l] = "bound" THEN wants[l] ELSE {}
    /\ l \in DOMAIN inbound <=> listener[l] = "bound"

\* The streams a listener was given or will be given.
Reached(l) == Range(delivered[l]) \cup Range(Lookup(inbound, l, <<>>))

\* No listener sees a stream of a connection whose first identity request is
\* still pending: handshake registers the connection in unauth before the
\* accept loop starts, and only the end of the request takes it out.
HeldUntilDecided ==
  \A l \in Listeners : \A s \in Reached(l) :
    ConnOf[s] \in authed \/ hs[ConnOf[s]] \in {"failed", "down"}

\* The stronger claim, that listeners only see streams of peers that passed
\* the identity request, does not survive the time between handshake_failed and
\* conn.close: the connection has left unauth_streams and its accept loop goes
\* on, so a stream accepted now, or before and not yet dispatched, is dispatched
\* like one of an authenticated peer.
OnlyAuthenticated ==
  \A l \in Listeners : \A s \in Reached(l) : ConnOf[s] \in authed

\* A stream reaches only a listener that bound its protocol, although the
\* protocol was chosen from an older snapshot of the protos table and the
\* listener may have been closed and its protocol bound by another since.
ReachesItsBinder ==
  \A l \in Listeners : \A s \in Reached(l) : proto[s] \in wants[l]

\* Everywhere a stream can be held.
Holders(s) ==
  {<<"unauth", c>> : c \in {c \in DOMAIN unauth : s \in Range(unauth[c])}}
    \cup {<<"flushing", c>> : c \in {c \in Conns : s \in Range(flushing[c])}}
    \cup {<<"queued", l>> : l \in {l \in DOMAIN inbound : s \in Range(inbound[l])}}
    \cup {<<"accepted", l>> : l \in {l \in Listeners : s \in Range(delivered[l])}}

NoRepeats(q) == \A i, j \in DOMAIN q : q[i] = q[j] => i = j

\* Cache, flush, queue and accept move a stream and never copy it: at most
\* one of them holds it, once, even when a second handshake, an aborted flush
\* and a direct dispatch interleave.
OneHolder ==
  /\ \A s \in Streams : Cardinality(Holders(s)) <= 1
  /\ \A l \in Listeners : NoRepeats(delivered[l]) /\ NoRepeats(Lookup(inbound, l, <<>>))
  /\ \A c \in Conns : NoRepeats(flushing[c]) /\ NoRepeats(Lookup(unauth, c, <<>>))

\* accept has something to return: a stream, or the error of a closed listener.
Ready(l) == l \notin DOMAIN inbound \/ inbound[l] # <<>>

\* No lost wakeup: when an acceptor sleeps although accept could return, its
\* event is stored or some task is about to raise it.  The window between the
\* release of the mutex and KeyWaitMap::insert is the point.
NoLostWakeup ==
  \A l \in Listeners :
    acceptor[l] = "waiting" /\ Ready(l) =>
      l \in stored \/ \E t \in Tasks : <<t, l>> \in notify

\* bind never takes a protocol over from another listener: a protocol changes
\* its listener only by way of close.
NoTakeover ==
  [][\A p \in DOMAIN protos \cap DOMAIN protos' : protos'[p] = protos[p]]_protos

\* An accept that could return does return, or is dropped with its listener.
AcceptReturns ==
  \A l \in Listeners :
    (acceptor[l] \in {"polling", "waiting"} /\ Ready(l))
      ~> (acceptor[l] \notin {"polling", "waiting"})

\* A stream cached while its connection is set up does not stay cached when
\* the connection comes up: handshake_success passes every one of them on.  Only
\* a setup that does not end well may leave it there.
CacheDrains ==
  \A s \in Streams :
    (ConnOf[s] \in DOMAIN unauth /\ s \in Range(unauth[ConnOf[s]]))
      ~> (\/ hs[ConnOf[s]] \in {"failed", "down"}
          \/ ConnOf[s] \notin DOMAIN unauth /\ s \notin Range(flushing[ConnOf[s]]))
=============================================================================
