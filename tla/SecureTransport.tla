-------------------------- MODULE SecureTransport --------------------------
(***************************************************************************)
(* How the tcp, quic and circuit transports set a connection up: the TLS   *)
(* handshake of crates/tls, crates/quic and crates/circuit with the        *)
(* certificates of crates/x509, at both ends, up to the connection that    *)
(* Switch::handshake gets, and the handles a connection counts.            *)
(*                                                                         *)
(* One host, Local, listens with every transport; each element of Dials is *)
(* one transport_connect of another host to it.  What lies between them    *)
(* (sockets, TLS records, quiche, the relay of a circuit) is external: a   *)
(* message is read some time after it was sent, and an end that has gone   *)
(* is noticed some time later.                                             *)
(***************************************************************************)
EXTENDS Certificates, FiniteSets

CONSTANTS
    Dials,
    Kind,           \* the transport of each dial
    Host,           \* the host that dials, named like its key
    Local,          \* the host that listens
    ForeignDials,   \* the dials whose host presents a certificate of other make
    Ahead,          \* by how much the clock of the dialer is ahead of Local's
    Timeout,        \* the timeout of transport_connect, in ticks
    MaxTime,        \* bound: the model ends there
    Together,       \* bound: the sets of dials that are made in one behaviour
    Watched,        \* bound: the ends whose handles and streams the program uses
    MaxHandles      \* bound: handles and streams made of one end

Kinds   == {"tcp", "quic", "relay"}
Sides   == {"dialer", "listener"}
Ends    == Sides \X Dials
Hosts   == {Local} \union {Host[d] : d \in Dials}
Numbers == 1..MaxHandles

ASSUME TransportAssumption ==
    /\ Kind \in [Dials -> Kinds]
    /\ Ahead \in [Dials -> Nat]
    /\ ForeignDials \subseteq Dials
    /\ Watched \subseteq Ends
    /\ Timeout \in Nat
    /\ MaxTime \in Nat
    /\ Together \subseteq SUBSET Dials
    /\ MaxHandles \in Nat \ {0}
    /\ NoKey \notin Hosts

VARIABLES
    now,         \* the clock of Local, in ticks
    dial,        \* how far each transport_connect is
    serve,       \* how far the listener is with it
    sent,        \* the last flight of the dialer that is on its way
    ccert,       \* the certificate the dialer presents
    scert,       \* the certificate the listener presents
    ckey,        \* the public_key of the dialer's connection
    skey,        \* the public_key of the listener's connection
    started,     \* when transport_connect began
    backlog,     \* the accepted sockets that wait for TlsListener::accept
    listening,   \* the handle_incoming loops that run
    quicCert,    \* the certificate create_quic_config made at the bind
    handles,     \* the live values of TlsConn and QuicP2pConn
    streams,     \* the live values of TlsStream and QuicP2pStream
    activities,  \* the counter of each transport
    actives      \* the stream counter of each connection

certVars   == << ccert, scert, quicCert >>
handleVars == << handles, streams, activities, actives >>
vars == << now, dial, serve, sent, ckey, skey, started, backlog, listening,
           certVars, handleVars >>

Stream(d) == Kind[d] # "quic"

\* Where an end is between its start and its connection.
DialHandshaking  == {"hello", "finished", "mux"}
Dialling         == DialHandshaking \union {"connecting"}
ServeHandshaking == {"hello", "verified", "mux"}

Serving          == ServeHandshaking \union {"queued", "stop"}

\* An end that is no longer there for the other.
DialOver  == {"refused", "failed", "closed"}
ServeOver == {"refused", "failed", "reset", "closed"}

\* SystemTime::now of the host that dials.
DialerClock(d) == now + Ahead[d]

\* Whose counters an end uses.
HostOf(e) == IF e[1] = "dialer" THEN Host[e[2]] ELSE Local

\* The keys of the certificates; each generate makes a new one.
CertKey(side, d) == << side, d >>

\* The certificate a dialer presents.
Presented(d, t) ==
    IF d \in ForeignDials
    THEN Foreign(Host[d], CertKey("dialer", d), CertKey("listener", d), t)
    ELSE {Generate(Host[d], CertKey("dialer", d), t)}

Init ==
    /\ now = 0
    /\ dial = [d \in Dials |-> "idle"]
    /\ serve = [d \in Dials |-> "none"]
    /\ sent = [d \in Dials |-> "nothing"]
    /\ quicCert = Generate(Local, Local, 0)
    /\ ccert = [d \in Dials |-> quicCert]
    /\ scert = [d \in Dials |-> quicCert]
    /\ ckey = [d \in Dials |-> NoKey]
    /\ skey = [d \in Dials |-> NoKey]
    /\ started = [d \in Dials |-> 0]
    /\ backlog = << >>
    /\ listening = [k \in Kinds |-> TRUE]
    /\ handles = {}
    /\ streams = {}
    /\ activities = [x \in Hosts \X Kinds |-> 0]
    /\ actives = [e \in Ends |-> 0]

-----------------------------------------------------------------------------
(* The handles: every new value counts one up, every drop one down. *)

Made(e, n) ==
    /\ handles' = handles \union {<< e, n >>}
    /\ activities' = [activities EXCEPT ![<< HostOf(e), Kind[e[2]] >>] = @ + 1]

\* TlsConn::new and QuicP2pConn::new.
NewConn(e) ==
    /\ Made(e, 1)
    /\ UNCHANGED << streams, actives >>

IsOpen(e) == IF e[1] = "dialer" THEN dial[e[2]] = "open" ELSE serve[e[2]] = "open"

\* Faulty variant of CloneConn: the derived Clone alone.
CloneUncounted(e, n) ==
    /\ e \in Watched
    /\ \E m \in Numbers : << e, m >> \in handles
    /\ << e, n >> \notin handles
    /\ handles' = handles \union {<< e, n >>}
    /\ UNCHANGED << now, dial, serve, sent, ckey, skey, started, backlog, listening,
                    certVars, streams, activities, actives >>

\* DriverConnection::clone of a live handle, for the accept loop, for the pool
\* or for a caller of connect.
CloneConn(e, n) ==
    /\ e \in Watched
    /\ \E m \in Numbers : << e, m >> \in handles
    /\ << e, n >> \notin handles
    /\ Made(e, n)
    /\ UNCHANGED << now, dial, serve, sent, ckey, skey, started, backlog, listening,
                    certVars, streams, actives >>

\* Drop of TlsConn and of QuicP2pConn.
DropConn(e, n) ==
    /\ e \in Watched
    /\ << e, n >> \in handles
    /\ handles' = handles \ {<< e, n >>}
    /\ activities' = [activities EXCEPT ![<< HostOf(e), Kind[e[2]] >>] = @ - 1]
    /\ UNCHANGED << now, dial, serve, sent, ckey, skey, started, backlog, listening,
                    certVars, streams, actives >>

\* connect or accept of an open connection returns a new stream.
NewStream(e, n) ==
    /\ e \in Watched
    /\ IsOpen(e)
    /\ \E m \in Numbers : << e, m >> \in handles
    /\ << e, n >> \notin streams
    /\ streams' = streams \union {<< e, n >>}
    /\ actives' = [actives EXCEPT ![e] = @ + 1]
    /\ UNCHANGED << now, dial, serve, sent, ckey, skey, started, backlog, listening,
                    certVars, handles, activities >>

\* Drop of TlsStream and of QuicP2pStream; a stream may outlive its connection.
DropStream(e, n) ==
    /\ << e, n >> \in streams
    /\ streams' = streams \ {<< e, n >>}
    /\ actives' = [actives EXCEPT ![e] = @ - 1]
    /\ UNCHANGED << now, dial, serve, sent, ckey, skey, started, backlog, listening,
                    certVars, handles, activities >>

-----------------------------------------------------------------------------
(* The dialer. *)

\* Switch::transport_connect: the timeout runs from here to the connection.
Start(d) ==
    /\ dial[d] = "idle"
    /\ now + Timeout <= MaxTime
    /\ \E made \in Together : {c \in Dials : dial[c] # "idle"} \union {d} \subseteq made
    /\ dial' = [dial EXCEPT ![d] = "connecting"]
    /\ started' = [started EXCEPT ![d] = now]
    /\ UNCHANGED << now, serve, sent, ckey, skey, backlog, listening, certVars, handleVars >>

\* The start of TlsConn::connect and of QuicTransport::connect: a certificate
\* for this connection, then the request for the secure channel.
Propose(d) ==
    /\ dial[d] = "connecting"
    /\ dial' = [dial EXCEPT ![d] = "hello"]
    /\ \E cert \in Presented(d, DialerClock(d)) : ccert' = [ccert EXCEPT ![d] = cert]

\* TcpTransport::connect with a listener that is bound: the socket waits in
\* its queue until TlsListener::accept takes it.
ConnectTcp(d) ==
    /\ Kind[d] = "tcp"
    /\ listening["tcp"]
    /\ Propose(d)
    /\ serve' = [serve EXCEPT ![d] = "queued"]
    /\ backlog' = Append(backlog, d)
    /\ UNCHANGED << now, sent, ckey, skey, started, listening, scert, quicCert, handleVars >>

\* QuicTransport::connect.
ConnectQuic(d) ==
    /\ Kind[d] = "quic"
    /\ Propose(d)
    /\ UNCHANGED << now, serve, sent, ckey, skey, started, backlog, listening,
                    scert, quicCert, handleVars >>

\* CircuitTransport::connect: the relay asks Local before it answers.
AskRelay(d) ==
    /\ Kind[d] = "relay"
    /\ dial[d] = "connecting"
    /\ serve[d] = "none"
    /\ serve' = [serve EXCEPT ![d] = "stop"]
    /\ UNCHANGED << now, dial, sent, ckey, skey, started, backlog, listening,
                    certVars, handleVars >>

\* circuit_v2_hop_connect returns, TlsConn::connect begins.
ConnectRelay(d) ==
    /\ Kind[d] = "relay"
    /\ serve[d] = "hello"
    /\ Propose(d)
    /\ UNCHANGED << now, serve, sent, ckey, skey, started, backlog, listening,
                    scert, quicCert, handleVars >>

\* The socket is refused, the relay is not reached or has an error status.
ConnectFails(d) ==
    /\ dial[d] = "connecting"
    /\ \/ Kind[d] = "tcp" /\ ~listening["tcp"]
       \/ Kind[d] = "relay" /\ serve[d] \in {"none"} \union ServeOver
    /\ dial' = [dial EXCEPT ![d] = "failed"]
    /\ UNCHANGED << now, serve, sent, ckey, skey, started, backlog, listening,
                    certVars, handleVars >>

\* The verify callback, when the certificate of the listener arrives.  TLS 1.3:
\* the dialer is finished when its own certificate is on its way.
DialerVerify(d) ==
    /\ dial[d] = "hello"
    /\ serve[d] = "hello"
    /\ IF Verify(scert[d], DialerClock(d)) = NoKey
       THEN /\ dial' = [dial EXCEPT ![d] = "refused"]
            /\ UNCHANGED sent
       ELSE /\ dial' = [dial EXCEPT ![d] = "finished"]
            /\ sent' = [sent EXCEPT ![d] = "certificate"]
    /\ UNCHANGED << now, serve, ckey, skey, started, backlog, listening,
                    certVars, handleVars >>

\* Faulty variant of DialerRecord: the muxer is not negotiated.
DialerRecordOpens(d) ==
    /\ dial[d] = "finished"
    /\ LET key == Verify(scert[d], DialerClock(d))
       IN  /\ ckey' = [ckey EXCEPT ![d] = key]
           /\ IF key = NoKey
              THEN /\ dial' = [dial EXCEPT ![d] = "refused"]
                   /\ UNCHANGED << sent, handleVars >>
              ELSE /\ dial' = [dial EXCEPT ![d] = "open"]
                   /\ NewConn(<< "dialer", d >>)
                   /\ sent' = [sent EXCEPT ![d] = "proposal"]
    /\ UNCHANGED << now, serve, skey, started, backlog, listening, certVars >>

\* connect has returned and the certificate is verified again, for its key.
\* A quic connection is open then; a stream needs its muxer first.
DialerRecord(d) ==
    /\ dial[d] = "finished"
    /\ LET key == Verify(scert[d], DialerClock(d))
       IN  /\ ckey' = [ckey EXCEPT ![d] = key]
           /\ \/ /\ key = NoKey
                 /\ dial' = [dial EXCEPT ![d] = "refused"]
                 /\ UNCHANGED << sent, handleVars >>
              \/ /\ key # NoKey
                 /\ Stream(d)
                 /\ dial' = [dial EXCEPT ![d] = "mux"]
                 /\ sent' = [sent EXCEPT ![d] = "proposal"]
                 /\ UNCHANGED handleVars
              \/ /\ key # NoKey
                 /\ ~Stream(d)
                 /\ dial' = [dial EXCEPT ![d] = "open"]
                 /\ NewConn(<< "dialer", d >>)
                 /\ UNCHANGED sent
    /\ UNCHANGED << now, serve, skey, started, backlog, listening, certVars >>

\* dialer_select_proto of yamux: its answer, which the listener may have sent
\* just before it closed.
DialerMux(d) ==
    /\ dial[d] = "mux"
    /\ serve[d] \in {"open", "closed"}
    /\ dial' = [dial EXCEPT ![d] = "open"]
    /\ NewConn(<< "dialer", d >>)
    /\ UNCHANGED << now, serve, sent, ckey, skey, started, backlog, listening, certVars >>

\* The other end has gone.
DialerSeesClose(d) ==
    /\ dial[d] \in DialHandshaking
    /\ serve[d] \in ServeOver
    /\ dial' = [dial EXCEPT ![d] = "failed"]
    /\ UNCHANGED << now, serve, sent, ckey, skey, started, backlog, listening,
                    certVars, handleVars >>

\* transport_connect's timeout drops the future of connect.
DialTimeout(d) ==
    /\ dial[d] \in Dialling
    /\ now >= started[d] + Timeout
    /\ dial' = [dial EXCEPT ![d] = "failed"]
    /\ UNCHANGED << now, serve, sent, ckey, skey, started, backlog, listening,
                    certVars, handleVars >>

-----------------------------------------------------------------------------
(* The listener. *)

\* One TlsListener::accept at a time: it runs the whole handshake.
Accepting == \E d \in Dials : Kind[d] = "tcp" /\ serve[d] \in ServeHandshaking

\* What handle_incoming has not taken when its loop ends.
NotTaken(k) ==
    {d \in Dials : Kind[d] = k /\ serve[d] \in {"queued", "hello", "verified"}}

\* Faulty variant of LoopEnds: the listener outlives its loop.
LoopEndsHeld(k, failed, outcome) ==
    /\ listening' = [listening EXCEPT ![k] = FALSE]
    /\ serve' = [c \in Dials |-> IF c \in failed THEN outcome ELSE serve[c]]
    /\ UNCHANGED backlog

\* accept returns an error: incoming.try_next().await? ends handle_incoming of
\* the transport k and the listener is dropped with what waits in it.
LoopEnds(k, failed, outcome) ==
    /\ listening' = [listening EXCEPT ![k] = FALSE]
    /\ serve' = [c \in Dials |-> IF c \in failed THEN outcome
                                 ELSE IF c \in NotTaken(k) THEN "reset"
                                 ELSE serve[c]]
    /\ backlog' = IF k = "tcp" THEN << >> ELSE backlog

\* The end of one handshake only.
OnlyThis(d, outcome) ==
    /\ serve' = [serve EXCEPT ![d] = outcome]
    /\ UNCHANGED << listening, backlog >>

\* A handshake fails at the listener.  On a tcp socket that is an error of
\* accept; quiche drops a connection it has not established; the task of a
\* relayed one logs the error.
ListenerFails(d, outcome) ==
    IF Kind[d] = "tcp" \/ (Kind[d] = "quic" /\ serve[d] = "verified")
    THEN LoopEnds(Kind[d], {d}, outcome)
    ELSE OnlyThis(d, outcome)

\* TlsListener::accept takes a socket and makes a certificate for it.
AcceptTcp(d) ==
    /\ listening["tcp"]
    /\ ~Accepting
    /\ backlog # << >>
    /\ d = Head(backlog)
    /\ backlog' = Tail(backlog)
    /\ serve' = [serve EXCEPT ![d] = "hello"]
    /\ scert' = [scert EXCEPT ![d] = Generate(Local, CertKey("listener", d), now)]
    /\ UNCHANGED << now, dial, sent, ckey, skey, started, listening, ccert, quicCert,
                    handleVars >>

\* The filter_map of TcpTransport::bind skips a socket that has no peer_addr
\* any more.
SkipSocket(d) ==
    /\ listening["tcp"]
    /\ ~Accepting
    /\ backlog # << >>
    /\ d = Head(backlog)
    /\ dial[d] \in DialOver
    /\ backlog' = Tail(backlog)
    /\ serve' = [serve EXCEPT ![d] = "reset"]
    /\ UNCHANGED << now, dial, sent, ckey, skey, started, listening, certVars, handleVars >>

\* accept(2) on the tcp socket fails, or QuicListener::accept does, for want of
\* file descriptors for instance: no handshake is at fault, the loop ends all the
\* same.  The relay's listener has no socket; its channel lasts as long as the
\* stop server.  Bound: not before a dial over the transport has begun, to which
\* it makes no difference, nor where there is none.
AcceptFails(k) ==
    /\ k \in {"tcp", "quic"}
    /\ \E d \in Dials : Kind[d] = k /\ dial[d] # "idle"
    /\ listening[k]
    /\ k = "tcp" => ~Accepting
    /\ LoopEnds(k, {}, "reset")
    /\ UNCHANGED << now, dial, sent, ckey, skey, started, certVars, handleVars >>

\* QuicListener answers with the configuration the listener was bound with.
AnswerQuic(d) ==
    /\ Kind[d] = "quic"
    /\ listening["quic"]
    /\ serve[d] = "none"
    /\ dial[d] = "hello"
    /\ serve' = [serve EXCEPT ![d] = "hello"]
    /\ scert' = [scert EXCEPT ![d] = quicCert]
    /\ UNCHANGED << now, dial, sent, ckey, skey, started, backlog, listening,
                    ccert, quicCert, handleVars >>

\* handle_stop_incoming: circuit_v2_stop_connect_accept, then a certificate.
AcceptStop(d) ==
    /\ serve[d] = "stop"
    /\ serve' = [serve EXCEPT ![d] = "hello"]
    /\ scert' = [scert EXCEPT ![d] = Generate(Local, CertKey("listener", d), now)]
    /\ UNCHANGED << now, dial, sent, ckey, skey, started, backlog, listening,
                    ccert, quicCert, handleVars >>

\* The verify callback, when the certificate of the dialer arrives.
ListenerVerify(d) ==
    /\ serve[d] = "hello"
    /\ sent[d] # "nothing"
    /\ IF Verify(ccert[d], now) = NoKey
       THEN ListenerFails(d, "refused")
       ELSE OnlyThis(d, "verified")
    /\ UNCHANGED << now, dial, sent, ckey, skey, started, certVars, handleVars >>

\* The certificate is verified again, for its key: by TlsConn::accept, and by
\* QuicP2pListener::accept when it takes the established connection.
ListenerRecord(d) ==
    /\ serve[d] = "verified"
    /\ LET key == Verify(ccert[d], now)
       IN  \/ /\ key = NoKey
              /\ ListenerFails(d, "refused")
              /\ UNCHANGED << skey, handleVars >>
           \/ /\ key # NoKey
              /\ skey' = [skey EXCEPT ![d] = key]
              /\ IF Stream(d)
                 THEN /\ OnlyThis(d, "mux")
                      /\ UNCHANGED handleVars
                 ELSE /\ OnlyThis(d, "open")
                      /\ NewConn(<< "listener", d >>)
    /\ UNCHANGED << now, dial, sent, ckey, started, certVars >>

\* listener_select_proto of yamux, TlsConn::new.
ListenerMux(d) ==
    /\ serve[d] = "mux"
    /\ sent[d] = "proposal"
    /\ OnlyThis(d, "open")
    /\ NewConn(<< "listener", d >>)
    /\ UNCHANGED << now, dial, sent, ckey, skey, started, certVars >>

\* Faulty variant of ListenerSeesClose: a peer that goes before it has sent its
\* certificate is not noticed.
ListenerSeesCloseLate(d) ==
    /\ serve[d] \in {"verified", "mux"}
    /\ dial[d] \in DialOver
    /\ ListenerFails(d, "failed")
    /\ UNCHANGED << now, dial, sent, ckey, skey, started, certVars, handleVars >>

\* The other end has gone before the handshake was over.  A quic connection
\* has no path then, which QuicP2pListener::accept makes an error.
ListenerSeesClose(d) ==
    /\ serve[d] \in ServeHandshaking \union {"stop"}
    /\ dial[d] \in DialOver
    /\ ListenerFails(d, "failed")
    /\ UNCHANGED << now, dial, sent, ckey, skey, started, certVars, handleVars >>

-----------------------------------------------------------------------------
(* A connection that is up. *)

\* close of the dialer's connection, or its accept loop ends because the other
\* end has gone.
CloseDialer(d) ==
    /\ dial[d] = "open"
    /\ dial' = [dial EXCEPT ![d] = "closed"]
    /\ UNCHANGED << now, serve, sent, ckey, skey, started, backlog, listening,
                    certVars, handleVars >>

\* Faulty variant of CloseListener: the connection is left to the drop of its
\* last handle, and the accept loop has one.
CloseListenerByDrop(d) ==
    /\ serve[d] = "open"
    /\ \A n \in Numbers : << << "listener", d >>, n >> \notin handles
    /\ serve' = [serve EXCEPT ![d] = "closed"]
    /\ UNCHANGED << now, dial, sent, ckey, skey, started, backlog, listening,
                    certVars, handleVars >>

CloseListener(d) ==
    /\ serve[d] = "open"
    /\ serve' = [serve EXCEPT ![d] = "closed"]
    /\ UNCHANGED << now, dial, sent, ckey, skey, started, backlog, listening,
                    certVars, handleVars >>

Tick ==
    /\ now < MaxTime
    /\ now' = now + 1
    /\ UNCHANGED << dial, serve, sent, ckey, skey, started, backlog, listening,
                    certVars, handleVars >>

Dialer(d) ==
    \/ Start(d) \/ ConnectTcp(d) \/ ConnectQuic(d) \/ AskRelay(d) \/ ConnectRelay(d)
    \/ ConnectFails(d) \/ DialerVerify(d) \/ DialerRecord(d) \/ DialerMux(d)
    \/ DialerSeesClose(d) \/ DialTimeout(d) \/ CloseDialer(d)

Listener(d) ==
    \/ AcceptTcp(d) \/ SkipSocket(d) \/ AnswerQuic(d) \/ AcceptStop(d)
    \/ ListenerVerify(d) \/ ListenerRecord(d) \/ ListenerMux(d)
    \/ ListenerSeesClose(d) \/ CloseListener(d)

Counted(e, n) ==
    CloneConn(e, n) \/ DropConn(e, n) \/ NewStream(e, n) \/ DropStream(e, n)

Next ==
    \/ Tick
    \/ \E d \in Dials : Dialer(d) \/ Listener(d)
    \/ \E k \in Kinds : AcceptFails(k)
    \/ \E e \in Ends, n \in Numbers : Counted(e, n)

Spec == Init /\ [][Next]_vars

\* What the tasks of the listener do for a dial, one after the other.
ListenerTask(d) ==
    \/ AcceptTcp(d) \/ AcceptStop(d) \/ ListenerVerify(d) \/ ListenerRecord(d)
    \/ ListenerMux(d) \/ ListenerSeesClose(d)

HalfOpen(d) ==
    \/ serve[d] = "open" /\ dial[d] \in DialOver
    \/ dial[d] = "open" /\ serve[d] \in ServeOver

\* The accept loop of an open connection ends when the other end has gone.
AcceptLoopEnds(d) == HalfOpen(d) /\ (CloseDialer(d) \/ CloseListener(d))

\* The executor runs what can run: timers fire, the tasks of the listener go
\* on and notice a peer that has gone.  Nothing is assumed of the dialer.
Fairness ==
    /\ WF_vars(Tick)
    /\ \A d \in Dials :
           /\ WF_vars(DialTimeout(d))
           /\ WF_vars(ListenerTask(d))
           /\ WF_vars(AcceptLoopEnds(d))

FairSpec == Spec /\ Fairness

-----------------------------------------------------------------------------
(* Properties. *)

\* The values the variables take.
TypeOK ==
    /\ now \in 0..MaxTime
    /\ dial \in [Dials -> Dialling \union DialOver \union {"idle", "open"}]
    /\ serve \in [Dials -> ServeHandshaking \union ServeOver
                             \union {"none", "queued", "stop", "open"}]
    /\ sent \in [Dials -> {"nothing", "certificate", "proposal"}]
    /\ ckey \in [Dials -> Hosts \union {NoKey}]
    /\ skey \in [Dials -> Hosts \union {NoKey}]
    /\ started \in [Dials -> 0..MaxTime]
    /\ backlog \in Seq(Dials)
    /\ listening \in [Kinds -> BOOLEAN]
    /\ handles \subseteq Ends \X Numbers
    /\ streams \subseteq Ends \X Numbers
    /\ activities \in [Hosts \X Kinds -> Nat]
    /\ actives \in [Ends -> Nat]

\* The connection a switch gets carries the key of the host at the other end,
\* which has proved it with a certificate this code accepts (crates/tls and
\* crates/quic, connect and accept).
KeysProved ==
    \A d \in Dials :
        /\ dial[d] = "open" => ckey[d] = Local
        /\ serve[d] = "open" => skey[d] = Host[d] /\ d \notin ForeignDials

\* Over tcp and over a relay a dialer has a connection only when the listener
\* has verified it too: TLS 1.3 finishes early, but the answer to yamux does
\* not.  (Over quic a dialer may have one that the listener then refuses.)
BothVerified ==
    \A d \in Dials : Stream(d) /\ dial[d] = "open" => skey[d] = Host[d]

\* One failed handshake, or a failed accept(2), ends the loop of a listener for
\* good (switch.rs, handle_incoming), while others wait in it.  None of them is
\* left waiting: who waits, or is served up to the muxer, is at a listener that
\* still accepts.  So no dial to a host that has stopped listening hangs there.
NoneLeftWaiting == \A d \in Dials : serve[d] \in Serving => listening[Kind[d]]

\* A certificate of generate is refused only when it is older than its lifetime
\* less one second of rounding (x509, validity); so only a handshake that takes
\* that long, the certificate of a quic listener and a clock that is off fail.
RefusedOnlyStale ==
    \A d \in Dials :
        /\ dial[d] = "refused" => DialerClock(d) > scert[d].notBefore + Lifetime - TicksPerSecond
        /\ serve[d] = "refused" /\ d \notin ForeignDials /\ Ahead[d] = 0 =>
               now > ccert[d].notBefore + Lifetime - TicksPerSecond

\* activities and actives, which the pool evicts by, count the live handles and
\* the live streams, whatever order they are cloned and dropped in.
CountersExact ==
    /\ \A h \in Hosts, k \in Kinds :
           activities[<< h, k >>] =
               Cardinality({x \in handles : HostOf(x[1]) = h /\ Kind[x[1][2]] = k})
    /\ \A e \in Ends : actives[e] = Cardinality({x \in streams : x[1] = e})

\* Nothing but the dialer has a timeout, and the tcp listener serves one
\* handshake at a time; still no handshake goes on for ever at either end
\* (always some time later neither end is in one).
HandshakesEnd ==
    \A d \in Dials : []<>(dial[d] \notin Dialling /\ serve[d] \notin Serving)

\* A connection that only one end has got does not stay so: it is closed there,
\* for instance when the dialer has timed out while the answer to yamux was on
\* its way.
HalfOpenCloses == \A d \in Dials : []<>~HalfOpen(d)

\* The comments of crates/x509/src/lib.rs: a certificate must "be valid at the
\* time it is received by the peer" (433), and hosts "MAY reuse the same key and
\* certificate for multiple connections" (177).  So a dial that has taken no
\* time yet is not refused by a certificate that is stale.
CertValidWhenReceived ==
    \A d \in Dials :
        dial[d] = "refused" /\ Ahead[d] = 0 =>
            DialerClock(d) > started[d] + Lifetime - TicksPerSecond
=============================================================================
