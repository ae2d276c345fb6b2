----------------------- MODULE SecureTransportProofs -----------------------
(***************************************************************************)
(* The safety of connection setup, for every set of dials, every lifetime  *)
(* and every timeout.                                                      *)
(***************************************************************************)
EXTENDS SecureTransport, FiniteSetTheorems, TLAPS

USE CertificateAssumption, TransportAssumption

-----------------------------------------------------------------------------
(* The certificates. *)

\* The rounding of a time to its second takes less than a second away.
LEMMA ToSecondBounds ==
    ASSUME NEW t \in Nat
    PROVE  /\ ToSecond(t) \in Nat
           /\ ToSecond(t) <= t
           /\ t < ToSecond(t) + TicksPerSecond
<1>1. t % TicksPerSecond \in 0..(TicksPerSecond - 1)
    OBVIOUS
<1>2. t % TicksPerSecond <= t
    OBVIOUS
<1> QED
    BY <1>1, <1>2 DEF ToSecond

\* A certificate of generate has one libp2p extension, the host's.
LEMMA GeneratedExtension ==
    ASSUME NEW h, NEW k, NEW t \in Nat
    PROVE  LET exts == Generate(h, k, t).extensions
           IN  /\ HasLibp2pExtension(exts)
               /\ ExtractLibp2pExtension(exts) = Libp2pExtension(h, k)
<1> DEFINE exts == Generate(h, k, t).extensions
<1>1. exts = << Libp2pExtension(h, k) >>
    BY DEF Generate
<1>2. DOMAIN exts = {1} /\ exts[1] = Libp2pExtension(h, k)
    BY <1>1
<1>3. IsLibp2p(exts[1]) /\ exts[1].decodes
    BY <1>2 DEF IsLibp2p, Libp2pExtension
<1>4. HasLibp2pExtension(exts)
    BY <1>2, <1>3 DEF HasLibp2pExtension
<1>5. ExtractLibp2pExtension(exts) = exts[1]
    BY <1>2, <1>3 DEF ExtractLibp2pExtension
<1> QED
    BY <1>2, <1>4, <1>5

\* verify accepts a certificate of generate exactly while it is valid.
LEMMA VerifyGenerated ==
    ASSUME NEW h, NEW k, NEW t \in Nat, NEW time \in Nat
    PROVE  Verify(Generate(h, k, t), time)
               = IF Validity(Generate(h, k, t), time) THEN h ELSE NoKey
<1> DEFINE cert == Generate(h, k, t)
<1>1. VerifySignature(cert)
    BY DEF VerifySignature, Generate, VerifierOf, Sign
<1>2. VerifyExtension(Libp2pExtension(h, k), cert.key)
    BY DEF VerifyExtension, Libp2pExtension, Generate
<1>3. Libp2pExtension(h, k).hostKey = h
    BY DEF Libp2pExtension
<1> QED
    BY <1>1, <1>2, <1>3, GeneratedExtension DEF Verify

\* So it is refused only after its lifetime less a second.
LEMMA RefusedIsStale ==
    ASSUME NEW h, NEW k, NEW t \in Nat, NEW time \in Nat, t <= time, h # NoKey,
           Verify(Generate(h, k, t), time) = NoKey
    PROVE  time > Generate(h, k, t).notBefore + Lifetime - TicksPerSecond
<1>1. ~Validity(Generate(h, k, t), time)
    BY VerifyGenerated
<1>2. Generate(h, k, t).notBefore = ToSecond(t) /\ Generate(h, k, t).notAfter = ToSecond(t + Lifetime)
    BY DEF Generate
<1>3. ~(ToSecond(t) <= time /\ time <= ToSecond(t + Lifetime))
    BY <1>1, <1>2 DEF Validity
<1>4. t + Lifetime \in Nat
    OBVIOUS
<1> QED
    BY <1>2, <1>3, <1>4, ToSecondBounds

\* The certificates of other makes are all refused.
LEMMA VerifyForeign ==
    ASSUME NEW h, NEW k, NEW o, k # o, NEW t \in Nat, NEW time \in Nat,
           NEW cert \in Foreign(h, k, o, t)
    PROVE  Verify(cert, time) = NoKey
<1> DEFINE sound == Generate(h, k, t)
           own   == sound.extensions[1]
<1>0. own = Libp2pExtension(h, k)
    BY DEF Generate
<1>1. CASE cert = [sound EXCEPT !.algorithm = "ed25519", !.keyType = "ed25519"]
    <2>1. cert.algorithm = "ed25519"
        BY <1>1 DEF Generate
    <2>2. ~VerifySignature(cert)
        BY <2>1 DEF VerifySignature, VerifierOf
    <2> QED
        BY <2>2 DEF Verify
<1>2. CASE cert = [sound EXCEPT !.keyType = "p384"]
    <2>1. cert.algorithm = "ecdsaSha256" /\ cert.keyType = "p384"
        BY <1>2 DEF Generate
    <2>2. ~VerifySignature(cert)
        BY <2>1 DEF VerifySignature, VerifierOf
    <2> QED
        BY <2>2 DEF Verify
<1>3. CASE cert = [sound EXCEPT !.extensions = << >>]
    <2>1. cert.extensions = << >>
        BY <1>3 DEF Generate
    <2>2. ~HasLibp2pExtension(cert.extensions)
        BY <2>1 DEF HasLibp2pExtension
    <2> QED
        BY <2>2 DEF Verify
<1>4. CASE cert = [sound EXCEPT !.extensions = << own, own >>]
    <2>1. cert.extensions = << own, own >>
        BY <1>4 DEF Generate
    <2>2. /\ DOMAIN cert.extensions = {1, 2}
          /\ cert.extensions[1] = own
          /\ cert.extensions[2] = own
        BY <2>1
    <2>3. IsLibp2p(own)
        BY <1>0 DEF IsLibp2p, Libp2pExtension
    <2>4. ~HasLibp2pExtension(cert.extensions)
        BY <2>2, <2>3 DEF HasLibp2pExtension
    <2> QED
        BY <2>4 DEF Verify
<1>5. CASE cert = [sound EXCEPT !.extensions = << Libp2pExtension(h, o) >>]
    <2>1. cert.extensions = << Libp2pExtension(h, o) >> /\ cert.key = k
        BY <1>5 DEF Generate
    <2>2. ExtractLibp2pExtension(cert.extensions) = Libp2pExtension(h, o)
        <3>1. DOMAIN cert.extensions = {1} /\ cert.extensions[1] = Libp2pExtension(h, o)
            BY <2>1
        <3>2. IsLibp2p(cert.extensions[1])
            BY <3>1 DEF IsLibp2p, Libp2pExtension
        <3> QED
            BY <3>1, <3>2 DEF ExtractLibp2pExtension
    <2>3. Libp2pExtension(h, o).signature.of = o /\ Sign(Libp2pExtension(h, o).hostKey, k).of = k
        BY DEF Libp2pExtension, Sign
    <2>4. ~VerifyExtension(ExtractLibp2pExtension(cert.extensions), cert.key)
        BY <2>1, <2>2, <2>3 DEF VerifyExtension
    <2> QED
        BY <2>4 DEF Verify
<1>6. CASE cert = [sound EXCEPT !.extensions = << own, [own EXCEPT !.oid = "nameConstraints"] >>]
    <2> DEFINE other == [own EXCEPT !.oid = "nameConstraints"]
    <2>1. cert.extensions = << own, other >>
        BY <1>6 DEF Generate
    <2>2. ~IsLibp2p(other) /\ other.critical
        BY <1>0 DEF IsLibp2p, Libp2pExtension
    <2> HIDE DEF other
    <2>3. /\ DOMAIN cert.extensions = {1, 2}
          /\ cert.extensions[2] = other
        BY <2>1
    <2>4. ~HasLibp2pExtension(cert.extensions)
        BY <2>2, <2>3 DEF HasLibp2pExtension
    <2> QED
        BY <2>4 DEF Verify
<1> QED
    BY <1>1, <1>2, <1>3, <1>4, <1>5, <1>6 DEF Foreign

-----------------------------------------------------------------------------
(* The inductive invariant. *)

\* The counters are naturals; the other types need nothing else.
CountersTyped ==
    /\ activities \in [Hosts \X Kinds -> Nat]
    /\ actives \in [Ends -> Nat]

PlainTypes ==
    /\ now \in 0..MaxTime
    /\ dial \in [Dials -> Dialling \union DialOver \union {"idle", "open"}]
    /\ serve \in [Dials -> ServeHandshaking \union ServeOver
                             \union {"none", "queued", "stop", "open"}]
    /\ sent \in [Dials -> {"nothing", "certificate", "proposal"}]
    /\ ckey \in [Dials -> Hosts \union {NoKey}]
    /\ skey \in [Dials -> Hosts \union {NoKey}]
    /\ started \in [Dials -> 0..MaxTime]
    /\ backlog \in Seq(Dials)
    /\ listening \in [Kinds -> BOOLEAN]
    /\ handles \subseteq Ends \X Numbers
    /\ streams \subseteq Ends \X Numbers

\* The listener has shown its certificate.
Answered(d) == serve[d] \notin {"none", "queued", "stop"}

\* How far one end is when the other is where it is.
InStep ==
    \A d \in Dials :
        /\ dial[d] \in {"idle", "connecting"} => sent[d] = "nothing"
        /\ dial[d] \in {"idle", "connecting"} /\ Kind[d] # "relay" => serve[d] = "none"
        /\ dial[d] \in {"finished", "mux", "open", "refused"} => Answered(d)
        /\ serve[d] \in {"verified", "mux", "open", "refused"} => sent[d] # "nothing"
        /\ Stream(d) /\ dial[d] = "open" => serve[d] \in {"open", "closed"}

\* What waits to be accepted is a socket that is queued once.
QueueSound ==
    /\ \A i \in 1..Len(backlog) : Kind[backlog[i]] = "tcp" /\ serve[backlog[i]] = "queued"
    /\ \A i, j \in 1..Len(backlog) : backlog[i] = backlog[j] => i = j

\* Every certificate an end presents was made by the code or is of other make.
OwnCert(cert, time) ==
    \E k \in {Local} \union Sides \X Dials, t \in 0..time : cert = Generate(Local, k, t)

DialerCert(d, cert, time) == \E t \in 0..(time + Ahead[d]) : cert \in Presented(d, t)

HasPresented(d) == dial[d] \in {"hello", "finished", "mux", "open"} \/ sent[d] # "nothing"

CertsSound ==
    /\ OwnCert(quicCert, now)
    /\ scert = [d \in Dials |-> scert[d]]
    /\ ccert = [d \in Dials |-> ccert[d]]
    /\ \A d \in Dials :
           /\ OwnCert(scert[d], now)
           /\ HasPresented(d) => DialerCert(d, ccert[d], now)

\* The keys that were recorded, from the verification on.
KeysSound ==
    \A d \in Dials :
        /\ dial[d] \in {"mux", "open"} => ckey[d] = Local
        /\ serve[d] \in {"mux", "open", "closed"} =>
               skey[d] = Host[d] /\ d \notin ForeignDials

\* Only a connection that is or was open has handles.
HandlesSound ==
    /\ IsFiniteSet(handles)
    /\ IsFiniteSet(streams)
    /\ \A d \in Dials, n \in Numbers :
           /\ << << "dialer", d >>, n >> \in handles => dial[d] \in {"open", "closed"}
           /\ << << "listener", d >>, n >> \in handles => serve[d] \in {"open", "closed"}

\* In the hands of TlsListener::accept.
InAccept(d) == Kind[d] = "tcp" /\ serve[d] \in ServeHandshaking

\* What a dial can wait for depends on its transport.
WaitsWell(d) ==
    /\ serve[d] = "queued" => Kind[d] = "tcp"
    /\ serve[d] = "stop" => Kind[d] = "relay"
    /\ serve[d] = "mux" => Stream(d)

\* The relay's loop never ends, and accept has one handshake at a time: so
\* there is no other that the end of the loop would leave half way.
WaitSound ==
    /\ listening["relay"]
    /\ \A d \in Dials : WaitsWell(d)
    /\ \A c, d \in Dials : InAccept(c) /\ InAccept(d) => c = d

-----------------------------------------------------------------------------
(* Types. *)

\* What Verify returns is a host or nothing.
LEMMA VerifyType ==
    ASSUME CertsSound, PlainTypes, NEW d \in Dials
    PROVE  /\ Verify(scert[d], DialerClock(d)) \in {Local, NoKey}
           /\ HasPresented(d) => Verify(ccert[d], now) \in {Host[d], NoKey}
           /\ HasPresented(d) /\ d \in ForeignDials => Verify(ccert[d], now) = NoKey
<1>1. now \in Nat /\ DialerClock(d) \in Nat
    BY DEF PlainTypes, DialerClock
<1>2. Verify(scert[d], DialerClock(d)) \in {Local, NoKey}
    <2>1. PICK k \in {Local} \union Sides \X Dials, t \in 0..now : scert[d] = Generate(Local, k, t)
        BY DEF CertsSound, OwnCert
    <2> QED
        BY <1>1, <2>1, VerifyGenerated
<1>3. ASSUME HasPresented(d), d \notin ForeignDials
      PROVE  Verify(ccert[d], now) \in {Host[d], NoKey}
    <2>1. PICK t \in 0..DialerClock(d) : ccert[d] = Generate(Host[d], CertKey("dialer", d), t)
        BY <1>3 DEF CertsSound, DialerCert, DialerClock, Presented
    <2>2. t \in Nat
        BY <1>1
    <2> QED
        BY <1>1, <2>1, <2>2, VerifyGenerated
<1>4. ASSUME HasPresented(d), d \in ForeignDials
      PROVE  Verify(ccert[d], now) = NoKey
    <2>1. PICK t \in 0..DialerClock(d) :
              ccert[d] \in Foreign(Host[d], CertKey("dialer", d), CertKey("listener", d), t)
        BY <1>4 DEF CertsSound, DialerCert, DialerClock, Presented
    <2>2. CertKey("dialer", d) # CertKey("listener", d) /\ t \in Nat
        BY <1>1 DEF CertKey
    <2> QED
        BY <1>1, <2>1, <2>2, VerifyForeign
<1> QED
    BY <1>2, <1>3, <1>4

\* So is what the listener gets once the certificate of the dialer is there.
LEMMA ListenerVerifies ==
    ASSUME CertsSound, PlainTypes, NEW d \in Dials, sent[d] # "nothing"
    PROVE  /\ Verify(ccert[d], now) \in {Host[d], NoKey}
           /\ d \in ForeignDials => Verify(ccert[d], now) = NoKey
           /\ Verify(ccert[d], now) \in Hosts \union {NoKey}
<1>1. HasPresented(d)
    BY DEF HasPresented
<1>2. Host[d] \in Hosts
    BY DEF Hosts
<1> QED
    BY <1>1, <1>2, VerifyType

\* Every step of either end keeps the types of the plain variables.
LEMMA TypesStep ==
    ASSUME PlainTypes, InStep, CertsSound, Next
    PROVE  PlainTypes'
<1> USE DEF PlainTypes, Dialling, DialHandshaking, DialOver, ServeHandshaking, ServeOver
<1>1. ASSUME NEW d \in Dials, Start(d) PROVE PlainTypes'
    BY <1>1 DEF Start, certVars, handleVars
<1>2. ASSUME NEW d \in Dials, ConnectTcp(d) PROVE PlainTypes'
    BY <1>2 DEF ConnectTcp, Propose, handleVars
<1>3. ASSUME NEW d \in Dials, ConnectQuic(d) \/ ConnectRelay(d) PROVE PlainTypes'
    <2>1. CASE ConnectQuic(d)
        BY <2>1 DEF ConnectQuic, Propose, handleVars
    <2>2. CASE ConnectRelay(d)
        BY <2>2 DEF ConnectRelay, Propose, handleVars
    <2> QED
        BY <1>3, <2>1, <2>2
<1>4. ASSUME NEW d \in Dials,
             AskRelay(d) \/ ConnectFails(d) \/ DialerVerify(d) \/ DialerSeesClose(d)
                 \/ DialTimeout(d) \/ CloseDialer(d) \/ CloseListener(d)
      PROVE  PlainTypes'
    BY <1>4 DEF AskRelay, ConnectFails, DialerVerify, DialerSeesClose, DialTimeout,
                CloseDialer, CloseListener, certVars, handleVars
<1>5. ASSUME NEW d \in Dials, DialerRecord(d) PROVE PlainTypes'
    <2>1. Verify(scert[d], DialerClock(d)) \in Hosts \union {NoKey}
        BY VerifyType DEF Hosts
    <2>2. << << "dialer", d >>, 1 >> \in Ends \X Numbers
        BY DEF Ends, Sides, Numbers
    <2>3. ckey' \in [Dials -> Hosts \union {NoKey}]
        BY <1>5, <2>1 DEF DialerRecord
    <2>4. /\ dial' \in [Dials -> Dialling \union DialOver \union {"idle", "open"}]
          /\ sent' \in [Dials -> {"nothing", "certificate", "proposal"}]
        BY <1>5 DEF DialerRecord
    <2>5. handles' \subseteq Ends \X Numbers /\ streams' = streams
        BY <1>5, <2>2 DEF DialerRecord, NewConn, Made, handleVars
    <2> QED
        BY <1>5, <2>3, <2>4, <2>5 DEF DialerRecord
<1>6. ASSUME NEW d \in Dials, DialerMux(d) PROVE PlainTypes'
    <2>1. << << "dialer", d >>, 1 >> \in Ends \X Numbers
        BY DEF Ends, Sides, Numbers
    <2> QED
        BY <1>6, <2>1 DEF DialerMux, NewConn, Made, certVars
<1>7. ASSUME NEW d \in Dials, AcceptTcp(d) \/ SkipSocket(d) PROVE PlainTypes'
    <2>1. backlog # << >>
        BY <1>7 DEF AcceptTcp, SkipSocket
    <2>2. Tail(backlog) \in Seq(Dials)
        BY <2>1
    <2>3. CASE AcceptTcp(d)
        BY <2>2, <2>3 DEF AcceptTcp, handleVars
    <2>4. CASE SkipSocket(d)
        BY <2>2, <2>4 DEF SkipSocket, handleVars
    <2> QED
        BY <1>7, <2>3, <2>4
<1>8. ASSUME NEW d \in Dials, AnswerQuic(d) \/ AcceptStop(d) PROVE PlainTypes'
    <2>1. CASE AnswerQuic(d)
        BY <2>1 DEF AnswerQuic, handleVars
    <2>2. CASE AcceptStop(d)
        BY <2>2 DEF AcceptStop, handleVars
    <2> QED
        BY <1>8, <2>1, <2>2
<1>9. ASSUME NEW d \in Dials, NEW outcome \in {"refused", "failed"},
             ListenerFails(d, outcome), UNCHANGED << now, dial, sent, ckey, skey, started, handles, streams >>
      PROVE  PlainTypes'
    <2>1. CASE LoopEnds(Kind[d], {d}, outcome)
        <3>1. serve' \in [Dials -> ServeHandshaking \union ServeOver
                                      \union {"none", "queued", "stop", "open"}]
            BY <2>1 DEF LoopEnds
        <3>2. backlog' \in Seq(Dials) /\ listening' \in [Kinds -> BOOLEAN]
            BY <2>1 DEF LoopEnds
        <3> QED
            BY <1>9, <3>1, <3>2
    <2>2. CASE OnlyThis(d, outcome)
        BY <1>9, <2>2 DEF OnlyThis
    <2> QED
        BY <1>9, <2>1, <2>2 DEF ListenerFails
<1>10. ASSUME NEW d \in Dials, ListenerVerify(d) PROVE PlainTypes'
    BY <1>9, <1>10 DEF ListenerVerify, OnlyThis, certVars, handleVars
<1>11. ASSUME NEW d \in Dials, ListenerRecord(d) PROVE PlainTypes'
    <2>1. Verify(ccert[d], now) \in Hosts \union {NoKey}
        <3>1. sent[d] # "nothing"
            BY <1>11 DEF ListenerRecord, InStep
        <3> QED
            BY <3>1, ListenerVerifies
    <2>2. << << "listener", d >>, 1 >> \in Ends \X Numbers
        BY DEF Ends, Sides, Numbers
    <2>3. CASE Verify(ccert[d], now) = NoKey
        BY <1>9, <1>11, <2>3 DEF ListenerRecord, certVars, handleVars
    <2>4. CASE Verify(ccert[d], now) # NoKey
        <3> DEFINE key == Verify(ccert[d], now)
        <3>1. skey' = [skey EXCEPT ![d] = key]
            BY <1>11, <2>4, Zenon DEF ListenerRecord
        <3>2. \/ OnlyThis(d, "mux") /\ UNCHANGED handleVars
              \/ OnlyThis(d, "open") /\ NewConn(<< "listener", d >>)
            BY <1>11, <2>4, Zenon DEF ListenerRecord
        <3>3. UNCHANGED << now, dial, sent, ckey, started >>
            BY <1>11 DEF ListenerRecord
        <3> HIDE DEF key
        <3>4. skey' \in [Dials -> Hosts \union {NoKey}]
            BY <2>1, <3>1 DEF key
        <3>5. /\ serve' \in [Dials -> ServeHandshaking \union ServeOver
                                      \union {"none", "queued", "stop", "open"}]
              /\ UNCHANGED << listening, backlog >>
            BY <3>2 DEF OnlyThis
        <3>6. handles' \subseteq Ends \X Numbers /\ streams' = streams
            BY <2>2, <3>2 DEF NewConn, Made, handleVars
        <3> QED
            BY <3>3, <3>4, <3>5, <3>6
    <2> QED
        BY <2>3, <2>4
<1>12. ASSUME NEW d \in Dials, ListenerMux(d) PROVE PlainTypes'
    <2>1. << << "listener", d >>, 1 >> \in Ends \X Numbers
        BY DEF Ends, Sides, Numbers
    <2> QED
        BY <1>12, <2>1 DEF ListenerMux, OnlyThis, NewConn, Made, certVars
<1>13. ASSUME NEW d \in Dials, ListenerSeesClose(d) PROVE PlainTypes'
    BY <1>9, <1>13 DEF ListenerSeesClose, handleVars
<1>14. ASSUME Tick PROVE PlainTypes'
    BY <1>14 DEF Tick, handleVars
<1>16. ASSUME NEW k \in Kinds, AcceptFails(k) PROVE PlainTypes'
    <2>1. serve' \in [Dials -> ServeHandshaking \union ServeOver
                                  \union {"none", "queued", "stop", "open"}]
        BY <1>16 DEF AcceptFails, LoopEnds
    <2>2. backlog' \in Seq(Dials) /\ listening' \in [Kinds -> BOOLEAN]
        BY <1>16 DEF AcceptFails, LoopEnds
    <2> QED
        BY <1>16, <2>1, <2>2 DEF AcceptFails, handleVars
<1>15. ASSUME NEW e \in Ends, NEW n \in Numbers, Counted(e, n) PROVE PlainTypes'
    BY <1>15 DEF Counted, CloneConn, DropConn, NewStream, DropStream, Made, certVars
<1> QED
    BY <1>1, <1>2, <1>3, <1>4, <1>5, <1>6, <1>7, <1>8, <1>10, <1>11, <1>12, <1>13, <1>14, <1>15,
       <1>16 DEF Next, Dialer, Listener

-----------------------------------------------------------------------------
(* The two ends stay in step. *)

\* The queue holds each dial once, and only while it is queued.
LEMMA InStepStep ==
    ASSUME PlainTypes, InStep, QueueSound, Next
    PROVE  InStep'
<1> USE DEF PlainTypes, InStep, Answered, Stream
<1>1. ASSUME NEW d \in Dials, Start(d) PROVE InStep'
    BY <1>1 DEF Start
<1>2. ASSUME NEW d \in Dials, ConnectTcp(d) PROVE InStep'
    BY <1>2 DEF ConnectTcp, Propose
<1>3. ASSUME NEW d \in Dials, ConnectQuic(d) PROVE InStep'
    BY <1>3 DEF ConnectQuic, Propose
<1>4. ASSUME NEW d \in Dials, AskRelay(d) PROVE InStep'
    BY <1>4 DEF AskRelay
<1>5. ASSUME NEW d \in Dials, ConnectRelay(d) PROVE InStep'
    BY <1>5 DEF ConnectRelay, Propose
<1>6. ASSUME NEW d \in Dials, ConnectFails(d) \/ DialerSeesClose(d) \/ DialTimeout(d) \/ CloseDialer(d)
      PROVE  InStep'
    BY <1>6 DEF ConnectFails, DialerSeesClose, DialTimeout, CloseDialer
<1>7. ASSUME NEW d \in Dials, DialerVerify(d) PROVE InStep'
    BY <1>7 DEF DialerVerify
<1>8. ASSUME NEW d \in Dials, DialerRecord(d) PROVE InStep'
    BY <1>8 DEF DialerRecord
<1>9. ASSUME NEW d \in Dials, DialerMux(d) PROVE InStep'
    BY <1>9 DEF DialerMux
<1>10. ASSUME NEW d \in Dials, AcceptTcp(d) \/ SkipSocket(d) PROVE InStep'
    <2>1. d = backlog[1] /\ Len(backlog) >= 1
        BY <1>10 DEF AcceptTcp, SkipSocket
    <2>2. serve[d] = "queued" /\ Kind[d] = "tcp"
        BY <2>1 DEF QueueSound
    <2>3. dial[d] \notin {"idle", "connecting", "finished", "mux", "open", "refused"}
        BY <2>2
    <2>4. UNCHANGED << dial, sent >> /\ \E p \in {"hello", "reset"} : serve' = [serve EXCEPT ![d] = p]
        BY <1>10 DEF AcceptTcp, SkipSocket
    <2> QED
        BY <2>2, <2>3, <2>4
<1>11. ASSUME NEW d \in Dials, AnswerQuic(d) \/ AcceptStop(d) PROVE InStep'
    <2>1. CASE AnswerQuic(d)
        BY <2>1 DEF AnswerQuic
    <2>2. CASE AcceptStop(d)
        BY <2>2 DEF AcceptStop
    <2> QED
        BY <1>11, <2>1, <2>2
<1>12. ASSUME NEW d \in Dials, NEW outcome \in {"refused", "failed"}, ListenerFails(d, outcome),
              serve[d] \in ServeHandshaking \union {"stop"}, UNCHANGED << dial, sent >>,
              outcome = "refused" => sent[d] # "nothing",
              Kind[d] # "relay" => dial[d] \notin {"idle", "connecting"}
       PROVE  InStep'
    <2>1. CASE LoopEnds(Kind[d], {d}, outcome)
        BY <1>12, <2>1 DEF LoopEnds, NotTaken, ServeHandshaking
    <2>2. CASE OnlyThis(d, outcome)
        BY <1>12, <2>2 DEF OnlyThis, ServeHandshaking
    <2> QED
        BY <1>12, <2>1, <2>2 DEF ListenerFails
<1>13. ASSUME NEW d \in Dials, ListenerVerify(d) PROVE InStep'
    BY <1>12, <1>13 DEF ListenerVerify, OnlyThis, ServeHandshaking
<1>14. ASSUME NEW d \in Dials, ListenerRecord(d) PROVE InStep'
    BY <1>12, <1>14 DEF ListenerRecord, OnlyThis, ServeHandshaking
<1>15. ASSUME NEW d \in Dials, ListenerMux(d) PROVE InStep'
    BY <1>15 DEF ListenerMux, OnlyThis
<1>16. ASSUME NEW d \in Dials, ListenerSeesClose(d) PROVE InStep'
    BY <1>12, <1>16 DEF ListenerSeesClose, DialOver
<1>17. ASSUME NEW d \in Dials, CloseListener(d) PROVE InStep'
    BY <1>17 DEF CloseListener
<1>18. ASSUME UNCHANGED << dial, serve, sent >> PROVE InStep'
    BY <1>18
<1>19. ASSUME NEW e \in Ends, NEW n \in Numbers, Counted(e, n) PROVE InStep'
    BY <1>18, <1>19 DEF Counted, CloneConn, DropConn, NewStream, DropStream
<1>20. ASSUME Tick PROVE InStep'
    BY <1>18, <1>20 DEF Tick
<1>21. ASSUME NEW k \in Kinds, AcceptFails(k) PROVE InStep'
    BY <1>21 DEF AcceptFails, LoopEnds, NotTaken
<1> QED
    BY <1>1, <1>2, <1>3, <1>4, <1>5, <1>6, <1>7, <1>8, <1>9, <1>10, <1>11, <1>13, <1>14, <1>15,
       <1>16, <1>17, <1>19, <1>20, <1>21 DEF Next, Dialer, Listener

\* The backlog stays the queued tcp sockets, each once, while the listener runs
\* (TlsListener::accept, LoopEnds).
LEMMA QueueStep ==
    ASSUME PlainTypes, InStep, QueueSound, Next
    PROVE  QueueSound'
<1>0. backlog \in Seq(Dials) /\ serve = [c \in Dials |-> serve[c]]
    BY DEF PlainTypes
<1> USE <1>0 DEF QueueSound
<1>1. ASSUME NEW d \in Dials, ConnectTcp(d) PROVE QueueSound'
    <2>1. serve[d] = "none" /\ Kind[d] = "tcp"
        BY <1>1 DEF ConnectTcp, Propose, InStep
    <2>2. /\ Len(backlog') = Len(backlog) + 1
          /\ backlog'[Len(backlog) + 1] = d
          /\ \A i \in 1..Len(backlog) : backlog'[i] = backlog[i]
        BY <1>1 DEF ConnectTcp
    <2>3. \A i \in 1..Len(backlog) : backlog[i] # d
        BY <2>1
    <2>4. serve' = [serve EXCEPT ![d] = "queued"]
        BY <1>1 DEF ConnectTcp
    <2>5. \A i \in 1..Len(backlog') : i = Len(backlog) + 1 \/ i \in 1..Len(backlog)
        BY <2>2
    <2>6. ASSUME NEW i \in 1..Len(backlog')
          PROVE  Kind[backlog'[i]] = "tcp" /\ serve'[backlog'[i]] = "queued"
        <3>1. CASE i = Len(backlog) + 1
            BY <2>1, <2>2, <2>4, <3>1
        <3>2. CASE i \in 1..Len(backlog)
            <4>1. backlog'[i] = backlog[i] /\ backlog[i] \in Dials /\ backlog[i] # d
                BY <2>2, <2>3, <3>2
            <4>2. Kind[backlog[i]] = "tcp" /\ serve[backlog[i]] = "queued"
                BY <3>2
            <4> QED
                BY <2>4, <4>1, <4>2
        <3> QED
            BY <2>5, <3>1, <3>2
    <2>7. ASSUME NEW i \in 1..Len(backlog'), NEW j \in 1..Len(backlog'), backlog'[i] = backlog'[j]
          PROVE  i = j
        <3>1. CASE i \in 1..Len(backlog) /\ j \in 1..Len(backlog)
            <4>1. backlog[i] = backlog[j]
                BY <2>2, <2>7, <3>1
            <4> QED
                BY <3>1, <4>1
        <3>2. CASE i = Len(backlog) + 1 \/ j = Len(backlog) + 1
            BY <2>2, <2>3, <2>5, <2>7, <3>2
        <3> QED
            BY <2>5, <3>1, <3>2
    <2> QED
        BY <2>6, <2>7
<1>2. ASSUME NEW d \in Dials, AcceptTcp(d) \/ SkipSocket(d) PROVE QueueSound'
    <2>8. backlog # << >> /\ d = Head(backlog) /\ backlog' = Tail(backlog)
        BY <1>2, Zenon DEF AcceptTcp, SkipSocket
    <2>1. backlog # << >> /\ d = backlog[1] /\ backlog' = Tail(backlog)
        BY <2>8
    <2>0. serve' = [serve EXCEPT ![d] = serve'[d]]
        BY <1>2 DEF AcceptTcp, SkipSocket
    <2>2. /\ Len(backlog') = Len(backlog) - 1
          /\ \A i \in 1..Len(backlog') : backlog'[i] = backlog[i + 1]
        BY <2>1
    <2>3. \A i \in 1..Len(backlog') : backlog'[i] # d
        BY <2>1, <2>2
    <2>4. \A c \in Dials \ {d} : serve'[c] = serve[c]
        BY <2>0
    <2>5. \A i \in 1..Len(backlog') :
              i + 1 \in 1..Len(backlog) /\ backlog[i + 1] \in Dials /\ backlog'[i] = backlog[i + 1]
        <3>1. Len(backlog) \in Nat /\ \A k \in 1..Len(backlog) : backlog[k] \in Dials
            BY DEF PlainTypes
        <3> SUFFICES ASSUME NEW i \in 1..Len(backlog')
                     PROVE  /\ i + 1 \in 1..Len(backlog) /\ backlog[i + 1] \in Dials
                            /\ backlog'[i] = backlog[i + 1]
            OBVIOUS
        <3>2. i + 1 \in 1..Len(backlog)
            BY <2>2, <3>1
        <3> QED
            BY <2>2, <3>1, <3>2
    <2>6. ASSUME NEW i \in 1..Len(backlog')
          PROVE  Kind[backlog'[i]] = "tcp" /\ serve'[backlog'[i]] = "queued"
        <3>1. backlog'[i] = backlog[i + 1] /\ backlog'[i] \in Dials \ {d} /\ i + 1 \in 1..Len(backlog)
            BY <2>3, <2>5
        <3>2. Kind[backlog[i + 1]] = "tcp" /\ serve[backlog[i + 1]] = "queued"
            BY <3>1
        <3> QED
            BY <2>4, <3>1, <3>2
    <2>7. ASSUME NEW i \in 1..Len(backlog'), NEW j \in 1..Len(backlog'), backlog'[i] = backlog'[j]
          PROVE  i = j
        <3>1. i + 1 \in 1..Len(backlog) /\ j + 1 \in 1..Len(backlog) /\ backlog[i + 1] = backlog[j + 1]
            BY <2>5, <2>7
        <3>2. i + 1 = j + 1
            BY <3>1
        <3> QED
            BY <2>2, <3>2
    <2> QED
        BY <2>6, <2>7
<1>3. ASSUME UNCHANGED backlog, \A c \in Dials : serve[c] = "queued" /\ Kind[c] = "tcp" => serve'[c] = "queued"
      PROVE  QueueSound'
    BY <1>3
<1>4. ASSUME NEW d \in Dials, NEW outcome, ListenerFails(d, outcome), serve[d] # "queued" PROVE QueueSound'
    <2>1. CASE LoopEnds(Kind[d], {d}, outcome) /\ Kind[d] = "tcp"
        BY <2>1 DEF LoopEnds
    <2>2. CASE LoopEnds(Kind[d], {d}, outcome) /\ Kind[d] # "tcp"
        BY <1>3, <1>4, <2>2 DEF LoopEnds, NotTaken
    <2>3. CASE OnlyThis(d, outcome)
        BY <1>3, <1>4, <2>3 DEF OnlyThis
    <2> QED
        BY <1>4, <2>1, <2>2, <2>3 DEF ListenerFails
<1>5. ASSUME NEW d \in Dials, ListenerVerify(d) PROVE QueueSound'
    BY <1>3, <1>4, <1>5 DEF ListenerVerify, OnlyThis
<1>6. ASSUME NEW d \in Dials, ListenerRecord(d) PROVE QueueSound'
    BY <1>3, <1>4, <1>6 DEF ListenerRecord, OnlyThis
<1>7. ASSUME NEW d \in Dials, ListenerSeesClose(d) PROVE QueueSound'
    BY <1>4, <1>7 DEF ListenerSeesClose, ServeHandshaking
<1>8. ASSUME NEW d \in Dials, AskRelay(d) \/ AnswerQuic(d) \/ AcceptStop(d) \/ ListenerMux(d) \/ CloseListener(d)
      PROVE  QueueSound'
    BY <1>3, <1>8 DEF AskRelay, AnswerQuic, AcceptStop, ListenerMux, OnlyThis, CloseListener
<1>9. ASSUME NEW d \in Dials,
             Start(d) \/ ConnectQuic(d) \/ ConnectRelay(d) \/ ConnectFails(d) \/ DialerVerify(d)
                 \/ DialerRecord(d) \/ DialerMux(d) \/ DialerSeesClose(d) \/ DialTimeout(d) \/ CloseDialer(d)
      PROVE  QueueSound'
    BY <1>3, <1>9 DEF Start, ConnectQuic, ConnectRelay, ConnectFails, DialerVerify, DialerRecord,
                      DialerMux, DialerSeesClose, DialTimeout, CloseDialer
<1>10. ASSUME NEW e \in Ends, NEW n \in Numbers, Counted(e, n) PROVE QueueSound'
    BY <1>3, <1>10 DEF Counted, CloneConn, DropConn, NewStream, DropStream
<1>11. ASSUME Tick PROVE QueueSound'
    BY <1>3, <1>11 DEF Tick
<1>12. ASSUME NEW k \in Kinds, AcceptFails(k) PROVE QueueSound'
    <2>1. CASE k = "tcp"
        BY <1>12, <2>1 DEF AcceptFails, LoopEnds
    <2>2. CASE k # "tcp"
        BY <1>3, <1>12, <2>2 DEF AcceptFails, LoopEnds, NotTaken
    <2> QED
        BY <2>1, <2>2
<1> QED
    BY <1>1, <1>2, <1>5, <1>6, <1>7, <1>8, <1>9, <1>10, <1>11, <1>12 DEF Next, Dialer, Listener

-----------------------------------------------------------------------------
(* Certificates and keys. *)

\* A dial that is under way has not begun after now.
LEMMA TimeStep ==
    ASSUME PlainTypes, Next
    PROVE  now \in Nat /\ now' \in Nat /\ now <= now'
<1>1. CASE Tick
    BY <1>1 DEF Tick, PlainTypes
<1>2. ASSUME NEW d \in Dials, Dialer(d) PROVE now' = now
    BY <1>2 DEF Dialer, Start, ConnectTcp, ConnectQuic, AskRelay, ConnectRelay, ConnectFails,
                DialerVerify, DialerRecord, DialerMux, DialerSeesClose, DialTimeout, CloseDialer
<1>3. ASSUME NEW d \in Dials, Listener(d) PROVE now' = now
    BY <1>3 DEF Listener, AcceptTcp, SkipSocket, AnswerQuic, AcceptStop, ListenerVerify,
                ListenerRecord, ListenerMux, ListenerSeesClose, CloseListener
<1>4. ASSUME NEW e \in Ends, NEW n \in Numbers, Counted(e, n) PROVE now' = now
    BY <1>4 DEF Counted, CloneConn, DropConn, NewStream, DropStream
<1>5. ASSUME NEW k \in Kinds, AcceptFails(k) PROVE now' = now
    BY <1>5 DEF AcceptFails
<1> QED
    BY <1>1, <1>2, <1>3, <1>4, <1>5 DEF Next, PlainTypes

\* A step makes a certificate or leaves them alone.
LEMMA CertsChange ==
    ASSUME PlainTypes, CertsSound, InStep, Next
    PROVE  /\ quicCert' = quicCert
           /\ \/ scert' = scert
              \/ \E d \in Dials : \E cert \in {quicCert, Generate(Local, CertKey("listener", d), now)} :
                     scert' = [scert EXCEPT ![d] = cert]
           /\ \/ ccert' = ccert /\ \A c \in Dials : HasPresented(c)' => HasPresented(c)
              \/ \E d \in Dials : \E cert \in Presented(d, DialerClock(d)) :
                     ccert' = [ccert EXCEPT ![d] = cert] /\ dial' = [dial EXCEPT ![d] = "hello"] /\ sent' = sent
<1> USE DEF HasPresented, certVars
<1>1. ASSUME NEW d \in Dials, ConnectTcp(d) \/ ConnectQuic(d) \/ ConnectRelay(d)
      PROVE  /\ UNCHANGED << quicCert, scert >>
             /\ \E cert \in Presented(d, DialerClock(d)) :
                    ccert' = [ccert EXCEPT ![d] = cert] /\ dial' = [dial EXCEPT ![d] = "hello"] /\ sent' = sent
    BY <1>1 DEF ConnectTcp, ConnectQuic, ConnectRelay, Propose
<1>2. ASSUME NEW d \in Dials,
             Start(d) \/ AskRelay(d) \/ ConnectFails(d) \/ DialerSeesClose(d) \/ DialTimeout(d) \/ CloseDialer(d)
      PROVE  UNCHANGED << quicCert, scert, ccert >> /\ \A c \in Dials : HasPresented(c)' => HasPresented(c)
    BY <1>2 DEF Start, AskRelay, ConnectFails, DialerSeesClose, DialTimeout, CloseDialer, PlainTypes
<1>3. ASSUME NEW d \in Dials, DialerVerify(d) \/ DialerRecord(d) \/ DialerMux(d)
      PROVE  UNCHANGED << quicCert, scert, ccert >> /\ \A c \in Dials : HasPresented(c)' => HasPresented(c)
    BY <1>3 DEF DialerVerify, DialerRecord, DialerMux, PlainTypes
<1>4. ASSUME NEW d \in Dials, AcceptTcp(d) \/ AnswerQuic(d) \/ AcceptStop(d)
      PROVE  /\ UNCHANGED << quicCert, ccert, dial, sent >>
             /\ \E cert \in {quicCert, Generate(Local, CertKey("listener", d), now)} :
                    scert' = [scert EXCEPT ![d] = cert]
    BY <1>4 DEF AcceptTcp, AnswerQuic, AcceptStop
<1>5. ASSUME NEW d \in Dials,
             SkipSocket(d) \/ ListenerVerify(d) \/ ListenerRecord(d) \/ ListenerMux(d)
                 \/ ListenerSeesClose(d) \/ CloseListener(d)
      PROVE  UNCHANGED << quicCert, scert, ccert, dial, sent >>
    BY <1>5 DEF SkipSocket, ListenerVerify, ListenerRecord, ListenerMux, ListenerSeesClose, CloseListener
<1>6. ASSUME NEW e \in Ends, NEW n \in Numbers, Counted(e, n)
      PROVE  UNCHANGED << quicCert, scert, ccert, dial, sent >>
    BY <1>6 DEF Counted, CloneConn, DropConn, NewStream, DropStream
<1>7. ASSUME Tick \/ \E k \in Kinds : AcceptFails(k)
      PROVE  UNCHANGED << quicCert, scert, ccert, dial, sent >>
    BY <1>7 DEF Tick, AcceptFails
<1> QED
    BY <1>1, <1>2, <1>3, <1>4, <1>5, <1>6, <1>7 DEF Next, Dialer, Listener

\* The certificates on the wire stay those that generate made for these hosts,
\* or one of a foreign make.
LEMMA CertsStep ==
    ASSUME PlainTypes, CertsSound, InStep, Next
    PROVE  CertsSound'
<1>1. \A cert : OwnCert(cert, now) => OwnCert(cert, now')
    BY TimeStep DEF OwnCert
<1>2. \A d \in Dials : \A cert : DialerCert(d, cert, now) => DialerCert(d, cert, now')
    BY TimeStep DEF DialerCert
<1>3. \A d \in Dials : OwnCert(Generate(Local, CertKey("listener", d), now), now')
    BY TimeStep DEF OwnCert, CertKey, Sides
<1>4. OwnCert(quicCert', now')
    BY <1>1, CertsChange DEF CertsSound
<1>5. scert' = [d \in Dials |-> scert'[d]] /\ \A d \in Dials : OwnCert(scert'[d], now')
    BY <1>1, <1>3, CertsChange DEF CertsSound
<1>6. ccert' = [d \in Dials |-> ccert'[d]]
    BY CertsChange DEF CertsSound
<1>7. ASSUME NEW c \in Dials, HasPresented(c)' PROVE DialerCert(c, ccert'[c], now')
    <2>1. CASE ccert' = ccert /\ (HasPresented(c)' => HasPresented(c))
        BY <1>2, <1>7, <2>1 DEF CertsSound
    <2>2. CASE \E d \in Dials : \E cert \in Presented(d, DialerClock(d)) :
                   ccert' = [ccert EXCEPT ![d] = cert] /\ dial' = [dial EXCEPT ![d] = "hello"] /\ sent' = sent
        <3>0. PICK d \in Dials : \E cert \in Presented(d, DialerClock(d)) :
                  ccert' = [ccert EXCEPT ![d] = cert] /\ dial' = [dial EXCEPT ![d] = "hello"] /\ sent' = sent
            BY <2>2
        <3>1. PICK cert \in Presented(d, DialerClock(d)) :
                  ccert' = [ccert EXCEPT ![d] = cert] /\ dial' = [dial EXCEPT ![d] = "hello"] /\ sent' = sent
            BY <3>0
        <3>2. CASE c = d
            <4>1. DialerCert(d, cert, now)
                BY <3>1, TimeStep DEF DialerCert, DialerClock
            <4> QED
                BY <1>2, <3>1, <3>2, <4>1 DEF CertsSound
        <3>3. CASE c # d
            <4>1. HasPresented(c) /\ ccert'[c] = ccert[c]
                BY <1>7, <3>1, <3>3 DEF HasPresented, CertsSound, PlainTypes
            <4> QED
                BY <1>2, <4>1 DEF CertsSound
        <3> QED
            BY <3>2, <3>3
    <2> QED
        BY <2>1, <2>2, CertsChange
<1> QED
    BY <1>4, <1>5, <1>6, <1>7 DEF CertsSound

\* A recorded key stays the one the other end's certificate proves.
LEMMA KeysStep ==
    ASSUME PlainTypes, CertsSound, InStep, QueueSound, KeysSound, Next
    PROVE  KeysSound'
<1> USE DEF KeysSound
<1>0. /\ dial = [c \in Dials |-> dial[c]] /\ serve = [c \in Dials |-> serve[c]]
      /\ ckey = [c \in Dials |-> ckey[c]] /\ skey = [c \in Dials |-> skey[c]]
    BY DEF PlainTypes
<1>1. ASSUME NEW d \in Dials, NEW p \in {"connecting", "hello", "finished", "refused", "failed", "closed"},
             dial' = [dial EXCEPT ![d] = p], UNCHANGED << serve, ckey, skey >>
      PROVE  KeysSound'
    BY <1>0, <1>1
<1>2. ASSUME NEW d \in Dials, ConnectTcp(d) PROVE KeysSound'
    <2>1. serve' = [serve EXCEPT ![d] = "queued"] /\ dial' = [dial EXCEPT ![d] = "hello"]
          /\ UNCHANGED << ckey, skey >>
        BY <1>2 DEF ConnectTcp, Propose
    <2> QED
        BY <1>0, <2>1
<1>3. ASSUME NEW d \in Dials,
             Start(d) \/ ConnectQuic(d) \/ ConnectRelay(d) \/ ConnectFails(d) \/ DialerVerify(d)
                 \/ DialerSeesClose(d) \/ DialTimeout(d) \/ CloseDialer(d)
      PROVE  KeysSound'
    BY <1>1, <1>3 DEF Start, ConnectQuic, ConnectRelay, Propose, ConnectFails, DialerVerify,
                      DialerSeesClose, DialTimeout, CloseDialer
<1>4. ASSUME NEW d \in Dials, DialerRecord(d) PROVE KeysSound'
    <2>1. Verify(scert[d], DialerClock(d)) \in {Local, NoKey}
        BY VerifyType
    <2>2. ckey' = [ckey EXCEPT ![d] = Verify(scert[d], DialerClock(d))] /\ UNCHANGED << serve, skey >>
        BY <1>4 DEF DialerRecord
    <2>3. \/ Verify(scert[d], DialerClock(d)) = NoKey /\ dial' = [dial EXCEPT ![d] = "refused"]
          \/ Verify(scert[d], DialerClock(d)) # NoKey /\ \E p \in {"mux", "open"} : dial' = [dial EXCEPT ![d] = p]
        BY <1>4 DEF DialerRecord
    <2> QED
        BY <1>0, <2>1, <2>2, <2>3
<1>5. ASSUME NEW d \in Dials, DialerMux(d) PROVE KeysSound'
    <2>1. /\ dial[d] = "mux" /\ dial' = [dial EXCEPT ![d] = "open"]
          /\ UNCHANGED << serve, ckey, skey >>
        BY <1>5 DEF DialerMux
    <2> QED
        BY <1>0, <2>1
<1>6. ASSUME NEW d \in Dials, UNCHANGED << dial, ckey, skey >>,
             \A c \in Dials : serve'[c] \in {"mux", "open", "closed"} => serve[c] \in {"mux", "open", "closed"}
      PROVE  KeysSound'
    BY <1>6
<1>7. ASSUME NEW d \in Dials, NEW outcome \in {"refused", "failed"}, ListenerFails(d, outcome),
             UNCHANGED << dial, ckey, skey >>
      PROVE  KeysSound'
    <2>1. \A c \in Dials : serve'[c] \in {serve[c], outcome, "reset"}
        <3>1. CASE LoopEnds(Kind[d], {d}, outcome)
            BY <1>0, <3>1 DEF LoopEnds
        <3>2. CASE OnlyThis(d, outcome)
            BY <1>0, <3>2 DEF OnlyThis
        <3> QED
            BY <1>7, <3>1, <3>2 DEF ListenerFails
    <2> QED
        BY <1>6, <1>7, <2>1
<1>8. ASSUME NEW d \in Dials, AskRelay(d) \/ AcceptTcp(d) \/ SkipSocket(d) \/ AnswerQuic(d) \/ AcceptStop(d)
      PROVE  KeysSound'
    <2>1. \E p \in {"stop", "hello", "reset"} : serve' = [serve EXCEPT ![d] = p]
        BY <1>8 DEF AskRelay, AcceptTcp, SkipSocket, AnswerQuic, AcceptStop
    <2>2. UNCHANGED << dial, ckey, skey >>
        BY <1>8 DEF AskRelay, AcceptTcp, SkipSocket, AnswerQuic, AcceptStop
    <2> QED
        BY <1>0, <1>6, <2>1, <2>2
<1>9. ASSUME NEW d \in Dials, ListenerVerify(d) PROVE KeysSound'
    BY <1>0, <1>6, <1>7, <1>9 DEF ListenerVerify, OnlyThis
<1>10. ASSUME NEW d \in Dials, ListenerRecord(d) PROVE KeysSound'
    <2>1. sent[d] # "nothing"
        BY <1>10 DEF ListenerRecord, InStep
    <2>2. CASE Verify(ccert[d], now) = NoKey
        <3>1. ListenerFails(d, "refused") /\ UNCHANGED << dial, ckey, skey >>
            BY <1>10, <2>2, Zenon DEF ListenerRecord
        <3> QED
            BY <1>7, <3>1
    <2>3. CASE Verify(ccert[d], now) # NoKey
        <3>1. /\ skey' = [skey EXCEPT ![d] = Verify(ccert[d], now)]
              /\ UNCHANGED << dial, ckey >>
              /\ OnlyThis(d, "mux") \/ OnlyThis(d, "open")
            BY <1>10, <2>3, Zenon DEF ListenerRecord
        <3>2. \E p \in {"mux", "open"} : serve' = [serve EXCEPT ![d] = p]
            BY <3>1 DEF OnlyThis
        <3>3. Verify(ccert[d], now) = Host[d] /\ d \notin ForeignDials
            BY <2>1, <2>3, ListenerVerifies
        <3> QED
            BY <1>0, <3>1, <3>2, <3>3
    <2> QED
        BY <2>2, <2>3
<1>11. ASSUME NEW d \in Dials, ListenerMux(d) \/ CloseListener(d) PROVE KeysSound'
    <2>1. /\ serve[d] \in {"mux", "open"} /\ \E p \in {"open", "closed"} : serve' = [serve EXCEPT ![d] = p]
          /\ UNCHANGED << dial, ckey, skey >>
        BY <1>11 DEF ListenerMux, CloseListener, OnlyThis
    <2> QED
        BY <1>0, <1>6, <2>1
<1>12. ASSUME NEW d \in Dials, ListenerSeesClose(d) PROVE KeysSound'
    BY <1>7, <1>12 DEF ListenerSeesClose
<1>13. ASSUME UNCHANGED << dial, serve, ckey, skey >> PROVE KeysSound'
    BY <1>13
<1>14. ASSUME NEW e \in Ends, NEW n \in Numbers, Counted(e, n) PROVE KeysSound'
    BY <1>13, <1>14 DEF Counted, CloneConn, DropConn, NewStream, DropStream
<1>15. ASSUME Tick PROVE KeysSound'
    BY <1>13, <1>15 DEF Tick
<1>16. ASSUME NEW k \in Kinds, AcceptFails(k) PROVE KeysSound'
    <2>1. UNCHANGED << dial, ckey, skey >> /\ \A c \in Dials : serve'[c] \in {serve[c], "reset"}
        BY <1>0, <1>16 DEF AcceptFails, LoopEnds
    <2> QED
        BY <2>1
<1> QED
    BY <1>2, <1>3, <1>4, <1>5, <1>8, <1>9, <1>10, <1>11, <1>12, <1>14, <1>15, <1>16 DEF Next, Dialer, Listener

-----------------------------------------------------------------------------
(* What a refusal means. *)

\* The dialer refuses what it cannot verify, and the certificate stays.
LEMMA DialerRefuses ==
    ASSUME PlainTypes, CertsSound, InStep, QueueSound, Next, NEW c \in Dials, dial'[c] = "refused"
    PROVE  /\ scert'[c] = scert[c]
           /\ dial[c] = "refused" \/ Verify(scert[c], DialerClock(c)) = NoKey
<1>0. /\ dial = [x \in Dials |-> dial[x]]
      /\ scert = [x \in Dials |-> scert[x]]
    BY DEF PlainTypes, CertsSound
<1>1. ASSUME NEW d \in Dials,
             Start(d) \/ ConnectTcp(d) \/ ConnectQuic(d) \/ ConnectRelay(d) \/ ConnectFails(d)
                 \/ DialerSeesClose(d) \/ DialTimeout(d) \/ CloseDialer(d)
      PROVE  dial[c] = "refused" /\ scert' = scert
    BY <1>0, <1>1 DEF Start, ConnectTcp, ConnectQuic, ConnectRelay, Propose, ConnectFails,
                      DialerSeesClose, DialTimeout, CloseDialer, certVars
<1>2. ASSUME NEW d \in Dials, DialerVerify(d) \/ DialerRecord(d) \/ DialerMux(d)
      PROVE  scert' = scert /\ (dial[c] = "refused" \/ Verify(scert[c], DialerClock(c)) = NoKey)
    BY <1>0, <1>2 DEF DialerVerify, DialerRecord, DialerMux, certVars
<1>3. ASSUME NEW d \in Dials, AcceptTcp(d) \/ AnswerQuic(d) \/ AcceptStop(d)
      PROVE  dial[c] = "refused" /\ scert'[c] = scert[c]
    <2>1. dial[c] = "refused" /\ Answered(c)
        BY <1>3 DEF AcceptTcp, AnswerQuic, AcceptStop, InStep
    <2>2. serve[d] \in {"none", "queued", "stop"}
        <3>1. CASE AcceptTcp(d)
            <4>1. d = backlog[1] /\ 1 \in 1..Len(backlog)
                BY <3>1 DEF AcceptTcp, PlainTypes
            <4> QED
                BY <4>1 DEF QueueSound
        <3>2. CASE AnswerQuic(d) \/ AcceptStop(d)
            BY <3>2 DEF AnswerQuic, AcceptStop
        <3> QED
            BY <1>3, <3>1, <3>2
    <2>3. c # d
        BY <2>1, <2>2 DEF Answered
    <2> QED
        BY <1>0, <1>3, <2>1, <2>3 DEF AcceptTcp, AnswerQuic, AcceptStop
<1>4. ASSUME NEW d \in Dials,
             AskRelay(d) \/ SkipSocket(d) \/ ListenerVerify(d) \/ ListenerRecord(d) \/ ListenerMux(d)
                 \/ ListenerSeesClose(d) \/ CloseListener(d)
      PROVE  dial' = dial /\ scert' = scert
    BY <1>4 DEF AskRelay, SkipSocket, ListenerVerify, ListenerRecord, ListenerMux,
                ListenerSeesClose, CloseListener, certVars
<1>5. ASSUME NEW e \in Ends, NEW n \in Numbers, Counted(e, n) PROVE dial' = dial /\ scert' = scert
    BY <1>5 DEF Counted, CloneConn, DropConn, NewStream, DropStream, certVars
<1>6. ASSUME Tick \/ \E k \in Kinds : AcceptFails(k) PROVE dial' = dial /\ scert' = scert
    BY <1>6 DEF Tick, AcceptFails, certVars
<1> QED
    BY <1>1, <1>2, <1>3, <1>4, <1>5, <1>6 DEF Next, Dialer, Listener

\* The listener too.
LEMMA ListenerRefuses ==
    ASSUME PlainTypes, CertsSound, InStep, Next, NEW c \in Dials, serve'[c] = "refused"
    PROVE  /\ ccert'[c] = ccert[c]
           /\ \/ serve[c] = "refused"
              \/ sent[c] # "nothing" /\ Verify(ccert[c], now) = NoKey
<1>0. /\ serve = [x \in Dials |-> serve[x]]
      /\ ccert = [x \in Dials |-> ccert[x]]
    BY DEF PlainTypes, CertsSound
<1>1. ASSUME NEW d \in Dials, ConnectTcp(d) \/ ConnectQuic(d) \/ ConnectRelay(d)
      PROVE  serve[c] = "refused" /\ ccert'[c] = ccert[c]
    <2>1. serve[c] = "refused"
        BY <1>0, <1>1 DEF ConnectTcp, ConnectQuic, ConnectRelay
    <2>2. c # d
        BY <1>1, <2>1 DEF ConnectTcp, ConnectQuic, ConnectRelay, Propose, InStep
    <2> QED
        BY <1>0, <1>1, <2>1, <2>2 DEF ConnectTcp, ConnectQuic, ConnectRelay, Propose
<1>2. ASSUME NEW d \in Dials,
             AskRelay(d) \/ AcceptTcp(d) \/ SkipSocket(d) \/ AnswerQuic(d) \/ AcceptStop(d)
                 \/ ListenerMux(d) \/ CloseListener(d)
      PROVE  serve[c] = "refused" /\ ccert' = ccert
    BY <1>0, <1>2 DEF AskRelay, AcceptTcp, SkipSocket, AnswerQuic, AcceptStop, ListenerMux, OnlyThis,
                      CloseListener, certVars
<1>3. ASSUME NEW d \in Dials, NEW outcome \in {"refused", "failed"}, ListenerFails(d, outcome)
      PROVE  serve[c] = "refused" \/ (c = d /\ outcome = "refused")
    <2>1. CASE LoopEnds(Kind[d], {d}, outcome)
        BY <1>0, <2>1 DEF LoopEnds
    <2>2. CASE OnlyThis(d, outcome)
        BY <1>0, <2>2 DEF OnlyThis
    <2> QED
        BY <1>3, <2>1, <2>2 DEF ListenerFails
<1>4. ASSUME NEW d \in Dials, ListenerVerify(d)
      PROVE  /\ ccert' = ccert
             /\ serve[c] = "refused" \/ (sent[c] # "nothing" /\ Verify(ccert[c], now) = NoKey)
    <2>1. CASE Verify(ccert[d], now) = NoKey
        BY <1>3, <1>4, <2>1 DEF ListenerVerify, certVars
    <2>2. CASE Verify(ccert[d], now) # NoKey
        BY <1>0, <1>4, <2>2 DEF ListenerVerify, OnlyThis, certVars
    <2> QED
        BY <2>1, <2>2
<1>5. ASSUME NEW d \in Dials, ListenerRecord(d)
      PROVE  /\ ccert' = ccert
             /\ serve[c] = "refused" \/ (sent[c] # "nothing" /\ Verify(ccert[c], now) = NoKey)
    <2>1. sent[d] # "nothing" /\ ccert' = ccert
        BY <1>5 DEF ListenerRecord, InStep, certVars
    <2>2. CASE Verify(ccert[d], now) = NoKey
        <3>1. ListenerFails(d, "refused")
            BY <1>5, <2>2, Zenon DEF ListenerRecord
        <3> QED
            BY <1>3, <2>1, <2>2, <3>1
    <2>3. CASE Verify(ccert[d], now) # NoKey
        <3>1. OnlyThis(d, "mux") \/ OnlyThis(d, "open")
            BY <1>5, <2>3, Zenon DEF ListenerRecord
        <3> QED
            BY <1>0, <2>1, <3>1 DEF OnlyThis
    <2> QED
        BY <2>2, <2>3
<1>6. ASSUME NEW d \in Dials, ListenerSeesClose(d) PROVE serve[c] = "refused" /\ ccert' = ccert
    BY <1>3, <1>6 DEF ListenerSeesClose, certVars
<1>7. ASSUME NEW d \in Dials,
             Start(d) \/ ConnectFails(d) \/ DialerVerify(d) \/ DialerRecord(d) \/ DialerMux(d)
                 \/ DialerSeesClose(d) \/ DialTimeout(d) \/ CloseDialer(d)
      PROVE  serve' = serve /\ ccert' = ccert
    BY <1>7 DEF Start, ConnectFails, DialerVerify, DialerRecord, DialerMux, DialerSeesClose,
                DialTimeout, CloseDialer, certVars
<1>8. ASSUME NEW e \in Ends, NEW n \in Numbers, Counted(e, n) PROVE serve' = serve /\ ccert' = ccert
    BY <1>8 DEF Counted, CloneConn, DropConn, NewStream, DropStream, certVars
<1>9. ASSUME Tick PROVE serve' = serve /\ ccert' = ccert
    BY <1>9 DEF Tick, certVars
<1>10. ASSUME NEW k \in Kinds, AcceptFails(k) PROVE serve[c] = "refused" /\ ccert' = ccert
    BY <1>0, <1>10 DEF AcceptFails, LoopEnds, certVars
<1> QED
    BY <1>1, <1>2, <1>4, <1>5, <1>6, <1>7, <1>8, <1>9, <1>10 DEF Next, Dialer, Listener

\* A step refuses a certificate of generate only when it is stale.
LEMMA StaleStep ==
    ASSUME PlainTypes, CertsSound, InStep, QueueSound, RefusedOnlyStale, Next
    PROVE  RefusedOnlyStale'
<1>1. ASSUME NEW d \in Dials, dial'[d] = "refused"
      PROVE  DialerClock(d)' > scert'[d].notBefore + Lifetime - TicksPerSecond
    <2>1. PICK k \in {Local} \union Sides \X Dials, t \in 0..now : scert[d] = Generate(Local, k, t)
        BY DEF CertsSound, OwnCert
    <2>2. t \in Nat /\ DialerClock(d) \in Nat /\ t <= DialerClock(d) /\ Local # NoKey
        BY DEF PlainTypes, DialerClock, Hosts
    <2>3. scert[d].notBefore \in Nat
        BY <2>1, <2>2, ToSecondBounds DEF Generate
    <2>4. DialerClock(d) > scert[d].notBefore + Lifetime - TicksPerSecond
        BY <1>1, <2>1, <2>2, DialerRefuses, RefusedIsStale DEF RefusedOnlyStale
    <2>5. DialerClock(d)' >= DialerClock(d) /\ DialerClock(d)' \in Nat
        BY TimeStep DEF DialerClock
    <2> QED
        BY <1>1, <2>2, <2>3, <2>4, <2>5, DialerRefuses
<1>2. ASSUME NEW d \in Dials, serve'[d] = "refused", d \notin ForeignDials, Ahead[d] = 0
      PROVE  now' > ccert'[d].notBefore + Lifetime - TicksPerSecond
    <2>1. DialerCert(d, ccert[d], now)
        BY <1>2, ListenerRefuses DEF CertsSound, HasPresented, InStep
    <2>2. PICK t \in 0..(now + Ahead[d]) : ccert[d] = Generate(Host[d], CertKey("dialer", d), t)
        BY <1>2, <2>1 DEF DialerCert, Presented
    <2>3. now \in Nat /\ t \in Nat /\ t <= now /\ Host[d] # NoKey
        BY <1>2 DEF PlainTypes, Hosts
    <2>4. ccert[d].notBefore \in Nat
        BY <2>2, <2>3, ToSecondBounds DEF Generate
    <2>5. now > ccert[d].notBefore + Lifetime - TicksPerSecond
        BY <1>2, <2>2, <2>3, ListenerRefuses, RefusedIsStale DEF RefusedOnlyStale
    <2> QED
        BY <1>2, <2>3, <2>4, <2>5, ListenerRefuses, TimeStep
<1> QED
    BY <1>1, <1>2 DEF RefusedOnlyStale, DialerClock

-----------------------------------------------------------------------------
(* Nobody waits at a listener that has ended. *)

\* A dial of p at d, where every other is what it was.
LEMMA WaitsAlone ==
    ASSUME PlainTypes, WaitSound, NoneLeftWaiting, NEW d \in Dials, NEW p,
           serve' = [serve EXCEPT ![d] = p], UNCHANGED listening,
           p \in Serving => listening[Kind[d]],
           p = "queued" => Kind[d] = "tcp",
           p = "stop" => Kind[d] = "relay",
           p = "mux" => Stream(d),
           p \in ServeHandshaking /\ Kind[d] = "tcp" => serve[d] \in ServeHandshaking \/ ~Accepting
    PROVE  WaitSound' /\ NoneLeftWaiting'
<1>1. serve'[d] = p /\ \A c \in Dials \ {d} : serve'[c] = serve[c]
    BY DEF PlainTypes
<1>2. NoneLeftWaiting'
    BY <1>1 DEF NoneLeftWaiting
<1>3. \A c \in Dials : WaitsWell(c)'
    BY <1>1 DEF WaitSound, WaitsWell, Stream
<1>4. ASSUME NEW b \in Dials, NEW c \in Dials, InAccept(b)', InAccept(c)', b # c
      PROVE  FALSE
    <2>1. CASE b # d /\ c # d
        BY <1>1, <1>4, <2>1 DEF WaitSound, InAccept
    <2>2. ASSUME NEW a \in Dials \ {d}, InAccept(a)', InAccept(d)' PROVE FALSE
        BY <1>1, <2>2 DEF WaitSound, InAccept, Accepting
    <2> QED
        BY <1>4, <2>1, <2>2
<1> QED
    BY <1>2, <1>3, <1>4 DEF WaitSound

\* The end of a loop leaves nobody of its transport in service.
LEMMA LoopEndsForAll ==
    ASSUME PlainTypes, WaitSound, NoneLeftWaiting, NEW k \in {"tcp", "quic"}, NEW failed, NEW outcome,
           LoopEnds(k, failed, outcome), outcome \notin Serving,
           \A c \in Dials : InAccept(c) /\ k = "tcp" => c \in failed
    PROVE  WaitSound' /\ NoneLeftWaiting'
<1>1. /\ listening' = [listening EXCEPT ![k] = FALSE]
      /\ \A c \in Dials : serve'[c] = serve[c] \/ serve'[c] \notin Serving
    BY DEF LoopEnds, Serving, ServeHandshaking
<1>2. listening'["relay"] /\ \A x \in Kinds \ {k} : listening'[x] = listening[x]
    BY <1>1 DEF PlainTypes, WaitSound, Kinds
<1>3. ASSUME NEW c \in Dials, Kind[c] = k PROVE serve'[c] \notin Serving
    <2>1. CASE c \in failed \/ c \in NotTaken(k)
        BY <2>1 DEF LoopEnds, Serving, ServeHandshaking
    <2>2. CASE c \notin failed /\ c \notin NotTaken(k)
        <3>1. serve'[c] = serve[c] /\ serve[c] \notin {"queued", "hello", "verified"}
            BY <1>3, <2>2 DEF LoopEnds, NotTaken
        <3>2. serve[c] # "stop"
            BY <1>3 DEF WaitSound, WaitsWell
        <3>3. serve[c] # "mux"
            BY <1>3, <2>2 DEF WaitSound, WaitsWell, InAccept, Stream, ServeHandshaking
        <3> QED
            BY <3>1, <3>2, <3>3 DEF Serving, ServeHandshaking
    <2> QED
        BY <2>1, <2>2
<1>4. NoneLeftWaiting'
    <2>1. \A c \in Dials : Kind[c] \in Kinds
        OBVIOUS
    <2> QED
        BY <1>1, <1>2, <1>3, <2>1 DEF NoneLeftWaiting
<1>5. \A c \in Dials : WaitsWell(c)'
    BY <1>1 DEF WaitSound, WaitsWell, Stream, Serving, ServeHandshaking
<1>6. \A b, c \in Dials : InAccept(b)' /\ InAccept(c)' => b = c
    BY <1>1 DEF WaitSound, InAccept, Serving
<1> QED
    BY <1>2, <1>4, <1>5, <1>6 DEF WaitSound

\* Who comes to wait comes to a listener that runs, and a listener that ends
\* takes those who wait with it.
LEMMA WaitStep ==
    ASSUME PlainTypes, InStep, QueueSound, WaitSound, NoneLeftWaiting, Next
    PROVE  WaitSound' /\ NoneLeftWaiting'
<1>1. ASSUME UNCHANGED << serve, listening >> PROVE WaitSound' /\ NoneLeftWaiting'
    BY <1>1 DEF WaitSound, WaitsWell, InAccept, NoneLeftWaiting
<1>2. ASSUME NEW d \in Dials, NEW outcome \in {"refused", "failed"}, ListenerFails(d, outcome),
             serve[d] \in ServeHandshaking \union {"stop"}
      PROVE  WaitSound' /\ NoneLeftWaiting'
    <2>0. outcome \notin Serving
        BY DEF Serving, ServeHandshaking
    <2>1. CASE LoopEnds(Kind[d], {d}, outcome) /\ Kind[d] \in {"tcp", "quic"}
        <3>1. ASSUME NEW c \in Dials, InAccept(c), Kind[d] = "tcp" PROVE c = d
            BY <1>2, <3>1 DEF WaitSound, WaitsWell, InAccept
        <3> QED
            BY <2>0, <2>1, <3>1, LoopEndsForAll
    <2>2. CASE OnlyThis(d, outcome)
        BY <2>0, <2>2, WaitsAlone DEF OnlyThis, Serving, ServeHandshaking
    <2> QED
        BY <1>2, <2>1, <2>2 DEF ListenerFails
<1>3. ASSUME NEW d \in Dials, ConnectTcp(d) PROVE WaitSound' /\ NoneLeftWaiting'
    <2>1. /\ serve' = [serve EXCEPT ![d] = "queued"] /\ UNCHANGED listening
          /\ Kind[d] = "tcp" /\ listening["tcp"]
        BY <1>3 DEF ConnectTcp
    <2> QED
        BY <2>1, WaitsAlone DEF ServeHandshaking
<1>4. ASSUME NEW d \in Dials, AcceptTcp(d) \/ SkipSocket(d) PROVE WaitSound' /\ NoneLeftWaiting'
    <2>1. d = backlog[1] /\ 1 \in 1..Len(backlog)
        BY <1>4 DEF AcceptTcp, SkipSocket, PlainTypes
    <2>2. Kind[d] = "tcp"
        BY <2>1 DEF QueueSound
    <2>3. /\ UNCHANGED listening /\ listening["tcp"] /\ ~Accepting
          /\ \E p \in {"hello", "reset"} : serve' = [serve EXCEPT ![d] = p]
        BY <1>4 DEF AcceptTcp, SkipSocket
    <2> QED
        BY <2>2, <2>3, WaitsAlone
<1>5. ASSUME NEW d \in Dials, AskRelay(d) \/ AcceptStop(d) PROVE WaitSound' /\ NoneLeftWaiting'
    <2>1. Kind[d] = "relay"
        BY <1>5 DEF AskRelay, AcceptStop, WaitSound, WaitsWell
    <2>2. /\ UNCHANGED listening /\ listening["relay"]
          /\ \E p \in {"stop", "hello"} : serve' = [serve EXCEPT ![d] = p]
        BY <1>5 DEF AskRelay, AcceptStop, WaitSound
    <2> QED
        BY <2>1, <2>2, WaitsAlone
<1>6. ASSUME NEW d \in Dials, AnswerQuic(d) PROVE WaitSound' /\ NoneLeftWaiting'
    <2>1. /\ Kind[d] = "quic" /\ listening["quic"] /\ UNCHANGED listening
          /\ serve' = [serve EXCEPT ![d] = "hello"]
        BY <1>6 DEF AnswerQuic
    <2> QED
        BY <2>1, WaitsAlone
<1>7. ASSUME NEW d \in Dials, NEW p \in {"verified", "mux", "open"}, OnlyThis(d, p),
             serve[d] \in ServeHandshaking, p = "mux" => Stream(d)
      PROVE  WaitSound' /\ NoneLeftWaiting'
    <2>1. listening[Kind[d]]
        BY <1>7 DEF NoneLeftWaiting, Serving
    <2> QED
        BY <1>7, <2>1, WaitsAlone DEF OnlyThis
<1>8. ASSUME NEW d \in Dials, ListenerMux(d) PROVE WaitSound' /\ NoneLeftWaiting'
    BY <1>7, <1>8 DEF ListenerMux, ServeHandshaking
<1>9. ASSUME NEW d \in Dials, CloseListener(d) PROVE WaitSound' /\ NoneLeftWaiting'
    BY <1>9, WaitsAlone DEF CloseListener, Serving, ServeHandshaking
<1>10. ASSUME NEW d \in Dials, ListenerVerify(d) PROVE WaitSound' /\ NoneLeftWaiting'
    BY <1>2, <1>7, <1>10 DEF ListenerVerify, ServeHandshaking
<1>11. ASSUME NEW d \in Dials, ListenerRecord(d) PROVE WaitSound' /\ NoneLeftWaiting'
    <2>1. serve[d] \in ServeHandshaking
        BY <1>11 DEF ListenerRecord, ServeHandshaking
    <2>2. \/ ListenerFails(d, "refused")
          \/ OnlyThis(d, "mux") /\ Stream(d)
          \/ OnlyThis(d, "open")
        BY <1>11, Zenon DEF ListenerRecord
    <2> QED
        BY <1>2, <1>7, <2>1, <2>2
<1>12. ASSUME NEW d \in Dials, ListenerSeesClose(d) PROVE WaitSound' /\ NoneLeftWaiting'
    BY <1>2, <1>12 DEF ListenerSeesClose
<1>13. ASSUME NEW k \in Kinds, AcceptFails(k) PROVE WaitSound' /\ NoneLeftWaiting'
    <2>1. k \in {"tcp", "quic"} /\ LoopEnds(k, {}, "reset") /\ (k = "tcp" => ~Accepting)
        BY <1>13 DEF AcceptFails
    <2>2. "reset" \notin Serving
        BY DEF Serving, ServeHandshaking
    <2>3. \A c \in Dials : InAccept(c) /\ k = "tcp" => c \in {}
        BY <2>1 DEF Accepting, InAccept
    <2> QED
        BY <2>1, <2>2, <2>3, LoopEndsForAll
<1>14. ASSUME NEW d \in Dials,
              Start(d) \/ ConnectQuic(d) \/ ConnectRelay(d) \/ ConnectFails(d) \/ DialerVerify(d)
                  \/ DialerRecord(d) \/ DialerMux(d) \/ DialerSeesClose(d) \/ DialTimeout(d) \/ CloseDialer(d)
       PROVE  UNCHANGED << serve, listening >>
    BY <1>14 DEF Start, ConnectQuic, ConnectRelay, ConnectFails, DialerVerify, DialerRecord,
                 DialerMux, DialerSeesClose, DialTimeout, CloseDialer
<1>15. ASSUME NEW e \in Ends, NEW n \in Numbers, Counted(e, n) PROVE UNCHANGED << serve, listening >>
    BY <1>15 DEF Counted, CloneConn, DropConn, NewStream, DropStream
<1>16. ASSUME Tick PROVE UNCHANGED << serve, listening >>
    BY <1>16 DEF Tick
<1> QED
    BY <1>1, <1>3, <1>4, <1>5, <1>6, <1>8, <1>9, <1>10, <1>11, <1>12, <1>13, <1>14, <1>15, <1>16
    DEF Next, Dialer, Listener

-----------------------------------------------------------------------------
(* The counters. *)

HandlesOf(h, k) == {x \in handles : HostOf(x[1]) = h /\ Kind[x[1][2]] = k}
StreamsOf(e)    == {x \in streams : x[1] = e}

\* What a set loses in size with a member.
LEMMA RemoveCounts ==
    ASSUME NEW S, NEW x \in S, IsFiniteSet(S)
    PROVE  Cardinality(S \ {x}) = Cardinality(S) - 1 /\ Cardinality(S \ {x}) \in Nat
<1>1. IsFiniteSet(S \ {x})
    BY FS_RemoveElement
<1>2. Cardinality(S \ {x}) = Cardinality(S) - 1
    BY FS_RemoveElement
<1> QED
    BY <1>1, <1>2, FS_CardinalityType

\* A new handle adds one to the counter of its transport.
LEMMA MadeCounts ==
    ASSUME PlainTypes, CountersTyped, HandlesSound, CountersExact,
           NEW e \in Ends, NEW n \in Numbers, << e, n >> \notin handles, Made(e, n),
           UNCHANGED << streams, actives >>
    PROVE  CountersTyped' /\ CountersExact' /\ IsFiniteSet(handles')
<1>1. IsFiniteSet(handles')
    BY FS_AddElement DEF HandlesSound, Made
<1>2. << HostOf(e), Kind[e[2]] >> \in Hosts \X Kinds
    BY DEF Ends, Sides, HostOf, Hosts
<1>3. ASSUME NEW h \in Hosts, NEW k \in Kinds
      PROVE  activities'[<< h, k >>] \in Nat /\ activities'[<< h, k >>] = Cardinality(HandlesOf(h, k)')
    <2>1. IsFiniteSet(HandlesOf(h, k)) /\ Cardinality(HandlesOf(h, k)) \in Nat
        BY FS_Subset, FS_CardinalityType DEF HandlesSound, HandlesOf
    <2>2. activities[<< h, k >>] = Cardinality(HandlesOf(h, k))
        BY DEF CountersExact, HandlesOf
    <2>3. CASE h = HostOf(e) /\ k = Kind[e[2]]
        <3>1. HandlesOf(h, k)' = HandlesOf(h, k) \union {<< e, n >>} /\ << e, n >> \notin HandlesOf(h, k)
            BY <2>3 DEF HandlesOf, Made
        <3>2. activities'[<< h, k >>] = activities[<< h, k >>] + 1
            BY <1>2, <2>3 DEF Made, CountersTyped
        <3>3. Cardinality(HandlesOf(h, k) \union {<< e, n >>}) = Cardinality(HandlesOf(h, k)) + 1
            BY <2>1, <3>1, FS_AddElement
        <3>4. Cardinality(HandlesOf(h, k)') = Cardinality(HandlesOf(h, k)) + 1
            BY <3>1, <3>3, Zenon
        <3> QED
            BY <2>1, <2>2, <3>2, <3>4
    <2>4. CASE ~(h = HostOf(e) /\ k = Kind[e[2]])
        <3>1. HandlesOf(h, k)' = HandlesOf(h, k)
            BY <2>4 DEF HandlesOf, Made
        <3>2. activities'[<< h, k >>] = activities[<< h, k >>]
            BY <2>4 DEF Made, CountersTyped
        <3> QED
            BY <2>1, <2>2, <3>1, <3>2
    <2> QED
        BY <2>3, <2>4
<1>4. activities' \in [Hosts \X Kinds -> Nat]
    BY <1>2, <1>3 DEF Made, CountersTyped
<1> QED
    BY <1>1, <1>3, <1>4 DEF CountersTyped, CountersExact, HandlesOf

\* A drop takes one off, which there is.
LEMMA DropCounts ==
    ASSUME PlainTypes, CountersTyped, HandlesSound, CountersExact,
           NEW e \in Ends, NEW n \in Numbers, DropConn(e, n)
    PROVE  CountersTyped' /\ CountersExact' /\ IsFiniteSet(handles')
<1> USE DEF DropConn
<1>1. IsFiniteSet(handles')
    BY FS_RemoveElement DEF HandlesSound
<1>2. << HostOf(e), Kind[e[2]] >> \in Hosts \X Kinds
    BY DEF Ends, Sides, HostOf, Hosts
<1>3. ASSUME NEW h \in Hosts, NEW k \in Kinds
      PROVE  activities'[<< h, k >>] \in Nat /\ activities'[<< h, k >>] = Cardinality(HandlesOf(h, k)')
    <2>1. IsFiniteSet(HandlesOf(h, k)) /\ Cardinality(HandlesOf(h, k)) \in Nat
        BY FS_Subset, FS_CardinalityType DEF HandlesSound, HandlesOf
    <2>2. activities[<< h, k >>] = Cardinality(HandlesOf(h, k))
        BY DEF CountersExact, HandlesOf
    <2>3. CASE h = HostOf(e) /\ k = Kind[e[2]]
        <3>1. HandlesOf(h, k)' = HandlesOf(h, k) \ {<< e, n >>} /\ << e, n >> \in HandlesOf(h, k)
            BY <2>3 DEF HandlesOf
        <3>2. activities'[<< h, k >>] = activities[<< h, k >>] - 1
            BY <1>2, <2>3 DEF CountersTyped
        <3>3. /\ Cardinality(HandlesOf(h, k) \ {<< e, n >>}) = Cardinality(HandlesOf(h, k)) - 1
              /\ Cardinality(HandlesOf(h, k) \ {<< e, n >>}) \in Nat
            BY <2>1, <3>1, RemoveCounts
        <3>4. /\ Cardinality(HandlesOf(h, k)') = Cardinality(HandlesOf(h, k)) - 1
              /\ Cardinality(HandlesOf(h, k)') \in Nat
            BY <3>1, <3>3, Zenon
        <3> QED
            BY <2>2, <3>2, <3>4
    <2>4. CASE ~(h = HostOf(e) /\ k = Kind[e[2]])
        <3>1. HandlesOf(h, k)' = HandlesOf(h, k)
            BY <2>4 DEF HandlesOf
        <3>2. activities'[<< h, k >>] = activities[<< h, k >>]
            BY <2>4 DEF CountersTyped
        <3> QED
            BY <2>1, <2>2, <3>1, <3>2
    <2> QED
        BY <2>3, <2>4
<1>4. activities' \in [Hosts \X Kinds -> Nat]
    BY <1>2, <1>3 DEF CountersTyped
<1> QED
    BY <1>1, <1>3, <1>4 DEF CountersTyped, CountersExact, HandlesOf

\* Streams are counted the same way, by their connection.
LEMMA StreamCounts ==
    ASSUME PlainTypes, CountersTyped, HandlesSound, CountersExact,
           NEW e \in Ends, NEW n \in Numbers, NewStream(e, n) \/ DropStream(e, n)
    PROVE  CountersTyped' /\ CountersExact' /\ IsFiniteSet(streams')
<1>0. UNCHANGED << handles, activities >>
    BY DEF NewStream, DropStream
<1>1. ASSUME NEW c \in Ends
      PROVE  IsFiniteSet(StreamsOf(c)) /\ Cardinality(StreamsOf(c)) \in Nat /\ actives[c] = Cardinality(StreamsOf(c))
    BY FS_Subset, FS_CardinalityType DEF HandlesSound, CountersExact, StreamsOf
<1>2. CASE NewStream(e, n)
    <2>1. ASSUME NEW c \in Ends PROVE actives'[c] \in Nat /\ actives'[c] = Cardinality(StreamsOf(c)')
        <3>1. CASE c = e
            <4>1. StreamsOf(c)' = StreamsOf(c) \union {<< e, n >>} /\ << e, n >> \notin StreamsOf(c)
                BY <1>2, <3>1 DEF NewStream, StreamsOf
            <4>2. actives'[c] = actives[c] + 1
                BY <1>2, <3>1 DEF NewStream, CountersTyped
            <4>3. Cardinality(StreamsOf(c) \union {<< e, n >>}) = Cardinality(StreamsOf(c)) + 1
                BY <1>1, <4>1, FS_AddElement
            <4>4. Cardinality(StreamsOf(c)') = Cardinality(StreamsOf(c)) + 1
                BY <4>1, <4>3, Zenon
            <4> QED
                BY <1>1, <4>2, <4>4
        <3>2. CASE c # e
            <4>1. StreamsOf(c)' = StreamsOf(c)
                BY <1>2, <3>2 DEF NewStream, StreamsOf
            <4>2. actives'[c] = actives[c]
                BY <1>2, <3>2 DEF NewStream, CountersTyped
            <4> QED
                BY <1>1, <4>1, <4>2
        <3> QED
            BY <3>1, <3>2
    <2>2. actives' \in [Ends -> Nat] /\ IsFiniteSet(streams')
        BY <1>2, <2>1, FS_AddElement DEF NewStream, CountersTyped, HandlesSound
    <2> QED
        BY <1>0, <2>1, <2>2 DEF CountersTyped, CountersExact, StreamsOf
<1>3. CASE DropStream(e, n)
    <2>1. ASSUME NEW c \in Ends PROVE actives'[c] \in Nat /\ actives'[c] = Cardinality(StreamsOf(c)')
        <3>1. CASE c = e
            <4>1. StreamsOf(c)' = StreamsOf(c) \ {<< e, n >>} /\ << e, n >> \in StreamsOf(c)
                BY <1>3, <3>1 DEF DropStream, StreamsOf
            <4>2. actives'[c] = actives[c] - 1
                BY <1>3, <3>1 DEF DropStream, CountersTyped
            <4>3. /\ Cardinality(StreamsOf(c) \ {<< e, n >>}) = Cardinality(StreamsOf(c)) - 1
                  /\ Cardinality(StreamsOf(c) \ {<< e, n >>}) \in Nat
                BY <1>1, <4>1, RemoveCounts
            <4>4. /\ Cardinality(StreamsOf(c)') = Cardinality(StreamsOf(c)) - 1
                  /\ Cardinality(StreamsOf(c)') \in Nat
                BY <4>1, <4>3, Zenon
            <4> QED
                BY <1>1, <4>2, <4>4
        <3>2. CASE c # e
            <4>1. StreamsOf(c)' = StreamsOf(c)
                BY <1>3, <3>2 DEF DropStream, StreamsOf
            <4>2. actives'[c] = actives[c]
                BY <1>3, <3>2 DEF DropStream, CountersTyped
            <4> QED
                BY <1>1, <4>1, <4>2
        <3> QED
            BY <3>1, <3>2
    <2>2. actives' \in [Ends -> Nat] /\ IsFiniteSet(streams')
        BY <1>3, <2>1, FS_RemoveElement DEF DropStream, CountersTyped, HandlesSound
    <2> QED
        BY <1>0, <2>1, <2>2 DEF CountersTyped, CountersExact, StreamsOf
<1> QED
    BY <1>2, <1>3

\* The end has been open.
WasOpen(e) == IF e[1] = "dialer" THEN dial[e[2]] \in {"open", "closed"}
                                 ELSE serve[e[2]] \in {"open", "closed"}

\* It stays so.
LEMMA OpenStays ==
    ASSUME PlainTypes, InStep, QueueSound, Next
    PROVE  \A d \in Dials :
               /\ dial[d] \in {"open", "closed"} => dial'[d] \in {"open", "closed"}
               /\ serve[d] \in {"open", "closed"} => serve'[d] \in {"open", "closed"}
<1>0. /\ dial = [c \in Dials |-> dial[c]]
      /\ serve = [c \in Dials |-> serve[c]]
    BY DEF PlainTypes
<1>1. ASSUME NEW d \in Dials, Dialer(d), NEW c \in Dials
      PROVE  /\ dial[c] \in {"open", "closed"} => dial'[c] \in {"open", "closed"}
             /\ serve[c] \in {"open", "closed"} => serve'[c] \in {"open", "closed"}
    <2>1. CASE ConnectTcp(d) \/ AskRelay(d)
        BY <1>0, <2>1 DEF ConnectTcp, AskRelay, Propose, InStep
    <2>2. CASE ~(ConnectTcp(d) \/ AskRelay(d))
        <3>1. serve' = serve
            BY <1>1, <2>2 DEF Dialer, Start, ConnectQuic, ConnectRelay, ConnectFails, DialerVerify,
                DialerRecord, DialerMux, DialerSeesClose, DialTimeout, CloseDialer
        <3>2. \E p \in Dialling \union DialOver \union {"open"} :
                  /\ dial' = [dial EXCEPT ![d] = p]
                  /\ dial[d] = "open" => p = "closed"
                  /\ dial[d] # "closed"
            BY <1>1, <2>2 DEF Dialer, Start, ConnectQuic, ConnectRelay, ConnectFails, DialerVerify, Propose,
                DialerRecord, DialerMux, DialerSeesClose, DialTimeout, CloseDialer, Dialling, DialHandshaking, DialOver
        <3> QED
            BY <1>0, <3>1, <3>2
    <2> QED
        BY <2>1, <2>2
<1>2. ASSUME NEW d \in Dials, Listener(d), NEW c \in Dials
      PROVE  /\ dial[c] \in {"open", "closed"} => dial'[c] \in {"open", "closed"}
             /\ serve[c] \in {"open", "closed"} => serve'[c] \in {"open", "closed"}
    <2>1. dial' = dial
        BY <1>2 DEF Listener, AcceptTcp, SkipSocket, AnswerQuic, AcceptStop, ListenerVerify,
            ListenerRecord, ListenerMux, ListenerSeesClose, CloseListener
    <2>2. AcceptTcp(d) \/ SkipSocket(d) => serve[d] = "queued"
        <3>1. ASSUME AcceptTcp(d) \/ SkipSocket(d) PROVE d = backlog[1] /\ 1 \in 1..Len(backlog)
            BY <3>1 DEF AcceptTcp, SkipSocket, PlainTypes
        <3> QED
            BY <3>1 DEF QueueSound
    <2>3. serve[d] = "open" \/ serve[d] = "closed" => CloseListener(d)
        BY <1>2, <2>2 DEF Listener, AnswerQuic, AcceptStop, ListenerVerify, ListenerRecord, ListenerMux,
            ListenerSeesClose, ServeHandshaking
    <2>4. CASE CloseListener(d)
        BY <1>0, <2>1, <2>4 DEF CloseListener
    <2>5. CASE serve[d] \notin {"open", "closed"} /\ ~CloseListener(d)
        <3>1. serve[c] \in {"open", "closed"} => serve'[c] = serve[c]
            <4>1. CASE AcceptTcp(d) \/ SkipSocket(d) \/ AnswerQuic(d) \/ AcceptStop(d) \/ ListenerMux(d)
                BY <1>0, <2>5, <4>1 DEF AcceptTcp, SkipSocket, AnswerQuic, AcceptStop, ListenerMux, OnlyThis
            <4>2. ASSUME NEW outcome, ListenerFails(d, outcome) \/ OnlyThis(d, outcome)
                  PROVE  serve[c] \in {"open", "closed"} => serve'[c] = serve[c]
                BY <1>0, <2>5, <4>2 DEF ListenerFails, OnlyThis, LoopEnds, NotTaken
            <4>3. CASE ListenerVerify(d) \/ ListenerSeesClose(d)
                BY <4>2, <4>3 DEF ListenerVerify, ListenerSeesClose
            <4>4. CASE ListenerRecord(d)
                <5>1. \/ ListenerFails(d, "refused")
                      \/ OnlyThis(d, "mux")
                      \/ OnlyThis(d, "open")
                    BY <4>4, Zenon DEF ListenerRecord
                <5> QED
                    BY <4>2, <5>1
            <4> QED
                BY <1>2, <2>5, <4>1, <4>3, <4>4 DEF Listener
        <3> QED
            BY <2>1, <3>1
    <2> QED
        BY <2>3, <2>4, <2>5
<1>3. CASE Tick \/ \E e \in Ends, n \in Numbers : Counted(e, n)
    BY <1>3 DEF Tick, Counted, CloneConn, DropConn, NewStream, DropStream
<1>4. ASSUME NEW k \in Kinds, AcceptFails(k), NEW c \in Dials
      PROVE  dial'[c] = dial[c] /\ (serve[c] \in {"open", "closed"} => serve'[c] = serve[c])
    BY <1>0, <1>4 DEF AcceptFails, LoopEnds, NotTaken
<1> QED
    BY <1>1, <1>2, <1>3, <1>4 DEF Next

\* A handle is one of an end that has been open.
LEMMA HandlesOpen ==
    ASSUME HandlesSound, NEW e \in Ends, NEW n \in Numbers, << e, n >> \in handles
    PROVE  WasOpen(e)
<1>1. CASE e[1] = "dialer"
    <2>1. e = << "dialer", e[2] >> /\ e[2] \in Dials
        BY <1>1 DEF Ends
    <2> QED
        BY <1>1, <2>1 DEF HandlesSound, WasOpen
<1>2. CASE e[1] = "listener"
    <2>1. e = << "listener", e[2] >> /\ e[2] \in Dials
        BY <1>2 DEF Ends
    <2> QED
        BY <1>2, <2>1 DEF HandlesSound, WasOpen
<1> QED
    BY <1>1, <1>2 DEF Ends, Sides

\* What a step does to the values that are counted.
LEMMA HandlesChange ==
    ASSUME PlainTypes, InStep, HandlesSound, Next
    PROVE  \/ UNCHANGED handleVars
           \/ \E e \in Ends, n \in Numbers :
                  \/ /\ << e, n >> \notin handles
                     /\ Made(e, n)
                     /\ UNCHANGED << streams, actives >>
                     /\ WasOpen(e)'
                  \/ DropConn(e, n)
                  \/ NewStream(e, n)
                  \/ DropStream(e, n)
<1> USE DEF Ends, Sides
<1>0. /\ 1 \in Numbers
      /\ dial = [c \in Dials |-> dial[c]]
      /\ serve = [c \in Dials |-> serve[c]]
    BY DEF Numbers, PlainTypes
<1>1. ASSUME NEW d \in Dials, DialerRecord(d) \/ DialerMux(d)
      PROVE  \/ UNCHANGED handleVars
             \/ /\ << << "dialer", d >>, 1 >> \notin handles
                /\ Made(<< "dialer", d >>, 1)
                /\ UNCHANGED << streams, actives >>
                /\ WasOpen(<< "dialer", d >>)'
    <2>1. dial[d] \notin {"open", "closed"}
        BY <1>1 DEF DialerRecord, DialerMux
    <2>2. << << "dialer", d >>, 1 >> \notin handles
        BY <1>0, <2>1 DEF HandlesSound
    <2>3. \/ UNCHANGED handleVars
          \/ NewConn(<< "dialer", d >>) /\ dial' = [dial EXCEPT ![d] = "open"]
        <3>1. CASE DialerRecord(d)
            BY <3>1 DEF DialerRecord, handleVars
        <3>2. CASE DialerMux(d)
            BY <3>2, Zenon DEF DialerMux
        <3> QED
            BY <1>1, <3>1, <3>2
    <2> QED
        BY <1>0, <2>2, <2>3 DEF NewConn, WasOpen
<1>2. ASSUME NEW d \in Dials, ListenerRecord(d) \/ ListenerMux(d)
      PROVE  \/ UNCHANGED handleVars
             \/ /\ << << "listener", d >>, 1 >> \notin handles
                /\ Made(<< "listener", d >>, 1)
                /\ UNCHANGED << streams, actives >>
                /\ WasOpen(<< "listener", d >>)'
    <2>1. serve[d] \notin {"open", "closed"}
        BY <1>2 DEF ListenerRecord, ListenerMux
    <2>2. << << "listener", d >>, 1 >> \notin handles
        BY <1>0, <2>1 DEF HandlesSound
    <2>3. \/ UNCHANGED handleVars
          \/ NewConn(<< "listener", d >>) /\ serve' = [serve EXCEPT ![d] = "open"]
        <3>1. CASE ListenerRecord(d)
            BY <3>1 DEF ListenerRecord, OnlyThis, handleVars
        <3>2. CASE ListenerMux(d)
            BY <3>2, Zenon DEF ListenerMux, OnlyThis
        <3> QED
            BY <1>2, <3>1, <3>2
    <2> QED
        BY <1>0, <2>2, <2>3 DEF NewConn, WasOpen
<1>3. ASSUME NEW d \in Dials, Dialer(d) \/ Listener(d)
      PROVE  DialerRecord(d) \/ DialerMux(d) \/ ListenerRecord(d) \/ ListenerMux(d) \/ UNCHANGED handleVars
    BY <1>3 DEF Dialer, Start, ConnectTcp, ConnectQuic, AskRelay, ConnectRelay, ConnectFails, DialerVerify,
        DialerSeesClose, DialTimeout, CloseDialer, Listener, AcceptTcp, SkipSocket, AnswerQuic, AcceptStop,
        ListenerVerify, ListenerSeesClose, CloseListener
<1>4. ASSUME NEW e \in Ends, NEW n \in Numbers, CloneConn(e, n)
      PROVE  /\ << e, n >> \notin handles
             /\ Made(e, n)
             /\ UNCHANGED << streams, actives >>
             /\ WasOpen(e)'
    <2>1. PICK m \in Numbers : << e, m >> \in handles
        BY <1>4 DEF CloneConn
    <2>2. WasOpen(e)
        BY <2>1, HandlesOpen
    <2>3. UNCHANGED << dial, serve >>
        BY <1>4 DEF CloneConn
    <2> QED
        BY <1>4, <2>2, <2>3 DEF CloneConn, WasOpen
<1>5. CASE Tick \/ \E k \in Kinds : AcceptFails(k)
    BY <1>5 DEF Tick, AcceptFails
<1>6. ASSUME NEW d \in Dials, Dialer(d) \/ Listener(d)
      PROVE  \/ UNCHANGED handleVars
             \/ \E e \in Ends, n \in Numbers :
                    /\ << e, n >> \notin handles
                    /\ Made(e, n)
                    /\ UNCHANGED << streams, actives >>
                    /\ WasOpen(e)'
    <2>1. << "dialer", d >> \in Ends /\ << "listener", d >> \in Ends
        OBVIOUS
    <2> QED
        BY <1>0, <1>1, <1>2, <1>3, <1>6, <2>1
<1>7. ASSUME NEW e \in Ends, NEW n \in Numbers, Counted(e, n)
      PROVE  CloneConn(e, n) \/ DropConn(e, n) \/ NewStream(e, n) \/ DropStream(e, n)
    BY <1>7 DEF Counted
<1> QED
    BY <1>4, <1>5, <1>6, <1>7 DEF Next

\* So the counters stay exact, and the handles those of open connections.
LEMMA CountersStep ==
    ASSUME PlainTypes, CountersTyped, InStep, QueueSound, HandlesSound, CountersExact, Next
    PROVE  CountersTyped' /\ CountersExact' /\ HandlesSound'
<1>1. ASSUME NEW e \in Ends, WasOpen(e) PROVE WasOpen(e)'
    BY <1>1, OpenStays DEF WasOpen, Ends, Sides
<1>2. ASSUME NEW e \in Ends, NEW n \in Numbers, << e, n >> \in handles PROVE WasOpen(e)
    BY <1>2, HandlesOpen
<1>3. ASSUME IsFiniteSet(handles'), IsFiniteSet(streams'),
             \A e \in Ends, n \in Numbers : << e, n >> \in handles' => << e, n >> \in handles \/ WasOpen(e)'
      PROVE  HandlesSound'
    <2>1. \A d \in Dials : << "dialer", d >> \in Ends /\ << "listener", d >> \in Ends
        BY DEF Ends, Sides
    <2>2. \A e \in Ends, n \in Numbers : << e, n >> \in handles' => WasOpen(e)'
        BY <1>1, <1>2, <1>3
    <2> QED
        BY <1>3, <2>1, <2>2 DEF HandlesSound, WasOpen
<1>4. CASE UNCHANGED handleVars
    <2>1. UNCHANGED << handles, streams, activities, actives >>
        BY <1>4 DEF handleVars
    <2>2. HandlesSound'
        BY <1>3, <2>1 DEF HandlesSound
    <2> QED
        BY <2>1, <2>2 DEF CountersTyped, CountersExact
<1>5. ASSUME NEW e \in Ends, NEW n \in Numbers, << e, n >> \notin handles, Made(e, n),
             UNCHANGED << streams, actives >>, WasOpen(e)'
      PROVE  CountersTyped' /\ CountersExact' /\ HandlesSound'
    <2>1. CountersTyped' /\ CountersExact' /\ IsFiniteSet(handles')
        BY <1>5, MadeCounts
    <2>2. handles' = handles \union {<< e, n >>} /\ streams' = streams
        BY <1>5 DEF Made
    <2>3. HandlesSound'
        BY <1>3, <1>5, <2>1, <2>2 DEF HandlesSound
    <2> QED
        BY <2>1, <2>3
<1>6. ASSUME NEW e \in Ends, NEW n \in Numbers, DropConn(e, n)
      PROVE  CountersTyped' /\ CountersExact' /\ HandlesSound'
    <2>1. CountersTyped' /\ CountersExact' /\ IsFiniteSet(handles')
        BY <1>6, DropCounts
    <2>2. handles' = handles \ {<< e, n >>} /\ streams' = streams
        BY <1>6 DEF DropConn
    <2>3. HandlesSound'
        BY <1>3, <2>1, <2>2 DEF HandlesSound
    <2> QED
        BY <2>1, <2>3
<1>7. ASSUME NEW e \in Ends, NEW n \in Numbers, NewStream(e, n) \/ DropStream(e, n)
      PROVE  CountersTyped' /\ CountersExact' /\ HandlesSound'
    <2>1. CountersTyped' /\ CountersExact' /\ IsFiniteSet(streams')
        BY <1>7, StreamCounts
    <2>2. handles' = handles
        BY <1>7 DEF NewStream, DropStream
    <2>3. HandlesSound'
        BY <1>3, <2>1, <2>2 DEF HandlesSound
    <2> QED
        BY <2>1, <2>3
<1> QED
    BY <1>4, <1>5, <1>6, <1>7, HandlesChange

-----------------------------------------------------------------------------
(* The theorems. *)

\* What holds of every state, and is kept by every step.
IInv ==
    /\ PlainTypes
    /\ CountersTyped
    /\ InStep
    /\ QueueSound
    /\ CertsSound
    /\ KeysSound
    /\ HandlesSound
    /\ WaitSound
    /\ NoneLeftWaiting
    /\ RefusedOnlyStale
    /\ CountersExact

\* The inductive invariant holds at the start.
LEMMA InitInv ==
    ASSUME Init
    PROVE  IInv
<1> USE DEF Init
<1>1. PlainTypes
    BY DEF PlainTypes, Dialling, DialHandshaking, DialOver, ServeHandshaking, ServeOver
<1>2. CountersTyped /\ InStep /\ QueueSound /\ KeysSound
    BY DEF CountersTyped, InStep, QueueSound, KeysSound, Answered, Stream
<1>3. CertsSound
    <2>1. 0 \in 0..now /\ Local \in {Local} \union Sides \X Dials
        OBVIOUS
    <2>2. OwnCert(quicCert, now)
        BY <2>1 DEF OwnCert
    <2>3. \A d \in Dials : ~HasPresented(d)
        BY DEF HasPresented
    <2>4. \A d \in Dials : scert[d] = quicCert
        OBVIOUS
    <2> QED
        BY <2>2, <2>3, <2>4 DEF CertsSound
<1>4. HandlesSound
    BY FS_EmptySet DEF HandlesSound
<1>5. WaitSound /\ NoneLeftWaiting /\ RefusedOnlyStale
    BY DEF WaitSound, WaitsWell, InAccept, NoneLeftWaiting, Serving, ServeHandshaking, RefusedOnlyStale, Kinds
<1>6. CountersExact
    <2>1. \A h \in Hosts, k \in Kinds : {x \in handles : HostOf(x[1]) = h /\ Kind[x[1][2]] = k} = {}
        OBVIOUS
    <2>2. \A e \in Ends : {x \in streams : x[1] = e} = {}
        OBVIOUS
    <2>3. Cardinality({}) = 0
        BY FS_EmptySet
    <2> QED
        BY <2>1, <2>2, <2>3 DEF CountersExact
<1> QED
    BY <1>1, <1>2, <1>3, <1>4, <1>5, <1>6 DEF IInv

\* Every step keeps the inductive invariant: the lemmas above, together.
LEMMA StepInv ==
    ASSUME IInv, [Next]_vars
    PROVE  IInv'
<1>1. CASE Next
    BY <1>1, TypesStep, InStepStep, QueueStep, CertsStep, KeysStep, CountersStep, WaitStep, StaleStep DEF IInv
<1>2. CASE UNCHANGED vars
    <2>1. /\ UNCHANGED << now, dial, serve, sent, ckey, skey, started, backlog, listening >>
          /\ UNCHANGED << ccert, scert, quicCert, handles, streams, activities, actives >>
        BY <1>2 DEF vars, certVars, handleVars
    <2>2. PlainTypes' /\ CountersTyped' /\ HandlesSound' /\ CountersExact'
        BY <2>1 DEF IInv, PlainTypes, CountersTyped, HandlesSound, CountersExact
    <2>3. InStep' /\ QueueSound' /\ KeysSound' /\ RefusedOnlyStale'
        BY <2>1 DEF IInv, InStep, Answered, QueueSound, KeysSound, RefusedOnlyStale, DialerClock
    <2>5. WaitSound' /\ NoneLeftWaiting'
        BY <2>1 DEF IInv, WaitSound, WaitsWell, InAccept, NoneLeftWaiting
    <2>4. CertsSound'
        BY <2>1 DEF IInv, CertsSound, HasPresented
    <2> QED
        BY <2>2, <2>3, <2>4, <2>5 DEF IInv
<1> QED
    BY <1>1, <1>2

\* The inductive invariant: what each end has of the other, which certificates
\* exist, and what is counted.
THEOREM InductiveInvariant == Spec => []IInv
<1> QED
    BY InitInv, StepInv, PTL DEF Spec

\* The variables of the three transports keep their types; the counters never
\* go below zero (Drop of TlsConn, TlsStream and their quic kind).
THEOREM TypesCorrect == Spec => []TypeOK
<1>1. IInv => TypeOK
    BY DEF IInv, PlainTypes, CountersTyped, TypeOK
<1> QED
    BY <1>1, InductiveInvariant, PTL

\* connect and accept return connections whose public_key is the key of the
\* host at the other end, and never one of a certificate of other make.
THEOREM KeysAreProved == Spec => []KeysProved
<1>1. IInv => KeysProved
    BY DEF IInv, KeysSound, KeysProved
<1> QED
    BY <1>1, InductiveInvariant, PTL

\* Over tcp and a relay connect returns only when the listener has verified the
\* dialer.
THEOREM StreamsVerifyBoth == Spec => []BothVerified
<1>1. IInv => BothVerified
    BY DEF IInv, InStep, KeysSound, BothVerified
<1> QED
    BY <1>1, InductiveInvariant, PTL

\* Whatever ends handle_incoming of a transport, a failed handshake or a failed
\* accept(2), nobody is left waiting in its listener.
THEOREM NobodyLeftWaiting == Spec => []NoneLeftWaiting
<1>1. IInv => NoneLeftWaiting
    BY DEF IInv
<1> QED
    BY <1>1, InductiveInvariant, PTL

\* verify refuses a certificate of generate only when its lifetime, less the
\* second that rounding takes, is over.
THEOREM RefusalsAreStale == Spec => []RefusedOnlyStale
<1>1. IInv => RefusedOnlyStale
    BY DEF IInv
<1> QED
    BY <1>1, InductiveInvariant, PTL

\* activities and actives count the live handles and streams.
THEOREM CountersAreExact == Spec => []CountersExact
<1>1. IInv => CountersExact
    BY DEF IInv
<1> QED
    BY <1>1, InductiveInvariant, PTL

=============================================================================
