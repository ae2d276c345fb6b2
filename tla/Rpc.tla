-------------------------------- MODULE Rpc --------------------------------
(***************************************************************************)
(* The requests of crates/xstack, kad, circuit and autonat, and what they  *)
(* make of the answers.  Addresses, peer ids and keys are bytes, of which  *)
(* the constants tell what they decode to.                                 *)
(***************************************************************************)
EXTENDS Messages

CONSTANTS
    GoodAddrs,     \* what Multiaddr::try_from accepts
    CircuitAddrs,  \* those with p2p-circuit in them
    GoodIds,       \* what PeerId::from_bytes accepts
    PublicKeys,    \* what PublicKey::try_decode_protobuf accepts, with the id
    ConnPeer,      \* the peer the connection is with
    LocalId, LocalKey, LocalAddrs, LocalProtos,
    Key, Val,      \* what the Kademlia calls are made with
    Provider       \* the PeerInfo of add_provider

ASSUME RpcAssumption ==
    /\ CircuitAddrs \subseteq GoodAddrs
    /\ << >> \notin DOMAIN PublicKeys
    /\ {ConnPeer, LocalId, LocalKey, Key, Val, Provider.id} \subseteq Seq(Byte)
    /\ LocalAddrs \in Seq(Seq(Byte)) /\ LocalAddrs # << >>
    /\ LocalKey \in DOMAIN PublicKeys /\ PublicKeys[LocalKey] = LocalId
    /\ ToSet(LocalAddrs) \subseteq GoodAddrs
    /\ LocalProtos \in Seq({b \in Seq(Byte) : Utf8(b)})
    /\ Provider.addrs \in Seq(Seq(Byte)) /\ ToSet(Provider.addrs) \subseteq GoodAddrs
    /\ Provider.id \in GoodIds
    /\ Provider.appear \in BOOLEAN /\ Provider.disappear \in BOOLEAN

-----------------------------------------------------------------------------
(* Requests. *)

HopReserve == [New(HopMessage) EXCEPT !.type_ = Some(HopType.RESERVE)]

HopConnect ==
    [New(HopMessage) EXCEPT
        !.type_ = Some(HopType.CONNECT),
        !.peer  = Some([New(CircuitPeer) EXCEPT !.id = Some(ConnPeer)])]

StopConnect ==
    [New(StopMessage) EXCEPT
        !.type_ = Some(StopType.CONNECT),
        !.peer  = Some([New(CircuitPeer) EXCEPT !.id = Some(LocalId)])]

\* Faulty variant of StopAccepted: OK is left to the default, as AutoNAT reads it.
StopAcceptedBare == [New(StopMessage) EXCEPT !.type_ = Some(StopType.STATUS)]

\* The answer of circuit_v2_stop_connect_accept.
StopAccepted ==
    [New(StopMessage) EXCEPT !.type_ = Some(StopType.STATUS), !.status = Some(Status.OK)]

DcutrConnect ==
    [New(HolePunch) EXCEPT !.type_ = Some(HolePunchType.CONNECT), !.ObsAddrs = LocalAddrs]

DcutrSync == [New(HolePunch) EXCEPT !.type_ = Some(HolePunchType.SYNC)]

\* From<&PeerInfo>: what an entry of the peer book tells of its connection.
PeerOf(info) ==
    [New(KadPeer) EXCEPT
        !.id         = Some(info.id),
        !.addrs      = info.addrs,
        !.connection = Some(
            IF info.appear
            THEN IF info.disappear THEN ConnectionType.CAN_CONNECT ELSE ConnectionType.CONNECTED
            ELSE IF info.disappear THEN ConnectionType.CANNOT_CONNECT
                                   ELSE ConnectionType.NOT_CONNECTED)]

KadRequest(type) == [New(KadMessage) EXCEPT !.type_ = Some(type), !.key = Some(Key)]

PutValue ==
    [KadRequest(MessageType.PUT_VALUE) EXCEPT
        !.record = Some([New(KadRecord) EXCEPT !.key = Some(Key), !.value = Some(Val)])]

AddProvider ==
    [KadRequest(MessageType.ADD_PROVIDER) EXCEPT !.providerPeers = << PeerOf(Provider) >>]

\* identity_response, at the other end of identity_request.
IdentityResponse(relay) ==
    [New(Identity) EXCEPT
        !.observedAddr = IF relay THEN None ELSE Some(LocalAddrs[1]),
        !.publicKey    = Some(LocalKey),
        !.agentVersion = Some(<< 120 >>),
        !.protocols    = LocalProtos,
        !.listenAddrs  = LocalAddrs]

\* autonat_request_prv.
AutonatDial ==
    [New(AutonatMessage) EXCEPT
        !.type_ = Some(AutonatType.DIAL),
        !.dial  = Some([New(Dial) EXCEPT !.peer = Some(
            [New(AutonatPeer) EXCEPT !.id = Some(LocalId), !.addrs = LocalAddrs])])]

Request(c) ==
    CASE c = "hop_reserve"             -> Some(HopReserve)
      [] c = "hop_connect"             -> Some(HopConnect)
      [] c = "stop_connect"            -> Some(StopConnect)
      [] c = "dcutr_send_connect"      -> Some(DcutrConnect)
      [] c = "dcutr_send_sync"         -> Some(DcutrSync)
      [] c = "find_node"               -> Some(KadRequest(MessageType.FIND_NODE))
      [] c = "put_value"               -> Some(PutValue)
      [] c = "get_value"               -> Some(KadRequest(MessageType.GET_VALUE))
      [] c = "add_provider"            -> Some(AddProvider)
      [] c = "get_providers"           -> Some(KadRequest(MessageType.GET_PROVIDERS))
      [] c = "identity_response"       -> Some(IdentityResponse(FALSE))
      [] c = "identity_response_relay" -> Some(IdentityResponse(TRUE))
      [] c = "autonat"                 -> Some(AutonatDial)
      [] OTHER                         -> None

\* Calls that only write, and calls that wait for the other end to begin.
SendOnly == {"dcutr_send_connect", "dcutr_send_sync", "add_provider",
             "identity_response", "identity_response_relay"}
RecvOnly == {"stop_accept", "dcutr_recv_connect", "dcutr_recv_sync", "identity"}

TypeOf(c) ==
    IF c \in {"hop_reserve", "hop_connect"} THEN HopMessage
    ELSE IF c \in {"stop_connect", "stop_accept"} THEN StopMessage
    ELSE IF c \in {"dcutr_send_connect", "dcutr_send_sync", "dcutr_recv_connect", "dcutr_recv_sync"}
    THEN HolePunch
    ELSE IF c \in {"identity", "identity_response", "identity_response_relay"} THEN Identity
    ELSE IF c = "autonat" THEN AutonatMessage
    ELSE KadMessage

-----------------------------------------------------------------------------
(* Answers: Some(what the call returns), or None for an error; of a number   *)
(* that is negative here, 2^64 more is meant.                                *)

AllGood(addrs) == \A i \in DOMAIN addrs : addrs[i] \in GoodAddrs

\* An unknown status is not OK: the enumerations keep numbers they have no
\* name for.
StatusOk(m, STATUS) == m.type_ = Some(STATUS) /\ m.status = Some(Status.OK)

Reserved(m) ==
    StatusOk(m, HopType.STATUS) /\ m.reservation # None /\ m.reservation[1].expire # None

\* UNIX_EPOCH + Duration::from_secs(expire), before the addresses are looked
\* at: SystemTime has no more than 2^63 seconds, and its + panics.
HopReservePanics(m) == Reserved(m) /\ m.reservation[1].expire[1] < 0

HopReserveResult(m) ==
    IF Reserved(m) /\ ~HopReservePanics(m) /\ AllGood(m.reservation[1].addrs)
    THEN Some([expire |-> m.reservation[1].expire[1], addrs |-> m.reservation[1].addrs,
               limit  |-> m.limit])
    ELSE None

HopConnectResult(m)  == IF StatusOk(m, HopType.STATUS) THEN Some(m.limit) ELSE None
StopConnectResult(m) == IF StatusOk(m, StopType.STATUS) THEN Some(None) ELSE None
StopAcceptResult(m)  == IF m.type_ = Some(StopType.CONNECT) THEN Some(m.limit) ELSE None

DcutrConnectResult(m) ==
    IF m.type_ = Some(HolePunchType.CONNECT) /\ AllGood(m.ObsAddrs) THEN Some(m.ObsAddrs) ELSE None

DcutrSyncResult(m) == IF m.type_ = Some(HolePunchType.SYNC) THEN Some(None) ELSE None

\* TryFrom<Peer> for PeerInfo, over a list: one bad peer fails the call.
PeerInfos(peers) ==
    IF \A i \in DOMAIN peers : peers[i].id[1] \in GoodIds /\ AllGood(peers[i].addrs)
    THEN Some([i \in DOMAIN peers |-> [id |-> peers[i].id[1], addrs |-> peers[i].addrs]])
    ELSE None

FindNodeResult(m) == PeerInfos(m.closerPeers)

PutValueResult(m) ==
    IF m.key = PutValue.key /\ m.type_ = PutValue.type_ THEN Some(None) ELSE None

GetValueResult(m) ==
    IF PeerInfos(m.closerPeers) = None THEN None
    ELSE Some([closer |-> PeerInfos(m.closerPeers)[1],
               value  |-> IF m.record = None THEN None ELSE m.record[1].value])

GetProvidersResult(m) ==
    IF PeerInfos(m.closerPeers) = None \/ PeerInfos(m.providerPeers) = None THEN None
    ELSE Some([closer    |-> PeerInfos(m.closerPeers)[1],
               providers |-> PeerInfos(m.providerPeers)[1]])

\* identity_push, up to what it stores, on a connection with peer.
IdentityResult(peer, m) ==
    LET key == IF m.publicKey = None THEN << >> ELSE m.publicKey[1]
    IN  IF /\ key \in DOMAIN PublicKeys
           /\ PublicKeys[key] = peer
           /\ AllGood(m.listenAddrs)
           /\ AllGood(m.observedAddr)
        THEN Some([addrs    |-> m.listenAddrs, protos |-> m.protocols,
                   observed |-> IF m.observedAddr # None /\ m.observedAddr[1] \in CircuitAddrs
                                THEN None ELSE m.observedAddr])
        ELSE None

\* response.status(): no status, and one that has no name, is OK.
AutonatStatus(r) ==
    IF r.status # None /\ r.status[1] \in Range(ResponseStatus) THEN r.status[1]
    ELSE ResponseStatus.OK

AutonatResult(m) ==
    IF m.dialResponse = None THEN None
    ELSE LET r == m.dialResponse[1]
         IN  IF AutonatStatus(r) # ResponseStatus.OK THEN Some("failed")
             ELSE IF r.addr = None THEN Some("nothing")
             ELSE IF r.addr[1] \in GoodAddrs THEN Some("success")
             ELSE None

Result(c, m) ==
    CASE c = "hop_reserve"        -> HopReserveResult(m)
      [] c = "hop_connect"        -> HopConnectResult(m)
      [] c = "stop_connect"       -> StopConnectResult(m)
      [] c = "stop_accept"        -> StopAcceptResult(m)
      [] c = "dcutr_recv_connect" -> DcutrConnectResult(m)
      [] c = "dcutr_recv_sync"    -> DcutrSyncResult(m)
      [] c = "find_node"          -> FindNodeResult(m)
      [] c = "put_value"          -> PutValueResult(m)
      [] c = "get_value"          -> GetValueResult(m)
      [] c = "get_providers"      -> GetProvidersResult(m)
      [] c = "identity"           -> IdentityResult(ConnPeer, m)
      [] c = "autonat"            -> AutonatResult(m)
=============================================================================
