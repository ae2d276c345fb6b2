------------------------------- MODULE MCRpc -------------------------------
(***************************************************************************)
(* Every call of RpcStream against answers that are complete, that leave   *)
(* out or add fields, that carry numbers without a name, that are about    *)
(* another key, peer or protocol step, and that are one byte too long.     *)
(***************************************************************************)
EXTENDS RpcStream, TLC

Relay == << 1 >>    Other == << 2 >>    Me == << 3 >>
Near == << 4, 1 >>  Via == << 4, 2 >>   Bad == << 9 >>
RelayKey == << 7 >> OtherKey == << 8 >>

MCGoodAddrs    == {Near, Via}
MCCircuitAddrs == {Via}
MCGoodIds      == {Relay, Other, Me}
MCPublicKeys   == (RelayKey :> Relay) @@ (OtherKey :> Other) @@ (<< 6 >> :> Me)
MCConnPeer     == Relay
MCLocalId      == Me
MCLocalKey     == << 6 >>
MCLocalAddrs   == << Near, Via >>
MCLocalProtos  == << << 47, 112 >>, << 47 >> >>
MCKey          == << 5 >>
MCVal          == [i \in 1..130 |-> 1]
MCProvider     == [id |-> Me, addrs |-> << Near >>, appear |-> TRUE, disappear |-> FALSE]
MCNonce        == << 1, 2, 3 >>
MCEchoes       == {MCNonce, << 1, 2, 4 >>, << 1, 2 >>}
MCTails        == {<< >>, << 22, 3 >>}

MCCalls ==
    {"hop_reserve", "hop_connect", "stop_connect", "stop_accept", "dcutr_send_connect",
     "dcutr_send_sync", "dcutr_recv_connect", "dcutr_recv_sync", "find_node", "put_value",
     "get_value", "add_provider", "get_providers", "identity", "identity_response",
     "identity_response_relay", "autonat", "ping"}

\* A length that is not minimal, one that does not end, one that is too large,
\* a body that ends within a number, and one with a wire type nobody writes.
MCGarbage == {<< 129, 0 >>, [i \in 1..10 |-> 255], << 200, 1 >>, << 2, 8, 128 >>, << 2, 14, 1 >>}

\* What a later version adds.
Newer(m) == [m EXCEPT !.unknown = << [tag |-> 122, value |-> << 1, 2 >>, size |-> 2],
                                     [tag |-> 128, value |-> 300, size |-> 0] >>]

Lease ==
    [New(ReservationFields) EXCEPT
        !.expire  = Some(200), !.addrs = << Near, Via >>,
        !.voucher = Some(Write(Voucher, [New(Voucher) EXCEPT !.relay = Some(Relay),
                                             !.peer = Some(Me), !.expiration = Some(200)]))]
Bounds == [New(LimitFields) EXCEPT !.duration = Some(120), !.data = Some(131072)]

Hop(status)  == [New(HopMessage) EXCEPT !.type_ = Some(2), !.status = status]
Stop(status) == [New(StopMessage) EXCEPT !.type_ = Some(1), !.status = status]

HopReserveReplies ==
    {[Hop(s) EXCEPT !.reservation = r, !.limit = Some(Bounds)] :
        s \in {None, Some(100), Some(200), Some(777)}, r \in {None, Some(Lease)}}
    \union {[Hop(Some(100)) EXCEPT !.reservation = Some(r)] :
        r \in {[Lease EXCEPT !.expire = None], [Lease EXCEPT !.addrs = << Near, Bad >>],
               [Lease EXCEPT !.expire = Some(-1)],
               [Lease EXCEPT !.expire = Some(-1), !.addrs = << Bad >>],
               Newer([Lease EXCEPT !.addrs = << >>])}}
    \union {Newer(Hop(Some(-1))), [Hop(Some(100)) EXCEPT !.type_ = Some(0)]}

Punch(type, addrs) == [New(HolePunch) EXCEPT !.type_ = type, !.ObsAddrs = addrs]

Peer(id, addrs) ==
    [New(KadPeer) EXCEPT !.id = << id >>, !.addrs = addrs, !.connection = << 1 >>]
Kad(type, key) == [New(KadMessage) EXCEPT !.type_ = << type >>, !.key = << key >>]
Closer(type, peers) == [Kad(type, MCKey) EXCEPT !.closerPeers = peers]
PeerLists ==
    {<< >>, << Peer(Other, << Near >>), Newer(Peer(Me, << >>)) >>,
     << Peer(Other, << Near, Bad >>) >>, << Peer(<< >>, << Near >>) >>}
Found(n) ==
    [Kad(1, MCKey) EXCEPT !.record = Some([New(KadRecord) EXCEPT !.value = << [i \in 1..n |-> 1] >>])]

Known(key, addrs, observed) ==
    [New(Identity) EXCEPT !.publicKey = key, !.listenAddrs = addrs, !.observedAddr = observed,
                          !.protocols = << << 47 >> >>]

Judged(status, addr) ==
    [New(AutonatMessage) EXCEPT !.type_ = Some(1), !.dialResponse = Some(
        [New(DialResponse) EXCEPT !.status = status, !.addr = addr, !.statusText = Some(<< 110 >>)])]

MCReplies ==
       "hop_reserve" :> HopReserveReplies
    @@ "hop_connect" :> {Hop(Some(100)), [Hop(Some(100)) EXCEPT !.limit = Some(Bounds)],
                         Hop(None), Hop(Some(204))}
    @@ "stop_connect" :> {Stop(Some(100)), Stop(Some(203)), Newer(Stop(None))}
    @@ "stop_accept" :> {[New(StopMessage) EXCEPT !.type_ = Some(0), !.limit = Some(Bounds)],
                         Stop(Some(100)), New(StopMessage)}
    @@ "dcutr_recv_connect" :> {Punch(Some(100), << Near, Via >>), Punch(Some(100), << Bad >>),
                                Punch(Some(300), << >>), Punch(None, << Near >>)}
    @@ "dcutr_recv_sync" :> {Punch(Some(300), << >>), Punch(Some(100), << Near >>),
                             Punch(Some(5), << >>)}
    @@ "find_node" :> {Closer(4, ps) : ps \in PeerLists}
    @@ "put_value" :> {Kad(0, MCKey), Kad(0, Other), Newer(Kad(0, MCKey)), Kad(4, MCKey)}
    @@ "get_value" :> {Found(0), Found(128), Found(129), Kad(1, MCKey),
                       Closer(1, << Peer(Other, << Bad >>) >>)}
    @@ "get_providers" :> {[Closer(3, ps) EXCEPT !.providerPeers = << Peer(Me, << Via >>) >>] :
                              ps \in PeerLists}
    @@ "identity" :> {Known(k, << Near >>, o) :
                         k \in {None, Some(RelayKey), Some(OtherKey)},
                         o \in {None, Some(Near), Some(Via)}}
                     \union {Known(Some(RelayKey), << Near, Bad >>, None),
                             Known(Some(RelayKey), << >>, Some(Bad))}
    @@ "autonat" :> {Judged(s, a) : s \in {None, Some(0), Some(100), Some(999)},
                                    a \in {None, Some(Near), Some(Bad)}}
                    \union {New(AutonatMessage)}
    @@ [c \in SendOnly |-> {}]
=============================================================================
