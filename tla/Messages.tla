------------------------------ MODULE Messages ------------------------------
(***************************************************************************)
(* The message types and enumerations of the protocols, from the generated *)
(* code of crates/xstack, kad, circuit and autonat: name, number, kind and *)
(* label of each field, in the order in which it is written.               *)
(***************************************************************************)
EXTENDS ProtoBuf

\* identity.rs.
Identity == <<
    Field("protocolVersion",  5, "string", "optional"),
    Field("agentVersion",     6, "string", "optional"),
    Field("publicKey",        1, "bytes",  "optional"),
    Field("listenAddrs",      2, "bytes",  "repeated"),
    Field("observedAddr",     4, "bytes",  "optional"),
    Field("protocols",        3, "string", "repeated"),
    Field("signedPeerRecord", 8, "bytes",  "optional") >>

-----------------------------------------------------------------------------
(* circuit.rs *)

HopType  == [RESERVE |-> 0, CONNECT |-> 1, STATUS |-> 2]
StopType == [CONNECT |-> 0, STATUS |-> 1]

Status == [
    UNUSED |-> 0, OK |-> 100, RESERVATION_REFUSED |-> 200, RESOURCE_LIMIT_EXCEEDED |-> 201,
    PERMISSION_DENIED |-> 202, CONNECTION_FAILED |-> 203, NO_RESERVATION |-> 204,
    MALFORMED_MESSAGE |-> 400, UNEXPECTED_MESSAGE |-> 401]

CircuitPeer == <<
    Field("id",    1, "bytes", "optional"),
    Field("addrs", 2, "bytes", "repeated") >>

ReservationFields == <<
    Field("expire",  1, "varint", "optional"),
    Field("addrs",   2, "bytes",  "repeated"),
    Field("voucher", 3, "bytes",  "optional") >>

LimitFields == <<
    Field("duration", 1, "varint", "optional"),
    Field("data",     2, "varint", "optional") >>

Voucher == <<
    Field("relay",      1, "bytes",  "optional"),
    Field("peer",       2, "bytes",  "optional"),
    Field("expiration", 3, "varint", "optional") >>

HopMessage == <<
    Field("type_",        1, "varint", "optional"),
    Nested("peer",        2, "optional", CircuitPeer),
    Nested("reservation", 3, "optional", ReservationFields),
    Nested("limit",       4, "optional", LimitFields),
    Field("status",       5, "varint", "optional") >>

StopMessage == <<
    Field("type_",  1, "varint", "optional"),
    Nested("peer",  2, "optional", CircuitPeer),
    Nested("limit", 3, "optional", LimitFields),
    Field("status", 4, "varint", "optional") >>

-----------------------------------------------------------------------------
(* DCUtR.rs *)

HolePunchType == [CONNECT |-> 100, SYNC |-> 300]

HolePunch == <<
    Field("type_",    1, "varint", "required"),
    Field("ObsAddrs", 2, "bytes",  "repeated") >>

-----------------------------------------------------------------------------
(* autonat.rs *)

AutonatType == [DIAL |-> 0, DIAL_RESPONSE |-> 1]

ResponseStatus == [
    OK |-> 0, E_DIAL_ERROR |-> 100, E_DIAL_REFUSED |-> 101, E_BAD_REQUEST |-> 200,
    E_INTERNAL_ERROR |-> 300]

AutonatPeer == <<
    Field("id",    1, "bytes", "optional"),
    Field("addrs", 2, "bytes", "repeated") >>

Dial == << Nested("peer", 1, "optional", AutonatPeer) >>

DialResponse == <<
    Field("status",     1, "varint", "optional"),
    Field("statusText", 2, "string", "optional"),
    Field("addr",       3, "bytes",  "optional") >>

AutonatMessage == <<
    Field("type_",         1, "varint", "optional"),
    Nested("dial",         2, "optional", Dial),
    Nested("dialResponse", 3, "optional", DialResponse) >>

-----------------------------------------------------------------------------
(* rpc.rs of crates/kad *)

MessageType == [
    PUT_VALUE |-> 0, GET_VALUE |-> 1, ADD_PROVIDER |-> 2, GET_PROVIDERS |-> 3, FIND_NODE |-> 4,
    PING |-> 5]

ConnectionType == [NOT_CONNECTED |-> 0, CONNECTED |-> 1, CAN_CONNECT |-> 2, CANNOT_CONNECT |-> 3]

KadRecord == <<
    Field("key",          1, "bytes",  "plain"),
    Field("value",        2, "bytes",  "plain"),
    Field("timeReceived", 5, "string", "plain") >>

KadPeer == <<
    Field("id",         1, "bytes",  "plain"),
    Field("addrs",      2, "bytes",  "repeated"),
    Field("connection", 3, "varint", "plain") >>

KadMessage == <<
    Field("type_",            1, "varint", "plain"),
    Field("clusterLevelRaw", 10, "varint", "plain"),
    Field("key",              2, "bytes",  "plain"),
    Nested("record",          3, "optional", KadRecord),
    Nested("closerPeers",     8, "repeated", KadPeer),
    Nested("providerPeers",   9, "repeated", KadPeer) >>
=============================================================================
