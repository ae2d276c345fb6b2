----------------------------- MODULE RpcStream -----------------------------
(***************************************************************************)
(* One call over one stream: how XStackRpc frames a message, reads the     *)
(* answer and leaves the stream behind.  A frame is the length of a        *)
(* protobuf message, as a varint, and the message.                         *)
(*                                                                         *)
(* The stream and the other end are external: it answers with any message  *)
(* of Replies, also one of another version of the protocol, or with bytes  *)
(* that are none, may go on with what follows on the stream, writes in up  *)
(* to two pieces, and may close anywhere.                                  *)
(***************************************************************************)
EXTENDS Rpc

CONSTANTS
    Calls,         \* the calls that are made
    Replies,       \* for each call, the messages the other end may answer with
    Garbage,       \* frames that are not a message
    Tails,         \* what may follow an answer on the stream
    MaxRecvLen,    \* max_packet_size
    Nonce,         \* the bytes of a ping
    Echoes         \* what a ping may be answered with

ASSUME StreamAssumption ==
    /\ MaxRecvLen \in Nat
    /\ DOMAIN Replies = Calls \ {"ping"}
    /\ Nonce \in Seq(Byte) /\ Nonce # << >>
    /\ Tails \subseteq Seq(Byte)
    /\ \A e \in Echoes : e \in Seq(Byte) /\ Len(e) <= Len(Nonce)

\* Either end writes messages of the types of the protocols, none of which
\* takes 2^28 bytes.
ASSUME MessageAssumption ==
    /\ \A c \in DOMAIN Replies : \A m \in Replies[c] :
           IsMessage(Is2, TypeOf(c), m) /\ ComputeSize(TypeOf(c), m) \in Number
    /\ \A c \in Calls : \A m \in ToSet(Request(c)) : ComputeSize(TypeOf(c), m) \in Number

\* Garbage is no frame: its length does not end, is not minimal or too large,
\* or a body is there that no type reads.
ASSUME GarbageAssumption ==
    \A g \in Garbage :
        /\ g \in Seq(Byte)
        /\ \/ Len(g) >= 10 /\ \A i \in 1..10 : g[i] >= 128
           \/ \E len \in ReadVarint(g, 1) :
                 \/ len.next > 2 /\ g[len.next - 1] = 0
                 \/ len.value \notin 0..MaxRecvLen
                 \/ /\ len.next + len.value = Len(g) + 1
                    /\ \A c \in DOMAIN Replies :
                           ParseFromBytes(TypeOf(c), SubSeq(g, len.next, Len(g))) = {}

VARIABLES
    call,
    phase,     \* begin, length, body, done
    sent,      \* what the call has written to begin with
    wire,      \* what has arrived and is not read
    coming,    \* what the other end has still to write
    reply,     \* the message it answers with, if it is one
    tail,      \* what follows it
    answered,  \* the other end has begun to answer
    closed,    \* it has closed
    prefix,    \* the bytes of the length that are read
    need,      \* the length of the body
    body,      \* the body, once it is read
    outcome    \* how the call got done: sent, read, malformed, overflow, eof, panic

remote == << coming, reply, tail, answered, closed >>
vars   == << call, phase, sent, wire, remote, prefix, need, body, outcome >>

\* What xstack_send writes.
Frame(fields, m) == Varint(ComputeSize(fields, m)) \o Write(fields, m)

\* What each call writes first; those of RecvOnly write nothing.
Requests ==
    [c \in Calls |-> IF Request(c) = None THEN << >> ELSE Frame(TypeOf(c), Request(c)[1])]

Init ==
    /\ call \in Calls
    /\ phase = "begin"
    /\ sent = << >> /\ wire = << >> /\ coming = << >>
    /\ reply = None /\ tail = << >>
    /\ answered = FALSE /\ closed = FALSE
    /\ prefix = << >> /\ need = 0
    /\ body = << >> /\ outcome = "pending"

-----------------------------------------------------------------------------
(* What is made of the body: the end of xstack_recv and of the call. *)

\* The message it is, if it is one; Result tells what the call returns for it.
Parsed == ParseFromBytes(TypeOf(call), body)

\* What the call writes next: only circuit_v2_stop_connect_accept does.
Reaction(m) ==
    IF call = "stop_accept" /\ StopAcceptResult(m) # None THEN Some(StopAccepted) ELSE None

-----------------------------------------------------------------------------
(* The call. *)

Done(o) ==
    /\ phase' = "done"
    /\ outcome' = o

\* xstack_send, and xstack_ping's write: what has no answer is done.
Begin ==
    /\ phase = "begin"
    /\ IF call = "ping"
       THEN /\ sent' = Nonce
            /\ need' = Len(Nonce)
            /\ phase' = "body"
            /\ UNCHANGED outcome
       ELSE /\ sent' = Requests[call]
            /\ UNCHANGED need
            /\ IF call \in SendOnly THEN Done("sent")
                                    ELSE phase' = "length" /\ UNCHANGED outcome
    /\ UNCHANGED << call, wire, remote, prefix, body >>

\* Faulty variant of Overflows: a buffer that is a byte too short.
OverflowsLate(n) == n \notin 0..(MaxRecvLen + 1)

\* A body longer than max_packet_size.
Overflows(n) == n \notin 0..MaxRecvLen

\* unsigned_varint::aio::read_usize, a byte at a time; a last byte of zero is
\* more than the number takes, and refused.
ReadLength ==
    /\ phase = "length"
    /\ wire # << >>
    /\ prefix' = Append(prefix, Head(wire))
    /\ wire' = Tail(wire)
    /\ \/ /\ ReadVarint(prefix', 1) = {}
          /\ IF Len(prefix') = 10 THEN Done("malformed") ELSE UNCHANGED << phase, outcome >>
          /\ UNCHANGED need
       \/ \E len \in ReadVarint(prefix', 1) :
              IF Len(prefix') > 1 /\ Last(prefix') = 0 THEN Done("malformed") /\ UNCHANGED need
              ELSE IF Overflows(len.value) THEN Done("overflow") /\ UNCHANGED need
              ELSE need' = len.value /\ phase' = "body" /\ UNCHANGED outcome
    /\ UNCHANGED << call, sent, remote, body >>

\* Faulty variant of Take: the buffer is filled with whatever has arrived.
TakeAll == body' = SubSeq(wire, 1, need) /\ wire' = << >>

\* read_exact takes the body and nothing behind it.
Take == body' = SubSeq(wire, 1, need) /\ wire' = SubSeq(wire, need + 1, Len(wire))

\* The body is there.  xstack_ping compares it with what it sent, hop_reserve
\* may panic on what it reads.
ReadBody ==
    /\ phase = "body"
    /\ Len(wire) >= need
    /\ Take
    /\ Done(IF call = "ping" /\ body' # Nonce THEN "malformed"
            ELSE IF /\ call = "hop_reserve"
                    /\ \E m \in ParseFromBytes(HopMessage, body') : HopReservePanics(m)
            THEN "panic" ELSE "read")
    /\ UNCHANGED << call, sent, remote, prefix, need >>

\* Faulty variant of ReadEof: read returns 0 and the loop goes on.
ReadEofNever == FALSE /\ UNCHANGED vars

\* The stream ends before the frame does.
ReadEof ==
    /\ closed
    /\ \/ phase = "length" /\ wire = << >>
       \/ phase = "body" /\ Len(wire) < need
    /\ wire' = << >>
    /\ Done("eof")
    /\ UNCHANGED << call, sent, remote, prefix, need, body >>

-----------------------------------------------------------------------------
(* The other end. *)

MayAnswer == call \notin SendOnly /\ (phase # "begin" \/ call \in RecvOnly)

\* It writes the first k of its bytes now.
Answer(bytes, message, t) ==
    /\ ~answered /\ ~closed
    /\ MayAnswer
    /\ answered' = TRUE
    /\ reply' = message
    /\ tail' = t
    /\ \E k \in 0..Len(bytes \o t) :
           /\ wire' = SubSeq(bytes \o t, 1, k)
           /\ coming' = SubSeq(bytes \o t, k + 1, Len(bytes \o t))
    /\ UNCHANGED << call, phase, sent, closed, prefix, need, body, outcome >>

RemoteAnswers ==
    \/ /\ call # "ping"
       /\ \E t \in Tails :
              \/ \E m \in Replies[call] : Answer(Frame(TypeOf(call), m), Some(m), t)
              \/ \E g \in Garbage : Answer(g, None, t)
    \/ /\ call = "ping"
       /\ \E e \in Echoes, t \in Tails :
              (Len(e) >= Len(Nonce) \/ t = << >>) /\ Answer(e, None, t)

RemoteGoesOn ==
    /\ coming # << >>
    /\ wire' = wire \o coming
    /\ coming' = << >>
    /\ UNCHANGED << call, phase, sent, reply, tail, answered, closed, prefix, need, body,
                    outcome >>

RemoteCloses ==
    /\ ~closed
    /\ call \notin SendOnly
    /\ closed' = TRUE
    /\ coming' = << >>
    /\ UNCHANGED << call, phase, sent, wire, reply, tail, answered, prefix, need, body,
                    outcome >>

Local == Begin \/ ReadLength \/ ReadBody \/ ReadEof
Next  == Local \/ RemoteAnswers \/ RemoteGoesOn \/ RemoteCloses

Spec == Init /\ [][Next]_vars

\* The task that makes the call runs when it can.  Of the other end nothing is
\* assumed, and no call has a timeout of its own.
FairSpec == Spec /\ WF_vars(Local)

-----------------------------------------------------------------------------
(* Properties. *)

\* The variables' types, as far as the calls share them; what xstack_recv
\* allocates for a body never exceeds max_packet_size.
TypeOK ==
    /\ call \in Calls
    /\ phase \in {"begin", "length", "body", "done"}
    /\ outcome \in {"pending", "sent", "read", "malformed", "overflow", "eof", "panic"}
    /\ need \in 0..(IF call = "ping" THEN Len(Nonce) ELSE MaxRecvLen)
    /\ (phase = "done") <=> (outcome # "pending")

\* The message in a frame, if it is one.
Deframed(fields, bytes) ==
    UNION {IF len.value = Len(bytes) - len.next + 1
           THEN ParseFromBytes(fields, SubSeq(bytes, len.next, Len(bytes))) ELSE {} :
           len \in ReadVarint(bytes, 1)}

\* What either end writes the other reads: the lengths, also those of nested
\* messages, are those of the bytes that follow, whatever is left out, repeated
\* or unknown to this version (compute_size, write_to_bytes, parse_from_bytes).
RoundTrip ==
    /\ sent # << >> /\ call # "ping" => Deframed(TypeOf(call), sent) = ToSet(Request(call))
    /\ outcome = "read" /\ call = "stop_accept" =>
           \A m \in Parsed : \A a \in ToSet(Reaction(m)) :
               Deframed(StopMessage, Frame(StopMessage, a)) = {a}
    /\ reply # None =>
           /\ outcome # "malformed"
           /\ outcome = "read" =>
                  Parsed = {m \in ToSet(reply) : Initialized(TypeOf(call), m)}

\* A call takes its answer off the stream and nothing of what follows, however
\* the bytes arrive: after hop_connect and stop_connect_accept that is the TLS
\* handshake of the relayed connection.
NothingOverread ==
    outcome = "read" => IF closed THEN IsPrefix(wire, tail) ELSE wire \o coming = tail

\* What one end of this code tells, the other end of this code takes, and for
\* nothing else: m is what sent says to who reads it.
TakenAsMeant(m) ==
    /\ call = "stop_connect" => StopAcceptResult(m) # None /\ StopConnectResult(m) = None
    /\ call = "dcutr_send_connect" =>
           DcutrConnectResult(m) = Some(LocalAddrs) /\ DcutrSyncResult(m) = None
    /\ call = "dcutr_send_sync" => DcutrSyncResult(m) # None /\ DcutrConnectResult(m) = None
    /\ call = "add_provider" =>
           PeerInfos(m.providerPeers) = Some(<< [id |-> Provider.id, addrs |-> Provider.addrs] >>)
    /\ call \in {"identity_response", "identity_response_relay"} =>
           \E v \in ToSet(IdentityResult(LocalId, m)) :
               /\ v.addrs = LocalAddrs /\ v.protos = LocalProtos
               /\ ToSet(v.observed) = IF call = "identity_response_relay" THEN {}
                                      ELSE {LocalAddrs[1]} \ CircuitAddrs

\* The two ends of a protocol are written apart, and each goes by its own
\* defaults for what is missing: they agree all the same.  Each step of the
\* stop, DCUtR, identity and Kademlia exchanges is accepted for that step, with
\* the addresses the sender has; a relayed connection is only accepted when
\* it was asked for, and then the asking end is told OK.  And a call returns a
\* value only for a message that the other end has written whole: never for
\* what a close, a cut or garbage leaves of it (xstack_recv, and the calls).
EndsAgree ==
    /\ sent # << >> /\ call # "ping" =>
           \A m \in Deframed(TypeOf(call), sent) : TakenAsMeant(m)
    /\ outcome = "read" /\ call # "ping" =>
           \A m \in Parsed :
               /\ Result(call, m) # None => reply = Some(m)
               /\ \A a \in ToSet(Reaction(m)) :
                      /\ reply[1].type_ = StopConnect.type_
                      /\ \A b \in Deframed(StopMessage, Frame(StopMessage, a)) :
                             StopConnectResult(b) # None /\ StopAcceptResult(b) = None

\* A call that waits, waits for bytes that are still to come: of an answer that
\* has arrived whole, the next byte of the length or the whole body is there.
NeverStarves ==
    answered /\ reply # None /\ coming = << >> /\ ~closed =>
        /\ phase = "length" => wire # << >>
        /\ phase = "body" => Len(wire) >= need

\* A call ends when the other end has written all it will or has closed; it
\* never waits for more than the frame it reads.
CallEnds ==
    (answered /\ coming = << >> /\ reply # None) \/ (closed /\ call \notin SendOnly)
        ~> phase = "done"
=============================================================================
