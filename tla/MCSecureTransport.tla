------------------------- MODULE MCSecureTransport -------------------------
(***************************************************************************)
(* Six dials to one host: two over tcp, so that one waits behind the        *)
(* other; two over quic, one by a host whose clock is half a second ahead;  *)
(* two over a relay, one by a host of another make.  Transports share       *)
(* nothing and relayed handshakes run in tasks of their own, so that only   *)
(* the pairs need be made together.  A second is two ticks, a certificate   *)
(* lasts one second, and a dial may take that long.                         *)
(***************************************************************************)
EXTENDS SecureTransport, TLC

CONSTANTS t1, t2, q1, q2, r1, r2, local, a, b, none

MCDials    == {t1, t2, q1, q2, r1, r2}
MCKind     == [d \in MCDials |-> CASE d \in {t1, t2} -> "tcp"
                                  [] d \in {q1, q2} -> "quic"
                                  [] OTHER -> "relay"]
MCHost     == [d \in MCDials |-> IF d \in {t1, q1, r1} THEN a ELSE b]
MCForeign  == {r1}
MCAhead    == [d \in MCDials |-> IF d = q2 THEN 1 ELSE 0]
MCTogether == {{t1, t2}, {q1, q2}, {r1}, {r2}}
MCWatched  == {<< "listener", r2 >>}
=============================================================================
