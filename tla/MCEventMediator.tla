-------------------------- MODULE MCEventMediator --------------------------
(* Two raises of one event; two sources listen to it, a third to another. *)
EXTENDS EventMediator, TLC

CONSTANTS s1, s2, s3, r1, r2, n1, n2

MCSubs   == {s1, s2, s3}
MCRaises == {r1, r2}
MCNames  == {n1, n2}
MCNameOf == s1 :> n1 @@ s2 :> n1 @@ s3 :> n2
MCKindOf == [r \in MCRaises |-> n1]
=============================================================================
