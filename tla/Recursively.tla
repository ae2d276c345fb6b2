---------------------------- MODULE Recursively ----------------------------
(***************************************************************************)
(* The recursive search of the Kademlia router: ask candidates, a limited  *)
(* number at a time, take the peers they know as new candidates and keep   *)
(* the K closest of those that answered.  One task runs it; the queries    *)
(* run concurrently and end in any order, by a timeout at the latest.      *)
(***************************************************************************)
EXTENDS Kademlia, Sequences, SequencesExt

CONSTANTS
  KeyDistance,  \* the distances of the peers to the search key
  Concurrency,  \* queries under way at once
  Seeds,        \* the lists of peers a search may start from
  Replies       \* the lists of peers that a peer may return

\* The digests of two peer ids differ, and so do their distances to a key.
ASSUME KeyDistanceAssumption ==
  /\ KeyDistance \in [Peers -> Nat]
  /\ \A p, q \in Peers : KeyDistance[p] = KeyDistance[q] => p = q
ASSUME ConcurrencyAssumption == Concurrency \in Nat \ {0}
ASSUME ListsAssumption == Seeds \subseteq Seq(Peers) /\ Replies \subseteq Seq(Peers)

VARIABLES
  candidates,  \* the queue of candidates; a peer may be in it more than once
  queried,     \* the candidates taken from the queue
  pending,     \* the queries under way
  closest_k,   \* the result, a list that is kept sorted by distance
  pc,          \* whether route returned
  heard,       \* history: the peers that were ever named
  asked,       \* history: the peers a query was sent to
  answered     \* history: the peers whose query succeeded

search == <<candidates, queried, pending, closest_k, pc, heard, asked, answered>>

LookupTypeOK ==
  /\ candidates \in Seq(Peers)
  /\ queried \subseteq Peers
  /\ pending \subseteq Peers /\ Cardinality(pending) <= Concurrency
  /\ closest_k \subseteq Peers
  /\ pc \in {"running", "returned"}
  /\ heard \subseteq Peers /\ asked \subseteq Peers /\ answered \subseteq Peers

LookupInit ==
  /\ candidates \in Seeds
  /\ queried = {} /\ pending = {} /\ closest_k = {}
  /\ pc = "running"
  /\ heard = ToSet(candidates) /\ asked = {} /\ answered = {}

-----------------------------------------------------------------------------
is_closer(p) ==
  Cardinality(closest_k) < K \/ \E q \in closest_k : KeyDistance[p] < KeyDistance[q]

Farthest(S) == CHOOSE p \in S : \A q \in S : KeyDistance[q] <= KeyDistance[p]

\* Faulty variant of WithClosest: a full list takes no more.
FirstCome(S, p) == IF Cardinality(S) = K THEN S ELSE S \cup {p}

\* add_closest_k: push, sort, truncate.
WithClosest(S, p) ==
  IF Cardinality(S \cup {p}) > K
  THEN (S \cup {p}) \ {Farthest(S \cup {p})}
  ELSE S \cup {p}

\* The task awaits a query rather than take the next candidate.
Waiting == \/ candidates = <<>> /\ pending # {}
           \/ Cardinality(pending) = Concurrency

\* The places in a reply of the peers that are pushed to the queue.
Wanted(peers) == {i \in DOMAIN peers : peers[i] \notin queried /\ is_closer(peers[i])}

\* The queue with them: the loop over the reply visits them in their order.
Pushed(peers) ==
  {candidates \o [m \in DOMAIN f |-> peers[f[m]]] : f \in
    {f \in [1 .. Cardinality(Wanted(peers)) -> Wanted(peers)] :
       /\ \A i \in Wanted(peers) : \E m \in DOMAIN f : f[m] = i
       /\ \A m, n \in DOMAIN f : m < n => f[m] < f[n]}}

-----------------------------------------------------------------------------
\* Take a candidate and ask it, unless that was done before or it is too far.
Pop ==
  /\ pc = "running" /\ ~Waiting /\ candidates # <<>>
  /\ LET p == Head(candidates)
     IN  /\ candidates' = Tail(candidates)
         /\ queried' = queried \cup {p}
         /\ IF p \notin queried /\ is_closer(p)
            THEN pending' = pending \cup {p} /\ asked' = asked \cup {p}
            ELSE UNCHANGED <<pending, asked>>
  /\ UNCHANGED <<closest_k, pc, heard, answered>>

\* Nothing is left to ask or to wait for.
Return ==
  /\ pc = "running" /\ candidates = <<>> /\ pending = {}
  /\ pc' = "returned"
  /\ UNCHANGED <<candidates, queried, pending, closest_k, heard, asked, answered>>

\* Faulty variant of Closest: a peer counts as queried once it is queued.
ClosestMarks(p, peers) ==
  /\ pc = "running" /\ Waiting /\ p \in pending
  /\ pending' = pending \ {p}
  /\ candidates' \in Pushed(peers)
  /\ queried' = queried \cup {peers[i] : i \in Wanted(peers)}
  /\ closest_k' = WithClosest(closest_k, p)
  /\ heard' = heard \cup ToSet(peers)
  /\ answered' = answered \cup {p}
  /\ UNCHANGED <<pc, asked>>

\* A query returns the closest peers it knows.
Closest(p, peers) ==
  /\ pc = "running" /\ Waiting /\ p \in pending
  /\ pending' = pending \ {p}
  /\ candidates' \in Pushed(peers)
  /\ closest_k' = WithClosest(closest_k, p)
  /\ heard' = heard \cup ToSet(peers)
  /\ answered' = answered \cup {p}
  /\ UNCHANGED <<queried, pc, asked>>

\* A query found what is searched for: route returns and drops the others.
Finished(p) ==
  /\ pc = "running" /\ Waiting /\ p \in pending
  /\ pending' = {}
  /\ closest_k' = WithClosest(closest_k, p)
  /\ pc' = "returned"
  /\ answered' = answered \cup {p}
  /\ UNCHANGED <<candidates, queried, heard, asked>>

\* Faulty variant of Err: a query that failed is tried again.
ErrRetry(p) ==
  /\ pc = "running" /\ Waiting /\ p \in pending
  /\ pending' = pending \ {p}
  /\ candidates' = Append(candidates, p)
  /\ queried' = queried \ {p}
  /\ UNCHANGED <<closest_k, pc, heard, asked, answered>>

\* A query fails or times out.
Err(p) ==
  /\ pc = "running" /\ Waiting /\ p \in pending
  /\ pending' = pending \ {p}
  /\ UNCHANGED <<candidates, queried, closest_k, pc, heard, asked, answered>>

LookupNext ==
  \/ Pop
  \/ Return
  \/ \E p \in Peers : (\E peers \in Replies : Closest(p, peers)) \/ Finished(p) \/ Err(p)

LookupSpec == LookupInit /\ [][LookupNext]_search

\* The task runs when it is ready, and a query ends by its timeout.
FairLookupSpec == LookupSpec /\ WF_search(LookupNext)

-----------------------------------------------------------------------------
(* Properties.                                                             *)

\* The result is the K closest of the peers that answered, in whatever order
\* their answers came in.
KClosest ==
  /\ closest_k \subseteq answered
  /\ Cardinality(closest_k) <= K
  /\ \A q \in answered \ closest_k :
       /\ Cardinality(closest_k) = K
       /\ \A p \in closest_k : KeyDistance[p] < KeyDistance[q]

\* No peer is forgotten: whoever was named was asked, waits in the queue, or
\* is farther than K peers that answered; when the queue is empty that makes
\* the result final.
NothingMissed ==
  \A p \in heard : p \in asked \/ p \in ToSet(candidates) \/ ~is_closer(p)

\* A peer is never asked twice, although it may be queued more than once.
NeverTwice ==
  [][\A p \in Peers : p \in pending' /\ p \notin pending => p \notin asked]_search

\* The search ends, whatever the peers answer.
Terminates == <>(pc = "returned")
=============================================================================
