---------------------------- MODULE KBucketTable ----------------------------
(***************************************************************************)
(* The routing table of Kademlia: buckets of at most K peers, least        *)
(* recently seen first.  Inserting into a full bucket takes its oldest     *)
(* peer out and pings it in a task of its own, so that several pings may   *)
(* be on their way while others insert.                                    *)
(***************************************************************************)
EXTENDS Kademlia, HashMaps, Integers, Sequences, SequencesExt

CONSTANTS
  Tasks,     \* the pings that may be on their way at once
  Buckets,   \* 256 in the code, the bits of a distance
  KIndex,    \* k_index of the distance from a peer to the local key
  Keys,      \* keys to search for
  LocalKey,  \* the local one is one of them
  KeyIndex,  \* k_index of the distance from a key to the local key
  Distance   \* the distance of a peer to a key

ASSUME BucketsAssumption == Buckets \in Nat \ {0, 1}
ASSUME KIndexAssumption == KIndex \in [Peers -> 0 .. Buckets - 1]
ASSUME KeyIndexAssumption == KeyIndex \in [Keys \ {LocalKey} -> 0 .. Buckets - 1]
ASSUME DistanceAssumption == Distance \in [Keys -> [Peers -> Nat]]

\* The distance of two ids is their xor: one that shares a key's highest bit
\* (relative to the local id) is nearer to it than any that does not.
ASSUME MetricAssumption ==
  \A key \in Keys \ {LocalKey} : \A p, q \in Peers :
    KIndex[p] = KeyIndex[key] /\ KIndex[q] # KeyIndex[key] =>
      Distance[key][p] < Distance[key][q]

VARIABLES
  bucket,  \* the k-buckets; one that is not created yet is empty
  len,     \* the counter behind len()
  ping     \* the tasks that ping a peer: lru, and the peer new that came

vars == <<bucket, len, ping>>

TypeOK ==
  /\ bucket \in [0 .. Buckets - 1 -> Seq(Peers)]
  /\ len \in Nat
  /\ DOMAIN ping \subseteq Tasks
  /\ \A t \in DOMAIN ping : ping[t] \in [lru : Peers, new : Peers]

Init ==
  /\ bucket = [i \in 0 .. Buckets - 1 |-> <<>>]
  /\ len = 0
  /\ ping = EmptyMap

-----------------------------------------------------------------------------
(* KBucket::try_insert.                                                    *)

\* Faulty variant of MoveToTail: the peer is not taken from its old place.
AddToTail(q, p) == Append(q, p)

\* A peer that is there is the one seen most recently.
MoveToTail(q, p) == Append(RemoveAt(q, CHOOSE i \in DOMAIN q : q[i] = p), p)

\* The bucket afterwards: a full one loses its oldest peer and gains none.
After(q, p) ==
  IF p \in ToSet(q) THEN MoveToTail(q, p)
  ELSE IF Len(q) = K THEN Tail(q)
  ELSE Append(q, p)

\* What it returns, as a set: nothing when the peer was added.
Popped(q, p) ==
  IF p \in ToSet(q) THEN {p}
  ELSE IF Len(q) = K THEN {Head(q)}
  ELSE {}

BucketOf(p) == bucket[KIndex[p]]

-----------------------------------------------------------------------------
(* Steps.                                                                  *)

\* Faulty variant of insert_prv: every refusal counts as a loss.
insert_prv_miscounted(p) ==
  /\ bucket' = [bucket EXCEPT ![KIndex[p]] = After(@, p)]
  /\ len' = IF Popped(BucketOf(p), p) = {} THEN len + 1 ELSE len - 1

\* Under the lock of the table, which it holds until the counter is right.
insert_prv(p) ==
  /\ bucket' = [bucket EXCEPT ![KIndex[p]] = After(@, p)]
  /\ len' = IF Popped(BucketOf(p), p) = {} THEN len + 1
            ELSE IF Popped(BucketOf(p), p) = {p} THEN len
            ELSE len - 1

\* insert, by the handshake listener, with_seeds or a caller: a peer that was
\* popped, which is p itself when p was there, is pinged.
Insert(t, p) ==
  /\ t \notin DOMAIN ping
  /\ insert_prv(p)
  /\ ping' = IF Popped(BucketOf(p), p) = {} THEN ping
             ELSE Put(ping, t, [lru |-> CHOOSE l \in Popped(BucketOf(p), p) : TRUE, new |-> p])

\* The ping is answered; the task inserts the new peer.  What this pops is lost.
Answered(t) ==
  /\ t \in DOMAIN ping
  /\ insert_prv(ping[t].new)
  /\ ping' = Without(ping, {t})

\* It fails; the task inserts the peer that did not answer.
Failed(t) ==
  /\ t \in DOMAIN ping
  /\ insert_prv(ping[t].lru)
  /\ ping' = Without(ping, {t})

Next == \E t \in Tasks :
  \/ \E p \in Peers : Insert(t, p)
  \/ Answered(t)
  \/ Failed(t)

Spec == Init /\ [][Next]_vars

-----------------------------------------------------------------------------
(* closest: a bucket, then its neighbours by turns, the most recent peers  *)
(* of each first, until there are K.                                       *)

Recent(i) == IF i \in 0 .. Buckets - 1 THEN Reverse(bucket[i]) ELSE <<>>

\* Faulty variant of Visit: the walk starts at the neighbours.
VisitNeighbours(k) ==
  FlattenSeq([s \in 1 .. 2 * Buckets |->
                IF s % 2 = 0 THEN Recent(k + s \div 2) ELSE Recent(k - (s + 1) \div 2)])

\* Faulty variant of Visit: the walk ends when the lower buckets do.
VisitDown(k) ==
  Recent(k) \o
  FlattenSeq([s \in 1 .. 2 * k |->
                IF s % 2 = 0 THEN Recent(k + s \div 2) ELSE Recent(k - (s + 1) \div 2)])

Visit(k) ==
  Recent(k) \o
  FlattenSeq([s \in 1 .. 2 * Buckets |->
                IF s % 2 = 0 THEN Recent(k + s \div 2) ELSE Recent(k - (s + 1) \div 2)])

\* A key at distance 0 has no index and is searched for from bucket 1.
closest(key) ==
  LET all == Visit(IF key = LocalKey THEN 1 ELSE KeyIndex[key])
  IN  SubSeq(all, 1, IF Len(all) > K THEN K ELSE Len(all))

-----------------------------------------------------------------------------
(* Properties.                                                             *)

Table == {p \in Peers : p \in ToSet(BucketOf(p))}

\* However inserts and late pings interleave, a peer is in its own bucket, at
\* one place, and a bucket is never longer than K.
BucketsSound ==
  \A i \in 0 .. Buckets - 1 :
    /\ Len(bucket[i]) <= K
    /\ \A m \in DOMAIN bucket[i] : KIndex[bucket[i][m]] = i
    /\ \A m, n \in DOMAIN bucket[i] : bucket[i][m] = bucket[i][n] => m = n

\* len() is the number of peers in the table; in particular the counter,
\* which wraps at zero, is never decremented there.
LenExact == len = Cardinality(Table)

\* A bucket that was full once never falls below K - 1 peers, however many
\* peers are popped while the pings are on their way.
NeverDrains ==
  [][\A i \in 0 .. Buckets - 1 :
       Len(bucket[i]) >= K - 1 => Len(bucket'[i]) >= K - 1]_vars

\* closest returns K distinct peers of the table, or all of them.
ClosestComplete ==
  \A key \in Keys :
    LET found == ToSet(closest(key))
    IN  /\ found \subseteq Table
        /\ Len(closest(key)) = Cardinality(found)
        /\ Cardinality(found) < K => found = Table

Nearest(key) == {p \in Table : \A q \in Table : Distance[key][p] <= Distance[key][q]}

\* When the key's own bucket has a peer, closest finds the nearest of the table.
NearestFound ==
  \A key \in Keys \ {LocalKey} :
    bucket[KeyIndex[key]] # <<>> => Nearest(key) \subseteq ToSet(closest(key))

=============================================================================
