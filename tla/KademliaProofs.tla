--------------------------- MODULE KademliaProofs ---------------------------
(***************************************************************************)
(* The routing table: the buckets stay sound and the counter exact for any *)
(* K, any number of buckets and peers, and any number of pings on their    *)
(* way; closest finds what there is and, with a metric, what is nearest.   *)
(*                                                                         *)
(* The search: it keeps the K closest peers that answered and forgets      *)
(* none, for any peers, distances, K, concurrency, seeds and replies.      *)
(***************************************************************************)
EXTENDS KBucketTable, Recursively, FiniteSetTheorems, SequenceTheorems, WellFoundedInduction,
        TLAPS

-----------------------------------------------------------------------------
(* What try_insert does to a bucket.                                       *)

\* No peer is in a bucket twice.
Distinct(q) == \A m, n \in DOMAIN q : q[m] = q[n] => m = n

\* Moving a peer to the tail keeps the peers of the bucket.
LEMMA MoveToTailKeeps ==
  ASSUME NEW q \in Seq(Peers), Distinct(q), NEW p \in ToSet(q)
  PROVE  /\ MoveToTail(q, p) \in Seq(Peers)
         /\ Len(MoveToTail(q, p)) = Len(q)
         /\ ToSet(MoveToTail(q, p)) = ToSet(q)
         /\ Distinct(MoveToTail(q, p))
<1> DEFINE i == CHOOSE k \in DOMAIN q : q[k] = p
           r == MoveToTail(q, p)
           n == Len(q)
<1>1. i \in 1 .. n /\ q[i] = p /\ n \in Nat /\ n > 0 /\ DOMAIN q = 1 .. n /\ p \in Peers
  BY DEF ToSet
<1> HIDE DEF i
<1> DEFINE u == SubSeq(q, 1, i - 1)
           v == SubSeq(q, i + 1, n)
<1>2. /\ u \in Seq(Peers) /\ Len(u) = i - 1
      /\ \A j \in 1 .. i - 1 : u[j] = q[j]
  <2>1. 1 \in Int /\ i - 1 \in Int /\ \A j \in 1 .. i - 1 : q[j] \in Peers
    BY <1>1
  <2>2. /\ u \in Seq(Peers)
        /\ Len(u) = IF 1 <= i - 1 THEN i - 1 - 1 + 1 ELSE 0
        /\ \A j \in 1 .. i - 1 - 1 + 1 : u[j] = q[1 + j - 1]
    BY <2>1, SubSeqProperties
  <2> QED
    BY <1>1, <2>2
<1>3. /\ v \in Seq(Peers) /\ Len(v) = n - i
      /\ \A j \in 1 .. n - i : v[j] = q[i + j]
  <2>1. i + 1 \in Int /\ n \in Int /\ \A j \in i + 1 .. n : q[j] \in Peers
    BY <1>1
  <2>2. /\ v \in Seq(Peers)
        /\ Len(v) = IF i + 1 <= n THEN n - (i + 1) + 1 ELSE 0
        /\ \A j \in 1 .. n - (i + 1) + 1 : v[j] = q[i + 1 + j - 1]
    BY <2>1, SubSeqProperties
  <2>3. n - (i + 1) + 1 = n - i /\ \A j \in 1 .. n - i : i + 1 + j - 1 = i + j
    BY <1>1
  <2> HIDE DEF v, n
  <2>4. Len(v) = n - i
    BY <1>1, <2>2, <2>3
  <2>5. \A j \in 1 .. n - i : v[j] = q[i + j]
    BY <2>2, <2>3
  <2> QED
    BY <2>2, <2>4, <2>5
<1> DEFINE w == u \o v
<1>4. r = Append(w, p)
  BY DEF MoveToTail, RemoveAt, i
<1> HIDE DEF u, v, r, n
<1>5. /\ w \in Seq(Peers) /\ Len(w) = n - 1
      /\ \A j \in 1 .. n - 1 : w[j] = IF j < i THEN q[j] ELSE q[j + 1]
  <2>1. /\ w \in Seq(Peers) /\ Len(w) = Len(u) + Len(v)
        /\ \A j \in 1 .. Len(u) + Len(v) : w[j] = IF j <= Len(u) THEN u[j] ELSE v[j - Len(u)]
    BY <1>2, <1>3, ConcatProperties
  <2> HIDE DEF w
  <2>2. Len(u) + Len(v) = n - 1
    BY <1>1, <1>2, <1>3
  <2>3. ASSUME NEW j \in 1 .. n - 1, j < i
        PROVE  w[j] = q[j]
    <3>1. j \in 1 .. Len(u) + Len(v) /\ j <= Len(u) /\ j \in 1 .. i - 1
      BY <1>1, <1>2, <2>2, <2>3
    <3>2. w[j] = u[j]
      BY <2>1, <3>1
    <3>3. u[j] = q[j]
      BY <1>2, <3>1
    <3> QED
      BY <3>2, <3>3
  <2>4. ASSUME NEW j \in 1 .. n - 1, ~(j < i)
        PROVE  w[j] = q[j + 1]
    <3>1. j - (i - 1) \in 1 .. n - i /\ i + (j - (i - 1)) = j + 1
      BY <1>1, <2>4
    <3>2. j \in 1 .. Len(u) + Len(v) /\ ~(j <= Len(u)) /\ j - Len(u) = j - (i - 1)
      BY <1>1, <1>2, <2>2, <2>4
    <3>3. w[j] = v[j - (i - 1)]
      BY <2>1, <3>2
    <3>4. v[j - (i - 1)] = q[i + (j - (i - 1))]
      BY <1>3, <3>1
    <3> QED
      BY <3>1, <3>3, <3>4
  <2> QED
    BY <2>1, <2>2, <2>3, <2>4
<1> HIDE DEF w
<1>6. r \in Seq(Peers) /\ Len(r) = n /\ DOMAIN r = 1 .. n
  BY <1>1, <1>4, <1>5
<1>7. \A j \in 1 .. n : r[j] = IF j < i THEN q[j] ELSE IF j < n THEN q[j + 1] ELSE p
  <2>1. \A j \in 1 .. n : r[j] = IF j = n THEN p ELSE w[j]
    BY <1>1, <1>4, <1>5
  <2> QED
    BY <1>1, <1>5, <2>1
<1>8. ToSet(r) = ToSet(q)
  <2>1. \A j \in 1 .. n : \E k \in 1 .. n : r[j] = q[k]
    <3> SUFFICES ASSUME NEW j \in 1 .. n
                 PROVE  \E k \in 1 .. n : r[j] = q[k]
      OBVIOUS
    <3>1. CASE j < i
      BY <1>7, <3>1
    <3>2. CASE ~(j < i) /\ j < n
      BY <1>1, <1>7, <3>2
    <3>3. CASE ~(j < i) /\ ~(j < n)
      BY <1>1, <1>7, <3>3
    <3> QED
      BY <3>1, <3>2, <3>3
  <2>2. \A j \in 1 .. n : q[j] \in ToSet(r)
    <3> SUFFICES ASSUME NEW j \in 1 .. n
                 PROVE  \E k \in 1 .. n : r[k] = q[j]
      BY <1>6 DEF ToSet
    <3>1. CASE j < i
      BY <1>7, <3>1
    <3>2. CASE j = i
      BY <1>1, <1>7, <3>2
    <3>3. CASE j > i
      <4>1. j - 1 \in 1 .. n /\ r[j - 1] = q[j]
        BY <1>1, <1>7, <3>3
      <4> QED
        BY <4>1
    <3> QED
      BY <1>1, <3>1, <3>2, <3>3
  <2>3. ToSet(r) = {r[j] : j \in 1 .. n} /\ ToSet(q) = {q[j] : j \in 1 .. n}
    BY <1>1, <1>6 DEF ToSet
  <2> QED
    BY <2>1, <2>2, <2>3
<1>9. Distinct(r)
  <2> SUFFICES ASSUME NEW j \in 1 .. n, NEW k \in 1 .. n, r[j] = r[k]
               PROVE  j = k
    BY <1>6 DEF Distinct
  <2>1. \A a, b \in 1 .. n : q[a] = q[b] => a = b
    BY <1>1 DEF Distinct
  <2> DEFINE at(x) == IF x < i THEN x ELSE IF x < n THEN x + 1 ELSE i
  <2>2. /\ at(j) \in 1 .. n /\ r[j] = q[at(j)]
        /\ at(k) \in 1 .. n /\ r[k] = q[at(k)]
    BY <1>1, <1>7
  <2>3. at(j) = at(k)
    BY <2>1, <2>2
  <2> QED
    BY <1>1, <2>3
<1> QED
  BY <1>6, <1>8, <1>9 DEF r, n

\* Taking the oldest peer out.
LEMMA TailKeeps ==
  ASSUME NEW q \in Seq(Peers), Distinct(q), q # <<>>
  PROVE  /\ Tail(q) \in Seq(Peers)
         /\ Len(Tail(q)) = Len(q) - 1
         /\ Head(q) \in ToSet(q)
         /\ ToSet(Tail(q)) = ToSet(q) \ {Head(q)}
         /\ Distinct(Tail(q))
<1>1. /\ Tail(q) \in Seq(Peers) /\ Len(Tail(q)) = Len(q) - 1 /\ Head(q) = q[1]
      /\ Len(q) \in Nat \ {0} /\ DOMAIN q = 1 .. Len(q)
      /\ DOMAIN Tail(q) = 1 .. Len(q) - 1
      /\ \A j \in 1 .. Len(q) - 1 : Tail(q)[j] = q[j + 1]
  OBVIOUS
<1>2. Distinct(Tail(q))
  BY <1>1 DEF Distinct
<1>3. Head(q) \in ToSet(q)
  BY <1>1 DEF ToSet
<1>4. ASSUME NEW x \in ToSet(Tail(q))
      PROVE  x \in ToSet(q) \ {Head(q)}
  BY <1>1, <1>4 DEF ToSet, Distinct
<1>5. ASSUME NEW x \in ToSet(q) \ {Head(q)}
      PROVE  x \in ToSet(Tail(q))
  <2>1. PICK j \in 1 .. Len(q) : x = q[j]
    BY <1>1 DEF ToSet
  <2>2. j - 1 \in 1 .. Len(q) - 1 /\ Tail(q)[j - 1] = x
    BY <1>1, <1>5, <2>1
  <2> QED
    BY <1>1, <2>2 DEF ToSet
<1> QED
  BY <1>1, <1>2, <1>3, <1>4, <1>5

\* Adding a peer that is not there.
LEMMA AppendKeeps ==
  ASSUME NEW q \in Seq(Peers), Distinct(q), NEW p \in Peers, p \notin ToSet(q)
  PROVE  /\ Append(q, p) \in Seq(Peers)
         /\ Len(Append(q, p)) = Len(q) + 1
         /\ ToSet(Append(q, p)) = ToSet(q) \cup {p}
         /\ Distinct(Append(q, p))
<1>1. /\ Append(q, p) \in Seq(Peers) /\ Len(Append(q, p)) = Len(q) + 1
      /\ Len(q) \in Nat /\ DOMAIN q = 1 .. Len(q)
      /\ DOMAIN Append(q, p) = 1 .. Len(q) + 1
      /\ \A j \in 1 .. Len(q) : Append(q, p)[j] = q[j]
      /\ Append(q, p)[Len(q) + 1] = p
  OBVIOUS
<1>2. ToSet(Append(q, p)) = ToSet(q) \cup {p}
  BY <1>1 DEF ToSet
<1>3. \A j \in 1 .. Len(q) : q[j] # p
  BY <1>1 DEF ToSet
<1>4. Distinct(Append(q, p))
  BY <1>1, <1>3 DEF Distinct
<1> QED
  BY <1>1, <1>2, <1>4

\* try_insert moves the peer to the tail, or pops the oldest one of a full
\* bucket, or adds the peer.
LEMMA TryInsert ==
  ASSUME NEW q \in Seq(Peers), Distinct(q), Len(q) <= K, NEW p \in Peers
  PROVE  /\ After(q, p) \in Seq(Peers) /\ Distinct(After(q, p)) /\ Len(After(q, p)) <= K
         /\ \/ /\ p \in ToSet(q) /\ Popped(q, p) = {p}
               /\ ToSet(After(q, p)) = ToSet(q) /\ Len(After(q, p)) = Len(q)
            \/ /\ p \notin ToSet(q) /\ Len(After(q, p)) = K - 1
               /\ \E h \in ToSet(q) : Popped(q, p) = {h} /\ ToSet(After(q, p)) = ToSet(q) \ {h}
            \/ /\ p \notin ToSet(q) /\ Popped(q, p) = {}
               /\ ToSet(After(q, p)) = ToSet(q) \cup {p} /\ Len(After(q, p)) = Len(q) + 1
<1>1. CASE p \in ToSet(q)
  BY <1>1, MoveToTailKeeps DEF After, Popped
<1>2. CASE p \notin ToSet(q) /\ Len(q) = K
  <2>1. q # <<>>
    BY <1>2, KAssumption
  <2>2. K - 1 <= K
    BY KAssumption
  <2>3. After(q, p) = Tail(q) /\ Popped(q, p) = {Head(q)}
    BY <1>2 DEF After, Popped
  <2> QED
    BY <1>2, <2>1, <2>2, <2>3, TailKeeps
<1>3. CASE p \notin ToSet(q) /\ Len(q) # K
  <2>1. Len(q) + 1 <= K
    BY <1>3, KAssumption
  <2>2. After(q, p) = Append(q, p) /\ Popped(q, p) = {}
    BY <1>3 DEF After, Popped
  <2> QED
    BY <1>3, <2>1, <2>2, AppendKeeps
<1> QED
  BY <1>1, <1>2, <1>3

-----------------------------------------------------------------------------
(* The invariant: the buckets are sound, and the counter, which has to be  *)
(* positive where it is decremented, is exact.                             *)

\* The types of the table and of the pings under way.
Typed ==
  /\ bucket \in [0 .. Buckets - 1 -> Seq(Peers)]
  /\ DOMAIN ping \subseteq Tasks
  /\ \A t \in DOMAIN ping : ping[t] \in [lru : Peers, new : Peers]

\* The inductive invariant.
IInv == Typed /\ BucketsSound /\ LenExact

\* The parts of BucketsSound for the bucket of a peer.
LEMMA OwnBucket ==
  ASSUME Typed, BucketsSound, NEW p \in Peers
  PROVE  /\ KIndex[p] \in 0 .. Buckets - 1 /\ BucketOf(p) = bucket[KIndex[p]]
         /\ BucketOf(p) \in Seq(Peers) /\ Distinct(BucketOf(p)) /\ Len(BucketOf(p)) <= K
         /\ \A x \in ToSet(BucketOf(p)) : KIndex[x] = KIndex[p]
<1>1. KIndex[p] \in 0 .. Buckets - 1
  BY KIndexAssumption
<1> QED
  BY <1>1 DEF Typed, BucketsSound, BucketOf, Distinct, ToSet

\* insert_prv, whoever calls it, keeps the table sound and its counter exact,
\* and takes a peer from a full bucket only.
LEMMA InsertPrv ==
  ASSUME IInv, NEW p \in Peers, insert_prv(p)
  PROVE  /\ bucket' \in [0 .. Buckets - 1 -> Seq(Peers)]
         /\ BucketsSound' /\ LenExact'
         /\ \A i \in 0 .. Buckets - 1 :
              Len(bucket'[i]) >= Len(bucket[i]) \/ Len(bucket'[i]) = K - 1
         /\ Popped(BucketOf(p), p) \subseteq Peers
         /\ \E h : Popped(BucketOf(p), p) \subseteq {h}
<1> DEFINE q == BucketOf(p)
           r == After(q, p)
           k == KIndex[p]
<1>1. /\ k \in 0 .. Buckets - 1 /\ q = bucket[k]
      /\ q \in Seq(Peers) /\ Distinct(q) /\ Len(q) <= K
      /\ \A x \in ToSet(q) : x \in Peers /\ KIndex[x] = k
  <2>1. \A x \in ToSet(q) : x \in Peers
    BY OwnBucket DEF IInv, ToSet
  <2> QED
    BY <2>1, OwnBucket DEF IInv
<1>2. /\ r \in Seq(Peers) /\ Distinct(r) /\ Len(r) <= K
      /\ \/ /\ p \in ToSet(q) /\ Popped(q, p) = {p}
            /\ ToSet(r) = ToSet(q) /\ Len(r) = Len(q)
         \/ /\ p \notin ToSet(q) /\ Len(r) = K - 1
            /\ \E h \in ToSet(q) : Popped(q, p) = {h} /\ ToSet(r) = ToSet(q) \ {h}
         \/ /\ p \notin ToSet(q) /\ Popped(q, p) = {}
            /\ ToSet(r) = ToSet(q) \cup {p} /\ Len(r) = Len(q) + 1
  BY <1>1, TryInsert
<1>3. bucket' = [bucket EXCEPT ![k] = r]
  BY <1>1 DEF insert_prv, BucketOf
<1>4. /\ len' = IF Popped(q, p) = {} THEN len + 1
                ELSE IF Popped(q, p) = {p} THEN len ELSE len - 1
  BY DEF insert_prv
<1> HIDE DEF q, r
<1>5. bucket' \in [0 .. Buckets - 1 -> Seq(Peers)] /\ bucket'[k] = r
      /\ \A i \in 0 .. Buckets - 1 : i # k => bucket'[i] = bucket[i]
  BY <1>1, <1>2, <1>3 DEF IInv, Typed
<1>6. \A x \in ToSet(r) : KIndex[x] = k
  BY <1>1, <1>2
<1>7. BucketsSound'
  <2>1. \A m \in DOMAIN r : KIndex[r[m]] = k
    BY <1>6 DEF ToSet
  <2>2. \A m, n \in DOMAIN r : r[m] = r[n] => m = n
    BY <1>2 DEF Distinct
  <2>3. Len(r) <= K
    BY <1>2
  <2> SUFFICES ASSUME NEW i \in 0 .. Buckets - 1
               PROVE  /\ Len(bucket'[i]) <= K
                      /\ \A m \in DOMAIN bucket'[i] : KIndex[bucket'[i][m]] = i
                      /\ \A m, n \in DOMAIN bucket'[i] : bucket'[i][m] = bucket'[i][n] => m = n
    BY DEF BucketsSound
  <2>4. CASE i = k
    BY <1>5, <2>1, <2>2, <2>3, <2>4
  <2>5. CASE i # k
    <3>1. bucket'[i] = bucket[i]
      BY <1>5, <2>5
    <3> QED
      BY <3>1 DEF IInv, BucketsSound
  <2> QED
    BY <2>4, <2>5
<1>8. LenExact'
  <2>1. \A x \in Peers : x \in Table <=> x \in ToSet(bucket[KIndex[x]])
    BY DEF Table, BucketOf
  <2>2. \A x \in Peers : x \in Table' <=> x \in ToSet(bucket'[KIndex[x]])
    BY DEF Table, BucketOf
  <2>3. Table \subseteq Peers /\ Table' \subseteq Peers
    BY DEF Table
  <2>4. \A x \in Peers : KIndex[x] # k => (x \in Table' <=> x \in Table)
    BY <1>5, <2>1, <2>2, KIndexAssumption
  <2>5. \A x \in Peers : KIndex[x] = k => /\ x \in Table <=> x \in ToSet(q)
                                          /\ x \in Table' <=> x \in ToSet(r)
    BY <1>1, <1>5, <2>1, <2>2
  <2>6. len = Cardinality(Table) /\ IsFiniteSet(Table) /\ Cardinality(Table) \in Nat
    BY <2>3, PeersAssumption, FS_Subset, FS_CardinalityType DEF IInv, LenExact
  <2>7. CASE p \in ToSet(q) /\ Popped(q, p) = {p} /\ ToSet(r) = ToSet(q)
    <3>1. Table' = Table
      BY <2>3, <2>4, <2>5, <2>7
    <3> QED
      BY <1>4, <2>6, <2>7, <3>1 DEF LenExact
  <2>8. ASSUME p \notin ToSet(q), NEW h \in ToSet(q), Popped(q, p) = {h},
               ToSet(r) = ToSet(q) \ {h}
        PROVE  LenExact'
    <3>1. h \in Peers /\ KIndex[h] = k
      BY <1>1
    <3>2. Table' = Table \ {h} /\ h \in Table
      BY <2>3, <2>4, <2>5, <2>8, <3>1
    <3>3. Cardinality(Table') = Cardinality(Table) - 1
      BY <2>6, <3>2, FS_RemoveElement
    <3>4. len' = len - 1
      BY <1>4, <2>8
    <3> QED
      BY <2>6, <3>3, <3>4 DEF LenExact
  <2>9. CASE p \notin ToSet(q) /\ Popped(q, p) = {} /\ ToSet(r) = ToSet(q) \cup {p}
    <3>1. Table' = Table \cup {p} /\ p \notin Table
      BY <2>3, <2>4, <2>5, <2>9
    <3>2. Cardinality(Table') = Cardinality(Table) + 1
      BY <2>6, <3>1, FS_AddElement
    <3> QED
      BY <1>4, <2>6, <2>9, <3>2 DEF LenExact
  <2> QED
    BY <1>2, <2>7, <2>8, <2>9
<1>9. ASSUME NEW i \in 0 .. Buckets - 1
      PROVE  Len(bucket'[i]) >= Len(bucket[i]) \/ Len(bucket'[i]) = K - 1
  <2>1. Len(bucket[i]) \in Nat /\ Len(r) \in Nat
    BY <1>2 DEF IInv, Typed
  <2>2. CASE i = k
    BY <1>1, <1>2, <1>5, <2>1, <2>2
  <2>3. CASE i # k
    BY <1>5, <2>1, <2>3
  <2> QED
    BY <2>2, <2>3
<1>10. Popped(q, p) \subseteq Peers /\ \E h : Popped(q, p) \subseteq {h}
  BY <1>1, <1>2
<1> QED
  BY <1>5, <1>7, <1>8, <1>9, <1>10 DEF q

\* Every step but a stutter is an insert_prv, and leaves well-formed pings.
LEMMA StepInserts ==
  ASSUME IInv, Next
  PROVE  /\ \E p \in Peers : insert_prv(p)
         /\ DOMAIN ping' \subseteq Tasks
         /\ \A t \in DOMAIN ping' : ping'[t] \in [lru : Peers, new : Peers]
<1>1. ASSUME NEW t \in Tasks, NEW p \in Peers, Insert(t, p)
      PROVE  /\ insert_prv(p)
             /\ DOMAIN ping' \subseteq Tasks
             /\ \A u \in DOMAIN ping' : ping'[u] \in [lru : Peers, new : Peers]
  <2> DEFINE P == Popped(BucketOf(p), p)
             l == CHOOSE x \in P : TRUE
  <2>1. insert_prv(p)
    BY <1>1 DEF Insert
  <2>2. P \subseteq Peers
    BY <2>1, InsertPrv
  <2>3. ping' = IF P = {} THEN ping ELSE Put(ping, t, [lru |-> l, new |-> p])
    BY <1>1 DEF Insert
  <2>4. P # {} => l \in P
    OBVIOUS
  <2> HIDE DEF P, l
  <2>5. CASE P = {}
    BY <2>1, <2>3, <2>5 DEF IInv, Typed
  <2>6. CASE P # {}
    <3>1. [lru |-> l, new |-> p] \in [lru : Peers, new : Peers]
      BY <2>2, <2>4, <2>6
    <3> QED
      BY <2>1, <2>3, <2>6, <3>1 DEF IInv, Typed, Put
  <2> QED
    BY <2>5, <2>6
<1>2. ASSUME NEW t \in Tasks, Answered(t) \/ Failed(t)
      PROVE  /\ \E p \in Peers : insert_prv(p)
             /\ DOMAIN ping' \subseteq Tasks
             /\ \A u \in DOMAIN ping' : ping'[u] \in [lru : Peers, new : Peers]
  <2>1. ping[t].lru \in Peers /\ ping[t].new \in Peers /\ ping' = Without(ping, {t})
    BY <1>2 DEF Answered, Failed, IInv, Typed
  <2>2. DOMAIN ping' \subseteq DOMAIN ping /\ \A u \in DOMAIN ping' : ping'[u] = ping[u]
    BY <2>1 DEF Without, Restrict
  <2> QED
    BY <1>2, <2>1, <2>2 DEF Answered, Failed, IInv, Typed
<1> QED
  BY <1>1, <1>2 DEF Next

\* The invariant holds throughout.
LEMMA Invariance == Spec => []IInv
<1>1. Init => IInv
  <2> SUFFICES ASSUME Init
               PROVE  IInv
    OBVIOUS
  <2>1. \A i \in 0 .. Buckets - 1 : bucket[i] = <<>>
    BY DEF Init
  <2>2. Typed
    BY DEF Init, Typed, EmptyMap
  <2>3. BucketsSound
    BY <2>1, KAssumption DEF BucketsSound
  <2>4. Table = {}
    BY <2>1, KIndexAssumption DEF Table, BucketOf, ToSet
  <2>5. LenExact
    BY <2>4, FS_EmptySet DEF Init, LenExact
  <2> QED
    BY <2>2, <2>3, <2>5 DEF IInv
<1>2. IInv /\ [Next]_vars => IInv'
  <2> SUFFICES ASSUME IInv, [Next]_vars
               PROVE  IInv'
    OBVIOUS
  <2>1. CASE Next
    BY <2>1, StepInserts, InsertPrv DEF IInv, Typed
  <2>2. CASE UNCHANGED vars
    BY <2>2 DEF IInv, Typed, BucketsSound, LenExact, Table, BucketOf, vars
  <2> QED
    BY <2>1, <2>2
<1> QED
  BY <1>1, <1>2, PTL DEF Spec

-----------------------------------------------------------------------------
(* The theorems.                                                           *)

\* The table's variables have their types; in particular len() never wraps.
THEOREM TypeCorrect == Spec => []TypeOK
<1>1. IInv => TypeOK
  <2>1. Table \subseteq Peers
    BY DEF Table
  <2>2. Cardinality(Table) \in Nat
    BY <2>1, PeersAssumption, FS_Subset, FS_CardinalityType
  <2> QED
    BY <2>2 DEF IInv, Typed, LenExact, TypeOK
<1> QED
  BY <1>1, Invariance, PTL

\* A peer is in its own bucket, once, and no bucket is longer than K, however
\* inserts and late pings interleave (kbucket.rs, try_insert).
THEOREM BucketsAlwaysSound == Spec => []BucketsSound
<1>1. IInv => BucketsSound
  BY DEF IInv
<1> QED
  BY <1>1, Invariance, PTL

\* len() is the number of peers in the table (kbucket.rs, insert_prv).
THEOREM LenAlwaysExact == Spec => []LenExact
<1>1. IInv => LenExact
  BY DEF IInv
<1> QED
  BY <1>1, Invariance, PTL

\* A bucket that was full once keeps K - 1 peers (kbucket.rs, try_insert and
\* the tasks of insert).
THEOREM BucketsNeverDrain == Spec => NeverDrains
<1> DEFINE Kept == \A i \in 0 .. Buckets - 1 :
                     Len(bucket[i]) >= K - 1 => Len(bucket'[i]) >= K - 1
<1>1. IInv /\ [Next]_vars => [Kept]_vars
  <2> SUFFICES ASSUME IInv, Next, NEW i \in 0 .. Buckets - 1, Len(bucket[i]) >= K - 1
               PROVE  Len(bucket'[i]) >= K - 1
    OBVIOUS
  <2>1. PICK p \in Peers : insert_prv(p)
    BY StepInserts
  <2>2. Len(bucket'[i]) >= Len(bucket[i]) \/ Len(bucket'[i]) = K - 1
    BY <2>1, InsertPrv
  <2>3. Len(bucket[i]) \in Nat /\ Len(bucket'[i]) \in Nat
    BY <2>1, InsertPrv DEF IInv, Typed
  <2> QED
    BY <2>2, <2>3, KAssumption
<1> QED
  BY <1>1, Invariance, PTL DEF Spec, NeverDrains

-----------------------------------------------------------------------------
(* Induction over the naturals, on a set.                                  *)

\* The order of the naturals, as the relation the library knows.
LEMMA LessWellFounded ==
  \E R : IsWellFoundedOn(R, Nat) /\ \A x, y \in Nat : x < y => <<x, y>> \in R
<1> DEFINE R == {ss \in Nat \X Nat : ss[1] < ss[2]}
<1>1. IsWellFoundedOn(R, Nat)
  <2>1. R = {ss \in Nat \X Nat : ss[1] < ss[2]}
    OBVIOUS
  <2> QED
    BY <2>1, NatLessThanWellFounded DEF OpToRel
<1>2. \A x, y \in Nat : x < y => <<x, y>> \in R
  BY DEF R
<1> QED
  BY <1>1, <1>2

\* Every set of naturals that is not empty has a least element.
LEMMA LeastNat ==
  ASSUME NEW T \in SUBSET Nat, T # {}
  PROVE  \E x \in T : \A y \in T : x <= y
<1>1. PICK R : IsWellFoundedOn(R, Nat) /\ \A x, y \in Nat : x < y => <<x, y>> \in R
  BY LessWellFounded
<1>2. \E x \in T : \A y \in T : ~ (<<y, x>> \in R)
  <2>1. IsWellFoundedOn(R, Nat) /\ T \subseteq Nat /\ T # {}
    BY <1>1
  <2> QED
    BY <2>1, WFMin, Zenon
<1>3. PICK x \in T : \A y \in T : ~ (<<y, x>> \in R)
  BY <1>2
<1>4. \A y \in T : ~(y < x)
  BY <1>1, <1>3
<1>5. T \subseteq Nat
  OBVIOUS
<1> QED
  BY <1>4, <1>5

\* What holds of 0, and of n + 1 when it holds of n, holds of all.
LEMMA NatSetInduction ==
  ASSUME NEW T, 0 \in T, \A n \in Nat : n \in T => n + 1 \in T
  PROVE  Nat \subseteq T
<1> SUFFICES ASSUME ~(Nat \subseteq T) PROVE FALSE
  OBVIOUS
<1>1. PICK x \in Nat \ T : \A y \in Nat \ T : x <= y
  BY LeastNat
<1>2. x # 0 /\ x - 1 \in Nat /\ x - 1 \notin Nat \ T
  BY <1>1
<1> QED
  BY <1>1, <1>2

-----------------------------------------------------------------------------
(* Sequences of sequences, one after the other.                            *)

\* Two sequences in a row.
LEMMA ConcatKeeps ==
  ASSUME NEW S, NEW u \in Seq(S), NEW v \in Seq(S)
  PROVE  /\ u \o v \in Seq(S) /\ Len(u \o v) = Len(u) + Len(v)
         /\ ToSet(u \o v) = ToSet(u) \cup ToSet(v)
         /\ Distinct(u) /\ Distinct(v) /\ ToSet(u) \cap ToSet(v) = {} => Distinct(u \o v)
         /\ \A i \in 1 .. Len(u) : (u \o v)[i] = u[i]
<1> DEFINE w == u \o v
<1>1. /\ w \in Seq(S) /\ Len(w) = Len(u) + Len(v)
      /\ \A j \in 1 .. Len(u) + Len(v) : w[j] = IF j <= Len(u) THEN u[j] ELSE v[j - Len(u)]
  BY ConcatProperties
<1>2. /\ Len(u) \in Nat /\ Len(v) \in Nat
      /\ DOMAIN u = 1 .. Len(u) /\ DOMAIN v = 1 .. Len(v)
  OBVIOUS
<1>3. DOMAIN w = 1 .. Len(u) + Len(v)
  BY <1>1
<1> HIDE DEF w
<1>4. \A i \in 1 .. Len(u) : i \in DOMAIN w /\ w[i] = u[i]
  BY <1>1, <1>2, <1>3
<1>5. \A i \in 1 .. Len(v) : Len(u) + i \in DOMAIN w /\ w[Len(u) + i] = v[i]
  <2> TAKE i \in 1 .. Len(v)
  <2>1. /\ Len(u) + i \in 1 .. Len(u) + Len(v) /\ ~(Len(u) + i <= Len(u))
        /\ (Len(u) + i) - Len(u) = i
    BY <1>2
  <2> QED
    BY <1>1, <1>3, <2>1
<1>6. \A j \in DOMAIN w : \/ j \in 1 .. Len(u)
                          \/ \E i \in 1 .. Len(v) : j = Len(u) + i
  <2> TAKE j \in DOMAIN w
  <2>1. CASE j <= Len(u)
    BY <1>2, <1>3, <2>1
  <2>2. CASE ~(j <= Len(u))
    <3>1. j - Len(u) \in 1 .. Len(v) /\ j = Len(u) + (j - Len(u))
      BY <1>2, <1>3, <2>2
    <3> QED
      BY <3>1
  <2> QED
    BY <2>1, <2>2
<1>7. ToSet(w) = ToSet(u) \cup ToSet(v)
  <2>1. ToSet(w) \subseteq ToSet(u) \cup ToSet(v)
    BY <1>2, <1>4, <1>5, <1>6 DEF ToSet
  <2>2. ToSet(u) \subseteq ToSet(w)
    BY <1>2, <1>4 DEF ToSet
  <2>3. ToSet(v) \subseteq ToSet(w)
    BY <1>2, <1>5 DEF ToSet
  <2> QED
    BY <2>1, <2>2, <2>3
<1>8. ASSUME Distinct(u), Distinct(v), ToSet(u) \cap ToSet(v) = {}
      PROVE  Distinct(w)
  <2>1. \A i \in 1 .. Len(u), j \in 1 .. Len(v) : u[i] # v[j]
    BY <1>2, <1>8 DEF ToSet
  <2>2. \A i, j \in 1 .. Len(u) : u[i] = u[j] => i = j
    BY <1>2, <1>8 DEF Distinct
  <2>3. \A i, j \in 1 .. Len(v) : v[i] = v[j] => i = j
    BY <1>2, <1>8 DEF Distinct
  <2> SUFFICES ASSUME NEW m \in DOMAIN w, NEW n \in DOMAIN w, w[m] = w[n]
               PROVE  m = n
    BY DEF Distinct
  <2>4. CASE m \in 1 .. Len(u)
    BY <1>4, <1>5, <1>6, <2>1, <2>2, <2>4
  <2>5. ASSUME NEW i \in 1 .. Len(v), m = Len(u) + i
        PROVE  m = n
    <3>1. w[m] = v[i]
      BY <1>5, <2>5
    <3>2. n \notin 1 .. Len(u)
      BY <1>4, <2>1, <3>1
    <3>3. PICK j \in 1 .. Len(v) : n = Len(u) + j
      BY <1>6, <3>2
    <3>4. w[n] = v[j]
      BY <1>5, <3>3
    <3>5. i = j
      BY <2>3, <3>1, <3>4
    <3> QED
      BY <2>5, <3>3, <3>5
  <2> QED
    BY <1>6, <2>4, <2>5
<1> QED
  BY <1>1, <1>4, <1>7, <1>8 DEF w

\* f[i] is what there is after i of the n sequences.
Flattens(f, s, n) ==
  /\ FlattenSeq(s) = f[n]
  /\ f[1] = s[1]
  /\ \A i \in 1 .. n - 1 : f[i + 1] = f[i] \o s[i + 1]

\* FlattenSeq appends one after the other.
LEMMA FlattenSteps ==
  ASSUME NEW n \in Nat \ {0}, NEW S, NEW s \in [1 .. n -> Seq(S)]
  PROVE  \E f \in [1 .. n -> Seq(S)] : Flattens(f, s, n)
<1> DEFINE Body(g, i) == IF i = 1 THEN s[i] ELSE g[i - 1] \o s[i]
           T == {m \in Nat : \E g : g = [i \in 1 .. m |-> Body(g, i)]}
           flatten == CHOOSE g : g = [i \in 1 .. n |-> Body(g, i)]
<1>1. 0 \in T
  <2> DEFINE e == [i \in 1 .. 0 |-> <<>>]
  <2>1. e = [i \in 1 .. 0 |-> Body(e, i)]
    OBVIOUS
  <2> QED
    BY <2>1
<1>2. ASSUME NEW m \in T
      PROVE  m + 1 \in T
  <2>1. PICK g : g = [i \in 1 .. m |-> Body(g, i)]
    OBVIOUS
  <2> DEFINE h == [i \in 1 .. m + 1 |-> Body(g, i)]
  <2>2. \A i \in 1 .. m + 1 : Body(h, i) = Body(g, i)
    <3> TAKE i \in 1 .. m + 1
    <3>1. CASE i = 1
      BY <3>1
    <3>2. CASE i # 1
      <4>1. i - 1 \in 1 .. m /\ i - 1 \in 1 .. m + 1
        BY <3>2
      <4> HIDE DEF Body
      <4>2. h[i - 1] = Body(g, i - 1) /\ g[i - 1] = Body(g, i - 1)
        BY <2>1, <4>1
      <4> HIDE DEF h
      <4> QED
        BY <3>2, <4>2 DEF Body
    <3> QED
      BY <3>1, <3>2
  <2>3. h = [i \in 1 .. m + 1 |-> Body(h, i)]
    BY <2>2
  <2> HIDE DEF h, Body
  <2>4. \E x : x = [i \in 1 .. m + 1 |-> Body(x, i)]
    BY <2>3
  <2> QED
    BY <2>4
<1>3. n \in T
  BY <1>1, <1>2, NatSetInduction
<1>4. flatten = [i \in 1 .. n |-> Body(flatten, i)]
  <2>1. \E g : g = [i \in 1 .. n |-> Body(g, i)]
    BY <1>3
  <2> HIDE DEF Body
  <2> QED
    BY <2>1
<1>5. Len(s) = n
  OBVIOUS
<1>6. FlattenSeq(s) = flatten[n]
  BY <1>5 DEF FlattenSeq
<1> HIDE DEF flatten, T
<1>7. DOMAIN flatten = 1 .. n /\ \A i \in 1 .. n : flatten[i] = Body(flatten, i)
  <2> HIDE DEF Body
  <2> QED
    BY <1>4
<1>8. flatten[1] = s[1]
  BY <1>7
<1>9. \A i \in 1 .. n - 1 : flatten[i + 1] = flatten[i] \o s[i + 1]
  <2> SUFFICES ASSUME NEW i \in 1 .. n - 1, NEW j, j = i + 1
               PROVE  flatten[j] = flatten[i] \o s[j]
    OBVIOUS
  <2>1. j \in 1 .. n /\ j # 1 /\ j - 1 = i
    OBVIOUS
  <2>2. flatten[j] = Body(flatten, j)
    <3> HIDE DEF Body
    <3> QED
      BY <1>7, <2>1
  <2>3. Body(flatten, j) = flatten[j - 1] \o s[j]
    BY <2>1, Zenon
  <2>4. flatten[j - 1] = flatten[i]
    BY <2>1
  <2> HIDE DEF Body
  <2> QED
    BY <2>2, <2>3, <2>4, Zenon
<1> HIDE DEF Body
<1>10. \A i \in 1 .. n : flatten[i] \in Seq(S)
  <2> DEFINE U == {m \in Nat : m + 1 \in 1 .. n => flatten[m + 1] \in Seq(S)}
  <2>1. 0 \in U
    BY <1>8
  <2>2. ASSUME NEW m \in Nat, m \in U
        PROVE  m + 1 \in U
    <3>1. CASE m + 1 \in 1 .. n - 1
      <4>1. flatten[m + 1] \in Seq(S) /\ s[m + 1 + 1] \in Seq(S)
        BY <2>2, <3>1
      <4>2. flatten[m + 1 + 1] = flatten[m + 1] \o s[m + 1 + 1]
        BY <1>9, <3>1
      <4>3. flatten[m + 1 + 1] \in Seq(S)
        BY <4>1, <4>2, ConcatKeeps
      <4> QED
        BY <4>3
    <3>2. CASE ~(m + 1 \in 1 .. n - 1)
      BY <3>2
    <3> QED
      BY <3>1, <3>2
  <2>3. Nat \subseteq U
    <3> HIDE DEF U
    <3> QED
      BY <2>1, <2>2, NatSetInduction
  <2> SUFFICES ASSUME NEW i \in 1 .. n PROVE flatten[i] \in Seq(S)
    OBVIOUS
  <2>4. i - 1 \in Nat /\ i - 1 + 1 = i
    OBVIOUS
  <2> QED
    BY <2>3, <2>4
<1>11. flatten \in [1 .. n -> Seq(S)]
  <2>1. flatten = [i \in 1 .. n |-> flatten[i]]
    BY <1>4
  <2> QED
    BY <1>10, <2>1
<1> QED
  BY <1>6, <1>8, <1>9, <1>11 DEF Flattens

\* What FlattenSeq makes of sequences that share no element.
LEMMA FlattenKeeps ==
  ASSUME NEW n \in Nat \ {0}, NEW S, NEW s \in [1 .. n -> Seq(S)]
  PROVE  /\ FlattenSeq(s) \in Seq(S)
         /\ ToSet(FlattenSeq(s)) = UNION {ToSet(s[i]) : i \in 1 .. n}
         /\ /\ \A i \in 1 .. n : Distinct(s[i])
            /\ \A i, j \in 1 .. n : i # j => ToSet(s[i]) \cap ToSet(s[j]) = {}
            => Distinct(FlattenSeq(s))
<1>0. PICK f \in [1 .. n -> Seq(S)] : Flattens(f, s, n)
  BY FlattenSteps
<1>1. /\ FlattenSeq(s) = f[n]
      /\ f[1] = s[1]
      /\ \A i \in 1 .. n - 1 : f[i + 1] = f[i] \o s[i + 1]
  BY <1>0 DEF Flattens
<1> DEFINE Disjoint == /\ \A i \in 1 .. n : Distinct(s[i])
                       /\ \A i, j \in 1 .. n : i # j => ToSet(s[i]) \cap ToSet(s[j]) = {}
           Upto(m) == UNION {ToSet(s[i]) : i \in 1 .. m}
           U == {m \in Nat : m + 1 \in 1 .. n =>
                   ToSet(f[m + 1]) = Upto(m + 1) /\ (Disjoint => Distinct(f[m + 1]))}
<1>2. 0 \in U
  <2>1. Upto(1) = ToSet(s[1])
    OBVIOUS
  <2>2. 1 \in 1 .. n
    OBVIOUS
  <2> HIDE DEF Upto
  <2> QED
    BY <1>1, <2>1, <2>2
<1>3. ASSUME NEW m \in Nat, m \in U
      PROVE  m + 1 \in U
  <2>1. CASE m + 1 \in 1 .. n - 1
    <3> DEFINE u == f[m + 1]
               v == s[m + 1 + 1]
    <3>0. m + 1 \in 1 .. n /\ m + 1 + 1 \in 1 .. n
      BY <2>1
    <3>9. f[m + 1 + 1] = u \o v
      BY <1>1, <2>1
    <3>1. u \in Seq(S) /\ v \in Seq(S)
      BY <1>1, <3>0
    <3>2. ToSet(u) = Upto(m + 1) /\ (Disjoint => Distinct(u))
      BY <1>3, <3>0
    <3>3. Upto(m + 1 + 1) = Upto(m + 1) \cup ToSet(v)
      <4>1. 1 .. m + 1 + 1 = (1 .. m + 1) \cup {m + 1 + 1}
        OBVIOUS
      <4> QED
        BY <4>1
    <3>4. Disjoint => Upto(m + 1) \cap ToSet(v) = {}
      <4>1. ASSUME Disjoint, NEW i \in 1 .. m + 1
            PROVE  ToSet(s[i]) \cap ToSet(v) = {}
        <5>1. i \in 1 .. n /\ i # m + 1 + 1
          BY <3>0
        <5> QED
          BY <3>0, <4>1, <5>1
      <4> QED
        BY <4>1
    <3>5. Disjoint => Distinct(v)
      BY <3>0
    <3> HIDE DEF Upto, Disjoint, u, v
    <3>6. ToSet(u \o v) = ToSet(u) \cup ToSet(v)
      BY <3>1, ConcatKeeps
    <3>7. Distinct(u) /\ Distinct(v) /\ ToSet(u) \cap ToSet(v) = {} => Distinct(u \o v)
      BY <3>1, ConcatKeeps, Zenon
    <3>8. /\ ToSet(f[m + 1 + 1]) = Upto(m + 1 + 1)
          /\ Disjoint => Distinct(f[m + 1 + 1])
      BY <3>9, <3>2, <3>3, <3>4, <3>5, <3>6, <3>7
    <3> QED
      BY <3>8
  <2>2. CASE ~(m + 1 \in 1 .. n - 1)
    BY <2>2
  <2> QED
    BY <2>1, <2>2
<1>4. Nat \subseteq U
  <2> HIDE DEF U
  <2> QED
    BY <1>2, <1>3, NatSetInduction
<1>5. n - 1 \in Nat /\ n - 1 + 1 = n /\ n \in 1 .. n
  OBVIOUS
<1>6. ToSet(f[n]) = Upto(n) /\ (Disjoint => Distinct(f[n]))
  <2> HIDE DEF Upto, Disjoint
  <2>1. n - 1 \in U
    <3> HIDE DEF U
    <3> QED
      BY <1>4, <1>5
  <2> QED
    BY <1>5, <2>1
<1> QED
  BY <1>1, <1>5, <1>6

-----------------------------------------------------------------------------
(* closest.                                                                *)

\* The most recent peers first.
LEMMA ReverseKeeps ==
  ASSUME NEW S, NEW q \in Seq(S)
  PROVE  /\ Reverse(q) \in Seq(S) /\ Len(Reverse(q)) = Len(q)
         /\ ToSet(Reverse(q)) = ToSet(q)
         /\ Distinct(q) => Distinct(Reverse(q))
<1> DEFINE n == Len(q)
           r == Reverse(q)
<1>1. n \in Nat /\ DOMAIN q = 1 .. n
  OBVIOUS
<1>2. r = [i \in 1 .. n |-> q[n - i + 1]]
  BY DEF Reverse
<1>3. \A i \in 1 .. n : n - i + 1 \in 1 .. n /\ n - (n - i + 1) + 1 = i /\ q[i] \in S
  BY <1>1
<1> HIDE DEF n, r
<1>4. r \in Seq(S) /\ Len(r) = n /\ DOMAIN r = 1 .. n
  BY <1>1, <1>2, <1>3
<1>5. \A i \in 1 .. n : r[i] = q[n - i + 1] /\ r[n - i + 1] = q[i]
  BY <1>2, <1>3
<1>6. ToSet(r) = ToSet(q)
  <2>1. ASSUME NEW i \in 1 .. n
        PROVE  r[i] \in ToSet(q) /\ q[i] \in ToSet(r)
    <3>1. n - i + 1 \in DOMAIN q /\ n - i + 1 \in DOMAIN r
      BY <1>1, <1>3, <1>4
    <3> QED
      BY <1>5, <3>1 DEF ToSet
  <2>2. ToSet(r) \subseteq ToSet(q) /\ ToSet(q) \subseteq ToSet(r)
    BY <1>1, <1>4, <2>1 DEF ToSet
  <2> QED
    BY <2>2
<1>7. ASSUME Distinct(q)
      PROVE  Distinct(r)
  <2> SUFFICES ASSUME NEW i \in 1 .. n, NEW j \in 1 .. n, r[i] = r[j]
               PROVE  i = j
    BY <1>4 DEF Distinct
  <2>1. n - i + 1 = n - j + 1
    <3>1. n - i + 1 \in DOMAIN q /\ n - j + 1 \in DOMAIN q
      BY <1>1, <1>3
    <3>2. q[n - i + 1] = q[n - j + 1]
      BY <1>5
    <3> QED
      BY <1>7, <3>1, <3>2, Zenon DEF Distinct
  <2> QED
    BY <1>1, <2>1
<1> QED
  BY <1>4, <1>6, <1>7 DEF n, r

\* As many distinct elements as the sequence is long.
LEMMA DistinctCard ==
  ASSUME NEW S, NEW q \in Seq(S), Distinct(q)
  PROVE  Cardinality(ToSet(q)) = Len(q)
<1> DEFINE n == Len(q)
<1>1. n \in Nat /\ DOMAIN q = 1 .. n /\ q = [i \in 1 .. n |-> q[i]]
  OBVIOUS
<1>2. ToSet(q) = {q[i] : i \in 1 .. n}
  BY <1>1 DEF ToSet
<1> HIDE DEF n
<1>3. q \in [1 .. n -> ToSet(q)]
  BY <1>1, <1>2
<1>4. q \in Bijection(1 .. n, ToSet(q))
  BY <1>1, <1>2, <1>3 DEF Bijection, Injection, Surjection, IsInjective, Distinct
<1>5. IsFiniteSet(1 .. n) /\ Cardinality(1 .. n) = n
  <2>1. 1 \in Int /\ n \in Int /\ n >= 0
    BY <1>1
  <2>2. /\ IsFiniteSet(1 .. n)
        /\ Cardinality(1 .. n) = IF 1 > n THEN 0 ELSE n - 1 + 1
    BY <2>1, FS_Interval
  <2> QED
    BY <2>1, <2>2
<1>6. ExistsBijection(1 .. n, ToSet(q))
  BY <1>4 DEF ExistsBijection
<1> QED
  BY <1>5, <1>6, FS_Bijection DEF n

\* The first m of a sequence.
LEMMA FirstKeeps ==
  ASSUME NEW S, NEW q \in Seq(S), Distinct(q), NEW m \in 0 .. Len(q)
  PROVE  LET r == SubSeq(q, 1, m)
         IN  /\ Len(r) = m /\ Cardinality(ToSet(r)) = m
             /\ ToSet(r) = {q[i] : i \in 1 .. m}
<1> DEFINE r == SubSeq(q, 1, m)
<1>1. Len(q) \in Nat /\ DOMAIN q = 1 .. Len(q) /\ m \in Nat
  OBVIOUS
<1>2. /\ r \in Seq(S) /\ Len(r) = m
      /\ \A i \in 1 .. m : r[i] = q[i]
  <2>1. 1 \in Int /\ m \in Int /\ \A j \in 1 .. m : q[j] \in S
    BY <1>1
  <2>2. /\ r \in Seq(S)
        /\ Len(r) = IF 1 <= m THEN m - 1 + 1 ELSE 0
        /\ \A j \in 1 .. m - 1 + 1 : r[j] = q[1 + j - 1]
    BY <2>1, SubSeqProperties
  <2> QED
    BY <1>1, <2>2
<1>3. DOMAIN r = 1 .. m
  BY <1>2
<1> HIDE DEF r
<1>4. Distinct(r)
  <2> SUFFICES ASSUME NEW i \in 1 .. m, NEW j \in 1 .. m, r[i] = r[j]
               PROVE  i = j
    BY <1>3 DEF Distinct
  <2>1. i \in DOMAIN q /\ j \in DOMAIN q
    BY <1>1
  <2> QED
    BY <1>2, <2>1 DEF Distinct
<1>5. ToSet(r) = {q[i] : i \in 1 .. m}
  BY <1>2, <1>3 DEF ToSet
<1> QED
  BY <1>2, <1>4, <1>5, DistinctCard DEF r

\* What closest takes of a bucket, or of one that does not exist.
LEMMA RecentKeeps ==
  ASSUME Typed, BucketsSound, NEW i \in Int
  PROVE  /\ Recent(i) \in Seq(Peers) /\ Distinct(Recent(i)) /\ Len(Recent(i)) <= K
         /\ \A p \in ToSet(Recent(i)) : p \in Table /\ KIndex[p] = i
         /\ \A p \in Table : KIndex[p] = i => p \in ToSet(Recent(i))
<1>1. CASE i \in 0 .. Buckets - 1
  <2>1. /\ bucket[i] \in Seq(Peers) /\ Distinct(bucket[i]) /\ Len(bucket[i]) <= K
        /\ \A m \in DOMAIN bucket[i] : KIndex[bucket[i][m]] = i /\ bucket[i][m] \in Peers
    BY <1>1 DEF Typed, BucketsSound, Distinct
  <2>2. Recent(i) = Reverse(bucket[i])
    BY <1>1 DEF Recent
  <2>3. /\ Recent(i) \in Seq(Peers) /\ Distinct(Recent(i)) /\ Len(Recent(i)) = Len(bucket[i])
        /\ ToSet(Recent(i)) = ToSet(bucket[i])
    BY <2>1, <2>2, ReverseKeeps
  <2>4. \A p \in ToSet(bucket[i]) : p \in Peers /\ KIndex[p] = i
    BY <2>1 DEF ToSet
  <2>5. \A p \in Peers : KIndex[p] = i => (p \in Table <=> p \in ToSet(bucket[i]))
    BY DEF Table, BucketOf
  <2>6. Table \subseteq Peers
    BY DEF Table
  <2> QED
    BY <2>1, <2>3, <2>4, <2>5, <2>6
<1>2. CASE i \notin 0 .. Buckets - 1
  <2>1. Recent(i) = <<>>
    BY <1>2 DEF Recent
  <2>2. <<>> \in Seq(Peers) /\ Len(<<>>) <= K /\ Distinct(<<>>) /\ ToSet(<<>>) = {}
    BY KAssumption DEF Distinct, ToSet
  <2>3. \A p \in Table : KIndex[p] # i
    BY <1>2, KIndexAssumption DEF Table
  <2> QED
    BY <2>1, <2>2, <2>3
<1> QED
  BY <1>1, <1>2

\* The bucket that the walk from bucket k comes to with its step s.
Neighbour(k, s) == IF s % 2 = 0 THEN k + s \div 2 ELSE k - (s + 1) \div 2

\* The walk comes to every other bucket, and to none twice.
LEMMA WalkCovers ==
  ASSUME NEW k \in 0 .. Buckets - 1
  PROVE  /\ \A s \in 1 .. 2 * Buckets : Neighbour(k, s) \in Int \ {k}
         /\ \A s, t \in 1 .. 2 * Buckets : Neighbour(k, s) = Neighbour(k, t) => s = t
         /\ \A i \in 0 .. Buckets - 1 : i # k => \E s \in 1 .. 2 * Buckets : i = Neighbour(k, s)
<1>1. ASSUME NEW s \in 1 .. 2 * Buckets
      PROVE  Neighbour(k, s) \in Int \ {k}
  BY BucketsAssumption DEF Neighbour
<1>2. ASSUME NEW s \in 1 .. 2 * Buckets, NEW t \in 1 .. 2 * Buckets,
             Neighbour(k, s) = Neighbour(k, t)
      PROVE  s = t
  BY <1>2, BucketsAssumption DEF Neighbour
<1>3. ASSUME NEW i \in 0 .. Buckets - 1, i # k
      PROVE  \E s \in 1 .. 2 * Buckets : i = Neighbour(k, s)
  <2>1. CASE i > k
    <3>1. 2 * (i - k) \in 1 .. 2 * Buckets /\ i = Neighbour(k, 2 * (i - k))
      BY <2>1, BucketsAssumption DEF Neighbour
    <3> QED
      BY <3>1
  <2>2. CASE i < k
    <3>1. 2 * (k - i) - 1 \in 1 .. 2 * Buckets /\ i = Neighbour(k, 2 * (k - i) - 1)
      BY <2>2, BucketsAssumption DEF Neighbour
    <3> QED
      BY <3>1
  <2> QED
    BY <1>3, <2>1, <2>2, BucketsAssumption
<1> QED
  BY <1>1, <1>2, <1>3

\* The walk lists the table, each peer once, and its own bucket first.
LEMMA VisitKeeps ==
  ASSUME Typed, BucketsSound, NEW k \in 0 .. Buckets - 1
  PROVE  /\ Visit(k) \in Seq(Peers) /\ Distinct(Visit(k)) /\ ToSet(Visit(k)) = Table
         /\ Len(Recent(k)) <= Len(Visit(k))
         /\ \A i \in 1 .. Len(Recent(k)) : Visit(k)[i] = Recent(k)[i]
<1> DEFINE n == 2 * Buckets
           u == Recent(k)
           w == [s \in 1 .. n |-> Recent(Neighbour(k, s))]
           v == FlattenSeq(w)
<1>1. n \in Nat \ {0} /\ Buckets \in Nat /\ k \in Int
  BY BucketsAssumption
<1>2. Visit(k) = u \o v
  <2>1. \A s \in 1 .. n : Recent(Neighbour(k, s)) =
          IF s % 2 = 0 THEN Recent(k + s \div 2) ELSE Recent(k - (s + 1) \div 2)
    BY DEF Neighbour
  <2>2. w = [s \in 1 .. n |->
               IF s % 2 = 0 THEN Recent(k + s \div 2) ELSE Recent(k - (s + 1) \div 2)]
    BY <2>1
  <2> QED
    BY <2>2 DEF Visit
<1>3. /\ u \in Seq(Peers) /\ Distinct(u)
      /\ \A p \in ToSet(u) : p \in Table /\ KIndex[p] = k
      /\ \A p \in Table : KIndex[p] = k => p \in ToSet(u)
  BY <1>1, RecentKeeps
<1> DEFINE at(s) == Neighbour(k, s)
<1>4. \A s \in 1 .. n : /\ w[s] \in Seq(Peers) /\ Distinct(w[s])
                        /\ \A p \in ToSet(w[s]) : p \in Table /\ KIndex[p] = at(s)
                        /\ \A p \in Table : KIndex[p] = at(s) => p \in ToSet(w[s])
  <2> TAKE s \in 1 .. n
  <2>1. at(s) \in Int /\ w[s] = Recent(at(s))
    BY WalkCovers
  <2> HIDE DEF at, w
  <2> QED
    BY <2>1, RecentKeeps
<1>5. /\ \A s \in 1 .. n : at(s) # k
      /\ \A s, t \in 1 .. n : at(s) = at(t) => s = t
      /\ \A i \in 0 .. Buckets - 1 : i # k => \E s \in 1 .. n : i = at(s)
  BY WalkCovers
<1>6. w \in [1 .. n -> Seq(Peers)]
  BY <1>4
<1> HIDE DEF n, u, w, at
<1>7. \A s, t \in 1 .. n : s # t => ToSet(w[s]) \cap ToSet(w[t]) = {}
  <2> SUFFICES ASSUME NEW s \in 1 .. n, NEW t \in 1 .. n, s # t,
                      NEW p \in ToSet(w[s]), p \in ToSet(w[t])
               PROVE  FALSE
    OBVIOUS
  <2>1. KIndex[p] = at(s) /\ KIndex[p] = at(t)
    BY <1>4
  <2> QED
    BY <1>5, <2>1
<1>8. /\ v \in Seq(Peers) /\ Distinct(v)
      /\ ToSet(v) = UNION {ToSet(w[s]) : s \in 1 .. n}
  <2>1. /\ \A s \in 1 .. n : Distinct(w[s])
        /\ \A s, t \in 1 .. n : s # t => ToSet(w[s]) \cap ToSet(w[t]) = {}
    BY <1>4, <1>7
  <2> QED
    BY <1>1, <1>6, <2>1, FlattenKeeps
<1> HIDE DEF v
<1>9. ToSet(u) \cap ToSet(v) = {}
  <2> SUFFICES ASSUME NEW p \in ToSet(u), p \in ToSet(v) PROVE FALSE
    OBVIOUS
  <2>1. PICK s \in 1 .. n : p \in ToSet(w[s])
    BY <1>8
  <2> QED
    BY <1>3, <1>4, <1>5, <2>1
<1>10. ToSet(u) \cup ToSet(v) = Table
  <2>1. ToSet(u) \cup ToSet(v) \subseteq Table
    BY <1>3, <1>4, <1>8
  <2>2. ASSUME NEW p \in Table
        PROVE  p \in ToSet(u) \cup ToSet(v)
    <3>1. KIndex[p] \in 0 .. Buckets - 1
      BY KIndexAssumption DEF Table
    <3>2. CASE KIndex[p] = k
      BY <1>3, <3>2
    <3>3. CASE KIndex[p] # k
      <4>1. PICK s \in 1 .. n : KIndex[p] = at(s)
        BY <1>5, <3>1, <3>3
      <4>2. p \in ToSet(w[s])
        BY <1>4, <4>1
      <4> QED
        BY <1>8, <4>2
    <3> QED
      BY <3>2, <3>3
  <2> QED
    BY <2>1, <2>2
<1>11. /\ u \o v \in Seq(Peers) /\ Len(u \o v) = Len(u) + Len(v)
       /\ ToSet(u \o v) = ToSet(u) \cup ToSet(v)
       /\ Distinct(u \o v)
       /\ \A i \in 1 .. Len(u) : (u \o v)[i] = u[i]
  BY <1>3, <1>8, <1>9, ConcatKeeps
<1>12. Len(u) \in Nat /\ Len(v) \in Nat
  BY <1>3, <1>8
<1> QED
  BY <1>2, <1>10, <1>11, <1>12 DEF u

\* What closest returns: the first K, or all, of the walk.
LEMMA ClosestFirst ==
  ASSUME Typed, BucketsSound, NEW key \in Keys
  PROVE  LET k == IF key = LocalKey THEN 1 ELSE KeyIndex[key]
             all == Visit(k)
             m == IF Len(all) > K THEN K ELSE Len(all)
         IN  /\ k \in 0 .. Buckets - 1 /\ m \in 0 .. Len(all)
             /\ Len(closest(key)) = m /\ Cardinality(ToSet(closest(key))) = m
             /\ ToSet(closest(key)) = {all[i] : i \in 1 .. m}
<1> DEFINE k == IF key = LocalKey THEN 1 ELSE KeyIndex[key]
           all == Visit(k)
           m == IF Len(all) > K THEN K ELSE Len(all)
<1>1. k \in 0 .. Buckets - 1
  BY BucketsAssumption, KeyIndexAssumption
<1>2. closest(key) = SubSeq(all, 1, m)
  BY DEF closest
<1> HIDE DEF k
<1>3. all \in Seq(Peers) /\ Distinct(all)
  BY <1>1, VisitKeeps
<1> HIDE DEF all
<1>4. m \in 0 .. Len(all)
  BY <1>3, KAssumption
<1> HIDE DEF m
<1>5. LET r == SubSeq(all, 1, m)
      IN  /\ Len(r) = m /\ Cardinality(ToSet(r)) = m
          /\ ToSet(r) = {all[i] : i \in 1 .. m}
  BY <1>3, <1>4, FirstKeeps
<1> QED
  BY <1>1, <1>2, <1>4, <1>5 DEF k, all, m

\* closest returns K distinct peers of the table, or all of them: its walk to
\* both sides comes to every bucket, and to none twice, wherever it starts.
THEOREM ClosestAlwaysComplete == Spec => []ClosestComplete
<1>1. IInv => ClosestComplete
  <2> SUFFICES ASSUME IInv, NEW key \in Keys
               PROVE  LET found == ToSet(closest(key))
                      IN  /\ found \subseteq Table
                          /\ Len(closest(key)) = Cardinality(found)
                          /\ Cardinality(found) < K => found = Table
    BY DEF ClosestComplete
  <2> DEFINE k == IF key = LocalKey THEN 1 ELSE KeyIndex[key]
             all == Visit(k)
             m == IF Len(all) > K THEN K ELSE Len(all)
             found == ToSet(closest(key))
  <2>1. Typed /\ BucketsSound
    BY DEF IInv
  <2>2. /\ k \in 0 .. Buckets - 1 /\ m \in 0 .. Len(all)
        /\ Len(closest(key)) = m /\ Cardinality(found) = m
        /\ found = {all[i] : i \in 1 .. m}
    BY <2>1, ClosestFirst
  <2> HIDE DEF k, found
  <2>3. all \in Seq(Peers) /\ ToSet(all) = Table
    BY <2>1, <2>2, VisitKeeps
  <2> HIDE DEF all
  <2>4. /\ Len(all) \in Nat /\ DOMAIN all = 1 .. Len(all)
        /\ Table = {all[i] : i \in 1 .. Len(all)}
    BY <2>3 DEF ToSet
  <2>5. found \subseteq Table
    BY <2>2, <2>4
  <2>6. m < K => m = Len(all)
    <3>1. \A n \in Nat : LET x == IF n > K THEN K ELSE n IN x < K => x = n
      BY KAssumption
    <3>2. Len(all) \in Nat
      BY <2>4
    <3> QED
      BY <3>1, <3>2
  <2> HIDE DEF m
  <2>7. Cardinality(found) < K => found = Table
    BY <2>2, <2>4, <2>6
  <2> QED
    BY <2>2, <2>5, <2>7 DEF found
<1> QED
  BY <1>1, Invariance, PTL

\* When the key's own bucket has a peer, closest returns the nearest of the
\* table: they are all in that bucket, which is not longer than K.
THEOREM NearestAlwaysFound == Spec => []NearestFound
<1>1. IInv => NearestFound
  <2> SUFFICES ASSUME IInv, NEW key \in Keys \ {LocalKey}, bucket[KeyIndex[key]] # <<>>,
                      NEW p \in Nearest(key)
               PROVE  p \in ToSet(closest(key))
    BY DEF NearestFound
  <2> DEFINE k == KeyIndex[key]
             all == Visit(k)
             m == IF Len(all) > K THEN K ELSE Len(all)
             u == Recent(k)
  <2>1. Typed /\ BucketsSound
    BY DEF IInv
  <2>2. /\ k \in 0 .. Buckets - 1 /\ m \in 0 .. Len(all)
        /\ ToSet(closest(key)) = {all[i] : i \in 1 .. m}
    BY <2>1, ClosestFirst
  <2>3. /\ all \in Seq(Peers) /\ Len(u) <= Len(all)
        /\ \A i \in 1 .. Len(u) : all[i] = u[i]
    BY <2>1, <2>2, VisitKeeps
  <2>4. /\ u \in Seq(Peers) /\ Len(u) <= K
        /\ \A q \in Table : KIndex[q] = k => q \in ToSet(u)
    <3>1. k \in Int
      BY <2>2, BucketsAssumption
    <3> HIDE DEF k
    <3> QED
      BY <2>1, <3>1, RecentKeeps
  <2>5. PICK q \in Table : KIndex[q] = k
    <3>1. bucket[k] \in Seq(Peers) /\ bucket[k] # <<>>
      BY <2>1, <2>2 DEF Typed
    <3>2. 1 \in DOMAIN bucket[k] /\ bucket[k][1] \in Peers
      BY <3>1
    <3>3. KIndex[bucket[k][1]] = k /\ bucket[k][1] \in ToSet(bucket[k])
      BY <2>1, <2>2, <3>2 DEF BucketsSound, ToSet
    <3> QED
      BY <3>2, <3>3 DEF Table, BucketOf
  <2>6. p \in Table /\ Distance[key][p] <= Distance[key][q]
    BY <2>5 DEF Nearest
  <2>7. p \in Peers /\ q \in Peers
    BY <2>6 DEF Table
  <2>8. Distance[key][p] \in Nat /\ Distance[key][q] \in Nat
    BY <2>7, DistanceAssumption
  <2>9. KIndex[p] = k
    BY <2>5, <2>6, <2>7, <2>8, MetricAssumption
  <2>10. p \in ToSet(u)
    BY <2>4, <2>6, <2>9
  <2> HIDE DEF all, u, k
  <2>11. PICK i \in 1 .. Len(u) : p = u[i]
    BY <2>4, <2>10 DEF ToSet
  <2>12. i \in 1 .. m /\ all[i] = p
    BY <2>3, <2>4, <2>11, KAssumption
  <2> QED
    BY <2>2, <2>12
<1> QED
  BY <1>1, Invariance, PTL

-----------------------------------------------------------------------------
(* add_closest_k.                                                          *)

Finite(S) == IsFiniteSet(S) /\ Cardinality(S) \in Nat

\* Every set of peers is finite.
LEMMA PeerSetsFinite ==
  ASSUME NEW S \in SUBSET Peers
  PROVE  Finite(S)
BY PeersAssumption, FS_Subset, FS_CardinalityType DEF Finite

\* A set of peers has a farthest one: one that the fewest are farther than.
LEMMA FarthestExists ==
  ASSUME NEW S \in SUBSET Peers, S # {}
  PROVE  /\ Farthest(S) \in S
         /\ \A q \in S : KeyDistance[q] <= KeyDistance[Farthest(S)]
<1> DEFINE Beyond(p) == {q \in S : KeyDistance[q] > KeyDistance[p]}
<1>1. PICK p \in S : \A q \in S : ~(Beyond(q) \subseteq Beyond(p) /\ Beyond(q) # Beyond(p))
  <2> DEFINE T == {Beyond(p) : p \in S}
  <2>1. T \subseteq FiniteSubsetsOf(S) /\ T # {}
    <3>1. \A p \in S : Beyond(p) \in SUBSET S /\ Beyond(p) \in SUBSET Peers
      OBVIOUS
    <3>2. \A p \in S : IsFiniteSet(Beyond(p))
      BY <3>1, PeerSetsFinite DEF Finite
    <3> HIDE DEF Beyond
    <3> QED
      BY <3>1, <3>2 DEF FiniteSubsetsOf
  <2> HIDE DEF T
  <2>2. PICK x \in T : \A y \in T : ~(<<y, x>> \in StrictSubsetOrdering(S))
    BY <2>1, FS_StrictSubsetOrderingWellFounded, WFMin
  <2>3. \A y \in T : ~(y \subseteq x /\ y # x)
    BY <2>1, <2>2 DEF StrictSubsetOrdering, FiniteSubsetsOf
  <2>4. PICK p \in S : x = Beyond(p)
    BY DEF T
  <2>5. \A q \in S : Beyond(q) \in T
    BY DEF T
  <2> HIDE DEF Beyond
  <2> QED
    BY <2>3, <2>4, <2>5
<1>2. \A q \in S : KeyDistance[q] <= KeyDistance[p]
  <2> SUFFICES ASSUME NEW q \in S, ~(KeyDistance[q] <= KeyDistance[p])
               PROVE  FALSE
    OBVIOUS
  <2>1. \A x \in S : KeyDistance[x] \in Nat
    BY KeyDistanceAssumption
  <2>2. Beyond(q) \subseteq Beyond(p) /\ q \in Beyond(p) /\ q \notin Beyond(q)
    BY <2>1
  <2> QED
    BY <1>1, <2>2
<1> QED
  BY <1>2 DEF Farthest

\* add_closest_k adds the peer and drops the farthest of more than K.
LEMMA AddClosest ==
  ASSUME NEW S \in SUBSET Peers, Cardinality(S) <= K, NEW p \in Peers \ S
  PROVE  \/ /\ Cardinality(S) < K /\ WithClosest(S, p) = S \cup {p}
            /\ Cardinality(S \cup {p}) = Cardinality(S) + 1
         \/ /\ Cardinality(S) = K /\ Cardinality(WithClosest(S, p)) = K
            /\ \E f \in S \cup {p} :
                 /\ WithClosest(S, p) = (S \cup {p}) \ {f}
                 /\ \A x \in (S \cup {p}) \ {f} : KeyDistance[x] < KeyDistance[f]
<1> DEFINE A == S \cup {p}
           f == Farthest(A)
<1>1. Cardinality(S) \in Nat /\ IsFiniteSet(S) /\ IsFiniteSet(A)
      /\ Cardinality(A) = Cardinality(S) + 1
  BY PeerSetsFinite, FS_AddElement DEF Finite
<1>2. CASE Cardinality(S) < K
  BY <1>1, <1>2, KAssumption DEF WithClosest
<1>3. CASE Cardinality(S) = K
  <2>1. f \in A /\ \A q \in A : KeyDistance[q] <= KeyDistance[f]
    BY FarthestExists
  <2>2. WithClosest(S, p) = A \ {f}
    BY <1>1, <1>3, KAssumption DEF WithClosest
  <2> HIDE DEF A, f
  <2>3. Cardinality(A \ {f}) = K
    <3>1. IsFiniteSet(A) /\ Cardinality(A) = K + 1
      BY <1>1, <1>3 DEF A
    <3>2. Cardinality(A \ {f}) = Cardinality(A) - 1
      BY <2>1, <3>1, FS_RemoveElement
    <3> QED
      BY <3>1, <3>2, KAssumption
  <2>4. \A x \in A \ {f} : KeyDistance[x] < KeyDistance[f]
    <3>1. \A x \in A : x \in Peers /\ KeyDistance[x] \in Nat
      BY KeyDistanceAssumption DEF A
    <3>2. \A x \in A \ {f} : KeyDistance[x] # KeyDistance[f]
      BY <2>1, <3>1, KeyDistanceAssumption
    <3> QED
      BY <2>1, <3>1, <3>2
  <2>5. f \in A /\ WithClosest(S, p) = A \ {f} /\ Cardinality(WithClosest(S, p)) = K
    BY <2>1, <2>2, <2>3
  <2> QED
    BY <1>3, <2>4, <2>5 DEF A
<1> QED
  BY <1>1, <1>2, <1>3, KAssumption

-----------------------------------------------------------------------------
(* The queue.                                                              *)

\* What a reply pushes to the queue: the wanted peers, and no other.
LEMMA PushedIs ==
  ASSUME candidates \in Seq(Peers), NEW peers \in Seq(Peers), NEW c \in Pushed(peers)
  PROVE  /\ c \in Seq(Peers)
         /\ ToSet(candidates) \subseteq ToSet(c)
         /\ \A i \in Wanted(peers) : peers[i] \in ToSet(c)
<1> DEFINE W == Wanted(peers)
           n == Cardinality(W)
<1>1. PICK f \in [1 .. n -> W] :
        /\ \A i \in W : \E m \in DOMAIN f : f[m] = i
        /\ c = candidates \o [m \in DOMAIN f |-> peers[f[m]]]
  BY DEF Pushed
<1>2. W \subseteq 1 .. Len(peers) /\ Len(peers) \in Nat
  BY DEF Wanted
<1>3. n \in Nat
  <2>1. IsFiniteSet(1 .. Len(peers))
    BY <1>2, FS_Interval
  <2> QED
    BY <1>2, <2>1, FS_Subset, FS_CardinalityType
<1> DEFINE d == [m \in DOMAIN f |-> peers[f[m]]]
<1> HIDE DEF W, n
<1>4. d \in Seq(Peers) /\ DOMAIN d = DOMAIN f /\ \A m \in DOMAIN f : d[m] = peers[f[m]]
  <2>1. f \in [1 .. n -> W]
    OBVIOUS
  <2>2. \A m \in 1 .. n : f[m] \in 1 .. Len(peers)
    BY <1>2, <2>1
  <2>3. \A m \in 1 .. n : peers[f[m]] \in Peers
    BY <2>2
  <2> QED
    BY <1>3, <2>1, <2>3
<1>5. c = candidates \o d
  BY <1>1
<1> HIDE DEF d
<1>6. /\ c \in Seq(Peers)
      /\ Len(candidates) \in Nat /\ Len(d) \in Nat
      /\ DOMAIN c = 1 .. Len(candidates) + Len(d)
      /\ \A j \in 1 .. Len(candidates) : c[j] = candidates[j]
      /\ \A j \in 1 .. Len(d) : c[Len(candidates) + j] = d[j]
  BY <1>4, <1>5
<1>7. ToSet(candidates) \subseteq ToSet(c)
  <2> SUFFICES ASSUME NEW j \in DOMAIN candidates
               PROVE  candidates[j] \in ToSet(c)
    BY DEF ToSet
  <2>1. j \in 1 .. Len(candidates)
    OBVIOUS
  <2>2. j \in DOMAIN c /\ c[j] = candidates[j]
    BY <1>6, <2>1
  <2> QED
    BY <2>2, Zenon DEF ToSet
<1>8. \A j \in 1 .. Len(d) : d[j] \in ToSet(c)
  <2> SUFFICES ASSUME NEW j \in 1 .. Len(d)
               PROVE  \E k \in DOMAIN c : c[k] = d[j]
    BY DEF ToSet
  <2>1. Len(candidates) + j \in DOMAIN c
    BY <1>4, <1>6
  <2> QED
    BY <1>6, <2>1
<1>9. \A i \in W : peers[i] \in ToSet(c)
  <2>1. \A m \in DOMAIN f : peers[f[m]] \in ToSet(c)
    <3>1. d \in Seq(Peers) => DOMAIN d = 1 .. Len(d)
      OBVIOUS
    <3> QED
      BY <1>4, <1>8, <3>1
  <2> QED
    BY <1>1, <2>1
<1> QED
  BY <1>6, <1>7, <1>9 DEF W

\* Taking the first candidate loses no other.
LEMMA PopKeeps ==
  ASSUME candidates \in Seq(Peers), candidates # <<>>
  PROVE  /\ Head(candidates) \in Peers /\ Tail(candidates) \in Seq(Peers)
         /\ \A x \in ToSet(candidates) : x = Head(candidates) \/ x \in ToSet(Tail(candidates))
<1>1. /\ Head(candidates) \in Peers /\ Head(candidates) = candidates[1]
      /\ Tail(candidates) \in Seq(Peers) /\ Len(Tail(candidates)) = Len(candidates) - 1
      /\ Len(candidates) \in Nat /\ DOMAIN candidates = 1 .. Len(candidates)
      /\ DOMAIN Tail(candidates) = 1 .. Len(candidates) - 1
      /\ \A j \in 1 .. Len(candidates) - 1 : Tail(candidates)[j] = candidates[j + 1]
  OBVIOUS
<1>2. ASSUME NEW j \in 1 .. Len(candidates), j # 1
      PROVE  candidates[j] \in ToSet(Tail(candidates))
  <2>1. j - 1 \in DOMAIN Tail(candidates) /\ Tail(candidates)[j - 1] = candidates[j]
    BY <1>1, <1>2
  <2> QED
    BY <2>1 DEF ToSet
<1> QED
  BY <1>1, <1>2 DEF ToSet

-----------------------------------------------------------------------------
(* The invariant: a peer that answers was asked; a candidate that was      *)
(* taken from the queue and not asked was too far, and remains so because  *)
(* the result only gets closer.                                            *)

PassedOver == \A p \in queried \ asked : ~is_closer(p)

LookupInv ==
  /\ LookupTypeOK
  /\ asked \subseteq queried
  /\ pending \subseteq asked /\ answered \subseteq asked /\ pending \cap answered = {}
  /\ KClosest
  /\ NothingMissed
  /\ PassedOver

\* A query that ended well leaves the K closest in the result.
LEMMA AnswerKeepsKClosest ==
  ASSUME LookupTypeOK, KClosest, NEW p \in Peers \ answered,
         closest_k' = WithClosest(closest_k, p), answered' = answered \cup {p}
  PROVE  /\ KClosest' /\ closest_k' \in SUBSET Peers
         /\ \A x \in Peers : is_closer(x)' => is_closer(x)
<1>1. /\ closest_k \in SUBSET Peers /\ closest_k \subseteq answered /\ answered \subseteq Peers
      /\ p \in Peers \ closest_k /\ Cardinality(closest_k) <= K
  BY DEF LookupTypeOK, KClosest
<1>2. Cardinality(closest_k) \in Nat
  BY <1>1, PeerSetsFinite DEF Finite
<1>3. \A x \in Peers : KeyDistance[x] \in Nat
  BY KeyDistanceAssumption
<1>4. CASE /\ Cardinality(closest_k) < K /\ closest_k' = closest_k \cup {p}
           /\ Cardinality(closest_k') = Cardinality(closest_k) + 1
  <2>1. answered = closest_k
    <3>1. Cardinality(closest_k) # K
      BY <1>2, <1>4, KAssumption
    <3>2. \A q \in answered : q \in closest_k
      BY <3>1 DEF KClosest
    <3> QED
      BY <1>1, <3>2
  <2>2. KClosest'
    BY <1>2, <1>4, <2>1, KAssumption DEF KClosest
  <2>3. \A x \in Peers : is_closer(x)
    BY <1>4 DEF is_closer
  <2> QED
    BY <1>1, <1>4, <2>2, <2>3
<1>5. ASSUME NEW f \in closest_k \cup {p},
             Cardinality(closest_k) = K, Cardinality(closest_k') = K,
             closest_k' = (closest_k \cup {p}) \ {f},
             \A x \in (closest_k \cup {p}) \ {f} : KeyDistance[x] < KeyDistance[f]
      PROVE  /\ KClosest' /\ closest_k' \in SUBSET Peers
             /\ \A x \in Peers : is_closer(x)' => is_closer(x)
  <2>1. \A q \in answered \ closest_k : \A x \in closest_k : KeyDistance[x] < KeyDistance[q]
    BY DEF KClosest
  <2>2. \A x \in closest_k' : KeyDistance[x] < KeyDistance[f]
    BY <1>5
  <2>3. ASSUME NEW q \in answered' \ closest_k', NEW x \in closest_k'
        PROVE  KeyDistance[x] < KeyDistance[q]
    <3>1. CASE q = f
      BY <2>2, <3>1
    <3>2. CASE q # f
      <4>1. q \in answered \ closest_k
        BY <1>5, <2>3, <3>2
      <4>2. CASE x \in closest_k
        BY <2>1, <4>1, <4>2
      <4>3. CASE x = p
        <5>1. f \in closest_k
          BY <1>5, <2>3, <4>3
        <5>2. KeyDistance[f] < KeyDistance[q] /\ KeyDistance[x] < KeyDistance[f]
          BY <2>1, <2>2, <4>1, <5>1
        <5>3. x \in Peers /\ f \in Peers /\ q \in Peers
          BY <1>1, <4>1, <4>3, <5>1
        <5> QED
          BY <1>3, <5>2, <5>3
      <4> QED
        BY <1>5, <4>2, <4>3
    <3> QED
      BY <3>1, <3>2
  <2>4. Cardinality(closest_k') <= K /\ closest_k' \subseteq answered'
    BY <1>1, <1>5, KAssumption
  <2>5. KClosest'
    BY <1>5, <2>3, <2>4 DEF KClosest
  <2>6. ASSUME NEW x \in Peers, is_closer(x)'
        PROVE  is_closer(x)
    <3>1. PICK q \in closest_k' : KeyDistance[x] < KeyDistance[q]
      BY <1>5, <2>6, KAssumption DEF is_closer
    <3>2. CASE q \in closest_k
      BY <3>1, <3>2 DEF is_closer
    <3>3. CASE q = p
      <4>1. f \in closest_k /\ KeyDistance[q] < KeyDistance[f]
        BY <1>5, <2>2, <3>1, <3>3
      <4>2. KeyDistance[x] < KeyDistance[f]
        BY <1>1, <1>3, <3>1, <3>3, <4>1
      <4> QED
        BY <4>1, <4>2 DEF is_closer
    <3> QED
      BY <1>5, <3>1, <3>2, <3>3
  <2> QED
    BY <1>1, <1>5, <2>5, <2>6
<1> QED
  BY <1>1, <1>4, <1>5, AddClosest

\* The invariant holds throughout.
LEMMA LookupInvariance == LookupSpec => []LookupInv
<1>1. LookupInit => LookupInv
  <2> SUFFICES ASSUME LookupInit
               PROVE  LookupInv
    OBVIOUS
  <2>1. Cardinality({}) = 0
    BY FS_EmptySet
  <2>2. candidates \in Seq(Peers) /\ heard = ToSet(candidates) /\ heard \subseteq Peers
    <3>1. candidates \in Seq(Peers) /\ heard = ToSet(candidates)
      BY ListsAssumption DEF LookupInit
    <3> QED
      BY <3>1 DEF ToSet
  <2>3. LookupTypeOK
    BY <2>1, <2>2, ConcurrencyAssumption DEF LookupInit, LookupTypeOK
  <2>4. KClosest
    BY <2>1, KAssumption DEF LookupInit, KClosest
  <2>5. NothingMissed
    BY <2>2 DEF NothingMissed
  <2> QED
    BY <2>3, <2>4, <2>5 DEF LookupInit, LookupInv, PassedOver
<1>2. LookupInv /\ [LookupNext]_search => LookupInv'
  <2> SUFFICES ASSUME LookupInv, [LookupNext]_search
               PROVE  LookupInv'
    OBVIOUS
  <2> USE DEF LookupInv
  <2>1. IsFiniteSet(pending) /\ Cardinality(pending) \in Nat
    BY PeerSetsFinite DEF LookupTypeOK, Finite
  <2>2. \A p \in Peers : Cardinality(pending \ {p}) <= Concurrency
    <3> SUFFICES ASSUME NEW p \in Peers
                 PROVE  Cardinality(pending \ {p}) <= Concurrency
      OBVIOUS
    <3>1. Cardinality(pending \ {p}) <= Cardinality(pending) /\ Cardinality(pending \ {p}) \in Nat
      BY <2>1, FS_Subset, FS_CardinalityType
    <3> QED
      BY <2>1, <3>1, ConcurrencyAssumption DEF LookupTypeOK
  <2>3. CASE Pop
    <3> DEFINE p == Head(candidates)
    <3>1. /\ p \in Peers /\ candidates' \in Seq(Peers)
          /\ \A x \in ToSet(candidates) : x = p \/ x \in ToSet(candidates')
      BY <2>3, PopKeeps DEF Pop, LookupTypeOK
    <3>2. /\ candidates # <<>> /\ ~Waiting
          /\ queried' = queried \cup {p}
          /\ UNCHANGED <<closest_k, pc, heard, answered>>
          /\ \/ /\ p \notin queried /\ is_closer(p)
                /\ pending' = pending \cup {p} /\ asked' = asked \cup {p}
             \/ /\ p \in queried \/ ~is_closer(p)
                /\ UNCHANGED <<pending, asked>>
      BY <2>3 DEF Pop
    <3> HIDE DEF p
    <3>3. Cardinality(pending') <= Concurrency
      <4>1. Cardinality(pending \cup {p}) <= Cardinality(pending) + 1
        <5>1. Cardinality(pending \cup {p}) =
                IF p \in pending THEN Cardinality(pending) ELSE Cardinality(pending) + 1
          BY <2>1, FS_AddElement
        <5> QED
          BY <2>1, <5>1
      <4>2. Cardinality(pending) < Concurrency
        BY <2>1, <3>2, ConcurrencyAssumption DEF Waiting, LookupTypeOK
      <4>3. Cardinality(pending \cup {p}) \in Nat
        BY <2>1, FS_AddElement, FS_CardinalityType
      <4>4. Cardinality(pending \cup {p}) <= Concurrency
        BY <2>1, <4>1, <4>2, <4>3, ConcurrencyAssumption
      <4> QED
        BY <3>2, <4>4 DEF LookupTypeOK
    <3>4. LookupTypeOK'
      BY <3>1, <3>2, <3>3 DEF LookupTypeOK
    <3>5. /\ asked' \subseteq queried'
          /\ pending' \subseteq asked' /\ answered' \subseteq asked' /\ pending' \cap answered' = {}
      BY <3>2
    <3>6. KClosest'
      BY <3>2 DEF KClosest
    <3>7. NothingMissed'
      <4> SUFFICES ASSUME NEW x \in heard
                   PROVE  x \in asked' \/ x \in ToSet(candidates') \/ ~is_closer(x)'
        BY <3>2 DEF NothingMissed
      <4>1. is_closer(x)' <=> is_closer(x)
        BY <3>2 DEF is_closer
      <4>2. CASE x = p
        BY <3>1, <3>2, <4>1, <4>2 DEF PassedOver
      <4>3. CASE x # p
        BY <3>1, <3>2, <4>1, <4>3 DEF NothingMissed
      <4> QED
        BY <4>2, <4>3
    <3>8. PassedOver'
      <4>1. \A x \in Peers : is_closer(x)' <=> is_closer(x)
        BY <3>2 DEF is_closer
      <4> QED
        BY <3>1, <3>2, <4>1 DEF PassedOver, LookupTypeOK
    <3> QED
      BY <3>4, <3>5, <3>6, <3>7, <3>8
  <2>4. CASE Return
    BY <2>4 DEF Return, LookupTypeOK, KClosest, NothingMissed, PassedOver, is_closer
  <2>5. ASSUME NEW p \in Peers, NEW peers \in Replies, Closest(p, peers)
        PROVE  LookupInv'
    <3>1. peers \in Seq(Peers)
      BY ListsAssumption
    <3>2. /\ p \in pending /\ pending' = pending \ {p} /\ candidates' \in Pushed(peers)
          /\ closest_k' = WithClosest(closest_k, p)
          /\ heard' = heard \cup ToSet(peers) /\ answered' = answered \cup {p}
          /\ UNCHANGED <<queried, pc, asked>>
      BY <2>5 DEF Closest
    <3>3. /\ candidates' \in Seq(Peers)
          /\ ToSet(candidates) \subseteq ToSet(candidates')
          /\ \A i \in Wanted(peers) : peers[i] \in ToSet(candidates')
      BY <3>1, <3>2, PushedIs DEF LookupTypeOK
    <3>4. p \in Peers \ answered
      BY <3>2
    <3>5. /\ KClosest' /\ closest_k' \in SUBSET Peers
          /\ \A x \in Peers : is_closer(x)' => is_closer(x)
      BY <3>2, <3>4, AnswerKeepsKClosest
    <3>6. ToSet(peers) \subseteq Peers
      BY <3>1 DEF ToSet
    <3>7. LookupTypeOK'
      BY <2>2, <3>2, <3>3, <3>5, <3>6 DEF LookupTypeOK
    <3>8. NothingMissed'
      <4>1. ASSUME NEW x \in heard
            PROVE  x \in asked' \/ x \in ToSet(candidates') \/ ~is_closer(x)'
        BY <3>2, <3>3, <3>5 DEF NothingMissed, LookupTypeOK
      <4>2. ASSUME NEW i \in DOMAIN peers
            PROVE  peers[i] \in asked' \/ peers[i] \in ToSet(candidates') \/ ~is_closer(peers[i])'
        <5>1. peers[i] \in Peers
          BY <3>1
        <5>2. CASE peers[i] \in queried
          BY <3>2, <3>5, <5>1, <5>2 DEF PassedOver
        <5>3. CASE peers[i] \notin queried
          BY <3>3, <3>5, <5>1, <5>3 DEF Wanted
        <5> QED
          BY <5>2, <5>3
      <4>3. \A x \in heard' : x \in heard \/ \E i \in DOMAIN peers : x = peers[i]
        BY <3>2 DEF ToSet
      <4> QED
        BY <4>1, <4>2, <4>3 DEF NothingMissed
    <3>9. PassedOver'
      BY <3>2, <3>5 DEF PassedOver, LookupTypeOK
    <3> QED
      BY <3>2, <3>5, <3>7, <3>8, <3>9
  <2>6. ASSUME NEW p \in Peers, Finished(p)
        PROVE  LookupInv'
    <3>1. /\ p \in pending /\ pending' = {} /\ pc' = "returned"
          /\ closest_k' = WithClosest(closest_k, p) /\ answered' = answered \cup {p}
          /\ UNCHANGED <<candidates, queried, heard, asked>>
      BY <2>6 DEF Finished
    <3>2. p \in Peers \ answered
      BY <3>1
    <3>3. /\ KClosest' /\ closest_k' \in SUBSET Peers
          /\ \A x \in Peers : is_closer(x)' => is_closer(x)
      BY <3>1, <3>2, AnswerKeepsKClosest
    <3>4. Cardinality(pending') <= Concurrency
      BY <3>1, FS_EmptySet, ConcurrencyAssumption
    <3>5. LookupTypeOK'
      BY <3>1, <3>3, <3>4 DEF LookupTypeOK
    <3>6. NothingMissed' /\ PassedOver'
      BY <3>1, <3>3 DEF NothingMissed, PassedOver, LookupTypeOK
    <3> QED
      BY <3>1, <3>3, <3>5, <3>6
  <2>7. ASSUME NEW p \in Peers, Err(p)
        PROVE  LookupInv'
    <3>1. /\ pending' = pending \ {p}
          /\ UNCHANGED <<candidates, queried, closest_k, pc, heard, asked, answered>>
      BY <2>7 DEF Err
    <3>2. LookupTypeOK'
      BY <2>2, <3>1 DEF LookupTypeOK
    <3>3. KClosest' /\ NothingMissed' /\ PassedOver'
      BY <3>1 DEF KClosest, NothingMissed, PassedOver, is_closer
    <3> QED
      BY <3>1, <3>2, <3>3
  <2>8. CASE UNCHANGED search
    BY <2>8 DEF search, LookupTypeOK, KClosest, NothingMissed, PassedOver, is_closer
  <2> QED
    BY <2>3, <2>4, <2>5, <2>6, <2>7, <2>8 DEF LookupNext
<1> QED
  BY <1>1, <1>2, PTL DEF LookupSpec

-----------------------------------------------------------------------------
(* The theorems.                                                           *)

\* The search's variables have their types, and no more than Concurrency
\* queries are ever under way (router.rs, Recursively::route).
THEOREM LookupTypeCorrect == LookupSpec => []LookupTypeOK
<1>1. LookupInv => LookupTypeOK
  BY DEF LookupInv
<1> QED
  BY <1>1, LookupInvariance, PTL

\* The result is the K closest of the peers that answered, in whatever order
\* they did (router.rs, add_closest_k).
THEOREM AlwaysKClosest == LookupSpec => []KClosest
<1>1. LookupInv => KClosest
  BY DEF LookupInv
<1> QED
  BY <1>1, LookupInvariance, PTL

\* A peer that was named is asked, queued, or too far (router.rs, is_closer and
\* the candidates of route).
THEOREM NothingEverMissed == LookupSpec => []NothingMissed
<1>1. LookupInv => NothingMissed
  BY DEF LookupInv
<1> QED
  BY <1>1, LookupInvariance, PTL

\* A peer is asked at most once (router.rs, the set queried).
THEOREM NeverAskedTwice == LookupSpec => NeverTwice
<1> DEFINE Fresh == \A p \in Peers : p \in pending' /\ p \notin pending => p \notin asked
<1>1. LookupInv /\ [LookupNext]_search => [Fresh]_search
  BY DEF LookupInv, LookupNext, Pop, Return, Closest, Finished, Err
<1> QED
  BY <1>1, LookupInvariance, PTL DEF LookupSpec, NeverTwice

\* When the queue has run empty and no query is under way, the result is final:
\* every peer ever named was asked or is farther than the K peers kept.
THEOREM ResultIsFinal ==
  LookupSpec => [](candidates = <<>> => \A p \in heard \ asked : ~is_closer(p))
<1>1. LookupInv => (candidates = <<>> => \A p \in heard \ asked : ~is_closer(p))
  BY DEF LookupInv, NothingMissed, ToSet
<1> QED
  BY <1>1, LookupInvariance, PTL
=============================================================================
