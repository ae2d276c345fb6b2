--------------------------- MODULE PeerBookProofs ---------------------------
(***************************************************************************)
(* What PeerBook guarantees for any peers, addresses and protocols, and    *)
(* Discovery of the addresses that mDNS writes into it and of those that   *)
(* DnsAddr finds behind a name.                                            *)
(***************************************************************************)
EXTENDS Discovery, FiniteSetTheorems, WellFoundedInduction, TLAPS

\* insert and remove take the older entry's addresses out of the reverse map.
LEMMA AfterForget ==
  ASSUME NEW p
  PROVE  \A a : /\ a \in DOMAIN Forget(p) <=> a \in DOMAIN owner /\ a \notin OldAddrs(p)
                /\ a \in DOMAIN Forget(p) => Forget(p)[a] = owner[a]
BY DEF Forget, Without, Restrict

\* Every write is an insert, a remove or a change of a timestamp.
LEMMA Writes ==
  ASSUME Next
  PROVE  \/ \E p \in Peers, A \in SUBSET Addrs, P \in SUBSET Protos, seen \in BOOLEAN :
              Insert(p, A, P, seen)
         \/ \E p \in Peers : Remove(p)
         \/ \E p \in Peers : Appear(p) \/ Disappear(p)
BY DEF Next, Identified, Heard

\* The steps keep the types.
LEMMA TypeStep == TypeOK /\ [Next]_vars => TypeOK'
<1> SUFFICES ASSUME TypeOK, [Next]_vars
             PROVE  TypeOK'
  OBVIOUS
<1>1. ASSUME NEW p \in Peers, NEW A \in SUBSET Addrs, NEW P \in SUBSET Protos,
             NEW seen \in BOOLEAN, Insert(p, A, P, seen)
      PROVE  TypeOK'
  <2>1. DOMAIN infos' \subseteq Peers /\ \A q \in DOMAIN infos' : infos'[q] \in PeerInfos
    BY <1>1 DEF TypeOK, Insert, Put, PeerInfos
  <2>2. DOMAIN owner' \subseteq Addrs /\ \A a \in DOMAIN owner' : owner'[a] \in Peers
    BY <1>1, AfterForget DEF TypeOK, Insert, Index, PutAll
  <2>3. DOMAIN newest' \subseteq Addrs /\ \A a \in DOMAIN newest' : newest'[a] \in Peers
    BY <1>1 DEF TypeOK, Insert, PutAll
  <2>4. claims' \in [Addrs -> SUBSET Peers]
    BY <1>1 DEF TypeOK, Insert
  <2> QED
    BY <2>1, <2>2, <2>3, <2>4 DEF TypeOK
<1>2. ASSUME NEW p \in Peers, Remove(p)
      PROVE  TypeOK'
  BY <1>2, AfterForget DEF TypeOK, Remove, Without, Restrict
<1>3. ASSUME NEW p \in Peers, Appear(p) \/ Disappear(p)
      PROVE  TypeOK'
  <2>1. \A q \in DOMAIN infos' : infos'[q] \in PeerInfos
    <3>1. infos[p] \in PeerInfos /\ \A q \in DOMAIN infos : infos[q] \in PeerInfos
      BY <1>3 DEF TypeOK, Appear, Disappear
    <3>2. /\ [infos[p] EXCEPT !.appear = TRUE] \in PeerInfos
          /\ [infos[p] EXCEPT !.disappear = TRUE] \in PeerInfos
      BY <3>1 DEF PeerInfos
    <3>3. \/ infos' = [infos EXCEPT ![p] = [infos[p] EXCEPT !.appear = TRUE]]
          \/ infos' = [infos EXCEPT ![p] = [infos[p] EXCEPT !.disappear = TRUE]]
      BY <1>3 DEF Appear, Disappear
    <3> QED
      BY <3>1, <3>2, <3>3
  <2>2. DOMAIN infos' = DOMAIN infos /\ UNCHANGED <<owner, newest, claims>>
    BY <1>3 DEF Appear, Disappear
  <2> QED
    BY <2>1, <2>2 DEF TypeOK
<1>4. CASE UNCHANGED vars
  BY <1>4 DEF TypeOK, vars
<1> QED
  BY <1>1, <1>2, <1>3, <1>4, Writes

\* The book's tables always have their types.
THEOREM TypeCorrect == Spec => []TypeOK
<1>1. Init => TypeOK
  BY DEF Init, TypeOK, EmptyMap
<1> QED
  BY <1>1, TypeStep, PTL DEF Spec

\* listen_on only ever names a peer of the book that lists the address, though
\* insert and remove work on the reverse map without looking whose it is.
THEOREM ReverseLookupAlwaysSound == Spec => []ReverseLookupSound
<1>1. Init => ReverseLookupSound
  BY DEF Init, ReverseLookupSound, EmptyMap
<1>2. TypeOK /\ ReverseLookupSound /\ [Next]_vars => ReverseLookupSound'
  <2> SUFFICES ASSUME TypeOK, ReverseLookupSound, [Next]_vars,
                      NEW a \in DOMAIN owner'
               PROVE  owner'[a] \in DOMAIN infos' /\ a \in infos'[owner'[a]].addrs
    BY DEF ReverseLookupSound
  <2>1. ASSUME NEW p \in Peers, NEW A \in SUBSET Addrs, NEW P \in SUBSET Protos,
               NEW seen \in BOOLEAN, Insert(p, A, P, seen)
        PROVE  owner'[a] \in DOMAIN infos' /\ a \in infos'[owner'[a]].addrs
    <3>1. CASE a \in A
      BY <2>1, <3>1 DEF Insert, Index, Put, PutAll
    <3>2. CASE a \notin A
      <4>1. a \in DOMAIN owner /\ a \notin OldAddrs(p) /\ owner'[a] = owner[a]
        BY <2>1, <3>2, AfterForget DEF Insert, Index, PutAll
      <4>2. owner[a] # p
        BY <4>1 DEF ReverseLookupSound, OldAddrs
      <4> QED
        BY <2>1, <4>1, <4>2 DEF Insert, Put, ReverseLookupSound
    <3> QED
      BY <3>1, <3>2
  <2>2. ASSUME NEW p \in Peers, Remove(p)
        PROVE  owner'[a] \in DOMAIN infos' /\ a \in infos'[owner'[a]].addrs
    <3>1. a \in DOMAIN owner /\ a \notin OldAddrs(p) /\ owner'[a] = owner[a]
      BY <2>2, AfterForget DEF Remove
    <3>2. owner[a] # p
      BY <3>1 DEF ReverseLookupSound, OldAddrs
    <3> QED
      BY <2>2, <3>1, <3>2 DEF Remove, Without, Restrict, ReverseLookupSound
  <2>3. ASSUME NEW p \in Peers, Appear(p) \/ Disappear(p)
        PROVE  owner'[a] \in DOMAIN infos' /\ a \in infos'[owner'[a]].addrs
    BY <2>3 DEF Appear, Disappear, ReverseLookupSound, TypeOK, PeerInfos
  <2>4. CASE UNCHANGED vars
    BY <2>4 DEF vars, ReverseLookupSound
  <2> QED
    BY <2>1, <2>2, <2>3, <2>4, Writes
<1> QED
  BY <1>1, <1>2, TypeCorrect, PTL DEF Spec

\* NewestClaimant, of addresses that were inserted.
NewestInv == DOMAIN owner \subseteq DOMAIN newest /\ NewestClaimant

\* Of the peers that were inserted with an address listen_on names the newest.
THEOREM AlwaysNewestClaimant == Spec => []NewestClaimant
<1>1. Init => NewestInv
  BY DEF Init, NewestInv, NewestClaimant, EmptyMap
<1>2. NewestInv /\ [Next]_vars => NewestInv'
  <2> SUFFICES ASSUME NewestInv, [Next]_vars, NEW a \in DOMAIN owner'
               PROVE  a \in DOMAIN newest' /\ owner'[a] = newest'[a]
    BY DEF NewestInv, NewestClaimant
  <2>1. ASSUME NEW p \in Peers, NEW A \in SUBSET Addrs, NEW P \in SUBSET Protos,
               NEW seen \in BOOLEAN, Insert(p, A, P, seen)
        PROVE  a \in DOMAIN newest' /\ owner'[a] = newest'[a]
    BY <2>1, AfterForget DEF Insert, Index, PutAll, NewestInv, NewestClaimant
  <2>2. ASSUME NEW p \in Peers, Remove(p)
        PROVE  a \in DOMAIN newest' /\ owner'[a] = newest'[a]
    BY <2>2, AfterForget DEF Remove, NewestInv, NewestClaimant
  <2>3. CASE UNCHANGED <<owner, newest>>
    BY <2>3 DEF NewestInv, NewestClaimant
  <2> QED
    BY <2>1, <2>2, <2>3, Writes DEF Appear, Disappear, vars
<1>3. NewestInv => NewestClaimant
  BY DEF NewestInv
<1> QED
  BY <1>1, <1>2, <1>3, PTL DEF Spec

\* UncontestedFound, with the history that explains it: who lists an address
\* was inserted with it, and so was whom the reverse map names.
ClaimsInv ==
  /\ \A p \in DOMAIN infos : \A a \in infos[p].addrs : p \in claims[a]
  /\ UncontestedFound

\* insert and remove of a peer only take addresses out of the reverse map that
\* the peer was inserted with: nobody else's uncontested address is lost.
THEOREM UncontestedAlwaysFound == Spec => []UncontestedFound
<1>1. Init => ClaimsInv
  BY DEF Init, ClaimsInv, UncontestedFound, EmptyMap
<1>2. TypeOK /\ ClaimsInv /\ [Next]_vars => ClaimsInv'
  <2> SUFFICES ASSUME TypeOK, ClaimsInv, [Next]_vars,
                      NEW p \in DOMAIN infos', NEW a \in infos'[p].addrs
               PROVE  /\ p \in claims'[a]
                      /\ claims'[a] = {p} => a \in DOMAIN owner' /\ owner'[a] = p
    BY DEF ClaimsInv, UncontestedFound
  <2>1. ASSUME NEW q \in Peers, NEW A \in SUBSET Addrs, NEW P \in SUBSET Protos,
               NEW seen \in BOOLEAN, Insert(q, A, P, seen)
        PROVE  /\ p \in claims'[a]
               /\ claims'[a] = {p} => a \in DOMAIN owner' /\ owner'[a] = p
    <3>1. CASE p = q
      <4>1. a \in A /\ a \in Addrs
        BY <2>1, <3>1 DEF Insert, Put
      <4> QED
        BY <2>1, <3>1, <4>1 DEF Insert, Index, PutAll
    <3>2. CASE p # q
      <4>1. p \in DOMAIN infos /\ a \in infos[p].addrs /\ a \in Addrs
        BY <2>1, <3>2 DEF Insert, Put, TypeOK, PeerInfos
      <4>2. p \in claims[a] /\ p \in claims'[a]
        BY <2>1, <4>1 DEF Insert, ClaimsInv, TypeOK
      <4>3. ASSUME claims'[a] = {p}
            PROVE  a \in DOMAIN owner' /\ owner'[a] = p
        <5>1. a \notin A /\ claims[a] = {p}
          BY <2>1, <3>2, <4>1, <4>2, <4>3 DEF Insert, TypeOK
        <5>2. a \notin OldAddrs(q)
          BY <3>2, <5>1 DEF OldAddrs, ClaimsInv
        <5>3. a \in DOMAIN owner /\ owner[a] = p
          BY <4>1, <5>1 DEF ClaimsInv, UncontestedFound
        <5> QED
          BY <2>1, <5>1, <5>2, <5>3, AfterForget DEF Insert, Index, PutAll
      <4> QED
        BY <4>2, <4>3
    <3> QED
      BY <3>1, <3>2
  <2>2. ASSUME NEW q \in Peers, Remove(q)
        PROVE  /\ p \in claims'[a]
               /\ claims'[a] = {p} => a \in DOMAIN owner' /\ owner'[a] = p
    <3>1. p # q /\ p \in DOMAIN infos /\ a \in infos[p].addrs /\ claims' = claims
      BY <2>2 DEF Remove, Without, Restrict
    <3>2. p \in claims[a]
      BY <3>1 DEF ClaimsInv
    <3>3. ASSUME claims[a] = {p}
          PROVE  a \in DOMAIN owner' /\ owner'[a] = p
      <4>1. a \notin OldAddrs(q)
        BY <3>1, <3>3 DEF OldAddrs, ClaimsInv
      <4> QED
        BY <2>2, <3>1, <3>3, <4>1, AfterForget DEF Remove, ClaimsInv, UncontestedFound
    <3> QED
      BY <3>1, <3>2, <3>3
  <2>3. ASSUME NEW q \in Peers, Appear(q) \/ Disappear(q)
        PROVE  /\ p \in claims'[a]
               /\ claims'[a] = {p} => a \in DOMAIN owner' /\ owner'[a] = p
    BY <2>3 DEF Appear, Disappear, ClaimsInv, UncontestedFound, TypeOK, PeerInfos
  <2>4. CASE UNCHANGED vars
    BY <2>4 DEF vars, ClaimsInv, UncontestedFound
  <2> QED
    BY <2>1, <2>2, <2>3, <2>4, Writes
<1>3. ClaimsInv => UncontestedFound
  BY DEF ClaimsInv
<1> QED
  BY <1>1, <1>2, <1>3, TypeCorrect, PTL DEF Spec

-----------------------------------------------------------------------------
(* Discovery: the book among the other writers.                            *)

\* Who a response that is still to be read speaks of.
Mentions(records) == {s[2] : s \in UNION {Range(r) : r \in Range(records)}}

\* What mDNS has of an announcement is on its way into the book: the whole
\* response, the one group of it that is left, or the entry.  Nothing that is
\* still to come speaks of the peer again.
OnItsWay(p) ==
  \/ packet = Advertise(p, announced[p]) /\ groups = EmptyMap /\ announced[p] # {}
  \/ /\ p \notin Mentions(packet)
     /\ IF p \in DOMAIN groups THEN groups[p] = announced[p]
        ELSE p \in DOMAIN infos /\ infos[p].addrs = announced[p]

\* What is announced is on its way or listed, and the rest of a response is a
\* sequence of text records.
AnnouncedInv ==
  /\ packet \in Seq(Seq(Strings))
  /\ \A p \in DOMAIN groups : groups[p] \in SUBSET Addrs
  /\ DOMAIN announced \subseteq Peers
  /\ \A p \in DOMAIN announced : announced[p] \in SUBSET Addrs /\ OnItsWay(p)

\* SetToSeq leaves no element out and adds none.
LEMMA SetToSeqRange ==
  ASSUME NEW S, IsFiniteSet(S)
  PROVE  Seqs!SetToSeq(S) \in Seq(S) /\ Range(Seqs!SetToSeq(S)) = S
<1> DEFINE n == Cardinality(S)
           f == Seqs!SetToSeq(S)
<1>1. n \in Nat /\ \E g \in Bijection(1..n, S) : TRUE
  BY FS_CardinalityType DEF ExistsBijection
<1>2. Seqs!Cardinality(S) = n
  BY DEF Seqs!Cardinality, Cardinality
<1>3. \E g \in [1..n -> S] : Seqs!IsInjective(g)
  BY <1>1 DEF Bijection, Injection, IsInjective, Seqs!IsInjective
<1> HIDE DEF n
<1>4. f \in [1..n -> S] /\ Seqs!IsInjective(f)
  BY <1>2, <1>3 DEF Seqs!SetToSeq
<1> HIDE DEF f
<1>5. f \in Injection(1..n, S)
  BY <1>4 DEF Injection, IsInjective, Seqs!IsInjective
<1>6. Cardinality(1..n) = n
  BY <1>1, FS_Interval
<1>7. f \in Surjection(1..n, S)
  BY <1>1, <1>5, <1>6, FS_Injection, FS_CardinalityType DEF n
<1>8. Range(f) = S
  BY <1>4, <1>7 DEF Surjection, Range
<1> QED
  BY <1>1, <1>4, <1>8 DEF f

\* Head and tail of a queue.
LEMMA HeadTailRange ==
  ASSUME NEW S, NEW q \in Seq(S), q # <<>>
  PROVE  /\ Head(q) \in S /\ Tail(q) \in Seq(S)
         /\ Head(q) \in Range(q) /\ Range(Tail(q)) \subseteq Range(q)
<1>1. /\ Len(q) \in Nat \ {0} /\ DOMAIN q = 1..Len(q) /\ Head(q) = q[1] /\ q[1] \in S
      /\ DOMAIN Tail(q) = 1..(Len(q) - 1) /\ Tail(q) \in Seq(S)
      /\ \A i \in 1..(Len(q) - 1) : Tail(q)[i] = q[i + 1]
  OBVIOUS
<1> QED
  BY <1>1 DEF Range

\* The places of a record that speak of a peer.
Speaks(r, p) == {j \in DOMAIN r : Readable(r, j) /\ r[j][2] = p}

\* Grouped, peer by peer.
LEMMA GroupedSplit ==
  ASSUME NEW r, NEW p
  PROVE  /\ p \in DOMAIN Grouped(r) <=> p # NoId /\ Speaks(r, p) # {}
         /\ p \in DOMAIN Grouped(r) => Grouped(r)[p] = {r[i][1] : i \in Speaks(r, p)}
<1> DEFINE D == {r[i][2] : i \in {j \in DOMAIN r : Readable(r, j)}} \ {NoId}
<1>1. p \in D <=> p # NoId /\ Speaks(r, p) # {}
  BY DEF Speaks
<1>2. Grouped(r) = [q \in D |-> {r[i][1] : i \in Speaks(r, q)}]
  BY DEF Grouped, Speaks
<1> HIDE DEF D
<1> QED
  BY <1>1, <1>2

\* A string of a text record is an address, with a peer or without, or a note.
LEMMA StringSplit ==
  ASSUME NEW s \in Strings, s # NotUtf8, s # Note
  PROVE  s[1] \in Addrs /\ s[2] \in Peers \union {NoId}
<1>1. s \in Addrs \X (Peers \union {NoId})
  BY DEF Strings
<1> QED
  BY <1>1

\* A record that is text tells of peers, whom it mentions, and their addresses.
LEMMA GroupedTypes ==
  ASSUME NEW r \in Seq(Strings), NotUtf8 \notin Range(r), NEW p \in DOMAIN Grouped(r)
  PROVE  /\ p \in Peers /\ p \in {s[2] : s \in Range(r)}
         /\ Grouped(r)[p] \in SUBSET Addrs
<1>1. p # NoId /\ Speaks(r, p) # {} /\ Grouped(r)[p] = {r[i][1] : i \in Speaks(r, p)}
  BY GroupedSplit
<1>2. ASSUME NEW i \in Speaks(r, p)
      PROVE  r[i] \in Range(r) /\ r[i][2] = p /\ r[i][1] \in Addrs /\ p \in Peers
  <2>1. i \in DOMAIN r /\ Readable(r, i) /\ r[i][2] = p
    BY DEF Speaks
  <2>2. r[i] \in Strings /\ r[i] \in Range(r)
    BY <2>1 DEF Range
  <2>3. r[i] # NotUtf8 /\ r[i] # Note
    BY <2>1, <2>2 DEF Readable
  <2> QED
    BY <1>1, <2>1, <2>2, <2>3, StringSplit
<1>3. p \in Peers /\ p \in {s[2] : s \in Range(r)}
  BY <1>1, <1>2
<1> QED
  BY <1>1, <1>2, <1>3

\* handle_response reads back what handle_request wrote.
LEMMA AdvertisedGroups ==
  ASSUME NEW p \in Peers, NEW A \in SUBSET Addrs
  PROVE  LET r == Head(Advertise(p, A))
         IN  /\ Advertise(p, A) = <<r>>
             /\ r \in Seq(Strings)
             /\ Range(r) = {<<a, p>> : a \in A}
             /\ NotUtf8 \notin Range(r)
             /\ A # {} => p \in DOMAIN Grouped(r) /\ Grouped(r)[p] = A
<1> DEFINE T == {<<a, p>> : a \in A}
           r == Head(Advertise(p, A))
<1>1. IsFiniteSet(T)
  <2>1. IsFiniteSet(A)
    BY AddrsAssumption, FS_Subset
  <2>2. IsFiniteSet(A \X {p})
    BY <2>1, FS_Singleton, FS_Product
  <2>3. T = A \X {p}
    OBVIOUS
  <2> QED
    BY <2>2, <2>3
<1>2. r = Seqs!SetToSeq(T) /\ Advertise(p, A) = <<r>>
  BY DEF Advertise
<1>3. r \in Seq(T) /\ Range(r) = T
  BY <1>1, <1>2, SetToSeqRange
<1>4. p # NoId
  BY PeersAssumption
<1>5. T \subseteq Strings
  BY DEF Strings
<1>6. r \in Seq(Strings)
  BY <1>3, <1>5
<1>7. Note \notin T /\ NotUtf8 \notin T
  BY <1>4 DEF Note, NotUtf8
<1>8. \A j \in DOMAIN r : r[j] \in T /\ r[j][2] = p /\ r[j][1] \in A
  <2>1. \A j \in DOMAIN r : r[j] \in T
    BY <1>3
  <2>2. \A s \in T : s[2] = p /\ s[1] \in A
    OBVIOUS
  <2> HIDE DEF T, r
  <2> QED
    BY <2>1, <2>2
<1> HIDE DEF r
<1>9. \A j \in DOMAIN r : Readable(r, j)
  <2>1. DOMAIN r = 1..Len(r) /\ Len(r) \in Nat
    BY <1>3
  <2> QED
    BY <1>7, <1>8, <2>1 DEF Readable
<1>10. Speaks(r, p) = DOMAIN r
  BY <1>8, <1>9 DEF Speaks
<1>11. ASSUME NEW a \in A
       PROVE  \E i \in Speaks(r, p) : r[i][1] = a
  <2>1. <<a, p>> \in Range(r)
    BY <1>3
  <2>2. PICK i \in DOMAIN r : r[i] = <<a, p>>
    BY <2>1 DEF Range
  <2> QED
    BY <1>10, <2>2
<1>12. {r[i][1] : i \in Speaks(r, p)} = A
  BY <1>8, <1>10, <1>11
<1>13. A # {} => p \in DOMAIN Grouped(r) /\ Grouped(r)[p] = A
  <2>1. A # {} => Speaks(r, p) # {}
    BY <1>11
  <2>2. A # {} => p \in DOMAIN Grouped(r)
    BY <1>4, <2>1, GroupedSplit
  <2>3. A # {} => Grouped(r)[p] = {r[i][1] : i \in Speaks(r, p)}
    BY <2>2, GroupedSplit
  <2> QED
    BY <1>12, <2>2, <2>3
<1> QED
  BY <1>2, <1>3, <1>6, <1>7, <1>13 DEF r

\* Reading a record leaves fewer mentions.
LEMMA MentionsSplit ==
  /\ Mentions(<<>>) = {}
  /\ \A r : Mentions(<<r>>) = {s[2] : s \in Range(r)}
  /\ \A q \in Seq(Seq(Strings)) \ {<<>>} :
       /\ {s[2] : s \in Range(Head(q))} \subseteq Mentions(q)
       /\ Mentions(Tail(q)) \subseteq Mentions(q)
<1>1. Mentions(<<>>) = {}
  BY DEF Mentions, Range
<1>2. ASSUME NEW r
      PROVE  Mentions(<<r>>) = {s[2] : s \in Range(r)}
  <2>1. Range(<<r>>) = {r}
    BY DEF Range
  <2>2. UNION {Range(x) : x \in {r}} = Range(r)
    OBVIOUS
  <2> QED
    BY <2>1, <2>2 DEF Mentions
<1>3. ASSUME NEW q \in Seq(Seq(Strings)), q # <<>>
      PROVE  /\ {s[2] : s \in Range(Head(q))} \subseteq Mentions(q)
             /\ Mentions(Tail(q)) \subseteq Mentions(q)
  <2>1. Head(q) \in Range(q) /\ Range(Tail(q)) \subseteq Range(q)
    BY <1>3, HeadTailRange
  <2> QED
    BY <2>1 DEF Mentions
<1> QED
  BY <1>1, <1>2, <1>3

\* What a step of the book's other writers is to the book.
LEMMA OtherWrites ==
  ASSUME TypeOK, NEW q \in Peers, OtherWriter(q) \/ Seen(q)
  PROVE  /\ Next
         /\ UNCHANGED <<packet, groups>>
         /\ DOMAIN announced' \subseteq DOMAIN announced
         /\ \A p \in DOMAIN announced' :
              /\ announced'[p] = announced[p]
              /\ p \in DOMAIN infos =>
                   p \in DOMAIN infos' /\ infos'[p].addrs = infos[p].addrs
<1>1. CASE OtherWriter(q)
  <2>1. Next
    BY <1>1 DEF OtherWriter, Next
  <2>2. /\ UNCHANGED <<packet, groups>>
        /\ DOMAIN announced' = DOMAIN announced \ {q}
        /\ \A p \in DOMAIN announced' : announced'[p] = announced[p]
    BY <1>1 DEF OtherWriter, Without, Restrict
  <2>3. \A p \in DOMAIN infos \ {q} : p \in DOMAIN infos' /\ infos'[p] = infos[p]
    BY <1>1 DEF OtherWriter, Identified, Heard, Insert, Remove, Put, Without, Restrict
  <2> QED
    BY <2>1, <2>2, <2>3
<1>2. CASE Seen(q)
  <2>1. Next /\ UNCHANGED mdnsVars
    BY <1>2 DEF Seen, Next
  <2>2. \A p \in DOMAIN infos : p \in DOMAIN infos' /\ infos'[p].addrs = infos[p].addrs
    BY <1>2 DEF Seen, Appear, Disappear, TypeOK, PeerInfos
  <2> QED
    BY <2>1, <2>2 DEF mdnsVars
<1> QED
  BY <1>1, <1>2

\* MdnsProtocol writes into the book what the book's own specification allows,
\* so that all that is proved of the book holds with mDNS among its writers.
LEMMA BookStep ==
  ASSUME TypeOK, AnnouncedInv, [DiscoveryNext]_allVars
  PROVE  [Next]_vars
<1>1. CASE Book
  BY <1>1, OtherWrites DEF Book
<1>2. ASSUME NEW p \in Peers, MdnsInsert(p)
      PROVE  Next
  BY <1>2 DEF MdnsInsert, AnnouncedInv, Next
<1>3. CASE MdnsReceive \/ MdnsRecord \/ Connect \/ TimesOut \/ UNCHANGED allVars
  BY <1>3 DEF MdnsReceive, MdnsRecord, Connect, TimesOut, LookupOne, LookupFails, LookupEnds, Dial,
              allVars, vars
<1> QED
  BY <1>1, <1>2, <1>3 DEF DiscoveryNext, Mdns

\* What was announced stays on its way, or listed, through every step of mDNS
\* and of the other writers: a record is taken apart as it was put together, and
\* whoever speaks of a peer in between ends its announcement.
LEMMA AnnouncedStep ==
  ASSUME TypeOK, AnnouncedInv, [DiscoveryNext]_allVars
  PROVE  AnnouncedInv'
<1>1. ASSUME NEW q \in Peers, OtherWriter(q) \/ Seen(q)
      PROVE  AnnouncedInv'
  <2>1. ASSUME NEW p \in DOMAIN announced'
        PROVE  OnItsWay(p)'
    BY <1>1, <2>1, OtherWrites DEF AnnouncedInv, OnItsWay
  <2> QED
    BY <1>1, <2>1, OtherWrites DEF AnnouncedInv
<1>2. ASSUME NEW q \in Peers, MdnsInsert(q)
      PROVE  AnnouncedInv'
  <2>1. /\ q \in DOMAIN groups /\ UNCHANGED <<packet, announced>>
        /\ DOMAIN groups' = DOMAIN groups \ {q}
        /\ \A p \in DOMAIN groups' : groups'[p] = groups[p]
    BY <1>2 DEF MdnsInsert, Without, Restrict
  <2>2. /\ q \in DOMAIN infos' /\ infos'[q].addrs = groups[q]
        /\ \A p \in DOMAIN infos \ {q} : p \in DOMAIN infos' /\ infos'[p] = infos[p]
    BY <1>2 DEF MdnsInsert, Heard, Insert, Put
  <2>3. groups # EmptyMap
    BY <2>1 DEF EmptyMap
  <2>4. ASSUME NEW p \in DOMAIN announced
        PROVE  OnItsWay(p)'
    BY <2>1, <2>2, <2>3, <2>4 DEF AnnouncedInv, OnItsWay
  <2> QED
    BY <2>1, <2>4 DEF AnnouncedInv
<1>3. CASE MdnsRecord
  <2>1. /\ packet # <<>> /\ packet \in Seq(Seq(Strings)) /\ groups = EmptyMap
        /\ UNCHANGED <<infos, announced>>
        /\ Tail(packet) \in Seq(Seq(Strings)) /\ Head(packet) \in Seq(Strings)
    BY <1>3, HeadTailRange DEF MdnsRecord, AnnouncedInv, vars
  <2>2. DOMAIN groups = {}
    BY <2>1 DEF EmptyMap
  <2>3. CASE NotUtf8 \in Range(Head(packet))
    <3>1. packet' = <<>> /\ groups' = groups
      BY <1>3, <2>3 DEF MdnsRecord
    <3>2. ASSUME NEW p \in DOMAIN announced
          PROVE  OnItsWay(p)'
      <4>1. packet # Advertise(p, announced[p])
        BY <2>3, AdvertisedGroups DEF AnnouncedInv
      <4> QED
        BY <2>1, <2>2, <3>1, <4>1, MentionsSplit DEF AnnouncedInv, OnItsWay
    <3> QED
      BY <2>1, <3>1, <3>2 DEF AnnouncedInv
  <2>4. CASE NotUtf8 \notin Range(Head(packet))
    <3>1. packet' = Tail(packet) /\ groups' = Grouped(Head(packet))
      BY <1>3, <2>4 DEF MdnsRecord
    <3>2. \A p \in DOMAIN groups' : groups'[p] \in SUBSET Addrs /\ p \in Mentions(packet)
      BY <2>1, <2>4, <3>1, GroupedTypes, MentionsSplit
    <3>3. Mentions(packet') \subseteq Mentions(packet)
      BY <2>1, <3>1, MentionsSplit
    <3>4. ASSUME NEW p \in DOMAIN announced
          PROVE  OnItsWay(p)'
      <4>1. CASE packet = Advertise(p, announced[p]) /\ announced[p] # {}
        <5>1. p \in Peers /\ announced[p] \in SUBSET Addrs
          BY DEF AnnouncedInv
        <5>2. /\ packet = <<Head(packet)>> /\ p \in DOMAIN groups'
              /\ groups'[p] = announced[p]
          BY <3>1, <4>1, <5>1, AdvertisedGroups
        <5>3. \A r : Tail(<<r>>) = <<>>
          OBVIOUS
        <5>4. packet' = <<>>
          BY <3>1, <5>2, <5>3
        <5> QED
          BY <2>1, <5>2, <5>4, MentionsSplit DEF OnItsWay
      <4>2. CASE ~(packet = Advertise(p, announced[p]) /\ announced[p] # {})
        BY <2>1, <2>2, <3>2, <3>3, <4>2 DEF AnnouncedInv, OnItsWay
      <4> QED
        BY <4>1, <4>2
    <3> QED
      BY <2>1, <3>1, <3>2, <3>4 DEF AnnouncedInv
  <2> QED
    BY <2>3, <2>4
<1>4. CASE MdnsReceive
  <2>1. packet = <<>> /\ groups = EmptyMap /\ groups' = groups /\ UNCHANGED infos
    BY <1>4 DEF MdnsReceive, vars
  <2>2. DOMAIN groups = {}
    BY <2>1 DEF EmptyMap
  <2>3. ASSUME NEW p \in DOMAIN announced
        PROVE  p \in DOMAIN infos /\ infos[p].addrs = announced[p]
    <3>1. ASSUME NEW A \in SUBSET Addrs
          PROVE  Advertise(p, A) # <<>>
      BY DEF Advertise
    <3> QED
      BY <2>1, <2>2, <3>1 DEF AnnouncedInv, OnItsWay
  <2>4. ASSUME NEW q \in Peers, NEW A \in SUBSET Addrs,
               packet' = Advertise(q, A),
               announced' = IF A = {} THEN announced ELSE Put(announced, q, A)
        PROVE  AnnouncedInv'
    <3> DEFINE r == Head(Advertise(q, A))
    <3>1. /\ packet' = <<r>> /\ r \in Seq(Strings) /\ Range(r) = {<<a, q>> : a \in A}
      BY <2>4, AdvertisedGroups
    <3>2. {s[2] : s \in Range(r)} \subseteq {q} /\ (A = {} => {s[2] : s \in Range(r)} = {})
      BY <3>1
    <3> HIDE DEF r
    <3>3. Mentions(packet') \subseteq {q} /\ (A = {} => Mentions(packet') = {})
      BY <3>1, <3>2, MentionsSplit
    <3>4. /\ DOMAIN announced' \subseteq DOMAIN announced \union {q}
          /\ A # {} => announced'[q] = A
          /\ \A p \in DOMAIN announced' : (A = {} \/ p # q) =>
               p \in DOMAIN announced /\ announced'[p] = announced[p]
      BY <2>4 DEF Put
    <3>5. ASSUME NEW p \in DOMAIN announced'
          PROVE  announced'[p] \in SUBSET Addrs /\ OnItsWay(p)'
      <4>1. CASE A # {} /\ p = q
        BY <2>1, <2>4, <3>4, <4>1 DEF OnItsWay
      <4>2. CASE A = {} \/ p # q
        <5>1. p \in DOMAIN announced /\ announced'[p] = announced[p]
          BY <3>4, <4>2
        <5>2. p \notin Mentions(packet')
          BY <3>3, <4>2
        <5> QED
          BY <2>1, <2>2, <2>3, <5>1, <5>2 DEF OnItsWay, AnnouncedInv
      <4> QED
        BY <4>1, <4>2
    <3>6. packet' \in Seq(Seq(Strings))
      BY <3>1
    <3> QED
      BY <2>1, <3>4, <3>5, <3>6 DEF AnnouncedInv
  <2>5. ASSUME NEW response \in Packets, packet' = response,
               announced' = Without(announced, {s[2] : s \in UNION {Range(r) : r \in Range(response)}})
        PROVE  AnnouncedInv'
    <3>1. announced' = Without(announced, Mentions(packet'))
      BY <2>5 DEF Mentions
    <3>2. /\ DOMAIN announced' = DOMAIN announced \ Mentions(packet')
          /\ \A p \in DOMAIN announced' : announced'[p] = announced[p]
      BY <3>1 DEF Without, Restrict
    <3>3. packet' \in Seq(Seq(Strings))
      BY <2>5, PacketsAssumption
    <3>4. \A p \in DOMAIN announced' : OnItsWay(p)'
      BY <2>1, <2>2, <2>3, <3>2 DEF OnItsWay
    <3> QED
      BY <2>1, <3>2, <3>3, <3>4 DEF AnnouncedInv
  <2> QED
    BY <1>4, <2>4, <2>5 DEF MdnsReceive
<1>5. CASE UNCHANGED <<infos, mdnsVars>>
  BY <1>5 DEF AnnouncedInv, OnItsWay, mdnsVars
<1>6. Connect \/ TimesOut \/ UNCHANGED allVars => UNCHANGED <<infos, mdnsVars>>
  BY DEF Connect, TimesOut, LookupOne, LookupFails, LookupEnds, Dial, allVars, vars
<1> QED
  BY <1>1, <1>2, <1>3, <1>4, <1>5, <1>6 DEF DiscoveryNext, Mdns, Book

\* With every step one of the book's own, the book's specification holds, and
\* what was announced is on its way or listed.
LEMMA DiscoveryInvariant == DiscoverySpec => [](TypeOK /\ AnnouncedInv) /\ Spec
<1>1. DiscoveryInit => Init /\ TypeOK /\ AnnouncedInv
  BY DEF DiscoveryInit, Init, TypeOK, AnnouncedInv, EmptyMap
<1>2. TypeOK /\ AnnouncedInv /\ [DiscoveryNext]_allVars => [Next]_vars /\ AnnouncedInv'
  BY BookStep, AnnouncedStep
<1>3. TypeOK /\ [Next]_vars => TypeOK'
  BY TypeStep
<1> QED
  BY <1>1, <1>2, <1>3, PTL DEF DiscoverySpec, Spec

\* MdnsProtocol writes into the book only what the book's own specification
\* allows its writers, whatever packets it reads: all that is proved of the
\* book holds with mDNS among its writers.
THEOREM BookImplemented == DiscoverySpec => Spec
BY DiscoveryInvariant, PTL

\* What a host announced by mDNS is what the book lists of it, once the packet
\* is read, until somebody else writes the entry: handle_response takes the
\* record of handle_request apart at the right places, and no insert of another
\* peer, before or after, spoils it.
THEOREM AnnouncedAlwaysListed == DiscoverySpec => []AnnouncedListed
<1>1. AnnouncedInv => AnnouncedListed
  <2> SUFFICES ASSUME AnnouncedInv, packet = <<>>, NEW p \in DOMAIN announced \ DOMAIN groups
               PROVE  p \in DOMAIN infos /\ infos[p].addrs = announced[p]
    BY DEF AnnouncedListed
  <2>1. packet # Advertise(p, announced[p])
    BY DEF Advertise
  <2> QED
    BY <2>1 DEF AnnouncedInv, OnItsWay
<1> QED
  BY <1>1, DiscoveryInvariant, PTL

\* The three properties of the book hold with mDNS among its writers.
THEOREM BookSoundWithMdns ==
  DiscoverySpec => [](ReverseLookupSound /\ NewestClaimant /\ UncontestedFound)
BY BookImplemented, ReverseLookupAlwaysSound, AlwaysNewestClaimant, UncontestedAlwaysFound, PTL

-----------------------------------------------------------------------------
(* Induction over the naturals, on a set.                                  *)

\* The order of the naturals, as the relation the library knows.
LEMMA LessWellFounded ==
  \E R : IsWellFoundedOn(R, Nat) /\ \A x, y \in Nat : x < y => <<x, y>> \in R
<1> DEFINE R == {ss \in Nat \X Nat : ss[1] < ss[2]}
<1>1. IsWellFoundedOn(R, Nat)
  <2>1. R = {ss \in Nat \X Nat : ss[1] < ss[2]}
    OBVIOUS
  <2> QED
    BY <2>1, NatLessThanWellFounded DEF OpToRel
<1>2. \A x, y \in Nat : x < y => <<x, y>> \in R
  BY DEF R
<1> QED
  BY <1>1, <1>2

\* Every set of naturals that is not empty has a least element.
LEMMA LeastNat ==
  ASSUME NEW T \in SUBSET Nat, T # {}
  PROVE  \E x \in T : \A y \in T : x <= y
<1>1. PICK R : IsWellFoundedOn(R, Nat) /\ \A x, y \in Nat : x < y => <<x, y>> \in R
  BY LessWellFounded
<1>2. \E x \in T : \A y \in T : ~ (<<y, x>> \in R)
  <2>1. IsWellFoundedOn(R, Nat) /\ T \subseteq Nat /\ T # {}
    BY <1>1
  <2> QED
    BY <2>1, WFMin, Zenon
<1>3. PICK x \in T : \A y \in T : ~ (<<y, x>> \in R)
  BY <1>2
<1>4. \A y \in T : ~(y < x)
  BY <1>1, <1>3
<1>5. T \subseteq Nat
  OBVIOUS
<1> QED
  BY <1>4, <1>5

\* What holds of 0, and of n + 1 when it holds of n, holds of all.
LEMMA NatSetInduction ==
  ASSUME NEW T, 0 \in T, \A n \in Nat : n \in T => n + 1 \in T
  PROVE  Nat \subseteq T
<1> SUFFICES ASSUME ~(Nat \subseteq T) PROVE FALSE
  OBVIOUS
<1>1. PICK x \in Nat \ T : \A y \in Nat \ T : x <= y
  BY LeastNat
<1>2. x # 0 /\ x - 1 \in Nat /\ x - 1 \notin Nat \ T
  BY <1>1
<1> QED
  BY <1>1, <1>2

-----------------------------------------------------------------------------
(* Lookups.                                                                *)

\* f[i] is what dns_lookup has after i protocols of an address.
Walks(f, z, a) ==
  /\ f[0] = [at |-> "going", stacks |-> {}]
  /\ \A i \in 1..Len(a) : f[i] = Protocol(z, f[i - 1], a[i])
  /\ Resolved(z, a) = f[Len(a)]

\* dns_lookup goes through an address, protocol by protocol.
LEMMA ResolvedWalks ==
  ASSUME NEW z, NEW a, Len(a) \in Nat
  PROVE  \E f : Walks(f, z, a)
<1> DEFINE Body(g, i) ==
             IF i = 0 THEN [at |-> "going", stacks |-> {}]
             ELSE Protocol(z, g[i - 1], a[i])
           T == {m \in Nat : \E g : g = [i \in 0..m |-> Body(g, i)]}
           upTo == CHOOSE g : g = [i \in 0..Len(a) |-> Body(g, i)]
<1>1. 0 \in T
  <2> DEFINE e == [i \in 0..0 |-> [at |-> "going", stacks |-> {}]]
  <2>1. e = [i \in 0..0 |-> Body(e, i)]
    OBVIOUS
  <2> QED
    BY <2>1
<1>2. ASSUME NEW m \in T
      PROVE  m + 1 \in T
  <2>1. PICK g : g = [i \in 0..m |-> Body(g, i)]
    OBVIOUS
  <2> DEFINE h == [i \in 0..m + 1 |-> Body(g, i)]
  <2>2. \A i \in 0..m + 1 : Body(h, i) = Body(g, i)
    <3> TAKE i \in 0..m + 1
    <3>1. CASE i = 0
      BY <3>1
    <3>2. CASE i # 0
      <4>1. i - 1 \in 0..m /\ i - 1 \in 0..m + 1
        BY <3>2
      <4> HIDE DEF Body
      <4>2. h[i - 1] = Body(g, i - 1) /\ g[i - 1] = Body(g, i - 1)
        BY <2>1, <4>1
      <4> HIDE DEF h
      <4> QED
        BY <3>2, <4>2 DEF Body
    <3> QED
      BY <3>1, <3>2
  <2>3. h = [i \in 0..m + 1 |-> Body(h, i)]
    BY <2>2
  <2> HIDE DEF h, Body
  <2>4. \E x : x = [i \in 0..m + 1 |-> Body(x, i)]
    BY <2>3
  <2> QED
    BY <2>4
<1>3. Len(a) \in T
  BY <1>1, <1>2, NatSetInduction
<1>4. upTo = [i \in 0..Len(a) |-> Body(upTo, i)]
  <2>1. \E g : g = [i \in 0..Len(a) |-> Body(g, i)]
    BY <1>3
  <2> HIDE DEF Body
  <2> QED
    BY <2>1
<1>5. Resolved(z, a) = upTo[Len(a)]
  BY DEF Resolved
<1> HIDE DEF upTo, T
<1>6. \A i \in 0..Len(a) : upTo[i] = Body(upTo, i)
  <2> HIDE DEF Body
  <2> QED
    BY <1>4
<1>7. upTo[0] = [at |-> "going", stacks |-> {}]
  BY <1>6
<1>8. ASSUME NEW i \in 1..Len(a)
      PROVE  upTo[i] = Protocol(z, upTo[i - 1], a[i])
  <2>1. upTo[i] = Body(upTo, i)
    <3> HIDE DEF Body
    <3> QED
      BY <1>6
  <2>2. i # 0
    OBVIOUS
  <2>3. Body(upTo, i) = Protocol(z, upTo[i - 1], a[i])
    BY <2>2, Zenon
  <2> HIDE DEF Body
  <2> QED
    BY <2>1, <2>3
<1> HIDE DEF Body
<1> QED
  BY <1>5, <1>7, <1>8 DEF Walks

\* r[k] is what there is after k rounds of looks at t and the names behind it.
LEMMA RoundsByRound ==
  ASSUME NEW z, NEW t
  PROVE  /\ DOMAIN Rounds(z, t) = 0..MaxDepth + 1
         /\ Rounds(z, t)[0] = {t}
         /\ \A k \in 0..MaxDepth :
              Rounds(z, t)[k + 1] =
                UNION {Behind(z, a) : a \in {b \in Rounds(z, t)[k] : IsName(b)}}
<1> DEFINE n == MaxDepth + 1
           Body(g, k) ==
             IF k = 0 THEN {t} ELSE UNION {Behind(z, a) : a \in {b \in g[k - 1] : IsName(b)}}
           T == {m \in Nat : \E g : g = [k \in 0..m |-> Body(g, k)]}
           after == CHOOSE g : g = [k \in 0..n |-> Body(g, k)]
<1>1. 0 \in T
  <2> DEFINE e == [k \in 0..0 |-> {t}]
  <2>1. e = [k \in 0..0 |-> Body(e, k)]
    OBVIOUS
  <2> QED
    BY <2>1
<1>2. ASSUME NEW m \in T
      PROVE  m + 1 \in T
  <2>1. PICK g : g = [k \in 0..m |-> Body(g, k)]
    OBVIOUS
  <2> DEFINE h == [k \in 0..m + 1 |-> Body(g, k)]
  <2>2. \A k \in 0..m + 1 : Body(h, k) = Body(g, k)
    <3> TAKE k \in 0..m + 1
    <3>1. CASE k = 0
      BY <3>1
    <3>2. CASE k # 0
      <4>1. k - 1 \in 0..m /\ k - 1 \in 0..m + 1
        BY <3>2
      <4> HIDE DEF Body
      <4>2. h[k - 1] = Body(g, k - 1) /\ g[k - 1] = Body(g, k - 1)
        BY <2>1, <4>1
      <4> HIDE DEF h
      <4> QED
        BY <3>2, <4>2 DEF Body
    <3> QED
      BY <3>1, <3>2
  <2>3. h = [k \in 0..m + 1 |-> Body(h, k)]
    BY <2>2
  <2> HIDE DEF h, Body
  <2>4. \E x : x = [k \in 0..m + 1 |-> Body(x, k)]
    BY <2>3
  <2> QED
    BY <2>4
<1>3. n \in T
  BY <1>1, <1>2, NatSetInduction, DiscoveryAssumption
<1>4. after = [k \in 0..n |-> Body(after, k)]
  <2>1. \E g : g = [k \in 0..n |-> Body(g, k)]
    BY <1>3
  <2> HIDE DEF Body
  <2> QED
    BY <2>1
<1>5. Rounds(z, t) = after
  BY DEF Rounds
<1> HIDE DEF after, T
<1>6. DOMAIN after = 0..n /\ \A k \in 0..n : after[k] = Body(after, k)
  <2> HIDE DEF Body
  <2> QED
    BY <1>4
<1>7. after[0] = {t}
  BY <1>6, DiscoveryAssumption
<1>8. ASSUME NEW k \in 0..MaxDepth, NEW j, j = k + 1
      PROVE  after[j] = UNION {Behind(z, a) : a \in {b \in after[k] : IsName(b)}}
  <2>1. j \in 0..n /\ j # 0 /\ j - 1 = k
    BY <1>8, DiscoveryAssumption
  <2>2. after[j] = Body(after, j)
    <3> HIDE DEF Body
    <3> QED
      BY <1>6, <2>1
  <2>3. Body(after, j) = UNION {Behind(z, a) : a \in {b \in after[j - 1] : IsName(b)}}
    BY <2>1, Zenon
  <2> HIDE DEF Body
  <2> QED
    BY <2>1, <2>2, <2>3, Zenon
<1> HIDE DEF Body
<1> QED
  BY <1>5, <1>6, <1>7, <1>8

\* The address that begins with the IP address n and goes on like a, to place i.
Continued(a, n, i) == [j \in 1..i |-> IF j = 1 THEN <<"ip", n>> ELSE a[j]]

\* Adding the next protocol, or all that is behind the name.
LEMMA ContinuedKeeps ==
  ASSUME NEW S, NEW a \in Seq(S), NEW n, a # <<>>
  PROVE  /\ <<>> \in Seq(S)
         /\ Append(<<>>, <<"ip", n>>) = Continued(a, n, 1)
         /\ \A i \in 1..Len(a) - 1 : Append(Continued(a, n, i), a[i + 1]) = Continued(a, n, i + 1)
         /\ << <<"ip", n>> >> \o Tail(a) = Continued(a, n, Len(a))
<1> DEFINE U == S \union {<<"ip", n>>}
           x == <<"ip", n>>
<1>1. a \in Seq(U) /\ x \in U /\ Len(a) \in Nat \ {0} /\ DOMAIN a = 1..Len(a)
      /\ \A i \in 1..Len(a) : a[i] \in U
  OBVIOUS
<1> HIDE DEF U, x
<1>2. \A i \in 1..Len(a) : /\ Continued(a, n, i) \in Seq(U)
                           /\ Len(Continued(a, n, i)) = i
  BY <1>1 DEF Continued, x
<1>3. Append(<<>>, x) = Continued(a, n, 1)
  BY <1>1 DEF Continued, x
<1>4. ASSUME NEW i \in 1..Len(a) - 1
      PROVE  Append(Continued(a, n, i), a[i + 1]) = Continued(a, n, i + 1)
  <2>1. i \in 1..Len(a) /\ i + 1 \in 1..Len(a) /\ a[i + 1] \in U
    BY <1>1
  <2> DEFINE q == Append(Continued(a, n, i), a[i + 1])
  <2>2. q \in Seq(U) /\ Len(q) = i + 1
    BY <1>2, <2>1
  <2>3. \A j \in 1..i : q[j] = Continued(a, n, i)[j]
    BY <1>2, <2>1
  <2>4. q[i + 1] = a[i + 1]
    BY <1>2, <2>1
  <2> HIDE DEF q
  <2>5. \A j \in 1..i + 1 : q[j] = Continued(a, n, i + 1)[j]
    BY <2>1, <2>3, <2>4 DEF Continued
  <2>6. q = [j \in 1..i + 1 |-> q[j]]
    BY <2>2
  <2>7. q = Continued(a, n, i + 1)
    BY <2>5, <2>6 DEF Continued
  <2> QED
    BY <2>7 DEF q
<1>5. <<x>> \o Tail(a) = Continued(a, n, Len(a))
  <2>1. /\ Tail(a) \in Seq(U) /\ Len(Tail(a)) = Len(a) - 1
        /\ \A j \in 1..Len(a) - 1 : Tail(a)[j] = a[j + 1]
    BY <1>1
  <2> DEFINE q == <<x>> \o Tail(a)
  <2>2. /\ q \in Seq(U) /\ Len(q) = Len(a)
        /\ q[1] = x
        /\ \A j \in 2..Len(a) : q[j] = Tail(a)[j - 1]
    BY <1>1, <2>1
  <2> HIDE DEF q
  <2>3. \A j \in 2..Len(a) : q[j] = a[j]
    BY <1>1, <2>1, <2>2
  <2>4. q = [j \in 1..Len(a) |-> q[j]]
    BY <2>2
  <2>5. \A j \in 1..Len(a) : q[j] = IF j = 1 THEN x ELSE a[j]
    BY <2>2, <2>3
  <2>6. q = Continued(a, n, Len(a))
    BY <2>4, <2>5 DEF Continued, x
  <2> QED
    BY <2>6 DEF q
<1>6. <<>> \in Seq(S)
  OBVIOUS
<1> QED
  BY <1>3, <1>4, <1>5, <1>6 DEF x

\* What dns_lookup does with a dnsaddr that is known.
LEMMA DnsaddrProtocol ==
  ASSUME NEW z, NEW X, NEW c, c[1] = "dnsaddr",
         Protocol(z, [at |-> "going", stacks |-> X], c) # Failed
  PROVE  /\ c[2] \in DOMAIN z.txt
         /\ Protocol(z, [at |-> "going", stacks |-> X], c)
              = [at |-> "ended", stacks |-> X \union z.txt[c[2]]]
BY DEF Protocol

\* What it does with the name of a host that is known.
LEMMA HostProtocol ==
  ASSUME NEW z, NEW c, c[1] # "dnsaddr", c[1] \in NameKinds,
         Protocol(z, [at |-> "going", stacks |-> {}], c) # Failed
  PROVE  Protocol(z, [at |-> "going", stacks |-> {}], c)
           = [at |-> "going", stacks |-> {Append(<<>>, <<"ip", n>>) : n \in z.ip[c[2]]}]
<1> DEFINE now == [at |-> "going", stacks |-> {}]
<1>1. now.at = "going" /\ now.stacks = {}
  OBVIOUS
<1> HIDE DEF now
<1>2. c[2] \in DOMAIN z.ip
  BY <1>1 DEF Protocol, now
<1>3. Protocol(z, now, c)
        = [at |-> "going",
           stacks |-> {Append(s, <<"ip", n>>) : s \in {<<>>}, n \in z.ip[c[2]]}]
  BY <1>1, <1>2 DEF Protocol
<1>4. {Append(s, <<"ip", n>>) : s \in {<<>>}, n \in z.ip[c[2]]}
        = {Append(<<>>, <<"ip", n>>) : n \in z.ip[c[2]]}
  OBVIOUS
<1> QED
  BY <1>3, <1>4 DEF now

\* What it does with any other protocol.
LEMMA OtherProtocol ==
  ASSUME NEW z, NEW X, NEW c, c[1] # "dnsaddr", c[1] \notin NameKinds
  PROVE  Protocol(z, [at |-> "going", stacks |-> X], c)
           = [at |-> "going", stacks |-> {Append(s, c) : s \in X}]
<1> DEFINE now == [at |-> "going", stacks |-> X]
<1>1. now.at = "going" /\ now.stacks = X
  OBVIOUS
<1> HIDE DEF now
<1>2. Protocol(z, now, c) = [at |-> "going", stacks |-> {Append(s, c) : s \in X}]
  BY <1>1 DEF Protocol
<1> QED
  BY <1>2 DEF now

\* When it does not go on, nothing changes any more.
LEMMA ProtocolStops ==
  ASSUME NEW z, NEW st, NEW c, st.at # "going"
  PROVE  Protocol(z, st, c) = st
BY DEF Protocol

\* dns_lookup of a name that is known: what is behind it, and names begin
\* what they are in.
LEMMA NameResolved ==
  ASSUME NEW z \in Zones, NEW a, HasItsPlace(a), IsName(a), Resolved(z, a).at # "failed"
  PROVE  /\ Resolved(z, a).stacks = Behind(z, a)
         /\ \A b \in Behind(z, a) : IsName(b) => HasItsPlace(b)
<1> DEFINE d == a[1][2]
           m == Len(a)
<1>1. /\ a \in Seq(STRING \X STRING) /\ m \in Nat \ {0} /\ a # <<>>
      /\ a[1][1] \in NameKinds
      /\ \A i \in 2..m : a[i][1] \notin NameKinds
  BY DEF HasItsPlace, IsName
<1>2. PICK f : Walks(f, z, a)
  BY <1>1, ResolvedWalks
<1>3. f[1] = Protocol(z, f[0], a[1]) /\ \A i \in 1..m - 1 : f[i + 1] = Protocol(z, f[i], a[i + 1])
  <2>1. 1 \in 1..m /\ 1 - 1 = 0
    BY <1>1
  <2>2. \A i \in 1..m - 1 : i + 1 \in 1..m /\ i + 1 - 1 = i
    BY <1>1
  <2> QED
    BY <1>2, <2>1, <2>2 DEF Walks
<1>4. ASSUME f[1].at # "going"
      PROVE  f[m] = f[1]
  <2> DEFINE T == {i \in Nat : i + 1 \in 1..m => f[i + 1] = f[1]}
  <2>1. 0 \in T
    OBVIOUS
  <2>2. ASSUME NEW i \in Nat, i \in T
        PROVE  i + 1 \in T
    <3>1. CASE i + 1 \in 1..m - 1
      <4>1. f[i + 1] = f[1]
        BY <1>1, <2>2, <3>1
      <4>2. f[i + 1 + 1] = Protocol(z, f[i + 1], a[i + 1 + 1])
        BY <1>3, <3>1
      <4>3. f[i + 1 + 1] = f[1]
        BY <1>4, <4>1, <4>2, ProtocolStops
      <4> QED
        BY <4>3
    <3>2. CASE i + 1 \notin 1..m - 1
      BY <1>1, <3>2
    <3> QED
      BY <3>1, <3>2
  <2>3. m - 1 \in T
    <3>1. m - 1 \in Nat
      BY <1>1
    <3>2. Nat \subseteq T
      <4> HIDE DEF T
      <4> QED
        BY <2>1, <2>2, NatSetInduction
    <3> HIDE DEF T
    <3> QED
      BY <3>1, <3>2
  <2> QED
    BY <1>1, <2>3
<1>5. Resolved(z, a) = f[m] /\ f[0] = [at |-> "going", stacks |-> {}]
  BY <1>2 DEF Walks
<1>6. f[1] # Failed
  BY <1>4, <1>5 DEF Failed
<1>7. f[1] = Protocol(z, [at |-> "going", stacks |-> {}], a[1])
  BY <1>3, <1>5
<1>8. CASE a[1][1] = "dnsaddr"
  <2>1. d \in DOMAIN z.txt /\ f[1] = [at |-> "ended", stacks |-> {} \union z.txt[d]]
    BY <1>6, <1>7, <1>8, DnsaddrProtocol
  <2>2. Resolved(z, a) = f[1]
    BY <1>4, <1>5, <2>1
  <2>3. Resolved(z, a).stacks = z.txt[d] /\ Behind(z, a) = z.txt[d]
    BY <1>8, <2>1, <2>2 DEF Behind
  <2> QED
    BY <2>1, <2>3, ZonesAssumption
<1>9. ASSUME NEW n
      PROVE  /\ Append(<<>>, <<"ip", n>>) = Continued(a, n, 1)
             /\ \A i \in 1..m - 1 : Append(Continued(a, n, i), a[i + 1]) = Continued(a, n, i + 1)
             /\ << <<"ip", n>> >> \o Tail(a) = Continued(a, n, m)
  <2> DEFINE S == STRING \X STRING
  <2>1. a \in Seq(S) /\ a # <<>>
    BY <1>1
  <2> HIDE DEF S
  <2> QED
    BY <2>1, ContinuedKeeps
<1>10. CASE a[1][1] # "dnsaddr"
  <2> DEFINE Stacks(i) == {Continued(a, n, i) : n \in z.ip[d]}
             T == {i \in Nat : i + 1 \in 1..m =>
                     f[i + 1] = [at |-> "going", stacks |-> Stacks(i + 1)]}
  <2>1. 0 \in T
    <3>1. f[1] = [at |-> "going",
                  stacks |-> {Append(<<>>, <<"ip", n>>) : n \in z.ip[d]}]
      BY <1>1, <1>6, <1>7, <1>10, HostProtocol
    <3>2. \A n \in z.ip[d] : Append(<<>>, <<"ip", n>>) = Continued(a, n, 1)
      BY <1>9
    <3>3. {Append(<<>>, <<"ip", n>>) : n \in z.ip[d]} = Stacks(1)
      BY <3>2
    <3> HIDE DEF Stacks
    <3>4. f[1] = [at |-> "going", stacks |-> Stacks(1)]
      BY <3>1, <3>3
    <3> QED
      BY <3>4
  <2>2. ASSUME NEW i \in Nat, i \in T
        PROVE  i + 1 \in T
    <3>1. CASE i + 1 \in 1..m - 1
      <4> DEFINE j == i + 1
      <4>1. j \in 1..m - 1 /\ j + 1 \in 2..m
        BY <1>1, <3>1
      <4>2. f[j] = [at |-> "going", stacks |-> Stacks(j)]
        BY <1>1, <2>2, <4>1
      <4>3. a[j + 1][1] \notin NameKinds /\ a[j + 1][1] # "dnsaddr"
        BY <1>1, <4>1 DEF NameKinds
      <4>4. f[j + 1] = Protocol(z, f[j], a[j + 1])
        BY <1>3, <4>1
      <4> HIDE DEF j, Stacks
      <4>5. f[j + 1] = [at |-> "going", stacks |-> {Append(s, a[j + 1]) : s \in Stacks(j)}]
        <5> DEFINE c == a[j + 1]
                   next == f[j + 1]
        <5>1. next = Protocol(z, [at |-> "going", stacks |-> Stacks(j)], c)
          BY <4>2, <4>4
        <5>2. c[1] # "dnsaddr" /\ c[1] \notin NameKinds
          BY <4>3
        <5> HIDE DEF c, next
        <5>3. next = [at |-> "going", stacks |-> {Append(s, c) : s \in Stacks(j)}]
          BY <5>1, <5>2, OtherProtocol
        <5> QED
          BY <5>3 DEF c, next
      <4>6. \A n \in z.ip[d] : Append(Continued(a, n, j), a[j + 1]) = Continued(a, n, j + 1)
        BY <1>9, <4>1
      <4>7. {Append(s, a[j + 1]) : s \in Stacks(j)} = Stacks(j + 1)
        BY <4>6 DEF Stacks
      <4>8. f[j + 1] = [at |-> "going", stacks |-> Stacks(j + 1)]
        BY <4>5, <4>7
      <4> QED
        BY <4>8 DEF j
    <3>2. CASE i + 1 \notin 1..m - 1
      BY <1>1, <3>2
    <3> QED
      BY <3>1, <3>2
  <2>3. m - 1 \in T
    <3>1. m - 1 \in Nat
      BY <1>1
    <3>2. Nat \subseteq T
      <4> HIDE DEF T
      <4> QED
        BY <2>1, <2>2, NatSetInduction
    <3> HIDE DEF T
    <3> QED
      BY <3>1, <3>2
  <2>4. m - 1 + 1 = m /\ m \in 1..m
    BY <1>1
  <2>5. f[m].stacks = Stacks(m)
    <3>1. f[m] = [at |-> "going", stacks |-> Stacks(m)]
      BY <2>3, <2>4
    <3> HIDE DEF Stacks
    <3> QED
      BY <3>1
  <2>6. Behind(z, a) = {<< <<"ip", n>> >> \o Tail(a) : n \in z.ip[d]}
    BY <1>10 DEF Behind
  <2>7. \A n \in z.ip[d] : << <<"ip", n>> >> \o Tail(a) = Continued(a, n, m)
    BY <1>9
  <2>8. Behind(z, a) = Stacks(m)
    BY <2>6, <2>7
  <2>9. \A b \in Stacks(m) : ~IsName(b)
    BY <1>1 DEF Continued, IsName, NameKinds
  <2> QED
    BY <1>5, <2>5, <2>8, <2>9
<1> QED
  BY <1>8, <1>10

\* The names, and the other addresses, among those found.
NamesOf(S) == {b \in S : IsName(b)}
RestOf(S)  == {b \in S : ~IsName(b)}

\* What is behind the names of this round that have been looked at, and the
\* addresses of this and the earlier rounds.
RoundInv ==
  /\ names \subseteq NamesOf(Rounds(zone, target)[depth])
  /\ names = {} => NamesOf(Rounds(zone, target)[depth]) = {}
  /\ cached = UNION {Behind(zone, a) : a \in NamesOf(Rounds(zone, target)[depth]) \ names}
  /\ \A b \in names \union NamesOf(cached) : HasItsPlace(b)
  /\ parsed = RestOf(UNION {Rounds(zone, target)[k] : k \in 0..depth})

\* A lookup is resolving the names of a round, or it has found all there is.
LookupInv ==
  /\ zone \in Zones
  /\ target \in Targets \union {NoTarget}
  /\ target = NoTarget <=> outcome = "none"
  /\ target # NoTarget =>
       /\ depth \in 0..MaxDepth + 1
       /\ dialled \subseteq parsed
       /\ outcome = "resolving" => RoundInv
       /\ outcome \in {"dialling", "connected", "refused"} => parsed = Reachable
       /\ outcome = "refused" => dialled = parsed

\* One look at a name, in a round and at its end: what it finds is what is
\* behind the name, and the last look of a round completes the next one.
LEMMA LookKeeps ==
  ASSUME LookupInv, LookupOne
  PROVE  RoundInv' /\ depth' \in 0..MaxDepth + 1
<1> DEFINE R    == Rounds(zone, target)
           done == NamesOf(R[depth]) \ names
<1>1. /\ outcome = "resolving" /\ target # NoTarget /\ zone \in Zones
      /\ RoundInv /\ depth \in 0..MaxDepth
      /\ zone' = zone /\ target' = target
  BY DiscoveryAssumption DEF LookupOne, LookupInv
<1>2. PICK a \in names :
        /\ Resolved(zone, a).at # "failed"
        /\ IF names = {a}
           THEN /\ names' = {b \in cached \union Resolved(zone, a).stacks : IsName(b)}
                /\ parsed' = parsed \union
                             {b \in cached \union Resolved(zone, a).stacks : ~IsName(b)}
                /\ cached' = {}
                /\ depth' = depth + 1
           ELSE /\ names' = names \ {a}
                /\ cached' = cached \union Resolved(zone, a).stacks
                /\ UNCHANGED <<parsed, depth>>
  BY DEF LookupOne
<1> DEFINE all == cached \union Behind(zone, a)
<1>3. IsName(a) /\ HasItsPlace(a) /\ a \in NamesOf(R[depth])
  BY <1>1 DEF RoundInv, NamesOf
<1>4. /\ Resolved(zone, a).stacks = Behind(zone, a)
      /\ \A b \in Behind(zone, a) : IsName(b) => HasItsPlace(b)
  BY <1>1, <1>2, <1>3, NameResolved
<1>5. all = UNION {Behind(zone, b) : b \in done \union {a}}
  BY <1>1 DEF RoundInv
<1>6. \A b \in NamesOf(all) : HasItsPlace(b)
  BY <1>1, <1>4 DEF RoundInv, NamesOf
<1> HIDE DEF R, all
<1>7. CASE names = {a}
  <2>1. /\ names' = NamesOf(all) /\ parsed' = parsed \union RestOf(all)
        /\ cached' = {} /\ depth' = depth + 1
    BY <1>2, <1>4, <1>7 DEF all, NamesOf, RestOf
  <2>2. done \union {a} = NamesOf(R[depth])
    BY <1>3, <1>7
  <2>3. R[depth + 1] = UNION {Behind(zone, b) : b \in NamesOf(R[depth])}
    BY <1>1, RoundsByRound DEF R, NamesOf
  <2>4. R[depth + 1] = all
    BY <1>5, <2>2, <2>3
  <2>5. 0..depth + 1 = (0..depth) \union {depth + 1}
    BY <1>1, DiscoveryAssumption
  <2>6. UNION {R[k] : k \in 0..depth + 1} = (UNION {R[k] : k \in 0..depth}) \union all
    BY <2>4, <2>5
  <2>7. parsed' = RestOf(UNION {R[k] : k \in 0..depth + 1})
    BY <1>1, <2>1, <2>6 DEF RoundInv, RestOf, R
  <2>8. RoundInv'
    BY <1>1, <1>6, <2>1, <2>4, <2>7 DEF RoundInv, NamesOf, R
  <2>9. depth' \in 0..MaxDepth + 1
    BY <1>1, <2>1, DiscoveryAssumption
  <2> QED
    BY <2>8, <2>9
<1>8. CASE names # {a}
  <2>1. /\ names' = names \ {a} /\ cached' = all
        /\ parsed' = parsed /\ depth' = depth
    BY <1>2, <1>4, <1>8 DEF all
  <2>2. done \union {a} = NamesOf(R[depth]) \ names'
    BY <1>3, <2>1
  <2>3. names' # {}
    BY <1>8, <2>1
  <2>4. RoundInv'
    BY <1>1, <1>5, <1>6, <2>1, <2>2, <2>3 DEF RoundInv, NamesOf, R
  <2> QED
    BY <1>1, <2>1, <2>4, DiscoveryAssumption
<1> QED
  BY <1>7, <1>8

\* When a lookup ends, in the round without names or in the last, there are no
\* more addresses to be found in the rounds that are left.
LEMMA EndsComplete ==
  ASSUME LookupInv, outcome = "resolving", names = {} \/ depth > MaxDepth
  PROVE  parsed = Reachable
<1> DEFINE R == Rounds(zone, target)
           n == MaxDepth + 1
<1>1. RoundInv /\ depth \in 0..n /\ n \in Nat
  BY DiscoveryAssumption DEF LookupInv
<1>2. DOMAIN R = 0..n
  BY RoundsByRound
<1>3. \A k \in 0..MaxDepth :
        R[k + 1] = UNION {Behind(zone, a) : a \in {b \in R[k] : IsName(b)}}
  BY RoundsByRound
<1>4. Reachable = RestOf(UNION {R[k] : k \in 0..n})
  <2>1. Range(R) = {R[k] : k \in 0..n}
    BY <1>2 DEF Range
  <2> QED
    BY <2>1 DEF Reachable, RestOf
<1> HIDE DEF R
<1>5. CASE depth = n
  BY <1>1, <1>4, <1>5 DEF RoundInv, R
<1>6. CASE names = {}
  <2> DEFINE T == {k \in Nat : depth < k /\ k <= n => R[k] = {}}
  <2>1. 0 \in T
    BY <1>1
  <2>2. ASSUME NEW k \in Nat, k \in T
        PROVE  k + 1 \in T
    <3> SUFFICES ASSUME depth < k + 1, k + 1 <= n
                 PROVE  R[k + 1] = {}
      OBVIOUS
    <3>1. k \in 0..MaxDepth
      BY <1>1, DiscoveryAssumption
    <3>2. {b \in R[k] : IsName(b)} = {}
      <4>1. CASE depth = k
        BY <1>1, <1>6, <4>1 DEF RoundInv, NamesOf, R
      <4>2. CASE depth < k
        BY <1>1, <2>2, <3>1, <4>2
      <4> QED
        BY <1>1, <4>1, <4>2
    <3> QED
      BY <1>3, <3>1, <3>2
  <2>3. Nat \subseteq T
    <3> HIDE DEF T
    <3> QED
      BY <2>1, <2>2, NatSetInduction
  <2>4. \A k \in 0..n : k \in 0..depth \/ R[k] = {}
    BY <1>1, <2>3
  <2>5. 0..depth \subseteq 0..n
    BY <1>1
  <2>6. UNION {R[k] : k \in 0..n} = UNION {R[k] : k \in 0..depth}
    BY <2>4, <2>5
  <2> QED
    BY <1>1, <1>4, <2>6 DEF RoundInv, R
<1> QED
  BY <1>1, <1>5, <1>6, DiscoveryAssumption

\* A lookup that succeeds has found every address behind the name, each whole,
\* and nothing else: the rounds of DnsAddr::lookup visit the names breadth
\* first, dns_lookup takes each address apart at its name, and connect returns the
\* error of a dial only when every address that was found has been dialled.  The
\* timeout around connect may end it in any round and before any dial.
THEOREM LookupAlwaysExact == DiscoverySpec => []LookupExact
<1>1. DiscoveryInit => LookupInv
  <2> SUFFICES ASSUME DiscoveryInit PROVE LookupInv
    OBVIOUS
  <2>1. CASE target = NoTarget
    BY <2>1, NoTargetAssumption DEF DiscoveryInit, LookupInv
  <2>2. CASE target # NoTarget
    <3>1. /\ target \in Targets /\ zone \in Zones /\ names = {target} /\ depth = 0
          /\ parsed = {} /\ dialled = {} /\ cached = {} /\ outcome = "resolving"
          /\ IsName(target) /\ HasItsPlace(target)
      BY <2>2, TargetsAssumption DEF DiscoveryInit
    <3>2. Rounds(zone, target)[depth] = {target}
      BY <3>1, RoundsByRound
    <3>3. UNION {Rounds(zone, target)[k] : k \in 0..depth} = {target}
      BY <3>1, <3>2
    <3>4. RoundInv
      BY <3>1, <3>2, <3>3 DEF RoundInv, NamesOf, RestOf
    <3> QED
      BY <2>2, <3>1, <3>4, DiscoveryAssumption DEF LookupInv
  <2> QED
    BY <2>1, <2>2
<1>2. LookupInv /\ [DiscoveryNext]_allVars => LookupInv'
  <2> SUFFICES ASSUME LookupInv, [DiscoveryNext]_allVars PROVE LookupInv'
    OBVIOUS
  <2>1. CASE LookupOne
    <3>1. /\ RoundInv' /\ depth' \in 0..MaxDepth + 1
          /\ UNCHANGED <<target, zone, dialled, outcome>>
          /\ outcome = "resolving" /\ target # NoTarget
      BY <2>1, LookKeeps DEF LookupOne, LookupInv
    <3>2. parsed \subseteq parsed'
      BY <2>1 DEF LookupOne
    <3> QED
      BY <3>1, <3>2 DEF LookupInv
  <2>2. CASE LookupFails \/ TimesOut
    BY <2>2 DEF LookupFails, TimesOut, LookupInv
  <2>3. CASE LookupEnds
    <3>1. parsed = Reachable
      BY <2>3, EndsComplete DEF LookupEnds
    <3>2. /\ outcome = "resolving" /\ outcome' \in {"failed", "dialling"}
          /\ UNCHANGED <<target, zone, parsed, depth, dialled>>
      BY <2>3 DEF LookupEnds
    <3>3. parsed' = Reachable'
      BY <3>1, <3>2 DEF Reachable
    <3> QED
      BY <3>2, <3>3 DEF LookupInv
  <2>4. CASE Dial
    <3>1. /\ outcome = "dialling" /\ outcome' \in {"connected", "refused", "dialling"}
          /\ UNCHANGED <<target, zone, parsed, depth>>
          /\ dialled' \subseteq dialled \union parsed
          /\ outcome' = "refused" => dialled' = parsed
      BY <2>4 DEF Dial
    <3>2. Reachable' = Reachable
      BY <3>1 DEF Reachable
    <3> QED
      BY <3>1, <3>2 DEF LookupInv
  <2>5. CASE UNCHANGED lookupVars
    BY <2>5 DEF lookupVars, LookupInv, RoundInv, Reachable
  <2>6. Mdns \/ Book \/ UNCHANGED allVars => UNCHANGED lookupVars
    BY DEF Mdns, MdnsReceive, MdnsRecord, MdnsInsert, Book, OtherWriter, Seen, allVars
  <2> QED
    BY <2>1, <2>2, <2>3, <2>4, <2>5, <2>6 DEF DiscoveryNext, Connect
<1>3. LookupInv => LookupExact
  BY DEF LookupInv, LookupExact
<1> QED
  BY <1>1, <1>2, <1>3, PTL DEF DiscoverySpec
=============================================================================
