----------------------------- MODULE Discovery -----------------------------
(***************************************************************************)
(* Where addresses come from: mDNS packets, which MdnsProtocol writes into *)
(* the peer book between its other writers, and names, which DnsAddr       *)
(* resolves before other transports dial.                                  *)
(*                                                                         *)
(* An address is the sequence of its protocols, each << kind, value >>; of *)
(* those only names are looked into.  The resolver, the network and the    *)
(* other transports are external: a query is answered from the zone, or    *)
(* fails, or takes longer than its timeout, and any dial may fail.  The     *)
(* whole of connect runs inside the switch's own timeout.                  *)
(*                                                                         *)
(* A lookup and the peer book share nothing, so that a behaviour has       *)
(* either a lookup or the book's writers.                                  *)
(***************************************************************************)
EXTENDS PeerBook, Integers, Sequences, FiniteSetsExt

Seqs == INSTANCE SequencesExt

CONSTANTS
  Packets,   \* mDNS responses of other implementations
  Targets,   \* what connect is called with
  Zones,     \* what the resolver knows: [ip |-> ..., txt |-> ...]
  MaxDepth,  \* DnsAddr.1, 10 in the code
  NoTarget

ASSUME DiscoveryAssumption == MaxDepth \in Nat
ASSUME AddrsAssumption == IsFiniteSet(Addrs)  \* an address fits into a packet

VARIABLES
  packet,     \* the TXT records of a response that are still to be read
  groups,     \* peer_addrs: what is still to be inserted of one record
  announced,  \* history: peer -> addresses, since xstack announced them and
              \* nobody else wrote or removed its entry
  target, zone,
  names,      \* dnsaddrs: what is left of a round
  cached,     \* what the round has found
  parsed,     \* the addresses without names
  depth,
  dialled,    \* those whose dial has ended
  outcome     \* resolving, dialling, failed, refused, connected, timeout

mdnsVars   == <<packet, groups, announced>>
lookupVars == <<target, zone, names, cached, parsed, depth, dialled, outcome>>
allVars    == <<vars, mdnsVars, lookupVars>>

-----------------------------------------------------------------------------
(* mDNS.  A TXT record is a sequence of strings: <<a, p>> is an address a    *)
(* that ends in p's id, <<a, NoId>> one without an id, Note some other text    *)
(* and NotUtf8 bytes that are none.                                          *)

NoId    == ""
Note    == <<"note", NoId>>
NotUtf8 == <<"bytes", NoId>>

Strings == (Addrs \X (Peers \union {NoId})) \union {Note, NotUtf8}

ASSUME PeersAssumption == NoId \notin Peers
ASSUME PacketsAssumption == Packets \subseteq Seq(Seq(Strings))

\* handle_request: all addresses of the host in one record.
Advertise(p, A) == << Seqs!SetToSeq({<<a, p>> : a \in A}) >>

\* The strings are put together before they are taken apart at each
\* "dnsaddr=", so that other text is read as the end of the address before it.
Readable(r, i) == r[i] # Note /\ (i < Len(r) => r[i + 1] # Note)

\* Faulty variant of Grouped: the map's insert replaces the list.
GroupedLast(r) ==
  [p \in {r[i][2] : i \in {j \in DOMAIN r : Readable(r, j)}} \ {NoId} |->
    {r[i][1] : i \in {Max({j \in DOMAIN r : Readable(r, j) /\ r[j][2] = p})}}]

\* What a record says, by peer.
Grouped(r) ==
  [p \in {r[i][2] : i \in {j \in DOMAIN r : Readable(r, j)}} \ {NoId} |->
    {r[i][1] : i \in {j \in DOMAIN r : Readable(r, j) /\ r[j][2] = p}}]

\* A response arrives when the loop has done the one before.
MdnsReceive ==
  /\ packet = << >> /\ groups = EmptyMap
  /\ \/ \E p \in Peers, A \in SUBSET Addrs :
          /\ packet' = Advertise(p, A)
          /\ announced' = IF A = {} THEN announced ELSE Put(announced, p, A)
     \/ \E response \in Packets :
          /\ packet' = response
          /\ announced' = Without(announced, {s[2] : s \in UNION {Range(r) : r \in Range(response)}})
  /\ UNCHANGED <<vars, groups, lookupVars>>

\* handle_response, up to the first await of a record; text that is not UTF-8
\* ends it.
MdnsRecord ==
  /\ packet # << >> /\ groups = EmptyMap
  /\ IF NotUtf8 \in Range(Head(packet))
     THEN packet' = << >> /\ UNCHANGED groups
     ELSE packet' = Tail(packet) /\ groups' = Grouped(Head(packet))
  /\ UNCHANGED <<vars, announced, lookupVars>>

\* insert_peer_info, peer by peer in the order of a HashMap.
MdnsInsert(p) ==
  /\ p \in DOMAIN groups
  /\ Heard(p, groups[p])
  /\ groups' = Without(groups, {p})
  /\ UNCHANGED <<packet, announced, lookupVars>>

\* identity_push, the Kademlia routers and the application.
OtherWriter(p) ==
  /\ \/ \E A \in SUBSET Addrs, P \in SUBSET Protos : Identified(p, A, P)
     \/ \E A \in SUBSET Addrs : Heard(p, A)
     \/ Remove(p)
  /\ announced' = Without(announced, {p})
  /\ UNCHANGED <<packet, groups, lookupVars>>

Seen(p) == (Appear(p) \/ Disappear(p)) /\ UNCHANGED <<mdnsVars, lookupVars>>

Mdns == MdnsReceive \/ MdnsRecord \/ \E p \in Peers : MdnsInsert(p)
Book == \E p \in Peers : OtherWriter(p) \/ Seen(p)

-----------------------------------------------------------------------------
(* DnsAddr. *)

\* is_dnsaddr_transport.
NameKinds == {"dns", "dns4", "dns6", "dnsaddr"}
IsName(a) == \E i \in DOMAIN a : a[i][1] \in NameKinds

\* What connect is called with has a name (multiaddr_hint).  An address has one
\* name at most and begins with it, as the addresses of hosts do.
HasItsPlace(a) ==
  /\ a \in Seq(STRING \X STRING)
  /\ IsName(a) => \A i \in DOMAIN a : a[i][1] \in NameKinds <=> i = 1

ASSUME TargetsAssumption == \A a \in Targets : IsName(a) /\ HasItsPlace(a)
ASSUME ZonesAssumption ==
  \A z \in Zones : \A d \in DOMAIN z.txt : \A a \in z.txt[d] : HasItsPlace(a)
ASSUME NoTargetAssumption == NoTarget \notin Targets

\* A TXT record that begins as an address and is none.
Unparsable == << <<"unparsable", "">> >>

\* A query of dns_lookup fails, or a record it finds does not parse.
Failed == [at |-> "failed", stacks |-> {}]

\* dns_lookup, one protocol c of the address after the other: addresses of a
\* name continue what there is, or begin it; those of a dnsaddr end it, and what
\* else there is begins nothing.  All families of IP addresses are asked for.
Protocol(z, st, c) ==
  IF st.at # "going" THEN st
  ELSE IF c[1] = "dnsaddr"
  THEN IF c[2] \in DOMAIN z.txt /\ Unparsable \notin z.txt[c[2]]
       THEN [at |-> "ended", stacks |-> st.stacks \union z.txt[c[2]]] ELSE Failed
  ELSE IF c[1] \in NameKinds
  THEN IF c[2] \in DOMAIN z.ip
       THEN [at |-> "going",
             stacks |-> {Append(s, <<"ip", n>>) :
                         s \in IF st.stacks = {} THEN {<< >>} ELSE st.stacks, n \in z.ip[c[2]]}]
       ELSE Failed
  ELSE [at |-> "going", stacks |-> {Append(s, c) : s \in st.stacks}]

Resolved(z, a) ==
  LET upTo[i \in 0..Len(a)] ==
        IF i = 0 THEN [at |-> "going", stacks |-> {}]
        ELSE Protocol(z, upTo[i - 1], a[i])
  IN  upTo[Len(a)]

\* lookup, from one query to the next.  With the last of a round what was found
\* is divided into names, for the next round, and addresses.
LookupOne ==
  /\ outcome = "resolving"
  /\ depth <= MaxDepth
  /\ \E a \in names :
       LET found == Resolved(zone, a)
           all   == cached \union found.stacks
       IN  /\ found.at # "failed"
           /\ IF names = {a}
              THEN /\ names' = {b \in all : IsName(b)}
                   /\ parsed' = parsed \union {b \in all : ~IsName(b)}
                   /\ cached' = {}
                   /\ depth' = depth + 1
              ELSE /\ names' = names \ {a}
                   /\ cached' = all
                   /\ UNCHANGED <<parsed, depth>>
  /\ UNCHANGED <<vars, mdnsVars, target, zone, dialled, outcome>>

\* A query fails or times out, and with it the lookup.
LookupFails ==
  /\ outcome = "resolving"
  /\ depth <= MaxDepth /\ names # {}
  /\ outcome' = "failed"
  /\ UNCHANGED <<vars, mdnsVars, target, zone, names, cached, parsed, depth, dialled>>

\* Faulty variant of LookupEnds: the bound on the rounds counts one less.
LookupEndsEarly ==
  /\ outcome = "resolving"
  /\ names = {} \/ depth > MaxDepth - 1
  /\ outcome' = IF parsed = {} THEN "failed" ELSE "dialling"
  /\ UNCHANGED <<vars, mdnsVars, target, zone, names, cached, parsed, depth, dialled>>

\* Faulty variant of LookupEnds: there is no bound.
LookupEndsNever ==
  /\ outcome = "resolving"
  /\ names = {}
  /\ outcome' = IF parsed = {} THEN "failed" ELSE "dialling"
  /\ UNCHANGED <<vars, mdnsVars, target, zone, names, cached, parsed, depth, dialled>>

\* No names are left, or the rounds are used up; then those left are dropped.
LookupEnds ==
  /\ outcome = "resolving"
  /\ names = {} \/ depth > MaxDepth
  /\ outcome' = IF parsed = {} THEN "failed" ELSE "dialling"
  /\ UNCHANGED <<vars, mdnsVars, target, zone, names, cached, parsed, depth, dialled>>

\* connect tries them in any order until one answers; a dial fails with an
\* error of its own.
Dial ==
  /\ outcome = "dialling"
  /\ \E a \in parsed \ dialled :
       /\ dialled' = dialled \union {a}
       /\ outcome' \in {"connected", IF dialled' = parsed THEN "refused" ELSE "dialling"}
  /\ UNCHANGED <<vars, mdnsVars, target, zone, names, cached, parsed, depth>>

\* transport_connect's timeout runs out around a query or a dial.  The dial of an
\* address that does not answer has a timeout of the same length, begun later: it
\* is always this one that ends it, and the addresses left are not dialled.
TimesOut ==
  /\ outcome \in {"resolving", "dialling"}
  /\ outcome' = "timeout"
  /\ UNCHANGED <<vars, mdnsVars, target, zone, names, cached, parsed, depth, dialled>>

Connect == LookupOne \/ LookupFails \/ LookupEnds \/ Dial

-----------------------------------------------------------------------------
DiscoveryInit ==
  /\ Init
  /\ packet = << >> /\ groups = EmptyMap /\ announced = EmptyMap
  /\ target \in Targets \union {NoTarget}
  /\ zone \in Zones
  /\ target = NoTarget => zone = CHOOSE z \in Zones : TRUE
  /\ names = IF target = NoTarget THEN {} ELSE {target}
  /\ cached = {} /\ parsed = {} /\ depth = 0 /\ dialled = {}
  /\ outcome = IF target = NoTarget THEN "none" ELSE "resolving"

DiscoveryNext ==
  \/ target = NoTarget /\ (Mdns \/ Book)
  \/ Connect
  \/ TimesOut

\* Every query ends, and so does every dial that is not cut off.  No fairness of
\* TimesOut is assumed: a lookup ends without it.
DiscoverySpec == DiscoveryInit /\ [][DiscoveryNext]_allVars /\ WF_allVars(Connect)

-----------------------------------------------------------------------------
(* Properties. *)

\* What an xstack host announces is what its neighbours list: its addresses
\* survive handle_request, the one record, and handle_response, although other
\* writers go on in between, until one of them writes the host's own entry.
AnnouncedListed ==
  packet = << >> =>
    \A p \in DOMAIN announced \ DOMAIN groups :
      p \in DOMAIN infos /\ infos[p].addrs = announced[p]

\* One look at an address that begins with a name: a host name leaves what
\* follows it, a dnsaddr does not.
Behind(z, a) ==
  IF a[1][1] = "dnsaddr" THEN z.txt[a[1][2]]
  ELSE {<< <<"ip", n>> >> \o Tail(a) : n \in z.ip[a[1][2]]}

\* What there is after so many rounds of looks at t and the names behind it.
Rounds(z, t) ==
  LET after[k \in 0..(MaxDepth + 1)] ==
        IF k = 0 THEN {t} ELSE UNION {Behind(z, a) : a \in {b \in after[k - 1] : IsName(b)}}
  IN  after

\* The addresses that take up to MaxDepth + 1 looks at names.
Reachable == {a \in UNION Range(Rounds(zone, target)) : ~IsName(a)}

\* A lookup that succeeds has found every address behind the name that takes
\* up to MaxDepth + 1 looks, each whole, and nothing else, whatever refers to
\* what; connect reports the error of a dial only after the dials of all of them
\* have failed.  When its time runs out it may have dialled none.
LookupExact ==
  outcome \in {"dialling", "connected", "refused"} =>
    /\ parsed = Reachable
    /\ outcome = "refused" => dialled = Reachable

\* Names that refer to each other do not keep connect from ending.
ConnectEnds == (target # NoTarget) ~> outcome \in {"failed", "refused", "connected", "timeout"}
=============================================================================
