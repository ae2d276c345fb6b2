---------------------------- MODULE MCDiscovery ----------------------------
(***************************************************************************)
(* Two peers that may list the same two addresses, without protocols, which *)
(* the book only carries; and lookups whose names refer to each other, to   *)
(* hosts with one, two and no addresses, to names nobody knows and to text  *)
(* that is no address.  Up to three rounds.                                 *)
(***************************************************************************)
EXTENDS Discovery, TLC

CONSTANTS p1, p2, a1, a2, none

MCPeers == {p1, p2}
MCAddrs == {a1, a2}

\* Other text between addresses and behind one, an address without an id, two
\* records about one peer, and bytes that are no text.
MCPackets == {
  << << <<a1, p1>>, Note, <<a2, p2>>, <<a2, p1>>, <<a1, "">>, <<a1, p2>> >> >>,
  << << <<a1, p1>> >>, << Note, <<a2, p1>> >>, << <<a1, p2>>, NotUtf8 >>, << <<a2, p2>> >> >> }

Tcp == <<"tcp", "4001">>
Id(q) == <<"p2p", q>>
Dns(n) == << <<"dns4", n>>, Tcp, Id("A") >>
DnsaddrOf(d) == << <<"dnsaddr", d>>, Id("B") >>
Ip(n) == << <<"ip", n>>, Tcp >>

MCTargets == {DnsaddrOf("d1"), DnsaddrOf("d2"), Dns("two"), Dns("zero"), DnsaddrOf("gone")}

Hosts == [two |-> {"1", "2"}, one |-> {"3"}, zero |-> {}]

MCZones == {
  [ip |-> Hosts,
   txt |-> [d1 |-> {Dns("two"), DnsaddrOf("d2"), Ip("9")},
            d2 |-> {Dns("one"), DnsaddrOf("d3")},
            d3 |-> {Ip("8"), DnsaddrOf("d1"), Dns("zero")}]],
  [ip |-> Hosts,
   txt |-> [d1 |-> {DnsaddrOf("d1"), Ip("7")}, d2 |-> {DnsaddrOf("d2")}, d3 |-> {}]],
  [ip |-> Hosts,
   txt |-> [d1 |-> {Ip("9"), Unparsable}, d2 |-> {Ip("6"), Dns("unknown")}, d3 |-> {}]] }
=============================================================================
