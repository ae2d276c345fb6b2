SPECIFICATION FairSpec
CONSTANTS
  c1 = c1
  s1 = s1
  s2 = s2
  p1 = p1
  l1 = l1
  l2 = l2
  none = none
  Conns <- MCConns
  Streams <- MCStreams
  ConnOf <- MCConnOf
  Protos <- MCProtos
  NoProto = none
  Listeners <- MCListener
  DnsConns <- MCDnsConns
PROPERTIES
  AcceptReturns
  CacheDrains
