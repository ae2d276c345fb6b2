\* What is announced is listed, the reverse lookup stays sound, and a lookup
\* finds all there is and ends.
SPECIFICATION DiscoverySpec
CONSTANTS
  p1 = p1
  p2 = p2
  a1 = a1
  a2 = a2
  none = none
  Peers <- MCPeers
  Addrs <- MCAddrs
  Protos = {}
  Packets <- MCPackets
  Targets <- MCTargets
  Zones <- MCZones
  MaxDepth = 2
  NoTarget = none
INVARIANTS
  ReverseLookupSound
  NewestClaimant
  AnnouncedListed
  LookupExact
PROPERTY
  ConnectEnds
CHECK_DEADLOCK FALSE
