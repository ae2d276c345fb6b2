SPECIFICATION Spec
CONSTANTS
  k1 = k1
  k2 = k2
  k3 = k3
  p1 = p1
  p2 = p2
  a1 = a1
  a2 = a2
  d = d
  t1 = t1
  t2 = t2
  none = none
  Conns <- MCConns
  Peers <- MCPeers
  Addrs <- MCAddrs
  PeerOf <- MCPeerOf
  AddrOf <- MCAddrOf
  Names <- MCNames
  Reported <- MCReported
  AddrLists <- MCAddrLists
  MaxPool = 1
  Tasks <- MCTasks
  NoConn = none
INVARIANTS
  PeerIndexExact
  AddrIndexBacked
  NoOrphan
PROPERTIES
  LookupFindsDialledPeer
SYMMETRY MCSymmetry
