SPECIFICATION Spec
CONSTANTS
  Tasks = {t1, t2}
  K = 2
  Peers <- MCPeers
  Buckets <- MCBits
  KIndex <- MCKIndex
  Keys <- MCKeys
  LocalKey = 0
  KeyIndex <- MCKeyIndex
  Distance <- MCDistance
INVARIANTS
  BucketsSound
  LenExact
  ClosestComplete
  NearestFound
