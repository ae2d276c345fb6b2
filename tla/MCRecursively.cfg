SPECIFICATION FairLookupSpec
CONSTANTS
  MCCount = 6
  Peers <- MCPeers
  KeyDistance <- MCDistance
  K = 3
  Concurrency = 2
  Seeds <- MCSeedLists
  Replies <- MCReplies
INVARIANTS
  KClosest
  NothingMissed
PROPERTIES
  Terminates
CHECK_DEADLOCK FALSE
