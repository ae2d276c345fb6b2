SPECIFICATION FairSpec
CONSTANTS
  c1 = c1
  c2 = c2
  r1 = r1
  r2 = r2
  NoRelay = NoRelay
  Channels <- MCChannels
  Relays <- MCRelays
  Limit = 1
  MaxAsking = 2
  MaxCalls = 1
  MaxExpired = 1
INVARIANTS
  OneDecision
  HeldCounted
  AddrsAccounted
PROPERTIES
  NatFollowed
CHECK_DEADLOCK FALSE
