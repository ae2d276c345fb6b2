SPECIFICATION Spec
CONSTANTS
  t1 = t1
  t2 = t2
  q1 = q1
  q2 = q2
  r1 = r1
  r2 = r2
  local = local
  a = a
  b = b
  none = none
  Dials <- MCDials
  Kind <- MCKind
  Host <- MCHost
  Local = local
  ForeignDials <- MCForeign
  Ahead <- MCAhead
  Watched <- MCWatched
  TicksPerSecond = 2
  Lifetime = 2
  NoKey = none
  Timeout = 2
  MaxTime = 5
  Together <- MCTogether
  MaxHandles = 2
INVARIANTS
  CertValidWhenReceived
CHECK_DEADLOCK FALSE
