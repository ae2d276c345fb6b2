SPECIFICATION FairSpec
CONSTANTS
  s1 = s1
  s2 = s2
  r1 = r1
  r2 = r2
  s3 = s3
  n1 = n1
  n2 = n2
  Subs <- MCSubs
  Raises <- MCRaises
  Names <- MCNames
  NameOf <- MCNameOf
  KindOf <- MCKindOf
INVARIANTS
  NothingAfterEnd
PROPERTIES
  BusSpec
CHECK_DEADLOCK FALSE
