SPECIFICATION Spec
CONSTANTS
  Call = {c1, c2}
  Subscriber = {s1, s2}
  MaxTrades = 2
  SubscriberBuffer = 2
  None = None
\* Every call has been fanned out and every stream has returned.
CHECK_DEADLOCK FALSE
INVARIANTS
  TypeOK
  InOrderOnce
  GaplessUnlessDropped
  BatchesWhole
PROPERTIES
  NeverStalled
  GoneAreForgotten
