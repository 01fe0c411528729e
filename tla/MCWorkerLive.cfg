SPECIFICATION FairWorkerSpec
CONSTANTS
  Tasks = {t1}
  Workers = {w1}
  o1 = o1
  o2 = o2
  Outputs = {o1, o2}
  Oversized = oversized
  LeaseDuration = 2
  NULL = NULL
  Concurrency = 2
  ClockSkew = 1
  Definitions <- MCLiveDefinitions
  Wrap <- MCWrap
  Blocking <- MCBlocking
  FlakyInput <- MCFlaky
PROPERTIES
  StaleOwnerStops
  ReturnCompletes
  ShutdownCompletes
  ImplementsStore
  OnlyHeldClaimsAreRenewed
