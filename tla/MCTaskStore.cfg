SPECIFICATION Spec
CONSTANTS
  Tasks = {t1}
  Workers = {w1, w2}
  Outputs = {o1, o2}
  Oversized = oversized
  LeaseDuration = 2
  NULL = NULL
  Definitions <- MCDefinitions
INVARIANTS
  TypeOK
  OwnershipMatchesStatus
  StepsBehindCursor
  NeverStuck
  Attended
  InputsFromCommittedFacts
  FencedWrites
  AttemptsInOrder
  EndsAsItBegan
  OneVerdict
  NothingAfterDeadline
  NeverEarly
PROPERTIES
  CancelSticks
  DeadlineHolds
  ExpiredLeaseIsDead
  FactsPersist
  DueUntilTaken
  ImplementsLifecycle
