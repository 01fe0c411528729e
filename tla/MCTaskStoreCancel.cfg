SPECIFICATION SchedulerSpec
CONSTANTS
  Tasks = {t1}
  Workers = {w1}
  Outputs = {o1}
  Oversized = oversized
  LeaseDuration = 1
  NULL = NULL
  Definitions <- MCLivenessDefinitions
PROPERTIES
  CancelTakesEffect
