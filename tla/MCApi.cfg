SPECIFICATION ApiSpec
CONSTANTS
  Tasks = {t1}
  Workers = {w1}
  Clients = {c1, c2}
  Outputs = {o1}
  Oversized = oversized
  LeaseDuration = 1
  NULL = NULL
  Definitions <- MCDefinitions
SYMMETRY Symmetry
INVARIANTS
  DecisionAnswersHold
  CommittedDecisionNotRefused
  CancelAnswersHold
  ViewsAreConsistent
