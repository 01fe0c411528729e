SPECIFICATION Spec
CONSTANTS
  Tasks = {t1, t2}
  Workers = {w1}
  Outputs = {o1}
  Oversized = oversized
  LeaseDuration = 1
  NULL = NULL
  Definitions <- MCPairDefinitions
PROPERTIES
  TerminalIsFinal
