SPECIFICATION WorkerSpec
CONSTANTS
  Tasks = {t1}
  Workers = {w1}
  o1 = o1
  o2 = o2
  Outputs = {o1, o2}
  Oversized = oversized
  LeaseDuration = 1
  NULL = NULL
  Concurrency = 1
  ClockSkew = 1
  Definitions <- MCPipelineDefinitions
  Wrap <- MCWrap
  Blocking <- MCBlocking
  FlakyInput <- MCFlaky
PROPERTIES
  ImplementsPipeline
