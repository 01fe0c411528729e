SPECIFICATION InputsSpec
CONSTANTS
  NULL = NULL
  Wrap <- MCWrap
  Slept <- MCSlept
  Posted <- MCPosted
  Results <- MCResults
  Checkpoints <- MCCheckpoints
INVARIANTS
  ReplacesReferencesOnly
  AcceptedInputsResolve
  OnlyASecondSpellingFails
