\* The advisory publish guard writes between a call and its result.
SPECIFICATION Spec
CONSTANTS
  Calls = {c1}
  MaxTurns = 2
  MAX_TRANSIENT_RECOVERIES = 0
  MAX_CONSECUTIVE_COMPACTION_FAILURES = 1
  GuardMode = "advisory"
  GateBudget = 0
  MaxHooks = 0
  MaxSteers = 0
INVARIANTS
  ResultsFollowCalls
