\* One run with two tool calls a turn, publish guard blocking.
SPECIFICATION Spec
CONSTANTS
  Calls = {c1, c2}
  MaxTurns = 3
  MAX_TRANSIENT_RECOVERIES = 1
  MAX_CONSECUTIVE_COMPACTION_FAILURES = 2
  GuardMode = "blocking"
  GateBudget = 1
  MaxHooks = 1
  MaxSteers = 1
INVARIANTS
  TypeOK
  CallsAnsweredOnce
  ResultsFollowCalls
  TurnBudget
  OneStrikePerRound
  FinishedRunsDropNoSteering
PROPERTIES
  Termination
