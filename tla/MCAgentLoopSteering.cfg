\* A message drained at the turn cap or at an interjection is dropped.
SPECIFICATION Spec
CONSTANTS
  Calls = {c1}
  MaxTurns = 2
  MAX_TRANSIENT_RECOVERIES = 0
  MAX_CONSECUTIVE_COMPACTION_FAILURES = 1
  GuardMode = "off"
  GateBudget = 0
  MaxHooks = 0
  MaxSteers = 1
INVARIANTS
  NoSteeringLost
