\* The protected head and tail of the code; a stretch of tool calls without a user turn.
CONSTANTS
  PROTECT_HEAD = 2
  PROTECT_TAIL = 5
  MAX_FAILURES = 1
  Thresholds = 1
  MaxResults = 1
  MaxMessages = 9
  MaxFolds = 2
SPECIFICATION Spec
INVARIANTS
  SnapshotsKeepPairs
