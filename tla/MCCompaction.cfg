\* The protected head of the code and a tail of one message, so that six
\* messages leave room for two folds of either kind.
CONSTANTS
  PROTECT_HEAD = 2
  PROTECT_TAIL = 1
  MAX_FAILURES = 1
  Thresholds = 2
  MaxResults = 2
  MaxMessages = 6
  MaxFolds = 2
SPECIFICATION Spec
INVARIANTS
  TypeOK
  FreshCheckpoints
  CutsKeepPairs
PROPERTIES
  FoldsCarryOver
