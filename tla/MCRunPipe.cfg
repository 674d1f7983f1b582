\* One run, its pump, its epitaph and a late checkpoint; the consumer may leave.
SPECIFICATION Spec
CONSTANTS
  InnerCap = 2
  OuterCap = 2
  MaxProgress = 6
  ConsumerLeaves = TRUE
INVARIANTS
  TypeOK
  OneEnding
  OnlyARefreshIsLate
PROPERTIES
  NoSilentDeath
  KeepsPromise
  RunEnds
  TornDownRunsEnd
