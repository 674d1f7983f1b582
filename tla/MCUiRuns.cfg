\* The UI with and without plugin hooks; two tasks may exist at once.
SPECIFICATION Spec
CONSTANTS
  Runs = {r1, r2}
  NoRun = NoRun
  Cap = 2
  MaxQueue = 1
INVARIANTS
  TypeOK
  BusyHasOneOwner
  NoOrphanRun
  OneEndingPerRun
PROPERTIES
  RunsAreLetGo
