\* An Esc in the grace window leaves the shell session behind.
SPECIFICATION Spec
CONSTANTS
  Runs = {r1}
  NoRun = NoRun
  Cap = 1
  MaxQueue = 0
INVARIANTS
  NoTurnBesideShell
