\* The JoinHandle arm wins over an ending that is already in the channel.
SPECIFICATION Spec
CONSTANTS
  Runs = {r1}
  NoRun = NoRun
  Cap = 1
  MaxQueue = 0
INVARIANTS
  BackstopOnlyForSilence
