\* Two calls of every kind, in both modes; a read is attempted three times, as in the code.
CONSTANTS
  N = 2
  MAX_ATTEMPTS = 3
  MaxPrompts = 1
SPECIFICATION Spec
INVARIANTS
  TypeOK
  EventsPair
  SpinnersStop
  PromptsCounted
  NoEffectTwice
  VerifierInOrder
PROPERTIES
  PeopleAreNotCut
  ImplementsBatch
  CancelEndsBatch
  HungToolsAreCut
