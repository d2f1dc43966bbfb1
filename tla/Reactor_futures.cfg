SPECIFICATION Spec
CONSTANTS
  Indices = {i1, i2}
  Concurrent = {}
SYMMETRY Symmetry
INVARIANTS
  ReadinessNotLost
  WillBeWoken
  NoWakerWhileTriggered
  NeverWokenAfterDeath
