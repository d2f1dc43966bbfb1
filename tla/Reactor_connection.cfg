SPECIFICATION FairSpec
CONSTANTS
  Indices = {i1}
  Concurrent = {i1}
INVARIANTS
  ReactorInv
  SourceInPlace
PROPERTIES
  ImplementsWakerStore
  ReadyIsServed
