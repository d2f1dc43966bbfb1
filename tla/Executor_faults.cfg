SPECIFICATION Spec
CONSTANTS
  Workers = {w1, w2}
  Main = main_thread
  Reactor = reactor
  bucket_count = 2
  http_connections = 0
  Requests = {r1, r2, r3, r4}
  Fds = {1, 2, 3}
  None = none
  U8_MAX = 255
  Faults = {"oom", "panic"}
  MaxAwaits = 1
SYMMETRY Symmetry
CHECK_DEADLOCK FALSE
INVARIANTS
  OwnDescriptor
  MainNeverPanics
  OrdinaryInv
PROPERTIES
  OnlyThatRequestCancelled
