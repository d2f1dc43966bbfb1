SPECIFICATION Spec
CONSTANTS
  Workers = {w1}
  Main = main_thread
  Reactor = reactor
  bucket_count = 1
  http_connections = 1
  Requests = {r1, r2, r3}
  Fds = {1, 2}
  None = none
  U8_MAX = 255
  Faults = {"oom", "panic", "reset"}
  MaxAwaits = 2
SYMMETRY Symmetry
CHECK_DEADLOCK FALSE
INVARIANTS
  TypeOK
  NoWorkerDies
  WorkerInv
