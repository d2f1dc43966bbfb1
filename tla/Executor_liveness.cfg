SPECIFICATION FairSpec
CONSTANTS
  Workers = {w1, w2}
  Main = main_thread
  Reactor = reactor
  bucket_count = 1
  http_connections = 1
  Requests = {r1, r2}
  Fds = {1, 2}
  None = none
  U8_MAX = 255
  Faults = {}
  MaxAwaits = 1
CHECK_DEADLOCK FALSE
PROPERTIES
  AllServedInTheEnd
