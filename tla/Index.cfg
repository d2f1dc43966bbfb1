SPECIFICATION Spec
CONSTANTS
  bucket_count = 3
  tcp_streams = 1
  http_connections = 2
  U32 = 10
  MAX_BUCKETS = 3
INVARIANTS
  TasksFound
  RangesDisjoint
  WordsRoundTrip
