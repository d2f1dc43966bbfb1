SPECIFICATION FairSpec
CONSTANTS
  Workers = {w1, w2}
  Callers = {c1}
  bucket_count = 2
  per_bucket = 2
  U32_MAX = 5
INVARIANTS
  TypeOK
  OneWorkerPerBucket
  NoPanic
  CountExact
  WorkConserving
  InputJobNeverStranded
  QueueInv
PROPERTIES
  ReleaseAbandonsNoJob
  ImplementsWorkQueue
  InputJobServed
