SPECIFICATION Spec
CONSTANTS
  Main = main
  Reactor = reactor
  Workers = {w1}
  bucket_count = 2
  bucket_size = 2
  INITIAL_ARENA_SIZE = 3
  MAX_SUPPORTED_ALIGN = 2
  U32_MAX = 7
  initial_arena = 2
  mmap_start = 6
  Layouts <- SmallLayouts
INVARIANTS
  TypeOK
  Disjoint
  InBounds
  Aligned
  FreeBelowRemaining
