CONSTANTS
  Parts = {"hash_delete", "thread_ids", "thread_storage", "hazptr", "hazptr_amortized", "blocks", "pools", "pool_stats", "count_sort", "group_by_two", "integer_sort", "sample_sort", "sample_cached", "sequence", "short_sequence"}
  u1 = u1
  u2 = u2
  t3 = t3
  t4 = t4
  n1 = n1
  Threads = {u1, u2, t3, t4}
  ChunkSize = 1
  MaxBirths = 4
SPECIFICATION PartSpec
INVARIANTS
  ResultsExact
  UniqueIds
  MemoryAccounted
PROPERTIES
  ElementsKept
  ImplementsStack
  HoldsAsVector
SYMMETRY Symmetry
