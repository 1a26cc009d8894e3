CONSTANTS
  Parts = {"deque", "fork_join", "parallel_for", "atomic_wait", "hash_update", "sorts"}
  u1 = u1
  u2 = u2
  w1 = w1
  w2 = w2
  n1 = n1
  n2 = n2
  n3 = n3
  Thieves = {u1, u2}
  NumJobs = 3
  QSize = 2
  TagMod = 16
SPECIFICATION PartFairSpec
INVARIANTS
  WorkDoneOnce
  NoLostWakeup
  ResultsExact
PROPERTIES
  ImplementsJobDeque
  CallsReturn
