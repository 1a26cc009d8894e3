CONSTANTS
  Keys = {1, 2, 3, 4, 5, 6}
  Hash <- MCHash
  nullptr = nullptr
  NumThreads = 3
  NumTasks = 3
  BlockSize = 2
  Contents0 <- MCContents0
  Workloads <- MCWorkloads
SPECIFICATION Spec
INVARIANTS
  AugIsSum
