CONSTANTS
  Keys = {1, 2, 3, 4, 5, 6}
  Hash <- MCHash
  nullptr = nullptr
  NumThreads = 2
  NumTasks = 4
  BlockSize = 2
  Contents0 <- MCContents0
  Workloads <- PathWorkloads
SPECIFICATION Spec
INVARIANTS
  SnapshotComplete
  SnapshotAnswers
  SnapshotsAvailable
