CONSTANTS
  NumTasks = 3
  NumPipes = 3
  TokenMax = 7
SPECIFICATION FairSpec
INVARIANTS
  TypeOK
  TokenAccounting
  OrderedHandoff
  NoLostWakeup
  SubmittedExact
PROPERTIES
  AllBoarded
  ImplementsConveyor
