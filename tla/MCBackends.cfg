CONSTANTS
  Parts = {"sequential", "batch", "query_processor", "contreap", "pam_tree", "treap_build", "scheduler_pipes", "ycsbc", "ycsbc_clients", "driver"}
  null = null
  Clients = {1, 2}
  NumQueries = 4
SPECIFICATION PartFairSpec
INVARIANTS
  VersionsAreTreaps
  QueriesAnswered
  NodesOwned
  IssuedIsGenerated
PROPERTIES
  ImplementsVersionedMap
  VersionsKept
  LastAloneDrains
  CallsReturn
