CONSTANTS
  Parts = {"batch"}
  null = null
  Clients = {1, 2}
  NumQueries = 4
SPECIFICATION PartSpec
INVARIANTS
  MomentsAnswered
