CONSTANTS
  Client = {"a"}
  Batch <- FaithfulBatch
  ExtWrites <- MCExtWrites
  NTables = 1
  GenMod = 8
  MaxGen = 4
  FailKind = {"chain", "object"}
  GetgenFails = FALSE
SPECIFICATION FairSpec
INVARIANTS TypeOK PopulatedHasGenid
PROPERTIES FreshOnUse UpdateTerminates
