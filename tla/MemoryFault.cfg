CONSTANTS
  h1 = h1
  h2 = h2
  Handlers = {h1, h2}
  Chunks = 3
  MaxBegun = 5
SPECIFICATION FairSpec
CHECK_DEADLOCK TRUE
INVARIANTS
  TypeOK
  MemoryFollowsFlag
PROPERTIES
  CleanupGoesOn
