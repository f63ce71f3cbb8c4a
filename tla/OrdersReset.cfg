CONSTANTS
  o1 = o1
  o2 = o2
  o3 = o3
  OrderIds = {o1, o2, o3}
  Prefetch = 2
  Attempts = 3
  Rejected = {}
SPECIFICATION FairSpec
CHECK_DEADLOCK TRUE
PROPERTY ResetDrainsQueue
