CONSTANTS
  o1 = o1
  o2 = o2
  o3 = o3
  OrderIds = {o1, o2, o3}
  Prefetch = 2
  Attempts = 3
  Rejected = {o3}
SPECIFICATION FairSpec
CHECK_DEADLOCK TRUE
INVARIANTS
  TypeOK
  NoneForgotten
  RepeatsAreExcused
PROPERTIES
  PromiseKept
  OrdersSettle
