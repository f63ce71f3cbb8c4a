CONSTANTS
  c1 = c1
  c2 = c2
  r1 = r1
  r2 = r2
  i1 = i1
  i2 = i2
  Conns = {c1, c2}
  MinConns = 1
  Requests = {r1, r2}
  Injections = {i1, i2}
  Wanted = 3
SPECIFICATION FairSpec
CHECK_DEADLOCK TRUE
PROPERTY ResetFreesPool
