CONSTANTS
  NoSnap = NoSnap
  ConnWarn = 75
  ConnCrit = 90
  LongSecs = 30
  WarnLatency = 1500
  CritLatency = 3000
  MemWarn = 80
  MemCrit = 90
  HeapWarn = 80
  HeapCrit = 90
  ConfigXmx = 48
  MinVisits = 5
  Carryover = TRUE
  TargetPermille = 900
  WindowPolls = 20
  Worlds <- FourWorlds
  MaxPolls = 24
SPECIFICATION Spec
CHECK_DEADLOCK FALSE
INVARIANTS
  TypeOK
  ExhaustedBudgetIsNeverOk
PROPERTY UnreachableSourceShows
