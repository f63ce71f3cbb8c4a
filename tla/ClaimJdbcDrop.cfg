CONSTANTS
  NoSnap = NoSnap
  ConnWarn = 75
  ConnCrit = 90
  LongSecs = 30
  WarnLatency = 1500
  CritLatency = 3000
  MemWarn = 80
  MemCrit = 90
  HeapWarn = 80
  HeapCrit = 90
  ConfigXmx = 48
  MinVisits = 5
  Carryover = TRUE
  Worlds <- HostWorlds
  ConfiguredDbs = {"qp_agent", "qp_app"}
  Lookback = 2
  HistoryMayFail = TRUE
SPECIFICATION Spec
CHECK_DEADLOCK TRUE
INVARIANT JdbcDropIsReported
