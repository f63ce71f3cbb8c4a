CONSTANTS
  NoSnap = NoSnap
  ConnWarn = 75
  ConnCrit = 90
  LongSecs = 30
  WarnLatency = 1500
  CritLatency = 3000
  MemWarn = 80
  MemCrit = 90
  HeapWarn = 80
  HeapCrit = 90
  ConfigXmx = 48
  MinVisits = 5
  Carryover = TRUE
  Worlds <- SignalWorlds
  ConfiguredDbs = {"qp_agent", "qp_app"}
  Lookback = 1
  HistoryMayFail = TRUE
SPECIFICATION Spec
CHECK_DEADLOCK TRUE
INVARIANTS
  TypeOK
  DiagnosesAgree
  IncidentIsNeverHealthy
PROPERTIES
  SameSignalsNeverWeaken
