CONSTANTS
  NoSnap = NoSnap
  e1 = e1
  e2 = e2
  ConnWarn = 75
  ConnCrit = 90
  LongSecs = 30
  WarnLatency = 1500
  CritLatency = 3000
  MemWarn = 80
  MemCrit = 90
  HeapWarn = 80
  HeapCrit = 90
  ConfigXmx = 48
  MinVisits = 5
  Carryover = TRUE
  TargetPermille = 995
  WindowPolls = 43200
  Envs = {e1, e2}
  EnvOrder <- TwoEnvs
  SafeName <- Distinct
  Worlds <- ThreeWorlds
  Lookback = 1
  HistoryMayFail = TRUE
  MaxCycle = 2
SPECIFICATION Spec
CHECK_DEADLOCK TRUE
INVARIANTS
  TypeOK
  AlertHasRca
  AlertRemembered
  DashboardBacked
  OutageShowsInSlo
  CleanStopIsReadable
  EscalationSurvivesRestart
  FiguresCoverThisProcess
PROPERTIES
  LedgerKept
