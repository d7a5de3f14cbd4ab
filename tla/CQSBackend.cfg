CONSTANTS
  Reqs = {r1, r2}
  TotalQueue = 1
  Ramax = 1500
  ChanCap = 1
  Elapsed = {1, 2}
  HasIP = TRUE
  MaxPanics = 1
  RaUpdater = RaUpdater
  Nobody = Nobody
SPECIFICATION FairSpec
INVARIANTS TypeOK SlotAccounting WindowExact
PROPERTIES PublishIsCurrent ImplementsAdmission AdmittedIsAnswered WindowCloses GaugeConverges
