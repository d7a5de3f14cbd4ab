CONSTANTS
  Rates <- TwoRates
  ChanCap = 1
  SampleCap = 1
  MaxWindow = 1
SPECIFICATION FairSpec
INVARIANTS TypeOK ReportedOnce LossesMatchRequests
PROPERTIES RateTakesEffect RequestsReported
