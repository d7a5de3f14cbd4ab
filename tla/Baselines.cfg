CONSTANTS
  Reqs = {r1, r2}
  N = 2
  Attempts = 3
  MaxQueue = 4
  Rewards = {20, 50}
  MaxRequests <- RequestBound
  MaxReports <- ReportBound
  MaxFaults <- FaultBound
  Rates = {1000}
  StopAt = 2
  Latencies = {0, 1, 2}
  ChanCap = 1
  MaxSent = 2
SPECIFICATION MCSpec
INVARIANTS TypeOK QueueIsRunning Rotates FeedbackHasState ExtremaCover
PROPERTIES ImplementsDelivery
SYMMETRY Symmetry
CHECK_DEADLOCK FALSE
