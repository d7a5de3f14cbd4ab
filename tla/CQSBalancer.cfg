CONSTANTS
  LatencyScale = 4
  TopK = 2
  Handlers = {h1}
  Backends = {b1, b2, b3}
  TotalQueue = 2
  Weights <- OneTriple
  Timeout = 16
  Latencies = {1, 3}
  MaxRequests = 2
  MaxRestarts = 1
SYMMETRY Symmetry
SPECIFICATION Spec
INVARIANTS TypeOK PublishedNeverAhead PickedAmongBest
PROPERTIES FailureKeepsPenalty
CHECK_DEADLOCK FALSE
