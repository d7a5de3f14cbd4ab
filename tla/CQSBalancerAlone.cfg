CONSTANTS
  LatencyScale = 4
  TopK = 1
  Handlers = {h1}
  Backends = {b1, b2}
  TotalQueue = 1
  Weights <- TwoTriples
  Timeout = 16
  Latencies = {6}
  MaxRequests = 2
  MaxRestarts = 0
SPECIFICATION FairSpec
INVARIANTS OneWeightTriple
PROPERTIES RequestsEnd
CHECK_DEADLOCK FALSE
