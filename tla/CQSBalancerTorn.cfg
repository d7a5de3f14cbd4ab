CONSTANTS
  LatencyScale = 4
  TopK = 2
  Handlers = {h1, h2}
  Backends = {b1, b2}
  TotalQueue = 1
  Weights <- TwoTriples
  Timeout = 16
  Latencies = {1, 6}
  MaxRequests = 2
  MaxRestarts = 0
SPECIFICATION Spec
INVARIANTS OneWeightTriple
CHECK_DEADLOCK FALSE
