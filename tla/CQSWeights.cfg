CONSTANTS
  Backends = {b1, b2}
  Client = Client
  Epsilon = 200
  MaxUpdates = 2
  MaxFailures = 1
SYMMETRY Symmetry
SPECIFICATION Spec
INVARIANTS TypeOK NormalizedAtRest WeightsKeepFloor MissingWeightNeedsFailure
CHECK_DEADLOCK FALSE
