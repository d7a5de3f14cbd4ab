CONSTANTS
  Reqs = {r1, r2}
  Nodes = {n1, n2}
  Jobs = {j1, j2}
  MaxFaults = 1
  Nobody = Nobody
SYMMETRY Symmetry
SPECIFICATION Spec
INVARIANTS TypeOK QCountsJobs HashTracksJobs
CHECK_DEADLOCK FALSE
