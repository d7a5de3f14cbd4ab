CONSTANTS
  Reqs = {r1, r2}
  Backends = {b1, b2}
  TotalQueue = 1
  MaxDeaths = 1
  MaxRestarts = 1
  NoBackend = NoBackend
SPECIFICATION FairSpec
INVARIANTS TypeOK PlacesKept
PROPERTIES ImplementsAdmission ImplementsDelivery Readmitted
