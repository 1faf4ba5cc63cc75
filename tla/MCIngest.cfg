\* Two sessions that overlap freely, two addresses, process stops and crashes.
SPECIFICATION Spec
CONSTANTS
  s1 = s1
  s2 = s2
  s3 = s3
  ipA = ipA
  ipB = ipB
  None = None
  Sessions = {s1, s2}
  IPs = {ipA, ipB}
  Inputs <- MCInputs
  HistoryWindow = 1
  MaxClock = 2
  SeedIPs = {ipA}
  SeedScore = 15
  Overlap = TRUE
  Weight <- MCWeight
  RepeatedThreshold = 3
  LowMax = 30
  MediumMax = 70
  HomeCountries = {}
  PrivateIPs = {ipB}
  MaliciousIPs = {}
  GeoCountry <- MCGeoCountry
SYMMETRY Symmetry
INVARIANT TypeOK
INVARIANT AttacksGroupedBySource
INVARIANT IncidentsBacked
INVARIANT PriorCountBounds
INVARIANT PublishedIsStored
INVARIANT DatesMissOnlyOverlapping
PROPERTY IncidentIdentityStable
