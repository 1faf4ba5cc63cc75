\* Find-or-create race: two open incidents for one address.
SPECIFICATION Spec
CONSTANTS
  s1 = s1
  s2 = s2
  s3 = s3
  ipA = ipA
  ipB = ipB
  None = None
  Sessions = {s1, s2}
  IPs = {ipA}
  Inputs <- MCInputs
  HistoryWindow = 1
  MaxClock = 1
  SeedIPs = {}
  SeedScore = 15
  Overlap = TRUE
  Weight <- MCWeight
  RepeatedThreshold = 3
  LowMax = 30
  MediumMax = 70
  HomeCountries = {}
  PrivateIPs = {ipB}
  MaliciousIPs = {}
  GeoCountry <- MCGeoCountry
INVARIANT SingleOpenIncident
