\* One ingest at a time per address: the ledger of IncidentLedger, exact.
SPECIFICATION Spec
CONSTANTS
  s1 = s1
  s2 = s2
  s3 = s3
  ipA = ipA
  ipB = ipB
  None = None
  Sessions = {s1, s2, s3}
  IPs = {ipA}
  Inputs <- MCInputs
  HistoryWindow = 1
  MaxClock = 1
  SeedIPs = {ipA}
  SeedScore = 15
  Overlap = FALSE
  Weight <- MCWeight
  RepeatedThreshold = 3
  LowMax = 30
  MediumMax = 70
  HomeCountries = {}
  PrivateIPs = {ipB}
  MaliciousIPs = {}
  GeoCountry <- MCGeoCountry
SYMMETRY Symmetry
INVARIANT SingleOpenIncident
INVARIANT AggregatesExact
PROPERTY RefinesLedger
