\* Default weights and thresholds; attempts below and at the threshold
\* of 3, with and without an earlier session, any three command rules together.
SPECIFICATION Spec
CONSTANTS
  Weight <- MCWeight
  RepeatedThreshold = 3
  LowMax = 30
  MediumMax = 70
  HomeCountries = {"in"}
  PrivateIPs = {"private"}
  MaliciousIPs = {"foreign"}
  GeoCountry <- MCGeoCountry
  IPs = {"foreign", "home", "private"}
  MaxAttempts = 3
  MaxPrior = 1
  MaxCommands = 3
INVARIANT TypeOK
INVARIANT RulesAgree
PROPERTY EvidenceNeverLowersScore
CHECK_DEADLOCK FALSE
