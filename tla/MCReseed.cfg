\* Two ingests of one address that the demo data has too, and any two script runs.
SPECIFICATION FairSpec
CONSTANTS
  s1 = s1
  s2 = s2
  p1 = p1
  p2 = p2
  ipA = ipA
  None = None
  Sessions = {s1, s2}
  Scripts = {p1, p2}
  IPs = {ipA}
  DemoIPs = {ipA}
CHECK_DEADLOCK FALSE
INVARIANT TypeOK
INVARIANT ResetHarmsOnlyOverlapping
INVARIANT SeedsOnlyIntoEmpty
PROPERTY ResetWipes
PROPERTY AllSettle
