\* Start, crashes and an outage, with the operator's script at any time.
SPECIFICATION FairSpec
CONSTANTS
  Sessions <- MCSessions
  DEMO_MODE = TRUE
  DemoCount = 2
  MaxCrashes = 2
  MaxFaults = 1
  MaxOutages = 1
INVARIANT TypeOK
INVARIANT DemoAllOrNothing
INVARIANT CapturesLogged
INVARIANT HostKeyStable
PROPERTY BackendServes
PROPERTY HoneypotListens
