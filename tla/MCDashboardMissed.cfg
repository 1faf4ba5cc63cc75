\* One attack whose event the page misses.
SPECIFICATION FairSpec
CONSTANTS
  Attacks = {1}
  RecentLimit = 1
  FeedLimit = 3
  Panels = {"charts"}
  MaxFailed = 0
  MaxWire = 2
  MaxRequests = 2
PROPERTY MissedEventRecovered
