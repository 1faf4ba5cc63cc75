\* Every order of two attacks, their events and one page.
SPECIFICATION Spec
CONSTANTS
  Attacks <- MCAttacks
  RecentLimit = 2
  Panels = {"charts", "stats"}
  FeedLimit = 3
  MaxFailed = 1
  MaxWire = 4
  MaxRequests = 3
INVARIANT TypeOK
INVARIANT FeedSound
INVARIANT AnnouncedIsShown
INVARIANT StatsCoverAttack
INVARIANT PanelsCurrent
