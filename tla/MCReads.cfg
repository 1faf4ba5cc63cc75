\* Lists in pages of one and two, numbers, details and reports, any commits.
SPECIFICATION Spec
CONSTANTS
  None = None
  Attacks = {1, 2, 3, 4}
  Source <- MCSource
  Time <- MCTime
  Score <- MCScore
  Located = {1, 4}
  PerPages = {1, 2}
  ReportLimit = 2
INVARIANT TypeOK
INVARIANT NumbersAgree
INVARIANT WalkMissesFew
INVARIANT DetailsAgree
