SPECIFICATION Spec
CONSTANTS
  MaxHeight = 2
  Msgs = {a, b}
  PowerlessHeights = {2}
  BatchSize = 2
  MaxSubmissionRetries = 1
  MaxRetriesBatchRemovingMsgs = 0
  MayPunish = FALSE
  MaxCrashes = 2
  DoubleSignChecks = {TRUE, FALSE}
  MaxResends = 1
  None = None
SYMMETRY MCSymmetry
INVARIANTS TypeOK NoEquivocation OnlyAboveLastVoted NoVoteLost
PROPERTIES KeepsProtection
