SPECIFICATION FairSpec
CONSTANTS
  MaxHeight = 2
  Msgs = {a}
  PowerlessHeights = {}
  BatchSize = 1
  MaxSubmissionRetries = 0
  MaxRetriesBatchRemovingMsgs = 0
  MayPunish = TRUE
  MaxCrashes = 0
  DoubleSignChecks = {}
  MaxResends = 0
  None = None
PROPERTIES UnjailedVotes
