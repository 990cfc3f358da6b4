SPECIFICATION FairSpec
CONSTANTS
  MaxHeight = 2
  Msgs = {a}
  PowerlessHeights = {}
  BatchSize = 2
  MaxSubmissionRetries = 1
  MaxRetriesBatchRemovingMsgs = 0
  MayPunish = TRUE
  MaxCrashes = 0
  DoubleSignChecks = {}
  MaxResends = 0
  None = None
INVARIANTS NoVoteLost
PROPERTIES SlashedStops 
