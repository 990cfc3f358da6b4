SPECIFICATION Spec
CONSTANTS
  MaxHeight = 3
  Msgs = {a}
  PowerlessHeights = {2}
  BatchSize = 3
  MaxSubmissionRetries = 1
  MaxRetriesBatchRemovingMsgs = 0
  MayPunish = FALSE
  MaxCrashes = 0
  DoubleSignChecks = {}
  MaxResends = 0
  None = None
INVARIANTS OwnRandomness
