SPECIFICATION Spec
CONSTANTS
  MaxHeight = 2
  Msgs = {a}
  PowerlessHeights = {}
  BatchSize = 2
  MaxSubmissionRetries = 1
  MaxRetriesBatchRemovingMsgs = 1
  MayPunish = FALSE
  MaxCrashes = 1
  DoubleSignChecks = {}
  MaxResends = 0
  None = None
PROPERTIES EmptyMeansFiltered
