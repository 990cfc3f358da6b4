SPECIFICATION FairSpec
CONSTANTS
  MaxHeight = 2
  MaxTarget = 3
  NumPubRand = 2
  TimestampingDelayBlocks = 1
  ActivationHeight = 3
INVARIANTS TypeOK ProofsMatchCommits NoOverlapRequested
PROPERTIES CommitsKeepUp
