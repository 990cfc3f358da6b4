SPECIFICATION FairSpec
CONSTANTS
  MaxHeight = 5
  ActivationHeight = 2
  BufferSize = 2
  PollSize = 3
  BatchSize = 2
  MaxFailedCycles = 2
INVARIANTS TypeOK NoSendOnClosed
PROPERTIES NoGap RepeatBounded StopReturns BlocksArrive
