SPECIFICATION FairSpec
CONSTANTS
  Keys = {k1, k2}
  Calls = {c1, c2}
  Addrs = {own, other}
  Signer = own
  Fields = {}
  Values = {v}
  Eventful = {k1}
  AnyOverlap = FALSE
  MaxVoted = 1
  None = None
INVARIANTS TypeOK StoredIsRegistered
PROPERTIES SlashedNotStarted LastVotedNeverFalls RequestsReturn RetryAdopts
