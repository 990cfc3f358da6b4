SPECIFICATION FairSpec
CONSTANTS
  None = None
  Pks = {k1}
  Names = {n1}
  Chains = {c1, c2}
  Heights = {1}
  Msgs = {a, b}
  Calls = {t1}
  MaxBatch = 1
  Backend = "file"
  DisableUnsafeEndpoints = FALSE
INVARIANTS NoDoubleSign ReturnedIsRecorded
PROPERTIES RecordsAreFinal CallsReturn
