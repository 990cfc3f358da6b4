SPECIFICATION Spec
CONSTANTS
  None = None
  Pks = {k1}
  Names = {n1}
  Chains = {c1}
  Heights = {1, 2}
  Msgs = {a, b}
  Calls = {t1, t2}
  MaxBatch = 2
  Backend = "test"
  DisableUnsafeEndpoints = TRUE
SYMMETRY MCSymmetry
INVARIANTS TypeOK NoDoubleSign ReturnedIsRecorded SaveNeverDuplicate
PROPERTIES RecordsAreFinal ImplementsProtection
