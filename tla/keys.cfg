SPECIFICATION Spec
CONSTANTS
  None = None
  Secrets = {h1}
  References = {r1}
  Pks = {k1, k2}
  Names = {n1, n2}
  Kinds = {"local", "offline", "multi"}
  BabyKeys = {b1, b2}
  KeyCmds = {c1}
  PopCmds = {p1}
  GoalName = n1
  GoalKey = k1
SYMMETRY MCSymmetry
INVARIANTS TypeOK KeyIsTheOneAsked ProofsAreGood OnlyWithSameKey
