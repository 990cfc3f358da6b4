SPECIFICATION FairSpec
CONSTANTS
  None = None
  Secrets = {h1}
  References = {}
  Pks = {k1, k2}
  Names = {n1, n2}
  Kinds = {"local", "offline"}
  BabyKeys = {b1}
  KeyCmds = {c1}
  PopCmds = {}
  GoalName = n1
  GoalKey = k1
PROPERTIES AddingAgainWorks
