SPECIFICATION Spec
CONSTANTS
  P = P
  Q = Q
  X = X
  Y = Y
  M = M
  R1 = R1
  R2 = R2
  F1 = F1
  F2 = F2
  Documents <- Small
  Names = {"P", "X", "Y"}
  Kinds = {"rename", "replace", "remove", "move", "insert", "retarget"}
  Fresh = {F1, F2}
  Root = Root
  Nothing = Nothing
  DistinctEdits = FALSE
  NamesRetire = TRUE
  MaxOps = 2
  MaxCommits = 1
INVARIANT RetargetsHold
CHECK_DEADLOCK FALSE
