SPECIFICATION Spec
CONSTANTS
  p1 = p1
  p2 = p2
  s1 = s1
  s2 = s2
  s3 = s3
  s4 = s4
  A = A
  B = B
  None = None
  Procs = {p1}
  Sessions = {s1, s2}
  ProcessOf <- TwoProcessOf
  Detached = {p1}
  Contents = {A, B}
  RetainedLibraries = 1
  CacheStates = {"absent", "sound"}
  ShippedStates = {"absent"}
  EditsDuringLoad = TRUE
  MaxEdits = 2
  MaxDamage = 0
  MaxCrashes = 0
SYMMETRY Symmetry
INVARIANT Identified
CHECK_DEADLOCK FALSE
