SPECIFICATION FairSpec
CONSTANTS
  p1 = p1
  p2 = p2
  s1 = s1
  s2 = s2
  s3 = s3
  s4 = s4
  A = A
  B = B
  None = None
  Procs = {p1}
  Sessions = {s1, s2}
  ProcessOf <- TwoProcessOf
  Detached = {}
  Contents = {A, B}
  RetainedLibraries = 1
  CacheStates = {"absent", "sound", "foreign"}
  ShippedStates = {"absent", "sound"}
  EditsDuringLoad = TRUE
  MaxEdits = 1
  MaxDamage = 0
  MaxCrashes = 1
INVARIANTS TypeOK WholeFiles MemoSound
PROPERTY LoadsEnd
CHECK_DEADLOCK FALSE
