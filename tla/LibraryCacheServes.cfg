SPECIFICATION Spec
CONSTANTS
  p1 = p1
  p2 = p2
  s1 = s1
  s2 = s2
  s3 = s3
  s4 = s4
  A = A
  B = B
  None = None
  Procs = {p1, p2}
  Sessions = {s1, s2, s3}
  ProcessOf <- ThreeProcessOf
  Detached = {p2}
  Contents = {A, B}
  RetainedLibraries = 2
  CacheStates = {"absent"}
  ShippedStates = {"absent", "sound", "damaged"}
  EditsDuringLoad = FALSE
  MaxEdits = 1
  MaxDamage = 1
  MaxCrashes = 0
SYMMETRY Symmetry
INVARIANTS ServesDirectory Identified NeverServedAgain DamageRemoved RetainedOnce
CHECK_DEADLOCK FALSE
