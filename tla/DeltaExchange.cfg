CONSTANTS
  Null = Null
  Unspelled = Unspelled
  Implied = Implied
  Bodies = {"a", "b"}
  Documents <- MCDocuments
  MaxWrites = 2
  MaxSent = 2
SPECIFICATION Spec
INVARIANTS PushAccepted UnitsFollow ReplayHarmless
PROPERTY ImplementsExchange
