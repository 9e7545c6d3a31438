SPECIFICATION Spec
CONSTANTS
  None = None
  LastScope = 9
  Parent <- MCParent
  NameOf <- MCNameOf
  Private <- MCPrivate
  User <- MCUser
  Sources <- AllSources
  Queries <- MCQueries
  MaxDepth = 24
INVARIANTS TouchOrderIrrelevant
