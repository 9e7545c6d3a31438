SPECIFICATION Spec
CONSTANTS
  None = None
  LastScope = 9
  Parent <- MCParent
  NameOf <- MCNameOf
  Private <- MCPrivate
  User <- MCUser
  Sources <- LayeredSources
  Queries <- MCQueries
  MaxDepth = 24
INVARIANTS TypeOK AnswersNamed TouchOrderIrrelevant ImportsMean AnswersMean ReplayStands
