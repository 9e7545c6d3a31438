SPECIFICATION MCSpec
\* The client may have nothing more to ask, and the host nothing to seed.
CHECK_DEADLOCK FALSE
CONSTANTS
  b1 = b1
  b2 = b2
  Batches = {b1, b2}
  NoBatch = NoBatch
  Consumed = Consumed
  MaxGen = 3
  LastUri = 3
  Opened = {2, 3}
  Unit <- MCUnit
  Headers = {"g", "h"}
  Texts <- MCTexts
  Seeds <- MCSeeds
  exact = exact
  parens = parens
  Formats = {exact, parens}
  Members = 1
  MaxVersion = 2
  MaxSeeds = 1
  MaxMessages = 5
  None = None
  Nothing = Nothing
  Panic = Panic
  MaxRevision = 2
  Price <- MCPrice
  Families = 3
  LargestFirst <- MCLargestFirst
  t1 = t1
  t2 = t2
  Workers = {t1, t2}
  Caller = t1
  Share = 2
  Works <- MCWorks
  Lefts = {1, 3, 5}
SYMMETRY Symmetry
INVARIANTS
  TypeOK NeverAnotherElement StagedForThisModel TakenOnce
  AnswersCurrent HintsCurrent
  FindingsInLine PlansCurrent RefusalsRight
PROPERTY KeptWhileUnchanged
