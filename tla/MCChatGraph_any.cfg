\* All outcomes, with LangGraph's limit.
SPECIFICATION Spec
CONSTANTS
  Chunks = {c1}
  Scores <- BoundaryScores
  Outcomes <- AnyOutcome
  RecursionLimit = 25
INVARIANTS
  TypeOK
  RetryBudget
  NormalPathIsBounded
  FreshContext
  SearchIsLastResort
  CaseLawIsSearched
PROPERTIES
  EndsByItself
  ImplementsAnswerLoop
\* One invocation: it ends.
CHECK_DEADLOCK FALSE
