\* Two retrievals and an ingestion, with the numbers of the code; two rankings of
\* at most three of four texts.
SPECIFICATION MCSpec
CONSTANTS
  Retrievers = {r1, r2}
  Ingesters = {i1}
  e5 = e5
  mistral = mistral
  bge = bge
  Models = {e5, mistral, bge}
  Fits = {e5, bge}
  Chain <- FallbackModels
  PrimaryAttempts = 5
  HealthAttempts = 3
  Texts = {t1, t2, t3, t4}
  Lists = 2
  TopK = 3
  Weight <- Reciprocals
INVARIANTS
  SearchesFit
  OutcomesHaveCause
  SleepIsBounded
  AgreementStands
PROPERTIES
  RetrievalEnds
\* All clients come to an end, and so does the fusion.
CHECK_DEADLOCK FALSE
