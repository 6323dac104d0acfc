\* Three calls of any kind, two conversations.
SPECIFICATION Spec
CONSTANTS
  Calls = {h1, h2, h3}
  Conversations = {c1, c2}
  None = None
  Asked = Asked
INVARIANTS
  ShowsOneConversation
  AnswerFollowsItsQuestion
  LoadingIsWaiting
PROPERTIES
  LoadingEnds
\* A user may stop using the client.
CHECK_DEADLOCK FALSE
