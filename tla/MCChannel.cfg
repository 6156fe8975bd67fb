SPECIFICATION Spec
CHECK_DEADLOCK FALSE
CONSTANTS
  MaxSequence = 6
  MaxUnread = 3
  NoRequest = NoRequest
INVARIANTS AnswersMatchRequests HandledInOrder ReadyMeansEstablished
PROPERTIES DeadAgentsAreFenced AgentsNotice
