SPECIFICATION Spec
CONSTANTS
  Streams <- MCStreams
  MaxTurns = 2
  MaxImages = 2
INVARIANTS
  TypeOK
  OneTurnAtATime
  ContextIsComplete
  TextIsWholeLines
  ImageSentOnce
PROPERTY ConversationKept
CHECK_DEADLOCK FALSE
