SPECIFICATION Spec
CONSTANTS
  Streams <- MCStreams
  MaxTurns = 1
  MaxImages = 0
INVARIANT TokensAreShown
CHECK_DEADLOCK FALSE
