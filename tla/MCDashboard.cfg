SPECIFICATION MCSpec
CONSTANTS
  w1 = w1
  w2 = w2
  w3 = w3
  w4 = w4
  p1 = p1
  p2 = p2
  m1 = m1
  NoFile = NoFile
  NaN = NaN
  Pages <- MCPages
  Files <- MCFiles
  Typed <- MCTyped
  Configured <- MCConfigured
  Workers <- MCWorkers
  NodeId <- MCNodeId
  ServerStates <- MCServerStates
  Slots <- MCSlots
  MaxStates = 2
  MaxAttempts = 3
  MaxSockets = 7
INVARIANTS
  GivesUpOnlyAfterMax
  ShownIsOpen
  BoundedByOpens
  PageTypeOK
  ApiKnowsServer
  OneLoadAtATime
  NamedApartIsJoined
  ViewsAgreeUnlessMisnamed
  ShownAtRest
PROPERTIES
  DialogIsOfDevice
  
  AnsweredIsShown
CHECK_DEADLOCK FALSE
