SPECIFICATION FairSpec
CONSTANTS
  h1 = h1
  h2 = h2
  l1 = l1
  ws1 = ws1
  path = path
  w1 = w1
  Nobody = Nobody
  NoPath = NoPath
  None = None
  Handlers <- MCHandlers
  Loaders <- MCLoaders
  Conns <- NoConns
  Paths <- MCPaths
  Workers <- MCWorkers
  ConfiguredLists <- NoLists
  Requests <- LiveRequests
  MaxLaunch = 1
  MaxPolls = 1
PROPERTIES
  AnsweredUnlessWedged
CHECK_DEADLOCK FALSE
