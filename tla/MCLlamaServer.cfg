SPECIFICATION FairSpec
CONSTANTS
  c1 = c1
  c2 = c2
  path = path
  w1 = w1
  Nobody = Nobody
  NoPath = NoPath
  Callers <- MCCallers
  Paths <- MCPaths
  RpcLists <- MCRpcLists
  MaxLaunch = 3
  MaxPolls = 2
INVARIANTS
  TypeOK
  RunningIsOwned
  NewestIsCancellable
  LeakNeedsStaleReap
PROPERTIES
  StartIsAtomic
  StartReturns
  DeathIsNoticed
  CancelledIsReaped
  OneServerKept
