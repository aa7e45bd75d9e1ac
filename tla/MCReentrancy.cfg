CONSTANTS
  a = a
  m = m
  pay = pay
  sweep = sweep
  book = book
  NoRoute = NoRoute
  Members <- MCMembers
  Maps <- MCMaps
  Vecs = {}
  Values <- MCValues
  Eval <- MCEval
  RouteNames <- MCRouteNames
  Public <- MCPublic
  Entities <- MCEntities
  InitialStores <- MCStores
  MaxDepth = 4
  MaxEntries = 4
SPECIFICATION FairSpec
INVARIANTS TypeOK EffectsSeePhaseStart FailureLeavesNoTrace
PROPERTIES StorageMovesByPhases TransactionsEnd
CHECK_DEADLOCK FALSE
