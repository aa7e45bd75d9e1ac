CONSTANTS
  a = a
  m = m
  vec = vec
  r = r
  NoRoute = NoRoute
  Members <- MCMembers
  Maps <- MCMaps
  Vecs <- MCVecs
  Values <- MCValues
  Eval <- MCEval
  RouteNames <- MCRouteNames
  Public <- MCRouteNames
  Entities <- MCEntities
  InitialStores <- MCStores
  MaxDepth = 1
  MaxEntries = 1
SPECIFICATION Spec
INVARIANTS AtomicCommit EffectsSeePhaseStart
CHECK_DEADLOCK FALSE
