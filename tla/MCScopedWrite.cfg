CONSTANTS
  a = a
  m = m
  vec = vec
  r = r
  NoRoute = NoRoute
  Members <- MCMembers
  Maps <- MCMaps
  Vecs <- MCVecs
  Values <- MCValues
  Eval <- MCEval
  RouteNames <- MCRouteNames
  Public <- MCRouteNames
  Entities <- ScopedWrite
  InitialStores <- MCStores
  MaxDepth = 2
  MaxEntries = 1
SPECIFICATION Spec
INVARIANT AtomicCommit
CHECK_DEADLOCK FALSE
