CONSTANTS
  N = 3
  Programs <- MCPrograms
  Size = 4
  Graphs <- MCGraphs
  Options <- MCOptions
  Routes <- MCRoutes
  Entities = {"A", "B"}
  RoutePrograms <- MCRoutePrograms
SPECIFICATION ASpec
INVARIANTS EmittedOnce DepsFirst ComponentsExact FailModesAgree
PROPERTY AnalysesEnd
CHECK_DEADLOCK FALSE
