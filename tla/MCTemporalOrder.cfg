CONSTANTS
  act = act
  fetch = fetch
  Names <- MCNames
  Unknown <- MCUnknown
  PhaseNames <- MCPhaseNames
  Routes <- MCRoutes
SPECIFICATION FairSpec
INVARIANTS TypeOK OrderRespectsRefs ReportNamesTheStuck PhasesFitLowering LargestReadyFirst
PROPERTY SortEnds
CHECK_DEADLOCK FALSE
