SPECIFICATION BSpec
CONSTANTS
  ia = ia
  ib = ib
  out = out
  Nobody = Nobody
  Instances = {ia, ib}
  Outside = out
  Routes <- MCRoutes
  Owner <- MCOwner
  Public = {"main"}
  Programs <- MCPrograms
  Modulus = 3
  Limb = 2
  Calls <- MCCalls
  Funds = {0, 2}
INVARIANTS CallsAsDocumented TermsAsDocumented LoopsMeanLists HarnessesMean
PROPERTIES LeanAgrees ValueConserved
CHECK_DEADLOCK FALSE
