CONSTANTS
  s1 = s1
  s2 = s2
  owner = owner
  stranger = stranger
  Slots <- MCSlots
  Owner = owner
  Stranger = stranger
  Modes = {TRUE, FALSE}
  InitPrograms <- MCInitPrograms
  MaxDepth <- MCMaxDepth
SPECIFICATION Spec
INVARIANTS RegisteredComplete AllOrNothing Bootstrapped InitOnceAndFirst
