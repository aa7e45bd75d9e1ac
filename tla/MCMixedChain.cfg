CONSTANTS
  k1 = k1
  k2 = k2
  k3 = k3
  zero = zero
  one = one
  Keys <- MCKeys
  Entities <- Laid
  Values <- MCValues
  Zero = zero
  Shapes <- Plain
  Bodies <- MixedBodies
  Resettable <- Kinds
  Kind <- MCKind
  Items <- MCValues
  Default = zero
  MaxLen = 3
  Repeats = 1
SPECIFICATION MSpec
INVARIANT StorageMeansMap
CHECK_DEADLOCK FALSE
