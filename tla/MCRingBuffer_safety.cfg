SPECIFICATION FairSpec
CONSTANTS
  Capacity = 4
  WordSize = 12
  Value = {a, b}
  MaxPop = 5
INVARIANTS
  NoSlotRace
  IndInv
PROPERTIES
  RefinesFifo
  PopTerminates
