SPECIFICATION Spec
CONSTANTS
  Capacity = 2
  Values = {v1, v2}
  None = None
  MaxPush = 4
  Producers = {p1, p2}
  MaxRejects = 1
  MaxBatch = 2
  Word = 16
INVARIANTS
  TypeOK
  NoSlotRace
  CountsTrackOccupancy
PROPERTIES
  EveryItemPopped
  ImplementsFifo
  SizeInRange
