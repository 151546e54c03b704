SPECIFICATION SpecAll
CONSTANTS
  Count = 10
  Mbufs = 3
  Threshold = 12
  Depth = 2
  Window = 8
  Burst = 8
  Window2 = 16
  Burst2 = 4
  SeqLimit = 64
  SeqList <- Shuffled
  Stamped = 10
INVARIANTS EventsKept DrainedInOrder
PROPERTY EventsArrive
CHECK_DEADLOCK FALSE
