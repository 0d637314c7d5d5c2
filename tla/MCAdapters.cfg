\* Every adapter through several attempts, a channel of two slots.
CONSTANTS
  Kinds <- AllKinds
  Floor = 2
  Maxima = {1, 5}
  Interval = 3
  ChanCap = 2
  MaxEvents = 4
  MaxRuns = 4
SPECIFICATION FairSpec
INVARIANTS NothingSwallowed EmittedInOrder LossReported DelaysExact
PROPERTY StopsWhenCancelled
CHECK_DEADLOCK FALSE
