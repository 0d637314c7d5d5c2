CONSTANTS
  p1 = p1
  p2 = p2
  cap = 3
  Patches <- MCPatches
  MaxSeq = 8
SPECIFICATION Spec
INVARIANTS TypeOK CoveredIsComplete ReplayInOrder SinceAgrees
PROPERTY ImplementsLog
