\* One admin that switches while a client leaves.
CONSTANTS
  i1 = i1
  i2 = i2
  i3 = i3
  o1 = o1
  o2 = o2
  o3 = o3
  a1 = a1
  a2 = a2
  l1 = l1
  l2 = l2
  t1 = t1
  Holding = Holding
  None = None
  Ids = {i1, i2}
  Objs = {o1, o2}
  Admins = {a1}
  Live = {l1}
  Test = {}
  Operations <- OneSwitches
  OutCap = 2
  MaxCalls = 6
SPECIFICATION Spec
INVARIANT NoLeak
SYMMETRY SceneSymmetry
CHECK_DEADLOCK FALSE
