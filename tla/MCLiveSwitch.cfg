\* One admin that registers, switches and resets, one that replaces, a live client
\* that may be slow.
CONSTANTS
  i1 = i1
  i2 = i2
  i3 = i3
  o1 = o1
  o2 = o2
  o3 = o3
  a1 = a1
  a2 = a2
  l1 = l1
  l2 = l2
  t1 = t1
  Holding = Holding
  None = None
  Ids = {i1, i2}
  Objs = {o1, o2, o3}
  Admins = {a1, a2}
  Live = {l1}
  Test = {}
  Operations <- OneReplaces
  OutCap = 2
  MaxCalls = 5
SPECIFICATION Spec
INVARIANTS TypeOK SceneCoherent LiveNoGap LiveFollows
SYMMETRY SceneSymmetry
CHECK_DEADLOCK FALSE
