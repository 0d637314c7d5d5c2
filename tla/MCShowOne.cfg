\* One controller, clients that come and go.
CONSTANTS
  a1 = a1
  a2 = a2
  x = x
  y = y
  s1 = s1
  s2 = s2
  Holding = Holding
  None = None
  Admins <- OneAdmin
  Allowed <- AllByOne
  Scenes = {x, y}
  Subs = {s1}
  OutCap = 3
  MaxCalls = 5
SPECIFICATION FairSpec
INVARIANT ShowConverges
PROPERTY ShowDelivered
CHECK_DEADLOCK FALSE
