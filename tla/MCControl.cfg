\* A driver that gives up on requests, three scenarios, clients at any moment.
CONSTANTS
  i1 = i1
  i2 = i2
  o1 = o1
  o2 = o2
  r1 = r1
  r2 = r2
  l1 = l1
  t1 = t1
  plain = plain
  broken = broken
  pair = pair
  x = x
  y = y
  z = z
  tokA = tokA
  tokB = tokB
  Empty = Empty
  Holding = Holding
  None = None
  Ids = {i1, i2}
  Objs = {o1, o2}
  Admins = {r1, r2}
  Live = {l1}
  Test = {t1}
  Operations <- AllOperations
  OutCap = 4
  MaxCalls = 20
  Scenarios <- MCScenarios
  Tokens <- MCTokens
  Bundles <- MCBundles
  Malformed <- MCMalformed
  Seed <- MCSeed
  Emitted = z
  TokenRole <- MCTokenRole
  Presents <- MCPresents
  MaxClients = 1
  MaxRequests = 3
  MaxTimeouts = 1
SPECIFICATION ControlSpec
INVARIANTS OneOwner NoSendOnClosed DriverKnows AloneNeverFails ClientsCatchUp NoOrphans TestPinned
SYMMETRY HandlerSymmetry
CHECK_DEADLOCK FALSE
