\* Three requests, one slot on each of two accounts, nothing cools: queueing.
CONSTANTS
  r1 = r1
  r2 = r2
  r3 = r3
  s1 = s1
  NumAccounts = 2
  Conc = 1
  IsRoundRobin = TRUE
  StickyTTL = 0
  Sessions = {}
  NoSession = NoSession
  RateCool = 2
  AuthCool = 3
  MaxFailures = 0
  Requests = {r1, r2, r3}
  Pins = {0}
  QueueWait = 1
  TransportCool = 1
  RetryAfters = {0}
  Replies = {"ok", "error"}
  AdminOps = {}
SPECIFICATION Spec
SYMMETRY RequestSymmetry
INVARIANTS
  TypeOK
  SlotAccounting
  NoLostWakeup
PROPERTIES
  BusyMeansAllBusy
  SlotsFollowLedger
