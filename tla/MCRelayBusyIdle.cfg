\* A queued request is not woken when an account comes out of its cooldown.
CONSTANTS
  r1 = r1
  r2 = r2
  r3 = r3
  s1 = s1
  NumAccounts = 2
  Conc = 1
  IsRoundRobin = TRUE
  StickyTTL = 0
  Sessions = {}
  NoSession = NoSession
  RateCool = 1
  AuthCool = 2
  MaxFailures = 0
  Requests = {r1, r2}
  Pins = {0}
  QueueWait = 1
  TransportCool = 1
  RetryAfters = {0}
  Replies = {"ok", "rate"}
  AdminOps = {}
SPECIFICATION Spec
PROPERTIES
  BusyMeansAllBusy
