\* Liveness: two requests compete for one slot of the only account that stays.
CONSTANTS
  r1 = r1
  r2 = r2
  r3 = r3
  s1 = s1
  NumAccounts = 2
  Conc = 1
  IsRoundRobin = FALSE
  StickyTTL = 0
  Sessions = {}
  NoSession = NoSession
  RateCool = 1
  AuthCool = 1
  MaxFailures = 1
  Requests = {r1, r2}
  Pins = {0}
  QueueWait = 1
  TransportCool = 1
  RetryAfters = {0}
  Replies = {"ok", "rate"}
  AdminOps = {}
SPECIFICATION FairSpec
INVARIANTS
  CoolingAccountsHaveFailed
PROPERTIES
  EveryRequestAnswered
  SlotsComeBack
