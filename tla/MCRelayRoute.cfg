\* No cap, three accounts, one session that expires, pins, an
\* operator who prefers, disables and enables accounts.
CONSTANTS
  r1 = r1
  r2 = r2
  r3 = r3
  s1 = s1
  NumAccounts = 3
  Conc = 0
  IsRoundRobin = TRUE
  StickyTTL = 1
  Sessions = {s1}
  NoSession = NoSession
  RateCool = 1
  AuthCool = 1
  MaxFailures = 0
  Requests = {r1}
  Pins = {0, 2}
  QueueWait = 0
  TransportCool = 1
  RetryAfters = {0}
  Replies = {"ok", "gateway"}
  AdminOps = {"preferred", "enabled"}
SPECIFICATION Spec
SYMMETRY RequestSymmetry
PROPERTIES
  CandidateOrder
  ManualDisableHolds
