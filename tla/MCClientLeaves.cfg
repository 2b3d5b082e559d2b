\* A client that leaves while its chat answer is read cools an account.
CONSTANTS
  r1 = r1
  r2 = r2
  c1 = c1
  NumAccounts = 2
  Conc = 1
  IsRoundRobin = TRUE
  StickyTTL = 0
  Sessions = {}
  NoSession = NoSession
  RateCool = 1
  AuthCool = 1
  MaxFailures = 0
  Requests = {r1, r2}
  Pins = {0}
  QueueWait = 1
  TransportCool = 1
  RetryAfters = {0}
  Replies = {"ok", "gateway", "error"}
  AdminOps = {}
  Calls = {c1}
  TasksOf <- OneCall
  Surfaces = {"whole", "chat"}
  KeyAccounts = {}
SPECIFICATION CallsSpec
PROPERTIES
  DisconnectCoolsNothing
