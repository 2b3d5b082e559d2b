\* One client: any kind of call, with up to two goroutines, over two accounts,
\* one of them a key account, with one slot each.
CONSTANTS
  r1 = r1
  r2 = r2
  c1 = c1
  NumAccounts = 2
  Conc = 1
  IsRoundRobin = TRUE
  StickyTTL = 0
  Sessions = {}
  NoSession = NoSession
  RateCool = 1
  AuthCool = 1
  MaxFailures = 0
  Requests = {r1, r2}
  Pins = {0}
  QueueWait = 1
  TransportCool = 1
  RetryAfters = {0}
  Replies = {"ok", "gateway", "error", "auth", "transport", "timeout", "foreign", "panic"}
  AdminOps = {}
  Calls = {c1}
  TasksOf <- OneCall
  Surfaces = {"stream", "whole", "chat", "lenient", "images"}
  KeyAccounts = {2}
SPECIFICATION CallsFairSpec
INVARIANTS
  NoTornAnswer
  LoginGeneratesLast
  NoImageLost
PROPERTIES
  CallsFollowRelay
  CallAnswered
