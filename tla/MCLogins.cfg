\* Claude, Gemini or Copilot: disconnects, network errors, restarts, a CLI.
CONSTANTS
  c1 = c1
  c2 = c2
  Callers = {c1, c2}
  Nobody = Nobody
  NoCred = NoCred
  Sources = {"claude", "gemini", "gemini_unset", "copilot"}
  Rotates = FALSE
  OmitsExpiry = TRUE
  Faults = {"cancel", "network", "restart", "disk"}
  CliActs = {"refresh", "logout"}
  MaxIssued = 2
SPECIFICATION LoginFairSpec
INVARIANTS
  ExchangesFit
PROPERTIES
  EveryCallReturns
