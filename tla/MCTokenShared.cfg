\* Codex or Qwen, rotating refresh tokens, responses that may lack an expiry, a
\* CLI that refreshes and logs in anew.
CONSTANTS
  c1 = c1
  c2 = c2
  c3 = c3
  Callers = {c1, c2, c3}
  Nobody = Nobody
  NoCred = NoCred
  Sources = {"codex", "qwen"}
  Rotates = TRUE
  OmitsExpiry = TRUE
  Faults = {}
  CliActs = {"refresh", "login"}
  MaxIssued = 3
SPECIFICATION Spec
SYMMETRY CallerSymmetry
INVARIANTS
  OneFlight
  RotationKept
  HandsOutFresh
  NeverRefusedAlone
  RefreshOnlyWhenStale
