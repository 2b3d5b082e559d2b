\* A client that leaves while the refresh it leads is answered.
CONSTANTS
  c1 = c1
  c2 = c2
  c3 = c3
  Callers = {c1, c2}
  Nobody = Nobody
  NoCred = NoCred
  Sources = {"claude"}
  Rotates = TRUE
  OmitsExpiry = FALSE
  Faults = {"cancel"}
  CliActs = {}
  MaxIssued = 3
SPECIFICATION Spec
SYMMETRY CallerSymmetry
INVARIANTS
  RotationKept
