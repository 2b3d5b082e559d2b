\* The Responses API when the upstream fails; a stream ends.
CONSTANTS
  i1 = i1
  i2 = i2
  Items = {i1}
  Named <- AllNames
  MaxPieces = 1
  Cuts = TRUE
SPECIFICATION Spec
SYMMETRY ItemSymmetry
CHECK_DEADLOCK FALSE
INVARIANTS
  ResponsesNoFakeSuccess
