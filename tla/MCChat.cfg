\* One answer of any backend, one stream, or one request; each of them ends.
CONSTANTS
  i1 = i1
  i2 = i2
  Items = {i1, i2}
  Named <- AllNames
  MaxPieces = 2
  MaxBlocks = 3
  MaxParts = 4
  MaxFrames = 3
  MaxDeltas = 2
  MaxLines = 4
  Values = {"v", "w"}
  Cuts = TRUE
  MaxMessages = 5
  MaxCalls = 3
  MaxTried = 2
  MaxAttempts = 3
SPECIFICATION Spec
CHECK_DEADLOCK FALSE
INVARIANTS
  AnswerWhole
  StreamMatchesAggregate
  ReasonFits
  FramesOfTheStream
  TurnsAccepted
  ConversationKept
  EachGetsItsBody
PROPERTIES
  ChunkPromise
