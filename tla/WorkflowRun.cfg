SPECIFICATION FairSpec
CONSTANTS
  MaxCount = 3
  BatchSize = 2
  MaxResponses = 2
INVARIANTS
  TypeOK
  LoopResults
  ErrorHandled
  InteractionAnswered
PROPERTY RunEnds
CHECK_DEADLOCK FALSE
