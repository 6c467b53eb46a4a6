SPECIFICATION FairSpec
CONSTANTS
  MaxTurns = 1
  MaxDeltas = 1
  MaxFaulty = 1
INVARIANTS
  TypeOK
  EndOnce
  ResultMatchesStream
  CursorSeen
PROPERTY ResponseEnds
CHECK_DEADLOCK FALSE
