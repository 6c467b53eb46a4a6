SPECIFICATION Spec
CONSTANTS
  Workflows <- SmallWorkflows
  MaxItems = 2
INVARIANTS
  TypeOK
  ReadyMeansDecided
  IndegreeExact
  NoStrandedJoin
  RunsOnce
