SPECIFICATION FairSpec
CONSTANTS
  Workflows <- ScopedWorkflows
  MaxItems = 2
INVARIANTS
  GatherBarrier
  AllStreamsClosed
  StreamErrorsGathered
  RaisingGathersFail
PROPERTY Termination
