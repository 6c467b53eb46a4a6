SPECIFICATION Spec
CONSTANTS
  Workflows <- SyncFailingBody
  MaxItems = 2
INVARIANT GatherFindsScatter
