SPECIFICATION FairSpec
CONSTANTS
  Request = {r1, r2, r3}
  Worker = {w1, w2, w3, w4}
  Size = 2
  MaxConcurrent = 2
  MaxTasks = 1
  NoWorker = NoWorker
  MayCrash = TRUE
  MayCancel = TRUE
INVARIANTS
  TypeOK
  ActiveExact
  WithinCapacity
  RecycleExclusive
  WaitingExact
  RecyclingHasOwner
  NoOrphanProcess
PROPERTIES
  ImplementsSlotPool
  RequestsEnd
