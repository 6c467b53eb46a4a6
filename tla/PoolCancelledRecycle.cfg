SPECIFICATION Spec
CONSTANTS
  Request = {r1, r2, r3, r4}
  Worker = {w1, w2, w3, w4}
  Size = 2
  MaxConcurrent = 2
  MaxTasks = 2
  NoWorker = NoWorker
  MayCrash = FALSE
  MayCancel = TRUE
SYMMETRY Symmetry
INVARIANT CancelledRecycleHasOwner
