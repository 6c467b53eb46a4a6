SPECIFICATION Spec
CONSTANTS
  Workflows <- SkippedScatter
  MaxItems = 2
INVARIANT JoinAnyRuns
