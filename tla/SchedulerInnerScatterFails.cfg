SPECIFICATION Spec
CONSTANTS
  Workflows <- InnerScatterFails
  MaxItems = 2
INVARIANT RaisingGathersFail
