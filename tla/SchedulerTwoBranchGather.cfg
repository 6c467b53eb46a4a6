SPECIFICATION Spec
CONSTANTS
  Workflows <- TwoBranchGather
  MaxItems = 2
INVARIANT AllStreamsClosed
