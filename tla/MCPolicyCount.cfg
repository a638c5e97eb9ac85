CONSTANTS
  NaN = NaN
  Policies <- MCPolicies
  Signatory <- MCSignatory
  MaxEach = 2
  MaxSignatures = 4
SPECIFICATION SignaturesSpec
INVARIANTS FullfilledCountsLeaves FullfilledIffSatisfied
CHECK_DEADLOCK FALSE
