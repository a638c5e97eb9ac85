CONSTANTS
  NaN = NaN
  policy <- MCPolicy
  Signer <- MCSigner
  MaxSends = 1
  MaxAnswers = 1
  MaxLookups = 2
  MaxUpdates = 2
  MaxFailures = 0
  MaxCrashes = 1
SPECIFICATION Spec
INVARIANTS AckedKeptInOrder
CHECK_DEADLOCK FALSE
