CONSTANTS
  NaN = NaN
  policy <- MCPolicy
  Signer <- MCSigner
  MaxSends = 1
  MaxAnswers = 1
  MaxLookups = 2
  MaxUpdates = 3
  MaxFailures = 1
  MaxCrashes = 1
SPECIFICATION Spec
INVARIANTS CountsItsResponses AckedKept
CHECK_DEADLOCK FALSE
