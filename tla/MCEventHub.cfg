CONSTANTS
  Url <- MCTwo
  NaN = NaN
  MaxUses = 3
  MaxOutages = 1
  MaxLost = 2
  MaxChanges = 1
  MaxFailures = 1
  MaxCrashes = 1
SPECIFICATION Spec
INVARIANTS RegistrationsKept StoreAgrees
PROPERTIES ComesBack
