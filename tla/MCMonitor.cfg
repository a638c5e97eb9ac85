CONSTANTS
  None = None
  MaxHeight = 3
  MaxResets = 1
  MaxCrashes = 2
  MaxFails = 1
  MaxTotal = 4
  MaxWrites = 2
SPECIFICATION Spec
CHECK_DEADLOCK FALSE
INVARIANTS CountsOnce CountedIsStored
PROPERTIES SummaryIsStored
