CONSTANTS
  Role <- MCRoles
  MaxArrivals = 2
  MaxUses = 2
  MaxFailures = 1
  MaxCrashes = 1
SPECIFICATION Spec
INVARIANTS SignedIsRecorded AnsweredIsReplied
PROPERTIES StaysAnswered
CHECK_DEADLOCK FALSE
