CONSTANTS
  Rule <- MCRule
  NOf <- MCNOf
  Root = "root"
  Rules <- MCRules
  N <- MCN
  Targets <- MCTargets
SPECIFICATION FairSpec
INVARIANTS VerdictSound GivenUpAfterAll NoRuleTakenTwice
PROPERTIES AlwaysAnswers ImplementsNOutOf
