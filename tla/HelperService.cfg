SPECIFICATION HelperFairSpec
CONSTANTS
  Calls = {"apply", "renew", "again"}
  HelperScenarios <- MCScenarios
  Error = Error
  None = None
INVARIANTS
  HelperTypeOK
  AnswersAreOwn
  CarriedOutOnce
PROPERTIES
  EveryCallReturns
CHECK_DEADLOCK FALSE
