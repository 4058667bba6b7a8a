SPECIFICATION FairSpec
CONSTANTS
  Handlers <- MCHandlers
  Rules <- MCRules
  Orders <- MCOrders
  Scenarios <- MCScenarios
INVARIANTS TypeOK ServicesFollow NoNeedlessRestart ToldOncePerFall
PROPERTIES RulesCatchUp
CHECK_DEADLOCK FALSE
