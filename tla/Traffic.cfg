SPECIFICATION FairSpec
CONSTANTS
  Ips <- MCIps
  HistRes <- MCHistRes
  CatRes <- MCCatRes
  Domains = "domains"
  Interval <- MCInterval
  Points <- MCPoints
  MaxCount <- MCMaxCount
  Flows <- MCFlows
  FlowIp <- MCFlowIp
  FlowCategory <- MCFlowCategory
  Unknown = "unknown"
  MaxNames = 1
  MaxRead = 7
  MaxDomains = 2
  MaxAge = 3
  MaxRules = 2
  Scenarios <- MCScenarios
INVARIANTS TypeOK CountedOnce HistoriesAreTrue CleanMeansSaved
PROPERTIES MeasuringResumes
CHECK_DEADLOCK FALSE
