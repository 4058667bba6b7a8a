SPECIFICATION Spec
CONSTANTS
  Absent = Absent
  NoJob = NoJob
  NoAddr = "noaddr"
  Leased = "leased"
  NoRoute = "noroute"
  FromISP = "isp"
  Scenarios <- MCScenarios
INVARIANTS
  TypeOK
  CardsFollow
  ProfilesFollow
