SPECIFICATION FairSpec
CONSTANTS
  Ifaces = {}
  Vlans = {}
  Settings = {"s1", "s2"}
  Absent = "absent"
  KeyOf <- MCKeyOf
  RouteIds = {"r"}
  Dests = {}
  Gateways = {"g1", "g2"}
  NoGateway = "noroute"
  Cfgs = {"a", "b"}
  NoCfg = "nocfg"
  Stored = "stored"
  Valid = {"a", "b"}
  IfcOf <- MCIfcOf
  RoutesOf <- NoRoutesOf
  Seed = "a"
  HistoryKeep = 1
  Failsafe = "failsafe"
  Mixed = "mixed"
  MaxApplies = 2
  MaxBoots = 1
  StrictClient = FALSE
  Background = TRUE
  RescueTool = FALSE
  BackendMayFail = TRUE
  DiskMayFail = TRUE
  DevicesMayBeGone = TRUE
CHECK_DEADLOCK TRUE
INVARIANTS
  OneLiveTimer
PROPERTIES
  RestartRecoversConfirmed
  TrialEnds
