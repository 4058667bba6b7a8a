SPECIFICATION Spec
CONSTANTS
  Ifaces = {"lan", "vlan"}
  Vlans = {"vlan"}
  Settings = {"s1", "s2"}
  Absent = "absent"
  KeyOf <- MCKeyOf
  RouteIds = {"r"}
  Dests = {"n"}
  Gateways = {"g1", "g2"}
  NoGateway = "noroute"
  Cfgs = {"a", "b"}
  NoCfg = "nocfg"
  Stored = "stored"
  Valid = {"a", "b"}
  IfcOf <- MCIfcOf
  RoutesOf <- MCRoutesOf
  Seed = "a"
  HistoryKeep = 2
  Failsafe = "failsafe"
  Mixed = "mixed"
  MaxApplies = 2
  MaxBoots = 0
  StrictClient = FALSE
  Background = FALSE
  RescueTool = FALSE
  BackendMayFail = FALSE
  DiskMayFail = FALSE
  DevicesMayBeGone = FALSE
CHECK_DEADLOCK TRUE
PROPERTIES
  CommitsWhatWasTried
