SPECIFICATION Spec
CONSTANTS
  Ifaces = {"lan", "vlan"}
  Vlans = {"vlan"}
  Settings = {"s1", "s2"}
  Absent = "absent"
  KeyOf <- MCKeyOf
  RouteIds = {"r"}
  Dests = {"n"}
  Gateways = {"g1", "g2"}
  NoGateway = "noroute"
  Cfgs = {"a", "b", "c", "x"}
  NoCfg = "nocfg"
  Stored = "stored"
  Valid = {"a", "b", "c"}
  IfcOf <- MCIfcOf
  RoutesOf <- MCRoutesOf
  Seed = "a"
  HistoryKeep = 2
  Failsafe = "failsafe"
  Mixed = "mixed"
  MaxApplies = 3
  MaxBoots = 2
  StrictClient = TRUE
  Background = FALSE
  RescueTool = TRUE
  BackendMayFail = TRUE
  DiskMayFail = FALSE
  DevicesMayBeGone = FALSE
CHECK_DEADLOCK TRUE
INVARIANTS
  TypeOK
  MachineFollowsState
PROPERTIES
  KeepsLifecycle
