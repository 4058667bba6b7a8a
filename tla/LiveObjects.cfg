SPECIFICATION FairSpec
CONSTANTS
  IdsJobs = {"ids"}
  VpnJobs = {"vpn"}
  FeedJobs = {"ticker", "client"}
  Ticker = {"ticker"}
  Objs = {"ips", "vpn", "hotlist"}
  ObjOf <- OwnObjects
  Ips = {"a", "b"}
  Lists = {{"a"}, {"b"}}
  MaxBoots = 1
  NoFile = NoFile
  Holder = "holder"
  Scenarios <- MCScenarios
INVARIANTS
  TypeOK
  BlocksHold
PROPERTIES
  
  FeedsArrive
