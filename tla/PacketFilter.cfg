SPECIFICATION Spec
CONSTANTS
  Port = {22, 53, 67, 443, 8443, 51820}
  NoDevice = "nodevice"
  NoAddr = "noaddr"
  NoNat = NoNat
  Addr = {"wanIp", "lanIp", "pc", "srv", "cam", "net1"}
  SelfAddr = {"wanIp", "lanIp"}
  Device = {"wan0", "lan0", "iot0"}
  Home <- MCHome
  Packets <- MCPackets
  Policies <- MCPolicies
  MaxPolicies = 9
  Ifaces <- MCIfaces
  Features <- MCFeatures
  Contents = {{}, {"net1"}, {"cam", "pc"}}
  Backups <- MCBackups
  Seed <- MCSeed
  MaxChanges = 2
INVARIANTS
  TypeOK
  OnlyAllowedPasses
  TranslationIsSound
  MigrationSettles
