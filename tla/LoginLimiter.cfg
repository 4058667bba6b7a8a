SPECIFICATION LimiterSpec
CONSTANTS
  Ips = {"ip1", "ip2"}
  LoginNames = {"alice"}
  Logins = {c1, c2, c3}
  Limit = 2
  TTL = 1
  LockTime = 2
INVARIANTS
  LimiterTypeOK
PROPERTIES
  LockoutsAreFair
