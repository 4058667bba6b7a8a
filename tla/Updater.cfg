SPECIFICATION Spec
CONSTANTS
  MaxVersion = 3
  Keep = 2
  Downloads = {"d1", "d2"}
  Scenarios = {{"back"}, {"back", "crash"}, {"back", "disk"}, {"withdrawn"}, {"mislabelled"}}
  None = None
  Torn = Torn
INVARIANTS
  TypeOK
  VersionsAreSound
PROPERTIES
  UpdateNeverDowngrades
CHECK_DEADLOCK FALSE
