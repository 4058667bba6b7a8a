SPECIFICATION Spec
CONSTANTS
  Clients = {c1, c2}
  Names = {"bob"}
  MaxId = 1
  MaxPw = 1
  Missing = Missing
  Torn = Torn
  NoBackup = NoBackup
  None = None
  Earlier = Earlier
  Scenarios <- MCScenarios
SYMMETRY Symmetry
INVARIANTS
  TypeOK
  AccountsStaySound
PROPERTIES
  PasswordsNeverRevert
  StartsAsPromised
