CONSTANTS
  Listeners = {"cli", "mrt"}
  Users = {u1, u2}
  NewNames = {"n"}
  RuleInputs <- MCRules
  MaxLists = 3
  MaxRules = 3
  MaxCommands = 4
  MaxConnections = 2
  Settings = {"pacingInterval", "loginPort"}
  Inputs <- MCInputs
  SettingsByHand <- MCSettingsByHand
  ListsByHand <- MCListsByHand
SYMMETRY MCSymmetry
SPECIFICATION Spec
INVARIANTS RestartKeeps EnableNotStuck
PROPERTIES RulesTakeEffectInOrder
CHECK_DEADLOCK FALSE
