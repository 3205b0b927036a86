CONSTANTS
  Addresses = {"p"}
  Names = {"g1", "g2"}
  MaxGroups = 3
  Settable = {"localAS", "labelAction"}
  AsValues = {0, 1}
  OtherValues = {2}
  ClientAS = 1
  CliRules <- MCCliRules
  CliCaps <- MCCliCaps
  Capabilities <- MCCapabilities
  Documents <- MCDocuments
  MaxSet = 3
SPECIFICATION ConfigSpec
INVARIANTS ReadsAsNamed OpensByTheRules
PROPERTIES RestartKeepsPeers
