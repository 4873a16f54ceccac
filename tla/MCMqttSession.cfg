\* Two devices, and a network that fails twice, at any moment.
SPECIFICATION FairSpec
CONSTANTS
  Topics = {"t", "u"}
  NoTopic = "none"
  Configs <- MCConfigs
  MaxPublished = 2
  MaxOutages = 2
INVARIANTS
  TypeOK
  Current
  LogsAllAtFirst
PROPERTIES
  StatusNeverGoesBack
  Settles
  GivesUpInTime
