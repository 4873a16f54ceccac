\* Every small configuration, started with every list of names.
SPECIFICATION Spec
CONSTANTS
  Names = {"a", "b", "c", "script1", "script2"}
  NoName = "none"
  DefaultNames <- MCDefaultNames
  Configs <- MCConfigs
  Arguments <- MCArguments
INVARIANTS
  PlainReferencesExist
