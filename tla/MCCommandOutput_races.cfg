\* Three commands, in turn or at once.
SPECIFICATION Spec
CONSTANTS
  Requests = {"a", "b", "c"}
  Size <- MCSize
  MaxOutputSize = 3
INVARIANTS
  TypeOK
  TextsWhole
PROPERTIES
  AloneAppends
