\* Two directories, two templates, one request at a time, and writes at any moment.
SPECIFICATION FairSpec
CONSTANTS
  Dirs = {"A", "B"}
  Pages = {"index", "ionic"}
  Main = "main"
  Handlers = {"h"}
  MaxWrites = 3
INVARIANTS
  TypeOK
  PagesAreWhole
  ReloadIsDue
  IInv
PROPERTIES
  Reloads
