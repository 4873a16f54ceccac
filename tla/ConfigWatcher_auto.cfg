\* The watcher misses a change.
SPECIFICATION Spec
CONSTANTS
  Dirs = {"A", "B"}
  Pages = {"index", "ionic"}
  Main = "main"
  Handlers = {"h"}
  MaxWrites = 3
INVARIANTS
  AutoReload
