\* Three requests, for the status, a command and a command that does not exist, and a
\* connection that is lost at any moment.
SPECIFICATION FairSpec
CONSTANTS
  CommandSets <- MCCommandSets
  Requests <- MCRequests
  Window = 2
  MaxRequests = 3
  MaxOutages = 1
INVARIANTS
  TypeOK
  EchoesEnd
PROPERTIES
  Answers
  Listens
