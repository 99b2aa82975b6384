SPECIFICATION FairSpec
CONSTANTS
  Tasks <- MCTasks
  Handlers <- MCHandlers
  Connections = 2
  MaxFailures = 1
  MaxLost = 1
  Threads = 1
  MaxThreads = 2
INVARIANTS
  TypeOK
  ConnectionsAccounted
PROPERTIES
  NobodyStuck
