SPECIFICATION SyncFairSpec
CONSTANTS
  idle = idle
  main = main
  init = init
  Threads <- MCThreads
  Idle <- idle
  Main <- main
  First <- init
  Priority <- MCPriority
  NoThread = NoThread
  MaxRepeat = 2
INVARIANTS NoPanic MutualExclusion TagInOneList NoLostWakeup
PROPERTIES ImplementsMutex WaiterIsWoken
