SPECIFICATION SleepFairSpec
CONSTANTS
  idle = idle
  main = main
  init = init
  p = p
  Threads <- MCThreads4
  Idle <- idle
  Main <- main
  First <- init
  Priority <- MCPriority4
  Sleepers = {init}
  MaxSleep = 2
INVARIANTS NoPanic ReadyListExact AllListLive
PROPERTIES ReadyRuns SleepEndsWithInterrupts
