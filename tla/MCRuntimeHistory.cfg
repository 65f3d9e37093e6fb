CONSTANTS
  Task <- Three
  Main = 1
  Kind <- Kinds
  Priority <- Priorities
  Period <- Periods
  Watchdog <- Watchdogs
  Networks <- OneEach
  NativeTask <- OnlyMain
  LoopTask <- Others
  FailTask <- OnlyMain
  Commands <- AllCommands
  Boot = 1
  MaxTime = 6
  UnitsPerMs = 1
SPECIFICATION FairHistorySpec
INVARIANTS
  TypeOK
  OutputsSafe
  StackOrdered
  StartupAlone
  CycleTimeOwn
  FaultLatched
  NoBacklog
  ReleasesAccounted
  StartupFirst
PROPERTIES
  NoDispatchDuringStop
  KeepsPromise
  StopHonoured
  ExitHonoured
