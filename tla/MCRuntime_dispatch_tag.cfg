CONSTANTS
  Task <- Two
  Main = 1
  Kind <- Kinds2
  Priority <- Priorities2
  Period <- Periods2
  Watchdog <- Watchdogs2
  Networks <- OneEach2
  NativeTask <- NoTask
  LoopTask <- NoTask
  FailTask <- NoTask
  Commands <- CyclicCommands
  Boot = 1
  MaxTime = 4
  UnitsPerMs = 1
SPECIFICATION Spec
INVARIANTS
  BodyOwn
