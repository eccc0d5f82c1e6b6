SPECIFICATION MCSpec
CONSTANTS
  Threads = {t1, t2, t3}
  MaxCommands = 4
  Loggers = {t1, t2}
  MaxEntries = 3
  MaxStops = 2
  MaxTyped = 2
INVARIANTS
  StopDrains
  FlushAllButOne
  StopOrderly
  LateLinesDropped
PROPERTIES
  CallsReturn
  ExecutedInOrder
  WrittenInOrder
  StopEnds
  LinesProcessed
