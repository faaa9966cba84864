SPECIFICATION MCSpec
CONSTANTS
  None = None  Off = Off
  Targets = {a}
  MaxCandles = 2
  TickSets <- MCTicks
  QueueSize = 1
  DeleteRemoved = {TRUE, FALSE}
  MaxEdits = 2  MaxCloses = 1  MaxResets = 1  MaxFaults = 1
CONSTRAINT NoClose
CHECK_DEADLOCK FALSE
INVARIANTS TypeOK OneEntryPerCandle AckedIsSaved Coherent ResetAtRestClears
PROPERTY KeepsPosition
