SPECIFICATION FairSpec
CONSTANTS
  None = None  Off = Off
  Targets = {a, b}
  MaxCandles = 1
  TickSets = {{}}
  QueueSize = 1
  DeleteRemoved = {FALSE}
  MaxEdits = 1  MaxCloses = 1  MaxResets = 0  MaxFaults = 1
CHECK_DEADLOCK FALSE
PROPERTIES ConfigApplied AllTaken
