SPECIFICATION Spec
CONSTANTS
  None = None  Off = Off
  Targets = {a}
  MaxCandles = 1
  TickSets = {{}}
  QueueSize = 1
  DeleteRemoved = {FALSE}
  MaxEdits = 0  MaxCloses = 0  MaxResets = 1  MaxFaults = 0
CHECK_DEADLOCK FALSE
INVARIANT ResetClears
