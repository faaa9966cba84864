SPECIFICATION FairSpec
CONSTANTS
  None = None
  live = live  paper = paper  invalid = invalid  unrouted = unrouted
  Gateways = {p1}
  Goroutines = {g1, g2, g3}
  Msgs = {m1}
  Requests = {live}
  Paper = {}
  ManualClose = {}
  Notified = {}
  Expiring = {}
  Invalid = {}
  Unrouted = {}
  MaxRetries = 2
  InboxCap = 1
  MaxCalls = 0
  MaxFaults = 1
CHECK_DEADLOCK FALSE
PROPERTY EventuallySettled
