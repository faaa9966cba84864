SPECIFICATION Spec
CONSTANTS
  None = None
  live = live  paper = paper  invalid = invalid  unrouted = unrouted
  Gateways = {p1}
  Goroutines = {g1, g2}
  Msgs = {m1}
  Requests = {live, paper, invalid, unrouted}
  Paper = {paper}
  ManualClose = {live, paper}
  Notified = {live, paper}
  Expiring = {paper}
  Invalid = {invalid}
  Unrouted = {unrouted}
  MaxRetries = 2
  InboxCap = 1
  MaxCalls = 1
  MaxFaults = 1
SYMMETRY Sym
CHECK_DEADLOCK FALSE
INVARIANTS TypeOK OneOrderPerRequest PaperFillsOnce RecordedIsFinal AckedIsRecorded CloseAnnounced
PROPERTIES KeepsPromise
