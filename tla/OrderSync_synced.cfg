SPECIFICATION FairSpec
CONSTANTS
  NoRow = NoRow
  closing = closing  stuck = stuck
  Workers = {w1, w2}
  Orders = {closing, stuck}
  ManualClose = {closing}
  Unrouted = {stuck}
  Tokocrypto = {closing}
  Qty = 2
  Codes = {"NEW", "PARTIALLY_FILLED", "FILLED", "EXPIRED"}
  MaxCrashes = 1
INVARIANTS TypeOK DoneIsFinal FilledIsAnnounced RowWasTrue
PROPERTY EventuallySynced KeepsRecord
