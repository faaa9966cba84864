SPECIFICATION Spec
CONSTANTS
  None = None
  NoPair = NoPair
  Txns = {t1, t2}
  Ids = {1, 2}
  Pairs = {a}
SYMMETRY Sym
INVARIANT ClosedTradeShown
