SPECIFICATION Spec
CONSTANTS
  None = None
  NoPair = NoPair
  Txns = {t1, t2}
  Ids = {1, 2, 3}
  Pairs = {a, b}
SYMMETRY Sym
INVARIANTS TypeOK TradesExact TradesReal
