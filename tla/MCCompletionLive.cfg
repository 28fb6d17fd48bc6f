SPECIFICATION Spec
CONSTANTS
  Workers = {w1, w2}
  Waiters = {t1, t2}
  Items = {i1}
  None = None
PROPERTY EveryCallReturns
