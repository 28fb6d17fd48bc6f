SPECIFICATION Spec
CONSTANTS
  Workers = {w1}
  Waiters = {t1}
  Items = {i1}
  None = None
PROPERTY WaitOutlastsHandling
