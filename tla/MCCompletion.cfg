SPECIFICATION Spec
CONSTANTS
  Workers = {w1, w2}
  Waiters = {t1, t2}
  Items = {i1, i2}
  None = None
INVARIANTS
  AttachedItemNotReused
  WaiterObjectAlive
  NoWaitLost
  OneOwner
  CanceledOnRequest
PROPERTIES
  WheelsUsedRightly
  HandlingSpec
