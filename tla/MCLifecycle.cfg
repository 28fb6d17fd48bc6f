SPECIFICATION Spec
CONSTANTS
  Kinds = {"wheel", "toggle", "worker", "waiter", "queue", "drainable queue", "cancelable queue", "maintlock", "rwlock", "trdl_rwlock"}
  Users = {u1, u2}
  Caller = Caller
  Nobody = Nobody
  ChannelArgs = {0, 2}
CHECK_DEADLOCK FALSE
SYMMETRY UserSymmetry
INVARIANTS
  AllOrNothing
  ChecksHold
  DestroyedUnused
  AttributesReachLocks
