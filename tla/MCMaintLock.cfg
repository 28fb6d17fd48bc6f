SPECIFICATION Spec
CONSTANTS
  Readers = {r1, r2}
  Waiters = {t1, t2}
  Nobody = Nobody
  LastDrainIdx = 2
INVARIANTS
  UnlinksRightQueue
  OneWaitAtATime
  MaintenanceIsolates
PROPERTIES
  WaitOutlastsEarlierReads
  WaitReturns
